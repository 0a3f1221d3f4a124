------------------------------- MODULE Config -------------------------------
(***************************************************************************)
(* The configuration (oc/sources/config.c): the text on the card, and what *)
(* config_parse makes of it in a sector of the flash, from where every     *)
(* setting is read.  config_init brings the sector up to date at each      *)
(* start, config_set writes the text anew and reads it back.  The sector   *)
(* lies at the end of the area of the firmware (system.h), and an update   *)
(* of the firmware erases it.  Power may be lost in any step; one step is  *)
(* a call that changes the card or the flash, or one part of the sector    *)
(* as it is written.                                                       *)
(***************************************************************************)
EXTENDS ConfigText

CONSTANTS
  Files,      \* [text, pairs]: what the user may write, and what it means
  Stored,     \* the texts whose table an earlier version may have left in the sector
  Values,     \* the values config_set is given: not empty, or the next line would be its value
  Missing,    \* what text is when there is no such file
  Magic,      \* MAGIC_HEADER
  Blank,      \* an erased part of the sector
  Torn,       \* a part that was being erased or written when power was lost
  Default,    \* what config_get_string returns for a key it does not know
  Names,      \* the keys that are setting for and set
  MaxEdits,   \* bound on the files the user writes
  CardFails   \* TRUE: the card may be out, and reads and writes be cut short

ASSUME ConfigAssumption ==
  /\ Files \subseteq [text : Seq(Items), pairs : Seq([key : Seq(Letters), value : Seq(Printable)])]
  /\ Stored \subseteq Seq(Items) /\ Missing \notin Seq(Items)
  /\ Values \subseteq Seq(Printable) \ {<<>>}
  /\ MaxEdits \in Nat /\ CardFails \in BOOLEAN
  /\ Magic \notin {Blank, Torn}

VARIABLES
  text,    \* config.txt, as its directory entry tells it
  sector,  \* its parts in the order of CONFIG: the text with its keys, count, header
  pc,      \* where oc is: "off", "read", "erase", "write", "save" or "idle"
  conf,    \* the text in the buffer of config_init or config_set
  part,    \* the next part of the sector to write
  wanted,  \* history: the pairs the user has written or set last
  setting, \* history: what they are to be when the set that is running is done
  trust,   \* history: "whole", or who may lack some of them: "sector" or "file"
  edits    \* the files the user has written

configVars == <<text, sector, pc, conf, part, wanted, setting, trust, edits>>

\* What config_parse makes of a text: the keys of the first part are Pairs of it.
Image(t) == <<t, Len(Pairs(t)), Magic>>
Erased == <<Blank, Blank, Blank>>
Parts  == 1 .. 3
HeaderPart == 3
Valid  == sector[HeaderPart] = Magic

NoText == text \in {Missing, <<>>}

ConfigInit ==
  /\ sector \in {Erased} \cup {Image(s) : s \in Stored}
  /\ \/ /\ text = Missing
        /\ wanted = IF Valid THEN Pairs(sector[1]) ELSE <<>>
        /\ trust = "whole"
     \/ /\ \E f \in Files : text = f.text /\ wanted = f.pairs
        /\ trust = "sector"
  /\ pc = "off" /\ conf = <<>> /\ part = 1
  /\ setting = <<>> /\ edits = 0
-----------------------------------------------------------------------------
(* Reading *)

Matches(pairs, n, name) == {i \in 1 .. n : pairs[i].key = name}
Lookup(pairs, n, name) ==
  IF Matches(pairs, n, name) = {} THEN Default
  ELSE pairs[Min(Matches(pairs, n, name))].value

\* config_get_string
Get(name) == IF Valid THEN Lookup(Pairs(sector[1]), sector[2], name) ELSE Default
-----------------------------------------------------------------------------
(* config_init *)

PowerOn ==
  /\ pc = "off"
  /\ pc' = "read"
  /\ UNCHANGED <<text, sector, conf, part, wanted, setting, trust, edits>>

\* The file cannot be opened, or has nothing in it.
ReadNothing ==
  /\ pc = "read"
  /\ NoText \/ CardFails
  /\ pc' = "idle"
  /\ UNCHANGED <<text, sector, conf, part, wanted, setting, trust, edits>>

\* What FileRead may return: its result is not looked at.
Read == {text} \cup (IF CardFails THEN {SubSeq(text, 1, n) : n \in 1 .. Len(text)} ELSE {})

\* Variant: an empty file is parsed as well.
SomethingAlways(t) == TRUE
Something(t) == t # <<>>

ReadText ==
  /\ pc = "read"
  /\ text # Missing /\ Something(text)
  /\ \E t \in Read :
       /\ conf' = t
       /\ trust' = IF trust = "file" THEN trust ELSE IF t = text THEN "whole" ELSE "sector"
       /\ pc' = IF sector = Image(conf') THEN "idle" ELSE "erase"
  /\ part' = 1
  /\ UNCHANGED <<text, sector, wanted, setting, edits>>

EraseSector ==
  /\ pc = "erase"
  /\ sector' = Erased
  /\ pc' = "write"
  /\ UNCHANGED <<text, conf, part, wanted, setting, trust, edits>>

\* Variant: the header comes before the count.
PlaceEarly(k) == IF k = 1 THEN 1 ELSE 5 - k
Place(k) == k

\* FlashWrite goes through the buffer from its start.
WritePart ==
  /\ pc = "write"
  /\ sector' = [sector EXCEPT ![Place(part)] = Image(conf)[Place(part)]]
  /\ part' = part + 1
  /\ pc' = IF part = Len(sector) THEN "idle" ELSE "write"
  /\ UNCHANGED <<text, conf, wanted, setting, trust, edits>>
-----------------------------------------------------------------------------
(* config_set *)

\* The file is emptied as it is opened; without a valid sector nothing happens.
SetOpen(name, value) ==
  /\ pc = "idle" /\ Valid
  /\ text' = <<>>
  /\ conf' = Text(Replaced(Pairs(sector[1]), name, value))
  /\ setting' = Replaced(wanted, name, value)
  /\ trust' = IF trust = "whole" THEN trust ELSE "file"
  /\ pc' = "save"
  /\ UNCHANGED <<sector, part, wanted, edits>>

\* FileWrite and FileClose, and on to config_init.  A full card takes less.
SetClose ==
  /\ pc = "save"
  /\ \/ /\ text' = conf
        /\ wanted' = setting
        /\ trust' = IF trust = "whole" THEN "sector" ELSE trust
     \/ /\ CardFails
        /\ \E n \in 0 .. Len(conf) - 1 : text' = SubSeq(conf, 1, n)
        /\ trust' = "file"
        /\ UNCHANGED wanted
  /\ pc' = "read"
  /\ setting' = <<>>
  /\ UNCHANGED <<sector, conf, part, edits>>

ConfigStep ==
  \/ ReadNothing \/ ReadText \/ EraseSector \/ WritePart
  \/ \E name \in Names, value \in Values : SetOpen(name, value)
  \/ SetClose
-----------------------------------------------------------------------------
(* Around it *)

\* What is left of the sector when power is lost.
Remains ==
  {sector}
  \cup (IF pc = "erase" THEN {Erased, <<Torn, Torn, Torn>>} ELSE {})
  \cup (IF pc = "write" THEN {[sector EXCEPT ![Place(part)] = Torn]} ELSE {})

\* Power is lost, or Y is pressed.
PowerLoss ==
  /\ pc # "off"
  /\ sector' \in Remains
  /\ trust' = IF trust = "whole" /\ pc \in {"erase", "write"} THEN "sector" ELSE trust
  /\ pc' = "off" /\ conf' = <<>> /\ part' = 1 /\ setting' = <<>>
  /\ UNCHANGED <<text, wanted, edits>>

\* The bootloader erases the area of the firmware.  After a set that was cut short
\* there is no text to read the settings from again.
UpdateFirmware ==
  /\ pc = "off"
  /\ sector' = Erased
  /\ wanted' = IF NoText THEN <<>> ELSE wanted
  /\ trust' = CASE trust = "file" -> "file"
                [] NoText /\ trust # "file" -> "whole"
                [] OTHER -> "sector"
  /\ UNCHANGED <<text, pc, conf, part, setting, edits>>

EditFile ==
  /\ pc = "off" /\ edits < MaxEdits
  /\ \E f \in Files : text' = f.text /\ wanted' = f.pairs
  /\ trust' = "sector"
  /\ edits' = edits + 1
  /\ UNCHANGED <<sector, pc, conf, part, setting>>

ConfigNext == PowerOn \/ ConfigStep \/ PowerLoss \/ UpdateFirmware \/ EditFile

ConfigSpec == ConfigInit /\ [][ConfigNext]_configVars
-----------------------------------------------------------------------------
Answers(pairs) == [name \in Names |-> Lookup(pairs, Len(pairs), name)]

(* A header is only found on a sector that was written to its end: whatever  *)
(* is cut short, config_get_string never goes through half a table.          *)
HeaderMeansWhole == Valid => sector = Image(sector[1])

(* What the user wrote or config_set set last is at any moment in the file   *)
(* or in the sector, also in the middle of a set and of an update, as long   *)
(* as no call to the card was cut short and a set built upon it.             *)
KeptSomewhere ==
  trust # "file" =>
    \/ ~ NoText /\ Answers(Pairs(text)) = Answers(wanted)
    \/ Valid /\ Answers(Pairs(sector[1])) = Answers(wanted)
    \/ wanted = <<>>

(* When oc runs, every setting is answered as the user wrote or set it last, *)
(* whatever was cut short or erased before, unless the card was not read.    *)
InForce ==
  pc = "idle" /\ trust = "whole" => \A name \in Names : Get(name) = Answers(wanted)[name]
=============================================================================
