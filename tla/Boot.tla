-------------------------------- MODULE Boot --------------------------------
(***************************************************************************)
(* An update of the device: reset() leaves a command in the memory of the  *)
(* real time clock (common/startup.c, common/eboot_command.c), and the     *)
(* bootloader reads it, clears it, copies images from the card into the    *)
(* flash and starts the firmware (boot/sources/eboot.c).  Holding Y at     *)
(* power up copies both images without a command.  A step is one word of   *)
(* the clock's memory, one turn of an erase loop or one chunk of a file,   *)
(* and the device may be reset or lose its power between any two.          *)
(*                                                                         *)
(* Of the command's words magic, args[0] and crc32 are kept: the others    *)
(* are the same in every command.  A checksum is the argument it was       *)
(* computed over, so that two commands have the same one only when they    *)
(* are the same.  Sector i of a copied file f is the content <<f, i>>.     *)
(* Nothing compares a file with the area kept for it: the files on the     *)
(* card may be longer than that.                                           *)
(***************************************************************************)
EXTENDS SpiErase, Sequences

CONSTANTS
  Base,         \* the first sector of an image: FLASH_SYS_BASE, FLASH_OC_BASE
  Span,         \* the sectors kept for it: FLASH_SYS_SIZE, FLASH_OC_SIZE
  Lengths,      \* what the lengths of their files on the card may be, in units
  ChunkSectors, \* file_read takes 32768 bytes at a time: 8 sectors
  Old,          \* what the flash held before
  MaxMishaps,   \* bounds resets, losses of power and failures of devices
  MaxPending    \* bounds the commands of one kind that wait

Files == {"firmware", "oc"}
NoCrc == -1 \* no checksum of a command

ASSUME LayoutAssumption ==
  /\ {Base, Span} \subseteq [Files -> Nat]
  /\ Lengths \subseteq [Files -> Nat]
  /\ ChunkSectors \in Nat \ {0}
  /\ Base["firmware"] + Span["firmware"] <= Base["oc"]
  /\ Base["oc"] + Span["oc"] <= NumSectors

VARIABLES
  length,  \* the lengths of the files, which stay the same
  pc,      \* what the processor executes
  rtc,     \* RTC_MEM: magic, arg and crc
  mode,    \* the argument of the reset() that is running
  word,    \* the words of the command that are written
  keyY,    \* the user holds Y
  plan,    \* the calls of flash_binary that main() still has to make
  after,   \* where main() goes on behind them
  buffered,\* the units file_read returned
  pos,     \* the units of the file that are in the flash
  fileErr, \* f_read has failed: FatFs aborts the file
  pending, \* history: commands written and not yet carried out
  updated, \* history: images copied in this boot, nothing having failed
  mishaps

commandVars == <<rtc, mode, word, pending>>
copyVars == <<length, plan, after, buffered, pos, fileErr, updated>>
vars == <<eraseVars, commandVars, copyVars, pc, keyY, mishaps>>

Modes == 1 .. 3   \* RESET_MODE_FIRMWARE, RESET_MODE_OC, RESET_MODE_ALL
Args == 0 .. 2    \* cmd.args[0] is the mode less one

\* The sectors a file takes, the last one rounded up.
FileSectors(f) == (length[f] + SectorUnits - 1) \div SectorUnits

\* What is erased for an image, and what is written of it.
AreaOf(f) == Base[f] .. Base[f] + Span[f] - 1
PlaceOf(f) == Base[f] .. Base[f] + FileSectors(f) - 1

\* Every sector of the image holds what is on the card.
Installed(f) ==
  \A i \in 0 .. FileSectors(f) - 1 :
    Base[f] + i \in Sectors /\ flash[Base[f] + i] = <<f, i>>

\* A file that is longer than its area runs into what lies behind it.
Fits(f) == length[f] <= Span[f] * SectorUnits
Undisturbed(f) == \A g \in Files : Base[g] <= Base[f] => Fits(g)

Mishap == mishaps < MaxMishaps /\ mishaps' = mishaps + 1

Init ==
  /\ length \in Lengths
  /\ flash = [s \in Sectors |-> Old]
  /\ first = 0 /\ current_sector = 0 /\ end = 0
  /\ loop = "none" /\ result = 0
  /\ pc = "off"
  /\ rtc = [magic |-> FALSE, arg |-> 0, crc |-> NoCrc]
  /\ mode = 0 /\ word = 0
  /\ keyY = FALSE
  /\ plan = <<>> /\ after = "load"
  /\ buffered = 0 /\ pos = 0 /\ fileErr = FALSE
  /\ pending = [m \in Modes |-> 0]
  /\ updated = {}
  /\ mishaps = 0
-----------------------------------------------------------------------------
(* reset() in the firmware *)

\* reset(mode): mode 0 restarts at once.
Reset(m) ==
  /\ pc = "app"
  /\ mode' = m
  /\ IF m = 0
     THEN pc' = "start" /\ UNCHANGED word
     ELSE pending[m] < MaxPending /\ pc' = "command" /\ word' = 0
  /\ keyY' \in BOOLEAN
  /\ UNCHANGED <<eraseVars, copyVars, rtc, pending, mishaps>>

\* RTC_MEM once word k of the command of reset(m) is stored.
Word(m, k) ==
  CASE k = 0 -> [rtc EXCEPT !.magic = TRUE]
    [] k = 1 -> [rtc EXCEPT !.arg = m - 1]
    [] k = 2 -> [rtc EXCEPT !.crc = m - 1]

CommandWrite ==
  /\ pc = "command"
  /\ rtc' = Word(mode, word)
  /\ word' = word + 1
  /\ IF word = 2
     THEN pc' = "start" /\ pending' = [pending EXCEPT ![mode] = @ + 1]
     ELSE UNCHANGED <<pc, pending>>
  /\ UNCHANGED <<eraseVars, copyVars, mode, keyY, mishaps>>
-----------------------------------------------------------------------------
(* main() of the bootloader *)

\* Variant: only the oc image is restored.
ForcedPlanOc == <<"oc">>
ForcedPlan == <<"firmware", "oc">>

\* The files for an argument; every argument but 0 and 1 stands for both.
PlanOf(arg) ==
  CASE arg = 0 -> <<"firmware">>
    [] arg = 1 -> <<"oc">>
    [] OTHER -> <<"firmware", "oc">>

\* main() asks for the keys; with Y held it copies both images if disk_init
\* finds the card.
Start ==
  /\ pc = "start"
  /\ updated' = {}
  /\ after' = "read"
  /\ \/ ~ keyY /\ pc' = "read" /\ UNCHANGED <<plan, mishaps>>
     \/ keyY /\ pc' = "open" /\ plan' = ForcedPlan /\ UNCHANGED mishaps
     \/ keyY /\ Mishap /\ pc' = "read" /\ UNCHANGED plan
  /\ UNCHANGED <<eraseVars, commandVars, length, buffered, pos, fileErr, keyY>>

\* eboot_command_read
CommandValid == rtc.magic /\ rtc.crc = rtc.arg

\* A valid command makes main() clear it; without one main() loads the
\* firmware.
CommandRead ==
  /\ pc = "read"
  /\ pc' = IF CommandValid THEN "clear" ELSE "load"
  /\ UNCHANGED <<eraseVars, commandVars, copyVars, keyY, mishaps>>

\* Variant: the checksum is left in place.
ClearWordMagic(k) == [rtc EXCEPT !.magic = FALSE]
\* eboot_command_clear stores two words.
ClearWord(k) ==
  IF k = 0 THEN [rtc EXCEPT !.magic = FALSE] ELSE [rtc EXCEPT !.crc = NoCrc]

CommandClearMagic ==
  /\ pc = "clear"
  /\ rtc' = ClearWord(0)
  /\ pc' = "cleared"
  /\ UNCHANGED <<eraseVars, copyVars, mode, word, pending, keyY, mishaps>>

\* The local copy of the command is carried out if disk_init finds the card.
CommandClear ==
  /\ pc = "cleared"
  /\ rtc' = ClearWord(1)
  /\ after' = "load"
  /\ pending' = [pending EXCEPT ![rtc.arg + 1] = @ - 1]
  /\ \/ pc' = "open" /\ plan' = PlanOf(rtc.arg) /\ UNCHANGED mishaps
     \/ Mishap /\ pc' = "load" /\ UNCHANGED plan
  /\ UNCHANGED <<eraseVars, mode, word, length, buffered, pos, fileErr, updated,
                 keyY>>
-----------------------------------------------------------------------------
(* flash_binary *)

File == Head(plan)

NextFile ==
  /\ plan' = Tail(plan)
  /\ pc' = IF Tail(plan) = <<>> THEN after ELSE "open"

\* file_open; a file that is missing is skipped.
OpenMissing ==
  /\ pc = "open"
  /\ Mishap
  /\ NextFile
  /\ updated' = updated \ {File}
  /\ UNCHANGED <<eraseVars, commandVars, length, after, buffered, pos, fileErr,
                 keyY>>

OpenFound ==
  /\ pc = "open"
  /\ EraseCall(Base[File] * SectorUnits, Span[File] * SectorUnits)
  /\ pc' = "erase"
  /\ pos' = 0 /\ fileErr' = FALSE
  /\ updated' = updated \cup {File}
  /\ UNCHANGED <<commandVars, length, plan, after, buffered, keyY, mishaps>>

\* What SPIEraseAreaEx returns is not looked at.
EraseArea ==
  /\ pc = "erase"
  /\ EraseStep
  /\ pc' = IF loop' = "none" THEN "chunk" ELSE pc
  /\ IF loop' = "none" /\ result' # 0
     THEN Mishap /\ updated' = updated \ {File}
     ELSE UNCHANGED <<mishaps, updated>>
  /\ UNCHANGED <<commandVars, length, plan, after, buffered, pos, fileErr, keyY>>

\* What file_read has left to return, at most one buffer.
Rest ==
  LET left == length[File] - pos
      most == ChunkSectors * SectorUnits
  IN  IF left < most THEN left ELSE most

\* file_read; what it returns is not looked at.  A failure returns the sectors
\* it has read, and nothing from then on: the file just seems shorter.
ReadChunk ==
  /\ pc = "chunk"
  /\ \/ /\ buffered' = IF fileErr THEN 0 ELSE Rest
        /\ UNCHANGED <<fileErr, mishaps, updated>>
     \/ /\ ~ fileErr /\ Rest > 0
        /\ Mishap
        /\ \E n \in 0 .. ChunkSectors - 1 :
             n * SectorUnits < Rest /\ buffered' = n * SectorUnits
        /\ fileErr' = TRUE
        /\ updated' = updated \ {File}
  /\ IF buffered' = 0 THEN NextFile ELSE pc' = "write" /\ UNCHANGED plan
  /\ UNCHANGED <<eraseVars, commandVars, length, after, pos, keyY>>

\* Variant: the rest of a sector is not written.
RoundedDown(br) == br \div SectorUnits
\* br = (br & 0xF000) + ((br & 4095) ? 4096 : 0), in sectors
Rounded(br) ==
  br \div SectorUnits + (IF br % SectorUnits = 0 THEN 0 ELSE 1)

\* SPIWrite clears bits only: a sector that is not blank is spoilt unless it
\* already holds what is written.  What lies behind the chip is lost.
Written(n) ==
  LET at == pos \div SectorUnits
  IN  [s \in Sectors |->
         IF s - Base[File] \in at .. at + n - 1
         THEN IF flash[s] \in {Blank, <<File, s - Base[File]>>}
              THEN <<File, s - Base[File]>> ELSE Mixed
         ELSE flash[s]]

\* What SPIWrite returns is not looked at either; a failure writes a part.
WriteChunk ==
  /\ pc = "write"
  /\ \/ flash' = Written(Rounded(buffered)) /\ UNCHANGED <<mishaps, updated>>
     \/ /\ FlashFails
        /\ \E n \in 0 .. Rounded(buffered) - 1 : flash' = Written(n)
        /\ Mishap
        /\ updated' = updated \ {File}
  /\ pos' = pos + buffered
  /\ pc' = "chunk"
  /\ UNCHANGED <<commandVars, length, plan, after, buffered, fileErr, first,
                 current_sector, end, loop, result, keyY>>
-----------------------------------------------------------------------------
(* load_app_from_flash_raw *)

\* The firmware runs when its image is the one it was or the one on the card.
Runnable ==
  \/ Installed("firmware")
  \/ \A s \in AreaOf("firmware") : flash[s] = Old

\* An image that is only partly there takes the processor anywhere.
Load ==
  /\ pc = "load"
  /\ pc' = IF Runnable THEN "app" ELSE "dead"
  /\ UNCHANGED <<eraseVars, commandVars, copyVars, keyY, mishaps>>

\* SPIRead fails: main() resets the processor.
LoadFails ==
  /\ pc = "load"
  /\ Mishap
  /\ pc' = "start"
  /\ keyY' \in BOOLEAN
  /\ UNCHANGED <<eraseVars, commandVars, copyVars>>
-----------------------------------------------------------------------------
(* The world *)

\* What the loss of power leaves of the sector the processor was busy with.
Interrupted ==
  \/ UNCHANGED flash
  \/ /\ pc = "write"
     /\ \E n \in 0 .. Rounded(buffered) - 1 : flash' = Written(n)
  \/ /\ pc = "erase" /\ current_sector < end
     /\ \E s \in IF loop = "blocks" /\ BlocksMore
              THEN BlockSectors ELSE {current_sector} :
          flash' = [flash EXCEPT ![s] = Mixed]

\* The clock's memory after a loss of power holds no valid command.
PowerUp ==
  /\ pc' = "start"
  /\ rtc' = [magic |-> FALSE, arg |-> 0, crc |-> NoCrc]
  /\ keyY' \in BOOLEAN
  /\ loop' = "none"
  /\ UNCHANGED <<first, current_sector, end, result, mode, word, pending,
                 copyVars>>

\* The user switches the device on, and off and on again when it does not
\* run; the README's way out is to hold Y while doing so.
SwitchOn ==
  /\ pc \in {"off", "dead"}
  /\ PowerUp
  /\ UNCHANGED <<flash, mishaps>>

PowerLoss ==
  /\ pc \notin {"off", "dead"}
  /\ Mishap
  /\ Interrupted
  /\ PowerUp

\* A watchdog or the reset pin: the clock's memory stays.
WarmReset ==
  /\ pc # "off"
  /\ Mishap
  /\ Interrupted
  /\ pc' = "start"
  /\ keyY' \in BOOLEAN
  /\ loop' = "none"
  /\ UNCHANGED <<first, current_sector, end, result, commandVars, copyVars>>

Loader ==
  \/ CommandWrite \/ Start \/ CommandRead \/ CommandClearMagic \/ CommandClear
  \/ OpenMissing \/ OpenFound \/ EraseArea \/ ReadChunk \/ WriteChunk
  \/ Load \/ LoadFails

Next ==
  \/ \E m \in Modes \cup {0} : Reset(m)
  \/ Loader
  \/ SwitchOn \/ PowerLoss \/ WarmReset

Spec == Init /\ [][Next]_vars

(* The processor goes on, and the owner of a device that does not run any    *)
(* more switches it on with Y held.                                          *)
Rescue == SwitchOn /\ keyY'
FairSpec == Spec /\ WF_vars(Loader) /\ SF_vars(Rescue)
-----------------------------------------------------------------------------
(* No command is carried out that was not written to its last word, and none *)
(* is carried out twice: eboot_command_write, eboot_command_read and         *)
(* eboot_command_clear against a reset between any two of their words.       *)
CarriedOutOnce == \A m \in Modes : pending[m] >= 0

\* What the invariant needs to know of the types.
CommandTypeOK ==
  /\ rtc \in [magic : BOOLEAN, arg : Args, crc : Args \cup {NoCrc}]
  /\ pending \in [Modes -> Int]
  /\ pc = "command" => mode \in Modes /\ word \in 0 .. 2

\* A checksum in the clock's memory is that of a command that is still to be
\* carried out, also when a reset has cut eboot_command_clear in two or a later
\* command has been written up to some word.
ChecksumIsOwed == rtc.crc # NoCrc => pending[rtc.crc + 1] >= 1

\* Behind eboot_command_read the command is the one it has found valid.
TakenIsValid == pc \in {"clear", "cleared"} => rtc.crc = rtc.arg

(* The inductive invariant behind CarriedOutOnce. *)
CommandInv == CommandTypeOK /\ CarriedOutOnce /\ ChecksumIsOwed /\ TakenIsValid

(* When the bootloader has been through flash_binary for an image, and no    *)
(* device failed, the flash holds the file as it is on the card, whatever    *)
(* state earlier resets had left the flash in.  The exception is a file that *)
(* is longer than its area, or lies behind one that is.                      *)
UpdateInstalled ==
  pc \in {"open", "read", "load", "app"} =>
    \A f \in updated : Undisturbed(f) => Installed(f)

(* An erase only changes the area of the image that is being copied, and a   *)
(* write that area or, where the file is longer, the sectors of the file:    *)
(* nothing below the image is ever touched, and another image only by a file *)
(* that is longer than its own area.                                         *)
InItsArea ==
  [][\A s \in Sectors :
       flash'[s] # flash[s] =>
         /\ plan # <<>>
         /\ s \in AreaOf(File) \/ (pc = "write" /\ s \in PlaceOf(File))]_vars

(* A device that does not run any more, because its firmware was interrupted *)
(* half way, runs again: holding Y restores the images (README.md), if the   *)
(* firmware on the card fits.                                                *)
RescuedByY == (pc = "dead" /\ Fits("firmware")) ~> pc = "app"
=============================================================================
