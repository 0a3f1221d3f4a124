------------------------------ MODULE LoadFile ------------------------------
(***************************************************************************)
(* load_file (oc/sources/oc.c): a file of the card is brought into the     *)
(* flash, the SPI RAM or the memory, a buffer at a time.  What the flash   *)
(* already holds is not written again.  A step is one turn of the loop up  *)
(* to its first call that changes the flash, the erase of one sector, or   *)
(* the write.  A cell of the flash is a byte; sizes are in cells.          *)
(***************************************************************************)
EXTENDS Integers, SequencesExt

CONSTANTS
  Bytes,
  Versions,    \* what the file may hold
  Sizes,       \* the sizes load_file is called with
  WordCells,   \* 4
  PartCells,   \* what is compared at a time: 512
  SectorCells, \* 4096
  BufSectors,  \* bufsize, in sectors: 8
  NumSectors,  \* of the flash
  Base,        \* the sector the file goes to
  Foreign,     \* what the rest of the flash holds
  FF,          \* an erased byte
  Garbled,     \* a byte written over another, or cut short
  MaxMishaps,  \* bound on losses of power, updates and new files
  ReadFails    \* TRUE: a file may fail to open, and a read be cut short

ASSUME LoadAssumption ==
  /\ {WordCells, PartCells, SectorCells, BufSectors, NumSectors} \subseteq Nat \ {0}
  /\ SectorCells % WordCells = 0 /\ SectorCells % PartCells = 0
  /\ Versions \subseteq Seq(Bytes)
  /\ Base \in 0 .. NumSectors - 1 /\ Sizes \cup {MaxMishaps} \subseteq Nat
  /\ ReadFails \in BOOLEAN

VARIABLES
  file,    \* what the file on the card holds
  cells,   \* the flash
  ram,     \* what was loaded into the SPI RAM or the memory
  stage,   \* "idle", "turn", "erase" or "write"
  dest,    \* where addr points: "flash", "ram" or "memory"
  addr, size, br, \* as in load_file; addr counts from the start of dest
  pos,     \* the position in the open file, or its end once a read has failed
  buf,     \* what this turn has read, filled up to whole words
  sec,     \* the next sector flash_erase erases
  asked,   \* history: the size of the last load
  good,    \* history: it had no failure
  mishaps  \* losses of power, updates and new files so far

loadVars == <<file, cells, ram, stage, dest, addr, size, br, pos, buf, sec, asked, good, mishaps>>

Cells == 0 .. NumSectors * SectorCells - 1
Start == Base * SectorCells
Least(a, b) == IF a < b THEN a ELSE b

Rounded(n, unit) == ((n + unit - 1) \div unit) * unit

\* The maps, objects and textures fit behind their place; the code does not test it.
ASSUME FitAssumption ==
  \A v \in Versions, n \in Sizes :
    Start + Rounded(Least(n, Len(v)), SectorCells) <= NumSectors * SectorCells

\* The flash before: erased, or with any version of the file, between other things.
LoadInit ==
  /\ file \in Versions
  /\ \E old \in Versions \cup {<<>>} :
       cells = [c \in Cells |->
                  IF c < Start \/ c >= (NumSectors - 1) * SectorCells THEN Foreign
                  ELSE IF c - Start < Len(old) THEN old[c - Start + 1] ELSE FF]
  /\ ram = <<>>
  /\ stage = "idle" /\ dest = "flash"
  /\ addr = 0 /\ size = 0 /\ br = 0 /\ pos = 0 /\ buf = <<>> /\ sec = 0
  /\ asked = 0 /\ good = FALSE /\ mishaps = 0
-----------------------------------------------------------------------------
\* The local variables are gone.
Rest == addr' = 0 /\ size' = 0 /\ pos' = 0 /\ buf' = <<>> /\ sec' = 0

\* The call, and FileOpen, whose result is not looked at.
LoadCall(n, where) ==
  /\ stage = "idle"
  /\ stage' = "turn" /\ dest' = where
  /\ addr' = IF where = "flash" THEN Start ELSE 0
  /\ size' = n /\ asked' = n /\ br' = 0 /\ ram' = <<>>
  /\ \/ pos' = 0 /\ good' = TRUE
     \/ ReadFails /\ pos' = Len(file) /\ good' = FALSE
  /\ UNCHANGED <<file, cells, buf, sec, mishaps>>

Return == stage' = "idle" /\ Rest

\* memset(buf, 0xFF), and tr rounded up to words.
Filled(s) == s \o [i \in 1 .. Rounded(Len(s), WordCells) - Len(s) |-> FF]

Chunk == Least(size, BufSectors * SectorCells)

\* What FileRead of n bytes may return: a failure cuts it short at a sector of the
\* card, and behind it nothing more is read.
Wholly(n) == SubSeq(file, pos + 1, Least(pos + n, Len(file)))
FileRead(s) ==
  \/ /\ s = <<>>
     /\ pos = Len(file) \/ ReadFails
     /\ good' = (good /\ pos = Len(file))
  \/ /\ s # <<>>
     /\ \/ s = Wholly(Chunk) /\ pos' = pos + Len(s) /\ UNCHANGED good
        \/ ReadFails /\ Len(s) % PartCells = 0 /\ pos' = Len(file) /\ good' = FALSE

\* Variant: a size without a sign, which a rounded count passes and wraps.
LeftWrapped(n) == (size - n) % 2^30
Left(n) == size - n

Advance(n) == addr' = addr + n /\ size' = Left(n) /\ stage' = "turn"

\* The flash holds this turn's bytes already: the parts are compared one by one.
Same(s) == \A i \in 1 .. Len(s) : cells[addr + i - 1] = s[i]

\* The file is at its end, or all that was asked for is there.
LoadDone ==
  /\ stage = "turn"
  /\ \/ size <= 0 /\ UNCHANGED good
     \/ size > 0 /\ dest # "memory" /\ FileRead(<<>>)
  /\ Return
  /\ UNCHANGED <<file, cells, ram, dest, br, asked, mishaps>>

\* A turn of the loop; into the memory the file is read at once.
LoadTurn ==
  /\ stage = "turn" /\ size > 0 /\ dest # "memory"
  /\ \E n \in 1 .. Len(Wholly(Chunk)) :
       LET s == SubSeq(Wholly(Chunk), 1, n) IN
       /\ FileRead(s)
       /\ buf' = Filled(s)
       /\ br' = br + Len(buf')
       /\ \/ dest = "ram" /\ ram' = ram \o buf' /\ Advance(Len(buf')) /\ UNCHANGED sec
          \/ /\ dest = "flash" /\ UNCHANGED ram
             /\ \/ Same(buf') /\ Advance(Len(buf')) /\ UNCHANGED sec
                \/ /\ ~ Same(buf')
                   /\ stage' = "erase" /\ sec' = addr \div SectorCells
                   /\ UNCHANGED <<addr, size>>
  /\ UNCHANGED <<file, cells, dest, asked, mishaps>>

LoadDirect ==
  /\ stage = "turn" /\ dest = "memory"
  /\ \E n \in 0 .. Len(Wholly(size)) :
       /\ ram' = SubSeq(Wholly(size), 1, n)
       /\ br' = n
       /\ \/ n = Len(Wholly(size)) /\ UNCHANGED good
          \/ ReadFails /\ good' = FALSE
  /\ Return
  /\ UNCHANGED <<file, cells, dest, asked, mishaps>>

\* Variant: a sector more, also behind a whole number of them.
ToEraseMore == Rounded(Len(buf) + 1, SectorCells)
\* te
ToErase == Rounded(Len(buf), SectorCells)

CellsOf(s) == s * SectorCells .. s * SectorCells + SectorCells - 1

\* One turn of flash_erase, which goes by whole sectors from that of addr.
LoadErase ==
  /\ stage = "erase"
  /\ IF sec < addr \div SectorCells + ToErase \div SectorCells
     THEN /\ cells' = [c \in Cells |-> IF c \in CellsOf(sec) THEN FF ELSE cells[c]]
          /\ sec' = sec + 1
          /\ UNCHANGED stage
     ELSE stage' = "write" /\ UNCHANGED <<cells, sec>>
  /\ UNCHANGED <<file, ram, dest, addr, size, br, pos, buf, asked, good, mishaps>>

\* A byte over another: what differs is garbled, and 0xFF changes nothing.
Over(old, new) == IF old = FF THEN new ELSE IF new \in {old, FF} THEN old ELSE Garbled

\* The first n bytes of the buffer are written.
Written(n) ==
  [c \in Cells |-> IF c \in addr .. addr + n - 1 THEN Over(cells[c], buf[c - addr + 1])
                   ELSE cells[c]]

LoadWrite ==
  /\ stage = "write"
  /\ cells' = Written(Len(buf))
  /\ Advance(Len(buf))
  /\ UNCHANGED <<file, ram, dest, br, pos, buf, sec, asked, good, mishaps>>

LoadStep == LoadDone \/ LoadTurn \/ LoadDirect \/ LoadErase \/ LoadWrite
-----------------------------------------------------------------------------
(* Around it *)

Mishap == mishaps < MaxMishaps /\ mishaps' = mishaps + 1

\* Power is lost: the sector that is being erased may hold anything, and what is
\* being written ends anywhere.
LoadCut ==
  /\ stage # "idle"
  /\ \/ UNCHANGED cells
     \/ /\ stage = "erase"
        /\ cells' = [c \in Cells |-> IF c \in CellsOf(sec) THEN Garbled ELSE cells[c]]
     \/ stage = "write" /\ \E n \in 1 .. Len(buf) : n % WordCells = 0 /\ cells' = Written(n)
  /\ stage' = "idle" /\ Rest /\ br' = 0 /\ ram' = <<>>
  /\ good' = FALSE
  /\ Mishap
  /\ UNCHANGED <<file, dest, asked>>

\* An update of oc, in whose area the maps lie, erases them.
UpdateOc ==
  /\ stage = "idle"
  /\ cells' = [c \in Cells |-> IF c >= Start THEN FF ELSE cells[c]]
  /\ good' = FALSE
  /\ Mishap
  /\ UNCHANGED <<file, ram, stage, dest, addr, size, br, pos, buf, sec, asked>>

NewFile ==
  /\ stage = "idle"
  /\ file' \in Versions
  /\ good' = FALSE
  /\ Mishap
  /\ UNCHANGED <<cells, ram, stage, dest, addr, size, br, pos, buf, sec, asked>>

LoadNext ==
  \/ \E n \in Sizes, where \in {"flash", "ram", "memory"} : LoadCall(n, where)
  \/ LoadStep \/ LoadCut \/ UpdateOc \/ NewFile

LoadSpec == LoadInit /\ [][LoadNext]_loadVars
-----------------------------------------------------------------------------
Taken == Least(asked, Len(file))

(* A load without a failure has brought the file, as far as it was asked for *)
(* and no further, to where it was to go, whatever an earlier load that was  *)
(* cut short, another version or an update had left there.                   *)
LoadedWhole ==
  stage = "idle" /\ good =>
    /\ br = IF dest = "memory" THEN Taken ELSE Rounded(Taken, WordCells)
    /\ \A i \in 1 .. Taken :
         file[i] = IF dest = "flash" THEN cells[Start + i - 1] ELSE ram[i]

(* load_file, which erases whole sectors, changes none but those that the    *)
(* file needs, failures included.                                            *)
OnlyItsSectors ==
  [][LoadStep => \A c \in Cells \ (Start .. Start + Rounded(Taken, SectorCells) - 1) :
                   cells'[c] = cells[c]]_loadVars
=============================================================================
