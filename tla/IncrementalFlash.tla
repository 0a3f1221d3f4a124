-------------------------- MODULE IncrementalFlash --------------------------
(***************************************************************************)
(* The incremental mode of esp-flasher (esp-utils/esp-flasher.cpp): the    *)
(* new image is compared, sector by sector, with the image that was        *)
(* written last, and only what differs is written.  flash_file goes over   *)
(* the image twice, the first time to count the pieces.  A step is one     *)
(* turn of the loop over the sectors; the serial link may fail in any      *)
(* piece.  An image is the set of its sectors that differ from the last.   *)
(* What a piece erases is told by FlashStart.                              *)
(***************************************************************************)
EXTENDS FlashStart

CONSTANTS
  MaxSize,   \* bound on the sectors of an image
  Group,     \* ERASE_AREA_ALIG / FLASH_ALIGN: 4
  MaxPieces, \* pieces beyond this number mean a full flash: 10
  Bases      \* sectors of the flash an image may start at

ASSUME IncrementalAssumption ==
  /\ {MaxSize, Group, MaxPieces} \subseteq Nat \ {0} /\ Bases \subseteq Nat
  /\ Group % 2 = 0  \* the ROM erases one sector more for an odd number

VARIABLES
  size,    \* the sectors of the image
  differ,  \* those that differ from what is in the flash
  pc,      \* "dry" and "real" run, "done", "failed"
  offset,
  blocks,  \* the pieces of this run
  written, \* the sectors written
  base,    \* the sector of the flash the image starts at
  erased   \* the sectors erased, counted from base

vars == <<size, differ, pc, offset, blocks, written, base, erased>>

\* flash_file returns at once when nothing differs.
Init ==
  /\ size \in 1 .. MaxSize
  /\ differ \in SUBSET (0 .. size - 1) \ {{}}
  /\ pc = "dry" /\ offset = 0 /\ blocks = 0
  /\ written = {}
  /\ base \in Bases /\ erased = {}

\* The sectors from offset to the first that is the same.
Run ==
  CHOOSE n \in 0 .. size - offset :
    /\ \A i \in 0 .. n - 1 : offset + i \in differ
    /\ offset + n < size => offset + n \notin differ

\* Variant: the run is rounded down to whole groups.
RoundedToGroupDown(n) == (n \div Group) * Group
\* Variant: a piece is what differs.
RoundedToGroupNever(n) == n
\* Rounded up to groups, but not beyond the image.
RoundedToGroup(n) ==
  LET up == ((n + Group - 1) \div Group) * Group
  IN  IF offset + up > size THEN size - offset ELSE up

Piece == RoundedToGroup(Run)

\* The loop's own step comes on top of the piece.
NextOffset == offset + Piece + 1

\* What flash_mem erases for n sectors of the image from sector first.
ErasedFor(first, n) ==
  {s - base : s \in Erased(base + first, n)}

\* flash_mem for n sectors: all is written, or it fails before or after the erase.
FlashMem(first, n, ok) ==
  \/ /\ ok
     /\ erased' = erased \cup ErasedFor(first, n)
     /\ written' = written \cup (first .. first + n - 1)
  \/ /\ ~ok
     /\ \/ UNCHANGED <<erased, written>>
        \/ /\ erased' = erased \cup ErasedFor(first, n)
           /\ \E k \in 0 .. n - 1 : written' = written \cup (first .. first + k - 1)

Turn == pc \in {"dry", "real"} /\ offset < size

SameSector ==
  /\ Turn /\ Run = 0
  /\ offset' = NextOffset
  /\ UNCHANGED <<size, differ, pc, blocks, written, base, erased>>

CountPiece ==
  /\ Turn /\ Run > 0 /\ pc = "dry"
  /\ blocks' = blocks + 1
  /\ offset' = NextOffset
  /\ UNCHANGED <<size, differ, pc, written, base, erased>>

\* flash_mem fails half way, and flash_file returns.
WritePiece ==
  /\ Turn /\ Run > 0 /\ pc = "real"
  /\ blocks' = blocks + 1
  /\ \/ FlashMem(offset, Piece, TRUE) /\ offset' = NextOffset /\ UNCHANGED pc
     \/ FlashMem(offset, Piece, FALSE) /\ pc' = "failed" /\ UNCHANGED offset
  /\ UNCHANGED <<size, differ, base>>

\* Behind the dry run: everything, if there are too many pieces, or the real run.
RunDry ==
  /\ pc = "dry" /\ offset >= size
  /\ blocks' = 0 /\ offset' = 0
  /\ \/ /\ blocks > MaxPieces
        /\ \/ FlashMem(0, size, TRUE) /\ pc' = "done"
           \/ FlashMem(0, size, FALSE) /\ pc' = "failed"
     \/ blocks <= MaxPieces /\ pc' = "real" /\ UNCHANGED <<written, erased>>
  /\ UNCHANGED <<size, differ, base>>

RunReal ==
  /\ pc = "real" /\ offset >= size
  /\ pc' = "done"
  /\ UNCHANGED <<size, differ, offset, blocks, written, base, erased>>

Next == SameSector \/ CountPiece \/ WritePiece \/ RunDry \/ RunReal

Spec == Init /\ [][Next]_vars /\ WF_vars(Next)
-----------------------------------------------------------------------------
(* A sector that differs is only left out right behind a piece that was      *)
(* rounded up to whole groups: every other one is found by the comparison.   *)
LeftOutBehindPiece ==
  pc = "done" =>
    \A s \in differ \ written :
      s >= Group /\ \A i \in 1 .. Group : s - i \in written

(* The size flash_start sends is bent around the fault of the ROM's erase,   *)
(* and pieces are rounded up to groups because "esp erases some more data    *)
(* then specified": a sector of the image is only written after it was       *)
(* erased, and none is erased that is not written as well, but for the one   *)
(* behind the image.                                                         *)
ErasedAndWritten ==
  /\ written \subseteq erased \cap (0 .. size - 1)
  /\ pc = "done" => erased \subseteq written \cup {size}

(* "Previously written data found, skipping the same sectors": what is       *)
(* skipped is the same as what is in the flash.                              *)
OnlySameSkipped == pc = "done" => differ \subseteq written
=============================================================================
