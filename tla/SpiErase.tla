------------------------------ MODULE SpiErase ------------------------------
(***************************************************************************)
(* SPIEraseAreaEx (boot/sources/flash.c): erase an area of the flash with  *)
(* single sectors up to the first block boundary, whole blocks, and single *)
(* sectors again.  One step is one turn of one of its three loops.  The    *)
(* content of a sector is one value: Blank after an erase, Mixed when an   *)
(* erase or a write went wrong.  Addresses and sizes are in units of which *)
(* a sector holds SectorUnits (the code: bytes, 4096 of them).             *)
(***************************************************************************)
EXTENDS Integers

CONSTANTS
  NumSectors,      \* sectors of the flash chip
  SectorUnits,     \* FLASH_SECTOR_SIZE
  SectorsPerBlock, \* FLASH_BLOCK_SIZE / FLASH_SECTOR_SIZE
  Images,          \* what a sector may hold besides Blank and Mixed
  Blank,
  Mixed,
  FlashFails       \* TRUE: an erase or a write may fail

ASSUME GeometryAssumption ==
  /\ NumSectors \in Nat \ {0}
  /\ SectorUnits \in Nat \ {0}
  /\ SectorsPerBlock \in Nat \ {0}
  /\ FlashFails \in BOOLEAN

VARIABLES
  flash,          \* the content of every sector
  first,          \* the sector the area starts in
  current_sector,
  end,            \* the sector after the area
  loop,           \* the loop of the function that is running, or "none"
  result          \* what the last call returned

eraseVars == <<flash, first, current_sector, end, loop, result>>

Sectors == 0 .. NumSectors - 1
Contents == Images \cup {Blank, Mixed}
Area == {s \in Sectors : first <= s /\ s < end}

\* (size + FLASH_SECTOR_SIZE - 1) / FLASH_SECTOR_SIZE
SectorCount(size) == (size + SectorUnits - 1) \div SectorUnits

EraseInit ==
  /\ flash \in [Sectors -> Images]
  /\ first = 0 /\ current_sector = 0 /\ end = 0
  /\ loop = "none"
  /\ result = 0

\* A start inside a sector is refused, and nothing is erased.
EraseRefused(start) ==
  /\ loop = "none"
  /\ start % SectorUnits # 0
  /\ first' = 0 /\ current_sector' = 0 /\ end' = 0
  /\ result' = 1
  /\ UNCHANGED <<flash, loop>>

EraseCall(start, size) ==
  /\ loop = "none"
  /\ start % SectorUnits = 0
  /\ first' = start \div SectorUnits
  /\ current_sector' = first'
  /\ end' = first' + SectorCount(size)
  /\ loop' = "head"
  /\ UNCHANGED <<flash, result>>

\* Variants: the head loop stops a sector late; the block loop takes a block
\* that ends behind the area.
HeadMoreTwice ==
  current_sector < end /\ (current_sector - 1) % SectorsPerBlock # 0
BlocksMoreLate == current_sector < end
HeadMore == current_sector < end /\ current_sector % SectorsPerBlock # 0
BlocksMore == current_sector + SectorsPerBlock <= end
TailMore == current_sector < end

\* The sectors of the block SPIEraseBlock is given.
BlockSectors ==
  LET b == current_sector \div SectorsPerBlock
  IN  {s \in Sectors : b * SectorsPerBlock <= s
                       /\ s < b * SectorsPerBlock + SectorsPerBlock}

Erase(S, n) ==
  /\ flash' = [s \in Sectors |-> IF s \in S THEN Blank ELSE flash[s]]
  /\ current_sector' = current_sector + n
  /\ UNCHANGED <<first, end, loop, result>>

\* A failed erase leaves its sectors as they were or spoilt, and the function
\* returns at once.
Failed(S, code) ==
  /\ FlashFails
  /\ \E spoilt \in SUBSET (S \cap Sectors) :
       flash' = [s \in Sectors |-> IF s \in spoilt THEN Mixed ELSE flash[s]]
  /\ loop' = "none"
  /\ result' = code
  /\ UNCHANGED <<first, current_sector, end>>

LeaveLoop(next) ==
  /\ loop' = next
  /\ UNCHANGED <<flash, first, current_sector, end>>

EraseHead ==
  /\ loop = "head"
  /\ \/ HeadMore /\ (Erase({current_sector}, 1) \/ Failed({current_sector}, 2))
     \/ ~ HeadMore /\ LeaveLoop("blocks") /\ UNCHANGED result

EraseBlocks ==
  /\ loop = "blocks"
  /\ \/ BlocksMore /\ (Erase(BlockSectors, SectorsPerBlock)
                       \/ Failed(BlockSectors, 3))
     \/ ~ BlocksMore /\ LeaveLoop("tail") /\ UNCHANGED result

EraseTail ==
  /\ loop = "tail"
  /\ \/ TailMore /\ (Erase({current_sector}, 1) \/ Failed({current_sector}, 4))
     \/ ~ TailMore /\ LeaveLoop("none") /\ result' = 0

EraseStep == EraseHead \/ EraseBlocks \/ EraseTail
-----------------------------------------------------------------------------
(* The function on its own, called again and again with areas of the chip. *)

FlashUnits == 0 .. NumSectors * SectorUnits

EraseNext ==
  \/ \E start, size \in FlashUnits :
       /\ start + size <= NumSectors * SectorUnits
       /\ EraseCall(start, size) \/ EraseRefused(start)
  \/ EraseStep

EraseSpec == EraseInit /\ [][EraseNext]_eraseVars

EraseTypeOK ==
  /\ flash \in [Sectors -> Contents]
  /\ first \in Nat /\ current_sector \in Nat /\ end \in Nat
  /\ loop \in {"none", "head", "blocks", "tail"}
  /\ result \in 0 .. 4

\* The area is on the chip, and the loops stay between its ends.
InArea ==
  /\ first <= current_sector /\ current_sector <= end
  /\ end <= NumSectors

\* The block loop only stands on a block boundary, or there is nothing left.
OnBoundary ==
  loop = "blocks" =>
    current_sector = end \/ current_sector % SectorsPerBlock = 0

BehindIsBlank ==
  \A s \in Sectors : first <= s /\ s < current_sector => flash[s] = Blank

ReturnsAtEnd == loop = "none" /\ result = 0 => current_sector = end

(* The inductive invariant of the three loops of SPIEraseAreaEx. *)
EraseInv ==
  EraseTypeOK /\ InArea /\ OnBoundary /\ BehindIsBlank /\ ReturnsAtEnd

(* A call of SPIEraseAreaEx that returns 0 has erased every sector the area *)
(* touches, whatever its start and its size are to the blocks of the chip.  *)
AreaErased ==
  loop = "none" /\ result = 0 => \A s \in Area : flash[s] = Blank

(* No step of SPIEraseAreaEx changes a sector outside the area it was given, *)
(* a failing erase included: the image in the next sector stays.             *)
OutsideUntouched ==
  [][\A s \in Sectors \ Area : flash'[s] = flash[s]]_eraseVars
=============================================================================
