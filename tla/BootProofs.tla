----------------------------- MODULE BootProofs -----------------------------
(***************************************************************************)
(* Boot, for every flash, layout and number of mishaps: the loops of       *)
(* SPIEraseAreaEx, the commands in the memory of the clock, and the areas  *)
(* of the images.                                                          *)
(***************************************************************************)
EXTENDS Boot, TLAPS
-----------------------------------------------------------------------------
(* SPIEraseAreaEx *)

(* A block that starts at a multiple of its size is the sectors the block    *)
(* number of SPIEraseBlock stands for.                                       *)
LEMMA WholeBlock ==
  ASSUME NEW n \in Nat \ {0}, NEW c \in Nat, c % n = 0
  PROVE  (c \div n) * n = c
BY SMT

(* The next boundary is one block further.                                   *)
LEMMA NextBoundary ==
  ASSUME NEW n \in Nat \ {0}, NEW c \in Nat, c % n = 0
  PROVE  (c + n) % n = 0
<1> DEFINE k == c \div n
           d == (c + n) \div n
           r == (c + n) % n
<1>1. k \in Nat /\ k * n = c
  BY WholeBlock
<1>2. d \in Int /\ r \in 0 .. n - 1 /\ c + n = d * n + r
  BY SMT
<1> SUFFICES r = 0
  OBVIOUS
<1> HIDE DEF k, d, r
<1> DEFINE q == k + 1 - d
<1>3. q \in Int /\ q * n = r
  BY <1>1, <1>2
<1> HIDE DEF q
<1>4. CASE q >= 1
  <2>1. q * n >= n
    BY <1>3, <1>4
  <2> QED
    BY <1>2, <1>3, <2>1
<1>5. CASE q <= 0
  <2>1. q * n <= 0
    BY <1>3, <1>5
  <2> QED
    BY <1>2, <1>3, <2>1
<1> QED
  BY <1>3, <1>4, <1>5

(* Erasing the sectors from current_sector on keeps the invariant.           *)
LEMMA SectorErased ==
  ASSUME EraseInv, current_sector < end, loop \in {"head", "tail"},
         Erase({current_sector}, 1)
  PROVE  EraseInv'
<1> USE GeometryAssumption DEF EraseInv, Erase
<1>1. EraseTypeOK'
  BY DEF EraseTypeOK, Contents
<1>2. InArea' /\ OnBoundary' /\ ReturnsAtEnd'
  BY DEF EraseTypeOK, InArea, OnBoundary, ReturnsAtEnd
<1>3. BehindIsBlank'
  BY DEF EraseTypeOK, BehindIsBlank, Sectors
<1> QED
  BY <1>1, <1>2, <1>3

(* Erasing a block from a boundary keeps the invariant.                      *)
LEMMA BlockErased ==
  ASSUME EraseInv, BlocksMore, loop = "blocks",
         Erase(BlockSectors, SectorsPerBlock)
  PROVE  EraseInv'
<1> USE GeometryAssumption DEF EraseInv, Erase
<1>1. current_sector % SectorsPerBlock = 0
  BY DEF OnBoundary, BlocksMore, EraseTypeOK
<1>2. (current_sector \div SectorsPerBlock) * SectorsPerBlock = current_sector
  BY <1>1, WholeBlock DEF EraseTypeOK
<1>3. (current_sector + SectorsPerBlock) % SectorsPerBlock = 0
  BY <1>1, NextBoundary DEF EraseTypeOK
<1>4. BlockSectors = {s \in Sectors : current_sector <= s
                        /\ s < current_sector + SectorsPerBlock}
  BY <1>2 DEF BlockSectors
<1>5. EraseTypeOK'
  BY DEF EraseTypeOK, Contents
<1>6. InArea' /\ ReturnsAtEnd'
  BY DEF EraseTypeOK, InArea, ReturnsAtEnd, BlocksMore
<1>7. OnBoundary'
  BY <1>3 DEF OnBoundary
<1>8. BehindIsBlank'
  BY <1>4 DEF EraseTypeOK, BehindIsBlank, Sectors
<1> QED
  BY <1>5, <1>6, <1>7, <1>8

(* A failed erase keeps the invariant: what is behind the loop stays blank.  *)
LEMMA EraseFailed ==
  ASSUME EraseInv, NEW S, NEW code \in 2 .. 4, Failed(S, code),
         \A s \in S \cap Sectors : current_sector <= s
  PROVE  EraseInv'
<1> USE DEF EraseInv
<1> PICK spoilt \in SUBSET (S \cap Sectors) :
      flash' = [s \in Sectors |-> IF s \in spoilt THEN Mixed ELSE flash[s]]
  BY DEF Failed
<1>1. EraseTypeOK'
  BY DEF EraseTypeOK, Contents, Failed
<1>2. InArea' /\ OnBoundary' /\ ReturnsAtEnd'
  BY DEF InArea, OnBoundary, ReturnsAtEnd, Failed
<1>3. BehindIsBlank'
  BY DEF EraseTypeOK, BehindIsBlank, Failed, Sectors
<1> QED
  BY <1>1, <1>2, <1>3

(* The sectors a turn of a loop erases are in the area and not behind it.    *)
LEMMA ErasedAhead ==
  ASSUME current_sector \in Nat, end \in Nat, OnBoundary
  PROVE  /\ current_sector < end =>
              \A s \in {current_sector} : current_sector <= s /\ s < end
         /\ loop = "blocks" /\ BlocksMore =>
              \A s \in BlockSectors : current_sector <= s /\ s < end
<1> USE GeometryAssumption
<1>1. ASSUME loop = "blocks", BlocksMore
      PROVE  \A s \in BlockSectors : current_sector <= s /\ s < end
  <2>1. current_sector % SectorsPerBlock = 0
    BY <1>1 DEF OnBoundary, BlocksMore
  <2>2. (current_sector \div SectorsPerBlock) * SectorsPerBlock
          = current_sector
    BY <2>1, WholeBlock
  <2> QED
    BY <1>1, <2>2 DEF BlockSectors, BlocksMore, Sectors
<1> QED
  BY <1>1
-----------------------------------------------------------------------------
(* Every step of the three loops and every call keeps the invariant.         *)
LEMMA EraseNextKeeps ==
  ASSUME EraseInv, [EraseNext]_eraseVars
  PROVE  EraseInv'
<1> USE GeometryAssumption
<1>1. ASSUME NEW start \in FlashUnits, NEW size \in FlashUnits,
             start + size <= NumSectors * SectorUnits, EraseCall(start, size)
      PROVE  EraseInv'
  <2> DEFINE d == start \div SectorUnits
             c == SectorCount(size)
  <2>1. d \in Nat /\ c \in Nat /\ d * SectorUnits = start
    BY <1>1, WholeBlock DEF FlashUnits, EraseCall, SectorCount
  <2>2. d + c <= NumSectors
    <3>1. c * SectorUnits < size + SectorUnits
      BY <2>1 DEF SectorCount, FlashUnits
    <3>2. (d + c) * SectorUnits < (NumSectors + 1) * SectorUnits
      BY <1>1, <2>1, <3>1 DEF FlashUnits
    <3> QED
      BY <2>1, <3>2
  <2>3. first' = d /\ current_sector' = d /\ end' = d + c /\ loop' = "head"
        /\ flash' = flash /\ result' = result
    BY <1>1 DEF EraseCall
  <2> HIDE DEF d, c
  <2> QED
    BY <2>1, <2>2, <2>3 DEF EraseInv, EraseTypeOK, InArea, OnBoundary,
       BehindIsBlank, ReturnsAtEnd, Sectors
<1>2. ASSUME NEW start \in FlashUnits, EraseRefused(start)
      PROVE  EraseInv'
  BY <1>2 DEF EraseInv, EraseTypeOK, InArea, OnBoundary, BehindIsBlank,
     ReturnsAtEnd, EraseRefused, Sectors
<1>3. ASSUME EraseHead PROVE EraseInv'
  <2>1. CASE HeadMore /\ Erase({current_sector}, 1)
    BY <1>3, <2>1, SectorErased DEF EraseHead, HeadMore
  <2>2. CASE HeadMore /\ Failed({current_sector}, 2)
    BY <2>2, EraseFailed DEF EraseInv, EraseTypeOK
  <2>3. CASE ~ HeadMore /\ LeaveLoop("blocks") /\ UNCHANGED result
    BY <1>3, <2>3 DEF EraseHead, HeadMore, LeaveLoop, EraseInv, EraseTypeOK,
       InArea, OnBoundary, BehindIsBlank, ReturnsAtEnd, Sectors
  <2> QED
    BY <1>3, <2>1, <2>2, <2>3 DEF EraseHead
<1>4. ASSUME EraseBlocks PROVE EraseInv'
  <2>1. CASE BlocksMore /\ Erase(BlockSectors, SectorsPerBlock)
    BY <1>4, <2>1, BlockErased DEF EraseBlocks
  <2>2. CASE BlocksMore /\ Failed(BlockSectors, 3)
    BY <1>4, <2>2, EraseFailed, ErasedAhead DEF EraseBlocks, EraseInv, EraseTypeOK
  <2>3. CASE ~ BlocksMore /\ LeaveLoop("tail") /\ UNCHANGED result
    BY <1>4, <2>3 DEF EraseBlocks, LeaveLoop, EraseInv, EraseTypeOK, InArea,
       OnBoundary, BehindIsBlank, ReturnsAtEnd, Sectors
  <2> QED
    BY <1>4, <2>1, <2>2, <2>3 DEF EraseBlocks
<1>5. ASSUME EraseTail PROVE EraseInv'
  <2>1. CASE TailMore /\ Erase({current_sector}, 1)
    BY <1>5, <2>1, SectorErased DEF EraseTail, TailMore
  <2>2. CASE TailMore /\ Failed({current_sector}, 4)
    BY <2>2, EraseFailed DEF EraseInv, EraseTypeOK
  <2>3. CASE ~ TailMore /\ LeaveLoop("none") /\ result' = 0
    BY <1>5, <2>3 DEF EraseTail, TailMore, LeaveLoop, EraseInv, EraseTypeOK,
       InArea, OnBoundary, BehindIsBlank, ReturnsAtEnd, Sectors
  <2> QED
    BY <1>5, <2>1, <2>2, <2>3 DEF EraseTail
<1>6. ASSUME UNCHANGED eraseVars PROVE EraseInv'
  BY <1>6 DEF eraseVars, EraseInv, EraseTypeOK, InArea, OnBoundary,
     BehindIsBlank, ReturnsAtEnd, Sectors
<1> QED
  BY <1>1, <1>2, <1>3, <1>4, <1>5, <1>6 DEF EraseNext, EraseStep

(* The inductive invariant of SPIEraseAreaEx holds for every geometry, area  *)
(* and failure.                                                              *)
THEOREM EraseInvariant == EraseSpec => []EraseInv
<1>1. EraseInit => EraseInv
  BY GeometryAssumption DEF EraseInit, EraseInv, EraseTypeOK, InArea,
     OnBoundary, BehindIsBlank, ReturnsAtEnd, Sectors, Contents
<1>2. EraseInv /\ [EraseNext]_eraseVars => EraseInv'
  BY EraseNextKeeps
<1> QED
  BY <1>1, <1>2, PTL DEF EraseSpec

(* A call of SPIEraseAreaEx that returns 0 erased the whole area.            *)
THEOREM EraseIsWhole == EraseSpec => []AreaErased
<1>1. EraseInv => AreaErased
  BY DEF EraseInv, ReturnsAtEnd, BehindIsBlank, AreaErased, Area
<1> QED
  BY <1>1, EraseInvariant, PTL

(* SPIEraseAreaEx never changes a sector outside its area.                   *)
THEOREM EraseStaysInside == EraseSpec => OutsideUntouched
<1> DEFINE Kept == \A s \in Sectors \ Area : flash'[s] = flash[s]
<1>1. ASSUME EraseInv, [EraseNext]_eraseVars
      PROVE  [Kept]_eraseVars
  <2> USE <1>1
  <2>1. ASSUME NEW S, NEW n, Erase(S, n), S \cap Sectors \subseteq Area
        PROVE  Kept
    BY <2>1 DEF Erase
  <2>2. ASSUME NEW S, NEW code, Failed(S, code), S \cap Sectors \subseteq Area
        PROVE  Kept
    BY <2>2 DEF Failed
  <2>3. HeadMore \/ TailMore => {current_sector} \cap Sectors \subseteq Area
    BY ErasedAhead DEF HeadMore, TailMore, Area, EraseInv, InArea, EraseTypeOK
  <2>4. loop = "blocks" /\ BlocksMore => BlockSectors \cap Sectors \subseteq Area
    BY ErasedAhead DEF Area, EraseInv, InArea, EraseTypeOK, Sectors
  <2>5. ASSUME flash' = flash PROVE Kept
    BY <2>5
  <2>6. ASSUME EraseHead PROVE Kept
    BY <2>1, <2>2, <2>3, <2>5, <2>6 DEF EraseHead, LeaveLoop
  <2>7. ASSUME EraseBlocks PROVE Kept
    BY <2>1, <2>2, <2>4, <2>5, <2>7 DEF EraseBlocks, LeaveLoop
  <2>8. ASSUME EraseTail PROVE Kept
    BY <2>1, <2>2, <2>3, <2>5, <2>8 DEF EraseTail, LeaveLoop
  <2>9. ASSUME NEW start, NEW size, EraseCall(start, size) PROVE Kept
    BY <2>5, <2>9 DEF EraseCall
  <2>10. ASSUME NEW start, EraseRefused(start) PROVE Kept
    BY <2>5, <2>10 DEF EraseRefused
  <2> QED
    BY <2>6, <2>7, <2>8, <2>9, <2>10 DEF EraseNext, EraseStep
<1> QED
  BY <1>1, EraseInvariant, PTL DEF EraseSpec, OutsideUntouched
-----------------------------------------------------------------------------
(* The command *)

\* The steps that leave the command, and the words of it, alone.
QuietStep ==
  /\ UNCHANGED <<rtc, pending>>
  /\ pc' # "command"
  /\ pc' \notin {"clear", "cleared"}

LEMMA QuietKeeps ==
  ASSUME CommandInv, QuietStep
  PROVE  CommandInv'
BY DEF CommandInv, QuietStep, CommandTypeOK, CarriedOutOnce, ChecksumIsOwed,
   TakenIsValid

(* The actions of flash_binary, load_app_from_flash_raw and the resets that  *)
(* keep the clock's memory are quiet.                                        *)
LEMMA QuietActions ==
  ASSUME CommandInv,
         Start \/ OpenMissing \/ OpenFound \/ EraseArea \/ ReadChunk
         \/ WriteChunk \/ Load \/ LoadFails \/ WarmReset,
         after \in {"read", "load"}
  PROVE  QuietStep
<1> USE DEF commandVars, QuietStep
<1>1. CASE Start
  BY <1>1 DEF Start
<1>2. CASE OpenMissing
  BY <1>2 DEF OpenMissing, NextFile
<1>3. CASE OpenFound
  BY <1>3 DEF OpenFound
<1>4. CASE EraseArea
  BY <1>4 DEF EraseArea
<1>5. CASE ReadChunk
  BY <1>5 DEF ReadChunk, NextFile
<1>6. CASE WriteChunk
  BY <1>6 DEF WriteChunk
<1>7. CASE Load
  BY <1>7 DEF Load
<1>8. CASE LoadFails
  BY <1>8 DEF LoadFails
<1>9. CASE WarmReset
  BY <1>9 DEF WarmReset
<1> QED
  BY <1>1, <1>2, <1>3, <1>4, <1>5, <1>6, <1>7, <1>8, <1>9

\* Where main() goes on after its files.
AfterOK == after \in {"read", "load"}

(* Every step of the device keeps the invariant.                             *)
LEMMA CommandNextKeeps ==
  ASSUME CommandInv, AfterOK, [Next]_vars
  PROVE  CommandInv' /\ AfterOK'
<1>1. AfterOK'
  BY DEF AfterOK, Next, Loader, vars, copyVars, Reset, CommandWrite, Start,
     CommandRead, CommandClearMagic, CommandClear, OpenMissing, OpenFound,
     EraseArea, ReadChunk, WriteChunk, Load, LoadFails, SwitchOn, PowerLoss,
     WarmReset, PowerUp
<1> USE DEF CommandInv
<1>2. ASSUME NEW m \in Modes \cup {0}, Reset(m) PROVE CommandInv'
  BY <1>2 DEF Reset, CommandTypeOK, CarriedOutOnce, ChecksumIsOwed,
     TakenIsValid, Modes
<1>3. ASSUME CommandWrite PROVE CommandInv'
  <2>1. mode \in Modes /\ word \in 0 .. 2
    BY <1>3 DEF CommandWrite, CommandTypeOK
  <2>2. CASE word = 0
    <3> DEFINE set == TRUE
    <3>1. /\ rtc' = [rtc EXCEPT !.magic = set] /\ pending' = pending
          /\ mode' = mode /\ word' = 1 /\ pc' = "command"
      BY <1>3, <2>2 DEF CommandWrite, Word
    <3>2. set \in BOOLEAN
      OBVIOUS
    <3> HIDE DEF set
    <3>3. rtc'.crc = rtc.crc
          /\ rtc' \in [magic : BOOLEAN, arg : Args, crc : Args \cup {NoCrc}]
      BY <3>1, <3>2 DEF CommandTypeOK
    <3> QED
      BY <2>1, <3>1, <3>3 DEF CommandTypeOK, CarriedOutOnce, ChecksumIsOwed,
         TakenIsValid
  <2>3. CASE word = 1
    BY <1>3, <2>1, <2>3 DEF CommandWrite, Word, CommandTypeOK, CarriedOutOnce,
       ChecksumIsOwed, TakenIsValid, Modes, Args
  <2>4. CASE word = 2
    <3>1. /\ rtc' = [rtc EXCEPT !.crc = mode - 1]
          /\ pending' = [pending EXCEPT ![mode] = @ + 1]
          /\ pc' = "start"
      BY <1>3, <2>4 DEF CommandWrite, Word
    <3> QED
      BY <2>1, <3>1 DEF CommandTypeOK, CarriedOutOnce, ChecksumIsOwed,
         TakenIsValid, Modes, Args
  <2> QED
    BY <2>1, <2>2, <2>3, <2>4
<1>4. ASSUME CommandRead PROVE CommandInv'
  BY <1>4 DEF CommandRead, CommandValid, commandVars, CommandTypeOK,
     CarriedOutOnce, ChecksumIsOwed, TakenIsValid
<1>5. ASSUME CommandClearMagic PROVE CommandInv'
  BY <1>5 DEF CommandClearMagic, ClearWord, CommandTypeOK, CarriedOutOnce,
     ChecksumIsOwed, TakenIsValid
<1>6. ASSUME CommandClear PROVE CommandInv'
  <2>1. /\ rtc' = [rtc EXCEPT !.crc = NoCrc]
        /\ pending' = [pending EXCEPT ![rtc.arg + 1] = @ - 1]
        /\ pc' \in {"open", "load"}
    BY <1>6 DEF CommandClear, ClearWord
  <2>2. rtc.arg + 1 \in Modes /\ pending[rtc.arg + 1] >= 1
    BY <1>6 DEF CommandClear, TakenIsValid, ChecksumIsOwed, CommandTypeOK,
       Args, Modes, NoCrc
  <2> QED
    BY <2>1, <2>2 DEF CommandTypeOK, CarriedOutOnce, ChecksumIsOwed,
       TakenIsValid
<1>7. ASSUME SwitchOn \/ PowerLoss PROVE CommandInv'
  <2>1. /\ rtc' = [magic |-> FALSE, arg |-> 0, crc |-> NoCrc]
        /\ pending' = pending /\ pc' = "start"
    BY <1>7 DEF SwitchOn, PowerLoss, PowerUp
  <2>2. rtc'.crc = NoCrc
    BY <2>1
  <2>3. rtc' \in [magic : BOOLEAN, arg : Args, crc : Args \cup {NoCrc}]
    BY <2>1 DEF Args
  <2> QED
    BY <2>1, <2>2, <2>3 DEF CommandTypeOK, CarriedOutOnce, ChecksumIsOwed,
       TakenIsValid
<1>8. ASSUME UNCHANGED vars PROVE CommandInv'
  BY <1>8 DEF vars, commandVars, CommandTypeOK, CarriedOutOnce,
     ChecksumIsOwed, TakenIsValid
<1>9. ASSUME Start \/ OpenMissing \/ OpenFound \/ EraseArea \/ ReadChunk
             \/ WriteChunk \/ Load \/ LoadFails \/ WarmReset
      PROVE  CommandInv'
  BY <1>9, QuietActions, QuietKeeps DEF AfterOK
<1> QED
  BY <1>1, <1>2, <1>3, <1>4, <1>5, <1>6, <1>7, <1>8, <1>9 DEF Next, Loader

(* The invariant of the command in the clock's memory.                       *)
THEOREM CommandInvariant == Spec => []CommandInv
<1>1. Init => CommandInv /\ AfterOK
  BY DEF Init, CommandInv, AfterOK, CommandTypeOK, CarriedOutOnce,
     ChecksumIsOwed, TakenIsValid, Args, NoCrc
<1>2. CommandInv /\ AfterOK /\ [Next]_vars => (CommandInv /\ AfterOK)'
  BY CommandNextKeeps
<1> QED
  BY <1>1, <1>2, PTL DEF Spec

(* No update command is carried out twice, or in part, for any sequence of   *)
(* resets between the words of its writing, its reading and its clearing.    *)
THEOREM NoCommandTwice == Spec => []CarriedOutOnce
<1>1. CommandInv => CarriedOutOnce
  BY DEF CommandInv
<1> QED
  BY <1>1, CommandInvariant, PTL
-----------------------------------------------------------------------------
(* The areas of the images.                                                  *)

Whole(units) == \E k \in Nat : units = k * SectorUnits

\* flash_binary has a file to copy.
CopyingOK ==
  /\ length \in Lengths
  /\ plan \in Seq(Files)
  /\ pc \in {"open", "erase", "chunk", "write"} => plan # <<>>

\* SPIEraseAreaEx is between the ends of the area of that file.
ErasingOK ==
  pc = "erase" =>
    /\ current_sector \in Nat /\ end \in Nat
    /\ Base[File] <= current_sector /\ current_sector <= end
    /\ end = Base[File] + Span[File]
    /\ OnBoundary
    /\ pos = 0

\* What is in the flash ends with a sector or with the file, and what is in the
\* buffer goes behind it.
WritingOK ==
  /\ pc \in {"chunk", "write"} =>
       /\ pos \in Nat /\ pos <= length[File]
       /\ Whole(pos) \/ pos = length[File]
  /\ pc = "write" =>
       /\ Whole(pos)
       /\ buffered \in Nat /\ pos + buffered <= length[File]
       /\ Whole(buffered) \/ pos + buffered = length[File]

AreaInv == AfterOK /\ CopyingOK /\ ErasingOK /\ WritingOK

LEMMA Quotient ==
  ASSUME NEW n \in Nat \ {0}, NEW k \in Nat, NEW r \in Nat, r < n
  PROVE  (k * n + r) \div n = k
<1> DEFINE q == (k * n + r) \div n
           t == (k * n + r) % n
<1>1. q \in Int /\ t \in 0 .. n - 1 /\ k * n + r = q * n + t
  BY SMT
<1> SUFFICES q = k
  OBVIOUS
<1> HIDE DEF q, t
<1> DEFINE d == k - q
<1>2. d \in Int /\ d * n = t - r
  BY <1>1
<1> HIDE DEF d
<1>3. CASE d >= 1
  <2>1. d * n >= n
    BY <1>2, <1>3
  <2> QED
    BY <1>1, <1>2, <2>1
<1>4. CASE d <= -1
  <2>1. d * n <= -n
    BY <1>2, <1>4
  <2> QED
    BY <1>1, <1>2, <2>1
<1>5. CASE d = 0
  BY <1>1, <1>5 DEF d
<1> QED
  BY <1>2, <1>3, <1>4, <1>5

\* Multiples are in the order of their factors.
LEMMA Factors ==
  ASSUME NEW n \in Nat \ {0}, NEW x \in Int, NEW y \in Int
  PROVE  /\ x * n <= y * n => x <= y
         /\ x * n < y * n => x < y
<1> DEFINE d == x - y
<1>1. d \in Int /\ d * n = x * n - y * n
  OBVIOUS
<1>2. d >= 1 => d * n >= n
  BY <1>1
<1>3. d >= 0 => d * n >= 0
  BY <1>1
<1> QED
  BY <1>1, <1>2, <1>3

(* The sectors a buffer is written to end before the area does.              *)
LEMMA BufferFits ==
  ASSUME NEW at \in Nat, NEW br \in Nat, NEW span \in Nat,
         at * SectorUnits + br <= span * SectorUnits
  PROVE  Rounded(br) \in Nat /\ at + Rounded(br) <= span
<1> USE GeometryAssumption
<1> DEFINE q == br \div SectorUnits
           r == br % SectorUnits
<1>1. q \in Nat /\ r \in 0 .. SectorUnits - 1 /\ br = q * SectorUnits + r
  BY SMT
<1>2. Rounded(br) = q + (IF r = 0 THEN 0 ELSE 1)
  BY DEF Rounded
<1> HIDE DEF q, r
<1>3. (at + q) * SectorUnits + r <= span * SectorUnits
  BY <1>1
<1>4. CASE r = 0
  BY <1>1, <1>2, <1>3, <1>4, Factors
<1>5. CASE r # 0
  <2>1. (at + q) * SectorUnits < span * SectorUnits
    BY <1>1, <1>3, <1>5
  <2>2. at + q < span
    BY <1>1, <2>1, Factors
  <2> QED
    BY <1>1, <1>2, <1>5, <2>2
<1> QED
  BY <1>4, <1>5

\* The geometry of a file, as the steps of flash_binary need it.
LEMMA Layout ==
  ASSUME CopyingOK, plan # <<>>
  PROVE  /\ File \in Files /\ Tail(plan) \in Seq(Files)
         /\ Base[File] \in Nat /\ Span[File] \in Nat /\ length[File] \in Nat
BY LayoutAssumption DEF LayoutAssumption, CopyingOK, File

\* The card stays the same.
LEMMA CardStays == [Next]_vars => UNCHANGED length
BY DEF Next, Loader, vars, copyVars, Reset, CommandWrite, Start, CommandRead,
   CommandClearMagic, CommandClear, OpenMissing, OpenFound, EraseArea, ReadChunk,
   WriteChunk, Load, LoadFails, SwitchOn, PowerLoss, WarmReset, PowerUp

\* Every step to a place where nothing is copied, and on to the next file.
LEMMA NotCopying ==
  ASSUME AreaInv, AfterOK', UNCHANGED length, plan' \in Seq(Files),
         pc' \notin {"open", "erase", "chunk", "write"}
  PROVE  AreaInv'
BY DEF AreaInv, CopyingOK, ErasingOK, WritingOK

LEMMA OnToNext ==
  ASSUME AreaInv, plan # <<>>, NextFile, AfterOK', UNCHANGED length
  PROVE  AreaInv'
<1>1. Tail(plan) \in Seq(Files)
  BY Layout DEF AreaInv
<1>2. CASE Tail(plan) = <<>>
  BY <1>1, <1>2, NotCopying DEF NextFile, AreaInv, AfterOK
<1>3. CASE Tail(plan) # <<>>
  BY <1>1, <1>3 DEF NextFile, AreaInv, CopyingOK, ErasingOK, WritingOK
<1> QED
  BY <1>2, <1>3

LEMMA OpenKeeps == AreaInv /\ OpenFound => AreaInv'
<1> SUFFICES ASSUME AreaInv, OpenFound PROVE AreaInv'
  OBVIOUS
<1>1. /\ plan # <<>> /\ plan' = plan /\ pc' = "erase" /\ pos' = 0 /\ after' = after
      /\ length' = length
  BY DEF OpenFound, AreaInv, CopyingOK
<1>2. Base[File] \in Nat /\ Span[File] \in Nat
  BY <1>1, Layout DEF AreaInv
<1> DEFINE b == Base[File]
           n == Span[File]
<1>3. first' = b /\ current_sector' = b
  <2>1. (b * SectorUnits + 0) \div SectorUnits = b
    BY <1>2, Quotient, GeometryAssumption
  <2>2. b * SectorUnits + 0 = b * SectorUnits
    BY <1>2, GeometryAssumption
  <2> QED
    BY <2>1, <2>2 DEF OpenFound, EraseCall
<1>4. SectorCount(n * SectorUnits) = n
  <2> DEFINE r == SectorUnits - 1
  <2>0. n \in Nat /\ SectorUnits \in Nat \ {0} /\ r \in Nat /\ r < SectorUnits
        /\ n * SectorUnits \in Nat
    BY <1>2, GeometryAssumption
  <2>2. n * SectorUnits + r = n * SectorUnits + SectorUnits - 1
    BY <2>0
  <2> HIDE DEF n, r
  <2>1. (n * SectorUnits + r) \div SectorUnits = n
    BY <2>0, Quotient
  <2> QED
    BY <2>1, <2>2 DEF SectorCount
<1>5. end' = b + n /\ loop' = "head"
  BY <1>3, <1>4 DEF OpenFound, EraseCall
<1>6. ErasingOK'
  BY <1>1, <1>2, <1>3, <1>5 DEF ErasingOK, OnBoundary, File
<1> QED
  BY <1>1, <1>6 DEF AreaInv, AfterOK, CopyingOK, WritingOK

\* A turn of a loop of SPIEraseAreaEx stays between the ends.
LEMMA TurnStays ==
  ASSUME current_sector \in Nat, end \in Nat, current_sector <= end,
         OnBoundary, EraseStep
  PROVE  /\ current_sector' \in Nat /\ end' = end
         /\ current_sector <= current_sector' /\ current_sector' <= end'
         /\ OnBoundary'
<1> USE GeometryAssumption
<1>1. CASE EraseHead
  BY <1>1 DEF EraseHead, HeadMore, Erase, Failed, LeaveLoop, OnBoundary
<1>2. CASE EraseBlocks
  <2>1. CASE BlocksMore /\ Erase(BlockSectors, SectorsPerBlock)
    <3>1. current_sector % SectorsPerBlock = 0
      BY <1>2, <2>1 DEF EraseBlocks, OnBoundary, BlocksMore
    <3>2. (current_sector + SectorsPerBlock) % SectorsPerBlock = 0
      BY <3>1, NextBoundary
    <3> QED
      BY <2>1, <3>2 DEF BlocksMore, Erase, OnBoundary
  <2>2. CASE BlocksMore /\ Failed(BlockSectors, 3)
    BY <2>2 DEF Failed, OnBoundary
  <2>3. CASE LeaveLoop("tail")
    BY <2>3 DEF LeaveLoop, OnBoundary
  <2> QED
    BY <1>2, <2>1, <2>2, <2>3 DEF EraseBlocks
<1>3. CASE EraseTail
  BY <1>3 DEF EraseTail, TailMore, Erase, Failed, LeaveLoop, OnBoundary
<1> QED
  BY <1>1, <1>2, <1>3 DEF EraseStep

LEMMA EraseAreaKeeps == AreaInv /\ EraseArea => AreaInv'
<1> SUFFICES ASSUME AreaInv, EraseArea PROVE AreaInv'
  OBVIOUS
<1>1. /\ pc = "erase" /\ plan' = plan /\ after' = after /\ pos' = pos
      /\ length' = length /\ plan # <<>> /\ EraseStep /\ pc' \in {"erase", "chunk"}
  BY DEF EraseArea, AreaInv, CopyingOK
<1>2. Base[File] \in Nat /\ Span[File] \in Nat /\ length[File] \in Nat
  BY <1>1, Layout DEF AreaInv
<1>3. /\ current_sector' \in Nat /\ end' = end
      /\ current_sector <= current_sector' /\ current_sector' <= end'
      /\ OnBoundary'
  BY <1>1, TurnStays DEF AreaInv, ErasingOK
<1>4. ErasingOK'
  BY <1>1, <1>2, <1>3 DEF AreaInv, ErasingOK, File
<1>5. pos' = 0 /\ Whole(pos')
  <2>1. 0 = 0 * SectorUnits
    BY GeometryAssumption
  <2> QED
    BY <1>1, <2>1 DEF AreaInv, ErasingOK, Whole
<1>6. WritingOK'
  BY <1>1, <1>2, <1>5 DEF WritingOK, File, Whole
<1> QED
  BY <1>1, <1>4, <1>6 DEF AreaInv, AfterOK, CopyingOK

LEMMA ReadKeeps == AreaInv /\ ReadChunk => AreaInv'
<1> SUFFICES ASSUME AreaInv, ReadChunk PROVE AreaInv'
  OBVIOUS
<1>1. /\ pc = "chunk" /\ plan # <<>> /\ after' = after /\ pos' = pos
      /\ length' = length
  BY DEF ReadChunk, AreaInv, CopyingOK
<1>2. CASE NextFile
  BY <1>1, <1>2, OnToNext DEF AreaInv, AfterOK
<1>3. CASE buffered' # 0 /\ pc' = "write" /\ plan' = plan
  <2> DEFINE left == length[File] - pos
             most == ChunkSectors * SectorUnits
  <2>1. /\ pos \in Nat /\ pos <= length[File] /\ length[File] \in Nat
        /\ most \in Nat /\ left \in Nat
        /\ Whole(pos) \/ pos = length[File]
    <3>1. length[File] \in Nat
      BY <1>1, Layout DEF AreaInv
    <3>2. /\ pos \in Nat /\ pos <= length[File]
          /\ Whole(pos) \/ pos = length[File]
      BY <1>1 DEF AreaInv, WritingOK
    <3>3. most \in Nat
      BY GeometryAssumption, LayoutAssumption DEF LayoutAssumption
    <3> QED
      BY <3>1, <3>2, <3>3
  <2>2. Rest = IF left < most THEN left ELSE most
    BY DEF Rest
  <2>3. Whole(most)
    BY LayoutAssumption DEF Whole, LayoutAssumption
  <2> HIDE DEF left, most
  <2>4. Rest \in Nat /\ Rest <= left /\ (Whole(Rest) \/ Rest = left)
    BY <2>1, <2>2, <2>3
  <2>5. buffered' = Rest \/ (Whole(buffered') /\ buffered' \in Nat /\ buffered' < Rest)
    <3>1. CASE buffered' = (IF fileErr THEN 0 ELSE Rest)
      BY <3>1, <1>3
    <3>2. ASSUME NEW n \in 0 .. ChunkSectors - 1, n * SectorUnits < Rest,
                 buffered' = n * SectorUnits
          PROVE  Whole(buffered') /\ buffered' \in Nat /\ buffered' < Rest
      <4>1. n \in Nat /\ n * SectorUnits \in Nat
        BY GeometryAssumption, LayoutAssumption DEF LayoutAssumption
      <4> QED
        BY <3>2, <4>1 DEF Whole
    <3> QED
      BY <3>1, <3>2 DEF ReadChunk
  <2>6. /\ buffered' \in Nat /\ buffered' <= left
        /\ Whole(buffered') \/ buffered' = left
    BY <2>1, <2>4, <2>5
  <2>7. left > 0
    BY <1>3, <2>1, <2>6
  <2>8. pos + buffered' <= length[File] /\ Whole(pos)
        /\ (Whole(buffered') \/ pos + buffered' = length[File])
    BY <2>1, <2>6, <2>7 DEF left
  <2>9. WritingOK'
    BY <1>1, <1>3, <2>1, <2>6, <2>8 DEF WritingOK, File, Whole
  <2> QED
    BY <1>1, <1>3, <2>9 DEF AreaInv, AfterOK, CopyingOK, ErasingOK
<1> QED
  BY <1>2, <1>3 DEF ReadChunk

LEMMA WriteChunkKeeps == AreaInv /\ WriteChunk => AreaInv'
<1> SUFFICES ASSUME AreaInv, WriteChunk PROVE AreaInv'
  OBVIOUS
<1>1. /\ pc = "write" /\ pc' = "chunk" /\ plan # <<>> /\ plan' = plan
      /\ length' = length /\ after' = after /\ pos' = pos + buffered
  BY DEF WriteChunk, AreaInv, CopyingOK
<1>2. /\ pos \in Nat /\ buffered \in Nat /\ pos + buffered <= length[File]
      /\ Whole(pos) /\ (Whole(buffered) \/ pos + buffered = length[File])
  BY <1>1 DEF AreaInv, WritingOK
<1>3. Whole(buffered) => Whole(pos + buffered)
  <2>1. ASSUME NEW i \in Nat, NEW k \in Nat, pos = i * SectorUnits, buffered = k * SectorUnits
        PROVE  Whole(pos + buffered)
    <3>1. pos + buffered = (i + k) * SectorUnits
      BY <2>1, GeometryAssumption
    <3> QED
      BY <3>1 DEF Whole
  <2> QED
    BY <1>2, <2>1 DEF Whole
<1>4. WritingOK'
  BY <1>1, <1>2, <1>3 DEF WritingOK, File, Whole
<1> QED
  BY <1>1, <1>4 DEF AreaInv, AfterOK, CopyingOK, ErasingOK

LEMMA PlansOfFiles ==
  ASSUME NEW arg
  PROVE  PlanOf(arg) \in Seq(Files) /\ PlanOf(arg) # <<>>
<1>1. CASE arg = 0
  BY <1>1 DEF PlanOf, Files
<1>2. CASE arg = 1
  BY <1>2 DEF PlanOf, Files
<1>3. CASE arg # 0 /\ arg # 1
  BY <1>3 DEF PlanOf, Files
<1> QED
  BY <1>1, <1>2, <1>3

LEMMA AreaNextKeeps == AreaInv /\ CommandInv /\ [Next]_vars => AreaInv'
<1> SUFFICES ASSUME AreaInv, CommandInv, [Next]_vars PROVE AreaInv'
  OBVIOUS
<1>1. AfterOK' /\ UNCHANGED length
  BY CommandNextKeeps, CardStays DEF AreaInv
<1>2. ASSUME NEW m \in Modes \cup {0}, Reset(m) PROVE AreaInv'
  BY <1>1, <1>2, NotCopying DEF Reset, copyVars, AreaInv, CopyingOK
<1>3. CASE CommandWrite
  BY <1>1, <1>3, NotCopying DEF CommandWrite, copyVars, AreaInv, CopyingOK
<1>4. CASE Start
  <2>1. CASE pc' = "read" /\ plan' = plan
    BY <1>1, <2>1, NotCopying DEF AreaInv, CopyingOK
  <2>2. CASE pc' = "open" /\ plan' = ForcedPlan
    BY <1>1, <2>2 DEF AreaInv, CopyingOK, ErasingOK, WritingOK, ForcedPlan, Files
  <2> QED
    BY <1>4, <2>1, <2>2 DEF Start
<1>5. CASE CommandRead
  BY <1>1, <1>5, NotCopying DEF CommandRead, copyVars, AreaInv, CopyingOK
<1>6. CASE CommandClearMagic
  BY <1>1, <1>6, NotCopying DEF CommandClearMagic, copyVars, AreaInv, CopyingOK
<1>7. CASE CommandClear
  <2>1. CASE pc' = "load" /\ plan' = plan
    BY <1>1, <2>1, NotCopying DEF AreaInv, CopyingOK
  <2>2. CASE pc' = "open" /\ plan' = PlanOf(rtc.arg)
    <3>1. PlanOf(rtc.arg) \in Seq(Files) /\ PlanOf(rtc.arg) # <<>>
      BY PlansOfFiles
    <3> QED
      BY <1>1, <2>2, <3>1 DEF AreaInv, CopyingOK, ErasingOK, WritingOK
  <2> QED
    BY <1>7, <2>1, <2>2 DEF CommandClear
<1>8. CASE OpenMissing
  BY <1>1, <1>8, OnToNext DEF OpenMissing, AreaInv, CopyingOK
<1>9. CASE OpenFound
  BY <1>9, OpenKeeps
<1>10. CASE EraseArea
  BY <1>10, EraseAreaKeeps
<1>11. CASE ReadChunk
  BY <1>11, ReadKeeps
<1>12. CASE WriteChunk
  BY <1>12, WriteChunkKeeps
<1>13. CASE Load \/ LoadFails
  BY <1>1, <1>13, NotCopying DEF Load, LoadFails, copyVars, AreaInv, CopyingOK
<1>14. CASE SwitchOn \/ PowerLoss \/ WarmReset
  BY <1>1, <1>14, NotCopying
  DEF SwitchOn, PowerLoss, WarmReset, PowerUp, copyVars, AreaInv, CopyingOK
<1>15. CASE UNCHANGED vars
  BY <1>15 DEF vars, copyVars, eraseVars, AreaInv, AfterOK, CopyingOK, ErasingOK,
               WritingOK, OnBoundary, File, Whole
<1> QED
  BY <1>2, <1>3, <1>4, <1>5, <1>6, <1>7, <1>8, <1>9, <1>10, <1>11, <1>12, <1>13,
     <1>14, <1>15 DEF Next, Loader

ChangesIn(S) == \A s \in Sectors : flash'[s] # flash[s] => s \in S

\* What a turn of an erase loop changes, or is in the middle of changing when
\* the processor stops.
LEMMA EraseInArea ==
  ASSUME AreaInv, pc = "erase"
  PROVE  /\ plan # <<>>
         /\ current_sector < end => {current_sector} \cap Sectors \subseteq AreaOf(File)
         /\ loop = "blocks" /\ BlocksMore => BlockSectors \cap Sectors \subseteq AreaOf(File)
<1>1. /\ plan # <<>>
      /\ current_sector \in Nat /\ end \in Nat /\ OnBoundary
      /\ Base[File] <= current_sector
      /\ end = Base[File] + Span[File]
  BY DEF AreaInv, CopyingOK, ErasingOK
<1>2. Base[File] \in Nat /\ Span[File] \in Nat
  BY <1>1, Layout DEF AreaInv
<1>3. current_sector < end => current_sector \in AreaOf(File)
  BY <1>1, <1>2 DEF AreaOf
<1>4. ASSUME loop = "blocks", BlocksMore PROVE BlockSectors \cap Sectors \subseteq AreaOf(File)
  <2>1. \A s \in BlockSectors : current_sector <= s /\ s < end
    BY <1>1, <1>4, ErasedAhead
  <2> QED
    BY <1>1, <1>2, <2>1 DEF AreaOf, Sectors
<1> QED
  BY <1>1, <1>3, <1>4

LEMMA TurnInArea ==
  ASSUME AreaInv, pc = "erase", EraseStep
  PROVE  plan # <<>> /\ ChangesIn(AreaOf(File))
<1>1. ASSUME NEW S, NEW n, Erase(S, n), S \cap Sectors \subseteq AreaOf(File)
      PROVE  ChangesIn(AreaOf(File))
  BY <1>1 DEF Erase, ChangesIn
<1>2. ASSUME NEW S, NEW code, Failed(S, code), S \cap Sectors \subseteq AreaOf(File)
      PROVE  ChangesIn(AreaOf(File))
  BY <1>2 DEF Failed, ChangesIn
<1>3. ASSUME flash' = flash PROVE ChangesIn(AreaOf(File))
  BY <1>3 DEF ChangesIn
<1>4. CASE EraseHead
  BY <1>1, <1>2, <1>3, <1>4, EraseInArea DEF EraseHead, HeadMore, LeaveLoop
<1>5. CASE EraseBlocks
  BY <1>1, <1>2, <1>3, <1>5, EraseInArea DEF EraseBlocks, LeaveLoop
<1>6. CASE EraseTail
  BY <1>1, <1>2, <1>3, <1>6, EraseInArea DEF EraseTail, TailMore, LeaveLoop
<1> QED
  BY <1>4, <1>5, <1>6, EraseInArea DEF EraseStep

\* A size takes the sectors that start before its end.
LEMMA SectorsOfSize ==
  ASSUME NEW n \in Nat \ {0}, NEW u \in Nat, NEW i \in Int
  PROVE  /\ (u + n - 1) \div n \in Nat
         /\ i < (u + n - 1) \div n <=> i * n < u
<1> DEFINE q == (u + n - 1) \div n
           t == (u + n - 1) % n
<1>1. q \in Nat /\ t \in 0 .. n - 1 /\ u + n - 1 = q * n + t
  BY SMT
<1> SUFFICES i < q <=> i * n < u
  BY <1>1
<1> HIDE DEF q, t
<1> DEFINE d == q - i
<1>2. d \in Int /\ i * n = q * n - d * n
  BY <1>1
<1> HIDE DEF d
<1>3. CASE d >= 1
  <2>1. d * n >= n
    BY <1>2, <1>3
  <2>2. i * n < u
    BY <1>1, <1>2, <2>1
  <2> QED
    BY <1>1, <1>3, <2>2 DEF d
<1>4. CASE d <= 0
  <2>1. d * n <= 0
    BY <1>2, <1>4
  <2>2. ~ (i * n < u)
    BY <1>1, <1>2, <2>1
  <2> QED
    BY <1>1, <1>4, <2>2 DEF d
<1> QED
  BY <1>2, <1>3, <1>4

\* Where the sectors of a file are.
LEMMA FileLayout ==
  ASSUME CopyingOK, NEW f \in Files
  PROVE  /\ Base[f] \in Nat /\ Span[f] \in Nat /\ length[f] \in Nat
         /\ FileSectors(f) \in Nat
         /\ length[f] <= FileSectors(f) * SectorUnits
         /\ Fits(f) => FileSectors(f) <= Span[f]
         /\ Base[f] + Span[f] <= NumSectors
<1> USE GeometryAssumption
<1>1. Base \in [Files -> Nat] /\ Span \in [Files -> Nat] /\ length \in [Files -> Nat]
  BY LayoutAssumption DEF LayoutAssumption, CopyingOK
<1>2. Base[f] \in Nat /\ Span[f] \in Nat /\ length[f] \in Nat
  BY <1>1
<1>3. FileSectors(f) \in Nat
  BY <1>2, SectorsOfSize DEF FileSectors
<1>4. ~ (FileSectors(f) * SectorUnits < length[f])
  BY <1>2, <1>3, SectorsOfSize DEF FileSectors
<1>5. FileSectors(f) * SectorUnits \in Int
  BY <1>3
<1>6. ASSUME Fits(f) PROVE ~ (Span[f] < FileSectors(f))
  <2>1. length[f] <= Span[f] * SectorUnits
    BY <1>6 DEF Fits
  <2> QED
    BY <1>2, <2>1, SectorsOfSize DEF FileSectors
<1>7. Base[f] + Span[f] <= NumSectors
  BY <1>1, LayoutAssumption DEF LayoutAssumption, Files
<1> QED
  BY <1>2, <1>3, <1>4, <1>5, <1>6, <1>7

LEMMA BufferRounded == AreaInv /\ pc = "write" => Rounded(buffered) \in Nat
<1> SUFFICES ASSUME AreaInv, pc = "write" PROVE Rounded(buffered) \in Nat
  OBVIOUS
<1>1. buffered \in Nat
  BY DEF AreaInv, WritingOK
<1>2. buffered \div SectorUnits \in Nat
  BY <1>1, GeometryAssumption
<1> QED
  BY <1>2 DEF Rounded

(* What the buffer is written to, up to any sector of it, is the file's.     *)
LEMMA WriteInPlace ==
  ASSUME AreaInv, pc = "write",
         NEW n \in 0 .. Rounded(buffered), flash' = Written(n)
  PROVE  plan # <<>> /\ ChangesIn(PlaceOf(File))
<1> USE GeometryAssumption
<1>1. /\ plan # <<>> /\ buffered \in Nat /\ pos \in Nat
      /\ pos + buffered <= length[File] /\ Whole(pos)
  BY DEF AreaInv, CopyingOK, WritingOK
<1> DEFINE n0 == FileSectors(File)
<1>2. /\ Base[File] \in Nat /\ length[File] \in Nat /\ n0 \in Nat
      /\ length[File] <= n0 * SectorUnits
  <2>1. File \in Files
    BY <1>1, Layout DEF AreaInv
  <2> QED
    BY <2>1, FileLayout DEF AreaInv
<1> HIDE DEF n0
<1> PICK at \in Nat : pos = at * SectorUnits
  BY <1>1 DEF Whole
<1>3. pos \div SectorUnits = at
  <2>1. (at * SectorUnits + 0) \div SectorUnits = at
    BY Quotient
  <2> QED
    BY <2>1
<1>4. at * SectorUnits + buffered <= n0 * SectorUnits
  <2>1. n0 * SectorUnits \in Nat
    BY <1>2
  <2> QED
    BY <1>1, <1>2, <2>1
<1>5. Rounded(buffered) \in Nat /\ at + Rounded(buffered) <= n0
  BY <1>1, <1>2, <1>4, BufferFits
<1>6. ASSUME NEW s \in Sectors, flash'[s] # flash[s] PROVE s - Base[File] \in at .. at + n - 1
  BY <1>3, <1>6 DEF Written
<1>7. ASSUME NEW s \in Sectors, flash'[s] # flash[s] PROVE s \in PlaceOf(File)
  <2>1. s \in Int /\ n \in Int /\ n <= Rounded(buffered)
    BY <1>5 DEF Sectors
  <2>2. s - Base[File] >= at /\ s - Base[File] <= at + n - 1
    BY <1>2, <1>6, <1>7, <2>1
  <2> QED
    BY <1>2, <1>5, <2>1, <2>2 DEF PlaceOf, n0
<1> QED
  BY <1>1, <1>7 DEF ChangesIn

(* An update, whole or interrupted anywhere, only changes the area of the    *)
(* image that is being copied and, where its file is longer than that area,  *)
(* the sectors the file takes: for every layout, length of the files, chunk  *)
(* and block size nothing below the image is touched, and what lies behind   *)
(* its area only by the chunks of a file that is too long.                   *)
THEOREM StaysInItsArea == Spec => InItsArea
<1> DEFINE Kept ==
      \A s \in Sectors :
        flash'[s] # flash[s] =>
          /\ plan # <<>>
          /\ s \in AreaOf(File) \/ (pc = "write" /\ s \in PlaceOf(File))
<1>1. Init => AreaInv
  BY DEF Init, AreaInv, AfterOK, CopyingOK, ErasingOK, WritingOK, Files
<1>2. ASSUME AreaInv, [Next]_vars PROVE [Kept]_vars
  <2>1. ASSUME UNCHANGED flash PROVE Kept
    BY <2>1
  <2>2. ASSUME plan # <<>>, ChangesIn(AreaOf(File)) PROVE Kept
    BY <2>2 DEF ChangesIn
  <2>9. ASSUME plan # <<>>, pc = "write", ChangesIn(PlaceOf(File)) PROVE Kept
    BY <2>9 DEF ChangesIn
  <2>3. CASE EraseArea
    BY <1>2, <2>2, <2>3, TurnInArea DEF EraseArea
  <2>4. CASE WriteChunk
    <3>1. pc = "write" /\ \E n \in 0 .. Rounded(buffered) : flash' = Written(n)
      BY <1>2, <2>4, BufferRounded DEF WriteChunk
    <3> QED
      BY <1>2, <2>9, <3>1, WriteInPlace
  <2>5. CASE Interrupted
    <3>1. CASE UNCHANGED flash
      BY <2>1, <3>1
    <3>2. ASSUME pc = "write", NEW n \in 0 .. Rounded(buffered) - 1, flash' = Written(n)
          PROVE  Kept
      <4>1. n \in 0 .. Rounded(buffered)
        BY <1>2, <3>2, BufferRounded
      <4> QED
        BY <1>2, <2>9, <3>2, <4>1, WriteInPlace
    <3>3. ASSUME pc = "erase", current_sector < end,
                 NEW s \in IF loop = "blocks" /\ BlocksMore
                           THEN BlockSectors ELSE {current_sector},
                 flash' = [flash EXCEPT ![s] = Mixed]
          PROVE  Kept
      <4>1. plan # <<>> /\ {s} \cap Sectors \subseteq AreaOf(File)
        BY <1>2, <3>3, EraseInArea
      <4>2. ChangesIn(AreaOf(File))
        BY <3>3, <4>1 DEF ChangesIn
      <4> QED
        BY <2>2, <4>1, <4>2
    <3> QED
      BY <2>5, <3>1, <3>2, <3>3 DEF Interrupted
  <2>6. CASE UNCHANGED flash
    BY <2>1, <2>6
  <2>7. ASSUME NEW m \in Modes \cup {0}, Reset(m) PROVE UNCHANGED flash
    BY <2>7 DEF Reset, eraseVars
  <2>8. ASSUME \/ CommandWrite \/ Start \/ CommandRead \/ CommandClearMagic
               \/ CommandClear \/ OpenMissing \/ OpenFound \/ ReadChunk
               \/ Load \/ LoadFails \/ SwitchOn
        PROVE  UNCHANGED flash
    BY <2>8 DEF CommandWrite, Start, CommandRead, CommandClearMagic, CommandClear,
                OpenMissing, OpenFound, EraseCall, ReadChunk, Load, LoadFails,
                SwitchOn, eraseVars
  <2> QED
    BY <1>2, <2>3, <2>4, <2>5, <2>6, <2>7, <2>8 DEF Next, Loader, PowerLoss, WarmReset, vars, eraseVars
<1> QED
  BY <1>1, <1>2, AreaNextKeeps, CommandInvariant, PTL DEF Spec, InItsArea
-----------------------------------------------------------------------------
(* An update is complete.                                                    *)

Busy == IF pc \in {"erase", "chunk", "write"} THEN {File} ELSE {}

\* The images copied in this boot, but for the one that is being copied.
OthersInstalled ==
  /\ updated \subseteq Files
  /\ pc \notin {"off", "dead", "start", "command"} =>
       \A f \in updated \ Busy : Undisturbed(f) => Installed(f)

\* As long as nothing failed, what the erase has passed is blank, and so is what is
\* behind the part of the file that is written.
BlankBehind ==
  pc = "erase" /\ File \in updated =>
    \A s \in Sectors : Base[File] <= s /\ s < current_sector => flash[s] = Blank

CopiedUpTo(units) ==
  \A i \in 0 .. FileSectors(File) - 1 :
    flash[Base[File] + i] = IF i * SectorUnits < units THEN <<File, i>> ELSE Blank

CopiedSoFar ==
  /\ pc \in {"chunk", "write"} /\ File \in updated /\ Fits(File) => CopiedUpTo(pos)
  /\ pc \in {"erase", "chunk", "write"} /\ File \in updated => ~ fileErr

CopyInv == OthersInstalled /\ BlankBehind /\ CopiedSoFar

LEMMA SectorsOfBuffer ==
  ASSUME NEW br \in Nat, NEW i \in Int
  PROVE  i < Rounded(br) <=> i * SectorUnits < br
<1> USE GeometryAssumption
<1> DEFINE q == br \div SectorUnits
           r == br % SectorUnits
<1>1. q \in Nat /\ r \in 0 .. SectorUnits - 1 /\ br = q * SectorUnits + r
  BY SMT
<1>2. Rounded(br) = q + (IF r = 0 THEN 0 ELSE 1)
  BY DEF Rounded
<1> HIDE DEF q, r
<1> DEFINE d == q - i
<1>3. d \in Int /\ i * SectorUnits = q * SectorUnits - d * SectorUnits
  BY <1>1
<1> HIDE DEF d
<1>4. CASE d >= 1
  <2>1. d * SectorUnits >= SectorUnits
    BY <1>3, <1>4
  <2>2. i * SectorUnits < br
    BY <1>1, <1>3, <2>1
  <2> QED
    BY <1>1, <1>2, <1>4, <2>2 DEF d
<1>5. CASE d = 0
  <2>1. i = q /\ i * SectorUnits = q * SectorUnits
    BY <1>1, <1>5 DEF d
  <2> QED
    BY <1>1, <1>2, <2>1
<1>6. CASE d <= -1
  <2>1. d * SectorUnits <= -SectorUnits
    BY <1>3, <1>6
  <2>2. ~ (i * SectorUnits < br)
    BY <1>1, <1>3, <2>1
  <2> QED
    BY <1>1, <1>2, <1>6, <2>2 DEF d
<1> QED
  BY <1>3, <1>4, <1>5, <1>6

\* Where it may be changed: the area, and what the file takes behind it.
ChangesOwn == ChangesIn(AreaOf(File) \cup PlaceOf(File))

LEMMA OwnChanges ==
  ASSUME ChangesIn(AreaOf(File)) \/ ChangesIn(PlaceOf(File))
  PROVE  ChangesOwn
BY DEF ChangesOwn, ChangesIn

\* The areas of two images have no sector in common, so that a file that is
\* installed stays so while the other is copied, if the lower one fits.
LEMMA OtherStays ==
  ASSUME AreaInv, plan # <<>>, ChangesOwn, UNCHANGED length,
         NEW f \in Files, f # File, Undisturbed(f), Installed(f)
  PROVE  Installed(f)'
<1> USE DEF AreaInv
<1>1. File \in Files
  BY Layout
<1>2. /\ Base[f] \in Nat /\ Span[f] \in Nat /\ FileSectors(f) \in Nat
      /\ Fits(f) => FileSectors(f) <= Span[f]
  BY FileLayout
<1>3. /\ Base[File] \in Nat /\ Span[File] \in Nat /\ FileSectors(File) \in Nat
      /\ Fits(File) => FileSectors(File) <= Span[File]
  BY <1>1, FileLayout
<1>4. \/ Base[f] + Span[f] <= Base[File]
      \/ Base[File] + Span[File] <= Base[f]
  <2>1. Base["firmware"] + Span["firmware"] <= Base["oc"]
    BY LayoutAssumption DEF LayoutAssumption
  <2>2. {f, File} = {"firmware", "oc"}
    BY <1>1 DEF Files
  <2>3. CASE f = "firmware" /\ File = "oc"
    BY <2>1, <2>3
  <2>4. CASE f = "oc" /\ File = "firmware"
    BY <2>1, <2>4
  <2> QED
    BY <2>2, <2>3, <2>4
<1>5. Fits(f)
  BY <1>2 DEF Undisturbed
<1>6. Base[File] <= Base[f] => Fits(File)
  BY <1>1 DEF Undisturbed
<1>7. \A s \in AreaOf(File) \cup PlaceOf(File) :
        s < Base[f] \/ Base[f] + FileSectors(f) <= s
  <2> SUFFICES ASSUME NEW s \in AreaOf(File) \cup PlaceOf(File)
               PROVE  s < Base[f] \/ Base[f] + FileSectors(f) <= s
    OBVIOUS
  <2> DEFINE b == Base[File]
             m == Span[File]
             k == FileSectors(File)
             c == Base[f]
             e == Span[f]
             l == FileSectors(f)
  <2>1. s \in b .. b + m - 1 \/ s \in b .. b + k - 1
    BY DEF AreaOf, PlaceOf
  <2>2. /\ b \in Nat /\ m \in Nat /\ k \in Nat /\ c \in Nat /\ e \in Nat /\ l \in Nat
        /\ l <= e
    BY <1>2, <1>3, <1>5
  <2>3. b <= c => k <= m
    BY <1>3, <1>6
  <2>4. c + e <= b \/ b + m <= c
    BY <1>4
  <2> HIDE DEF b, m, k, c, e, l
  <2>5. s < c \/ c + l <= s
    BY <2>1, <2>2, <2>3, <2>4
  <2> QED
    BY <2>5 DEF c, l
<1>8. ASSUME NEW i \in 0 .. FileSectors(f) - 1
      PROVE  Base[f] + i \in Sectors /\ flash'[Base[f] + i] = <<f, i>>
  <2>1. Base[f] + i \in Sectors /\ flash[Base[f] + i] = <<f, i>>
    BY DEF Installed
  <2>2. Base[f] + i \notin AreaOf(File) \cup PlaceOf(File)
    BY <1>2, <1>7
  <2> QED
    BY <2>1, <2>2 DEF ChangesOwn, ChangesIn
<1> QED
  BY <1>8 DEF Installed, FileSectors

\* What a step that changes neither keeps.
LEMMA SameFlash ==
  ASSUME UNCHANGED <<flash, length>>
  PROVE  \A f \in Files : (Installed(f)' <=> Installed(f))
                          /\ (Undisturbed(f)' <=> Undisturbed(f)) /\ (Fits(f)' <=> Fits(f))
BY DEF Installed, FileSectors, Undisturbed, Fits

\* Whether a file fits is a matter of the card.
LEMMA SameCard ==
  ASSUME UNCHANGED length
  PROVE  \A f \in Files : (Undisturbed(f)' <=> Undisturbed(f)) /\ (Fits(f)' <=> Fits(f))
BY DEF Undisturbed, Fits

LEMMA UndisturbedFits ==
  ASSUME CopyingOK, NEW f \in Files, Undisturbed(f) PROVE Fits(f)
<1>1. Base[f] \in Nat
  BY FileLayout
<1> QED
  BY <1>1 DEF Undisturbed

\* Every step that leaves the flash and the images alone, between two files.
LEMMA BetweenFiles ==
  ASSUME CopyInv, Busy = {}, UNCHANGED <<flash, length>>, updated' \subseteq updated,
         pc' \notin {"erase", "chunk", "write"},
         pc' \in {"off", "dead", "start", "command"}
         \/ pc \notin {"off", "dead", "start", "command"}
  PROVE  CopyInv'
<1>1. OthersInstalled'
  BY SameFlash DEF CopyInv, OthersInstalled
<1> QED
  BY <1>1 DEF CopyInv, BlankBehind, CopiedSoFar

LEMMA OpenCopies == AreaInv /\ CopyInv /\ OpenFound => CopyInv'
<1> SUFFICES ASSUME AreaInv, CopyInv, OpenFound PROVE CopyInv'
  OBVIOUS
<1>1. /\ pc = "open" /\ pc' = "erase" /\ plan # <<>> /\ plan' = plan /\ flash' = flash
      /\ length' = length /\ updated' = updated \cup {File} /\ fileErr' = FALSE
  BY DEF OpenFound, EraseCall, AreaInv, CopyingOK
<1>2. File \in Files /\ Base[File] \in Nat
  BY <1>1, Layout DEF AreaInv
<1>3. File' = File
  BY <1>1 DEF File
<1>4. \A f \in Files : (Installed(f)' <=> Installed(f))
                       /\ (Undisturbed(f)' <=> Undisturbed(f))
  BY <1>1, SameFlash
<1>5. OthersInstalled'
  BY <1>1, <1>2, <1>3, <1>4 DEF CopyInv, OthersInstalled, Busy
<1>6. current_sector' = Base[File]
  <2>1. (Base[File] * SectorUnits + 0) \div SectorUnits = Base[File]
    BY <1>2, Quotient, GeometryAssumption
  <2>2. Base[File] * SectorUnits + 0 = Base[File] * SectorUnits
    BY <1>2, GeometryAssumption
  <2> QED
    BY <2>1, <2>2 DEF OpenFound, EraseCall
<1>7. BlankBehind'
  BY <1>2, <1>3, <1>6 DEF BlankBehind, Sectors
<1>8. CopiedSoFar'
  BY <1>1 DEF CopiedSoFar
<1> QED
  BY <1>5, <1>7, <1>8 DEF CopyInv

\* A turn of an erase loop leaves what is behind it blank, or fails.
LEMMA TurnBlanks ==
  ASSUME NEW b \in Nat, b <= current_sector, current_sector \in Nat, end \in Nat,
         current_sector <= end, OnBoundary, EraseStep,
         \A s \in Sectors : b <= s /\ s < current_sector => flash[s] = Blank
  PROVE  \/ loop' = "none" /\ result' # 0
         \/ \A s \in Sectors : b <= s /\ s < current_sector' => flash'[s] = Blank
<1> USE GeometryAssumption
<1>1. CASE EraseHead
  BY <1>1 DEF EraseHead, HeadMore, Erase, Failed, LeaveLoop, Sectors
<1>2. CASE EraseBlocks
  <2>1. CASE BlocksMore /\ Erase(BlockSectors, SectorsPerBlock)
    <3>1. current_sector % SectorsPerBlock = 0
      BY <1>2, <2>1 DEF EraseBlocks, OnBoundary, BlocksMore
    <3>2. (current_sector \div SectorsPerBlock) * SectorsPerBlock = current_sector
      BY <3>1, WholeBlock
    <3>3. BlockSectors = {s \in Sectors : current_sector <= s
                                          /\ s < current_sector + SectorsPerBlock}
      BY <3>2 DEF BlockSectors
    <3> QED
      BY <2>1, <3>3 DEF Erase, Sectors
  <2>2. CASE BlocksMore /\ Failed(BlockSectors, 3)
    BY <2>2 DEF Failed
  <2>3. CASE LeaveLoop("tail")
    BY <2>3 DEF LeaveLoop
  <2> QED
    BY <1>2, <2>1, <2>2, <2>3 DEF EraseBlocks
<1>3. CASE EraseTail
  BY <1>3 DEF EraseTail, TailMore, Erase, Failed, LeaveLoop, Sectors
<1> QED
  BY <1>1, <1>2, <1>3 DEF EraseStep

\* The loops end before the end of the area only if they fail.
LEMMA EndsAtEnd ==
  ASSUME current_sector \in Nat, end \in Nat, current_sector <= end,
         EraseStep, loop' = "none", result' = 0
  PROVE  current_sector' = end
BY DEF EraseStep, EraseHead, EraseBlocks, EraseTail, Erase, Failed, LeaveLoop, TailMore,
       HeadMore

LEMMA EraseCopies == AreaInv /\ CopyInv /\ EraseArea => CopyInv'
<1> SUFFICES ASSUME AreaInv, CopyInv, EraseArea PROVE CopyInv'
  OBVIOUS
<1>1. /\ pc = "erase" /\ plan # <<>> /\ plan' = plan /\ EraseStep
      /\ pc' = (IF loop' = "none" THEN "chunk" ELSE "erase")
      /\ length' = length /\ pos' = pos /\ fileErr' = fileErr /\ updated' \subseteq updated
      /\ loop' = "none" /\ result' # 0 => updated' = updated \ {File}
  BY DEF EraseArea, AreaInv, CopyingOK
<1>2. /\ File \in Files /\ Base[File] \in Nat /\ Span[File] \in Nat /\ FileSectors(File) \in Nat
      /\ Fits(File) => FileSectors(File) <= Span[File]
      /\ Base[File] + Span[File] <= NumSectors
  BY <1>1, Layout, FileLayout DEF AreaInv
<1>3. File' = File
  BY <1>1 DEF File
<1>4. /\ current_sector \in Nat /\ end \in Nat /\ Base[File] <= current_sector
      /\ current_sector <= end /\ end = Base[File] + Span[File] /\ OnBoundary /\ pos = 0
  BY <1>1 DEF AreaInv, ErasingOK
<1>5. ChangesOwn
  BY <1>1, TurnInArea, OwnChanges
<1>6. OthersInstalled'
  <2>1. \A f \in updated \ {File} : Undisturbed(f)' => Installed(f)'
    BY <1>1, <1>5, OtherStays, SameCard DEF CopyInv, OthersInstalled, Busy
  <2> QED
    BY <1>1, <1>3, <2>1 DEF CopyInv, OthersInstalled, Busy
<1>7. ASSUME File \in updated'
      PROVE  \A s \in Sectors : Base[File] <= s /\ s < current_sector' => flash'[s] = Blank
  <2>1. \A s \in Sectors : Base[File] <= s /\ s < current_sector => flash[s] = Blank
    BY <1>1, <1>7 DEF CopyInv, BlankBehind
  <2>2. ~ (loop' = "none" /\ result' # 0)
    BY <1>1, <1>7
  <2> QED
    BY <1>1, <1>2, <1>4, <2>1, <2>2, TurnBlanks
<1>8. BlankBehind'
  BY <1>3, <1>7 DEF BlankBehind
<1>9. ASSUME File \in updated', pc' = "chunk", Fits(File) PROVE CopiedUpTo(pos)'
  <2>1. current_sector' = end
    BY <1>1, <1>4, <1>9, EndsAtEnd
  <2>2. ASSUME NEW i \in 0 .. FileSectors(File) - 1
        PROVE  flash'[Base[File] + i] = Blank /\ ~ (i * SectorUnits < 0)
    <3>1. Base[File] + i \in Sectors /\ Base[File] <= Base[File] + i /\ Base[File] + i < end
      BY <1>2, <1>4, <1>9, GeometryAssumption DEF Sectors
    <3>2. ~ (i * SectorUnits < 0)
      BY <1>2, GeometryAssumption
    <3> QED
      BY <1>7, <1>9, <2>1, <3>1, <3>2
  <2> QED
    BY <1>1, <1>3, <1>4, <2>2 DEF CopiedUpTo, FileSectors
<1>10. CopiedSoFar'
  BY <1>1, <1>2, <1>3, <1>9, SameCard DEF CopyInv, CopiedSoFar
<1> QED
  BY <1>6, <1>8, <1>10 DEF CopyInv

\* The end of the file is only missed if a read fails.
LEMMA ReadCopies == AreaInv /\ CopyInv /\ ReadChunk => CopyInv'
<1> SUFFICES ASSUME AreaInv, CopyInv, ReadChunk PROVE CopyInv'
  OBVIOUS
<1>1. /\ pc = "chunk" /\ plan # <<>> /\ flash' = flash /\ pos' = pos
      /\ length' = length
      /\ updated' \subseteq updated
  BY DEF ReadChunk, eraseVars, AreaInv, CopyingOK
<1>2. /\ File \in Files /\ FileSectors(File) \in Nat /\ length[File] \in Nat
      /\ pos \in Nat /\ pos <= length[File]
  BY <1>1, Layout, FileLayout DEF AreaInv, WritingOK
<1>3. \A f \in Files : /\ Installed(f)' <=> Installed(f)
                       /\ Undisturbed(f)' <=> Undisturbed(f)
                       /\ Fits(f)' <=> Fits(f)
  BY <1>1, SameFlash
<1>4. CASE buffered' = 0 /\ NextFile
  <2>1. ASSUME File \in updated', Undisturbed(File) PROVE Installed(File)
    <3> Fits(File) /\ FileSectors(File) <= Span[File] /\ Base[File] + Span[File] <= NumSectors
        /\ Base[File] \in Nat /\ Span[File] \in Nat
      BY <1>1, <1>2, <2>1, UndisturbedFits, FileLayout DEF AreaInv
    <3>1. Rest = 0 /\ CopiedUpTo(pos)
      BY <1>1, <1>4, <2>1 DEF ReadChunk, CopyInv, CopiedSoFar
    <3> DEFINE most == ChunkSectors * SectorUnits
               all == length[File]
    <3>2. most \in Nat /\ most > 0
      BY GeometryAssumption, LayoutAssumption DEF LayoutAssumption
    <3>3. pos = length[File]
      <4>1. (IF all - pos < most THEN all - pos ELSE most) = 0
        BY <3>1 DEF Rest
      <4>2. all \in Nat /\ pos \in Nat
        BY <1>2
      <4> HIDE DEF most, all
      <4>3. pos = all
        BY <3>2, <4>1, <4>2
      <4> QED
        BY <4>3 DEF all
    <3>4. \A i \in 0 .. FileSectors(File) - 1 : i * SectorUnits < length[File]
      BY <1>2, SectorsOfSize, GeometryAssumption DEF FileSectors
    <3>5. \A i \in 0 .. FileSectors(File) - 1 : Base[File] + i \in Sectors
      BY <1>2, GeometryAssumption DEF Sectors
    <3> QED
      BY <1>2, <3>1, <3>3, <3>4, <3>5 DEF CopiedUpTo, Installed
  <2>2. pc' \in {"open", "read", "load"}
    BY <1>4 DEF NextFile, AreaInv, AfterOK
  <2>3. OthersInstalled'
    BY <1>1, <1>2, <1>3, <2>1, <2>2 DEF CopyInv, OthersInstalled, Busy
  <2> QED
    BY <2>2, <2>3 DEF CopyInv, BlankBehind, CopiedSoFar
<1>5. CASE pc' = "write" /\ plan' = plan
  <2>1. File' = File
    BY <1>5 DEF File
  <2>2. OthersInstalled'
    BY <1>1, <1>3, <1>5, <2>1 DEF CopyInv, OthersInstalled, Busy
  <2>3. CopiedUpTo(pos) => CopiedUpTo(pos)'
    BY <1>1, <2>1 DEF CopiedUpTo, FileSectors
  <2>4. File \in updated' => fileErr' = fileErr
    BY DEF ReadChunk
  <2>5. CopiedSoFar'
    BY <1>1, <1>2, <1>3, <1>5, <2>1, <2>3, <2>4 DEF CopyInv, CopiedSoFar
  <2> QED
    BY <1>5, <2>2, <2>5 DEF CopyInv, BlankBehind
<1> QED
  BY <1>4, <1>5 DEF ReadChunk

\* A buffer that is written whole continues the file where it ended.
LEMMA BufferCopied ==
  ASSUME AreaInv, pc = "write", Fits(File), CopiedUpTo(pos),
         flash' = Written(Rounded(buffered)),
         NEW i \in 0 .. FileSectors(File) - 1
  PROVE  flash'[Base[File] + i] = IF i * SectorUnits < pos + buffered THEN <<File, i>> ELSE Blank
<1> USE GeometryAssumption
<1>1. /\ plan # <<>> /\ buffered \in Nat /\ pos \in Nat /\ Whole(pos)
  BY DEF AreaInv, CopyingOK, WritingOK
<1>2. /\ Base[File] \in Nat /\ Span[File] \in Nat /\ FileSectors(File) \in Nat
      /\ FileSectors(File) <= Span[File] /\ Base[File] + Span[File] <= NumSectors
  BY <1>1, Layout, FileLayout DEF AreaInv
<1> PICK at \in Nat : pos = at * SectorUnits
  BY <1>1 DEF Whole
<1>3. pos \div SectorUnits = at
  <2>1. (at * SectorUnits + 0) \div SectorUnits = at
    BY Quotient
  <2> QED
    BY <2>1
<1> DEFINE s == Base[File] + i
           n == Rounded(buffered)
<1>4. i \in Nat /\ s \in Sectors /\ s - Base[File] = i /\ n \in Nat
  BY <1>2, BufferRounded DEF Sectors
<1>5. flash[s] = IF i * SectorUnits < pos THEN <<File, i>> ELSE Blank
  BY DEF CopiedUpTo
<1>6. flash'[s] = IF i \in at .. at + n - 1
                  THEN IF flash[s] \in {Blank, <<File, i>>} THEN <<File, i>> ELSE Mixed
                  ELSE flash[s]
  BY <1>3, <1>4 DEF Written
<1>7. i < at <=> i * SectorUnits < pos
  <2>1. i < at => i * SectorUnits < at * SectorUnits
    <3>1. (at - i) * SectorUnits = at * SectorUnits - i * SectorUnits
      BY <1>4
    <3>2. i < at => (at - i) * SectorUnits >= SectorUnits
      BY <1>4
    <3>3. i * SectorUnits \in Nat /\ at * SectorUnits \in Nat
      BY <1>4
    <3> QED
      BY <3>1, <3>2, <3>3
  <2> QED
    BY <1>4, <2>1, Factors
<1>8. i - at < n <=> i * SectorUnits < pos + buffered
  <2>1. i - at < n <=> (i - at) * SectorUnits < buffered
    BY <1>1, <1>4, SectorsOfBuffer
  <2>2. (i - at) * SectorUnits = i * SectorUnits - pos
    BY <1>4
  <2>3. i * SectorUnits \in Nat
    BY <1>4
  <2> QED
    BY <1>1, <2>1, <2>2, <2>3
<1> DEFINE before == i * SectorUnits < pos
           there  == i * SectorUnits < pos + buffered
<1>9. before => there
  <2>1. i * SectorUnits \in Nat
    BY <1>4
  <2> QED
    BY <1>1, <2>1
<1> HIDE DEF before, there, s, n
<1>10. i \in at .. at + n - 1 <=> ~ before /\ there
  BY <1>4, <1>7, <1>8 DEF before, there, n
<1>11. flash[s] = IF before THEN <<File, i>> ELSE Blank
  BY <1>5 DEF before, s
<1>12. flash'[s] = IF there THEN <<File, i>> ELSE Blank
  BY <1>6, <1>9, <1>10, <1>11
<1> QED
  BY <1>12 DEF there, s

LEMMA WriteCopies == AreaInv /\ CopyInv /\ WriteChunk => CopyInv'
<1> SUFFICES ASSUME AreaInv, CopyInv, WriteChunk PROVE CopyInv'
  OBVIOUS
<1>1. /\ pc = "write" /\ pc' = "chunk" /\ plan # <<>> /\ plan' = plan
      /\ pos' = pos + buffered /\ fileErr' = fileErr
      /\ length' = length /\ updated' \subseteq updated
  BY DEF WriteChunk, AreaInv, CopyingOK
<1>2. File' = File /\ File \in Files
  BY <1>1, Layout DEF File, AreaInv
<1>3. ChangesOwn
  <2>1. \E n \in 0 .. Rounded(buffered) : flash' = Written(n)
    BY <1>1, BufferRounded DEF WriteChunk
  <2> QED
    BY <1>1, <2>1, WriteInPlace, OwnChanges
<1>4. OthersInstalled'
  <2>1. \A f \in updated \ {File} : Undisturbed(f)' => Installed(f)'
    BY <1>1, <1>3, OtherStays, SameCard DEF CopyInv, OthersInstalled, Busy
  <2> QED
    BY <1>1, <1>2, <2>1 DEF CopyInv, OthersInstalled, Busy
<1>5. ASSUME File \in updated', Fits(File) PROVE CopiedUpTo(pos)'
  <2>1. flash' = Written(Rounded(buffered)) /\ CopiedUpTo(pos)
    BY <1>1, <1>5 DEF WriteChunk, CopyInv, CopiedSoFar
  <2>2. \A i \in 0 .. FileSectors(File) - 1 :
          flash'[Base[File] + i] = IF i * SectorUnits < pos + buffered THEN <<File, i>> ELSE Blank
    BY <1>1, <1>5, <2>1, BufferCopied
  <2> QED
    BY <1>1, <1>2, <2>2 DEF CopiedUpTo, FileSectors
<1>6. CopiedSoFar'
  BY <1>1, <1>2, <1>5, SameCard DEF CopyInv, CopiedSoFar
<1> QED
  BY <1>1, <1>4, <1>6 DEF CopyInv, BlankBehind

LEMMA CopyNextKeeps == AreaInv /\ CopyInv /\ [Next]_vars => CopyInv'
<1> SUFFICES ASSUME AreaInv, CopyInv, [Next]_vars PROVE CopyInv'
  OBVIOUS
<1>1. ASSUME NEW m \in Modes \cup {0}, Reset(m) PROVE CopyInv'
  BY <1>1, BetweenFiles DEF Reset, Busy, eraseVars, copyVars
<1>2. CASE CommandWrite
  BY <1>2, BetweenFiles DEF CommandWrite, Busy, eraseVars, copyVars
<1>3. CASE Start
  BY <1>3 DEF Start, CopyInv, OthersInstalled, BlankBehind, CopiedSoFar
<1>4. CASE CommandRead
  BY <1>4, BetweenFiles DEF CommandRead, Busy, eraseVars, copyVars
<1>5. CASE CommandClearMagic
  BY <1>5, BetweenFiles DEF CommandClearMagic, Busy, eraseVars, copyVars
<1>6. CASE CommandClear
  BY <1>6, BetweenFiles DEF CommandClear, Busy, eraseVars
<1>7. CASE OpenMissing
  <2>1. pc' \in {"open", "read", "load"}
    BY <1>7 DEF OpenMissing, NextFile, AreaInv, AfterOK
  <2> QED
    BY <1>7, <2>1, BetweenFiles DEF OpenMissing, Busy, eraseVars
<1>8. CASE OpenFound
  BY <1>8, OpenCopies
<1>9. CASE EraseArea
  BY <1>9, EraseCopies
<1>10. CASE ReadChunk
  BY <1>10, ReadCopies
<1>11. CASE WriteChunk
  BY <1>11, WriteCopies
<1>12. CASE Load \/ LoadFails
  BY <1>12, BetweenFiles DEF Load, LoadFails, Busy, eraseVars, copyVars
<1>13. CASE SwitchOn \/ PowerLoss \/ WarmReset
  BY <1>13 DEF SwitchOn, PowerLoss, WarmReset, PowerUp, copyVars, CopyInv, OthersInstalled,
               BlankBehind, CopiedSoFar
<1>14. CASE UNCHANGED vars
  <2>1. UNCHANGED <<flash, length, pc, plan, pos, updated, fileErr, current_sector>>
    BY <1>14 DEF vars, copyVars, eraseVars
  <2>2. File' = File /\ (\A f : Installed(f)' <=> Installed(f))
        /\ (\A f : Undisturbed(f)' <=> Undisturbed(f)) /\ (\A f : Fits(f)' <=> Fits(f))
        /\ (CopiedUpTo(pos)' <=> CopiedUpTo(pos))
    BY <2>1 DEF File, Installed, CopiedUpTo, FileSectors, Undisturbed, Fits
  <2> QED
    BY <2>1, <2>2 DEF CopyInv, OthersInstalled, BlankBehind, CopiedSoFar, Busy
<1> QED
  BY <1>1, <1>2, <1>3, <1>4, <1>5, <1>6, <1>7, <1>8, <1>9, <1>10, <1>11, <1>12,
     <1>13, <1>14 DEF Next, Loader

(* An image that flash_binary has been through without a failure is in the   *)
(* flash as it is on the card, for every layout, length of the files, size   *)
(* of chunks and blocks, and whatever earlier resets had left in its area,   *)
(* unless it or a file below it is longer than its area.                     *)
THEOREM UpdateIsInstalled == Spec => []UpdateInstalled
<1>1. Init => AreaInv /\ CopyInv
  BY DEF Init, AreaInv, AfterOK, CopyingOK, ErasingOK, WritingOK, Files,
         CopyInv, OthersInstalled, BlankBehind, CopiedSoFar
<1>2. CopyInv => UpdateInstalled
  BY DEF CopyInv, OthersInstalled, UpdateInstalled, Busy
<1> QED
  BY <1>1, <1>2, AreaNextKeeps, CopyNextKeeps, CommandInvariant, PTL DEF Spec
=============================================================================
