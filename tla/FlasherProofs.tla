--------------------------- MODULE FlasherProofs ----------------------------
(***************************************************************************)
(* The incremental mode of esp-flasher, for images of every size, groups   *)
(* of every even number of sectors, blocks of every size and every place   *)
(* in the flash; and flash_mem over the serial line, for all images that   *)
(* lie apart, and any number of requests and answers that are lost.        *)
(***************************************************************************)
EXTENDS IncrementalFlash, SerialFlash, WellFoundedInduction, SequenceTheorems,
        FiniteSetTheorems, TLAPS

FlashTypeOK ==
  /\ size \in Nat \ {0} /\ differ \subseteq 0 .. size - 1
  /\ pc \in {"dry", "real", "done", "failed"}
  /\ offset \in Nat /\ blocks \in Nat /\ base \in Nat
  /\ written \subseteq 0 .. size - 1

\* The sector comes right behind a whole group that was written.
Behind(s) == s >= Group /\ \A i \in 1 .. Group : s - i \in written

\* The dry run only counts.
DryUntouched == pc = "dry" => written = {} /\ erased = {}

\* What the loop has passed is the same, or written, or comes behind a piece.
PassedIsDone ==
  pc = "real" => \A s \in differ \ written : s < offset => Behind(s)

\* Nothing is erased in vain, but the sector behind the image.
ErasedIsWritten == pc \in {"real", "done"} => erased \subseteq written \cup {size}

FlashInv ==
  /\ FlashTypeOK /\ DryUntouched /\ PassedIsDone
  /\ written \subseteq erased /\ ErasedIsWritten /\ LeftOutBehindPiece
-----------------------------------------------------------------------------
(* What a piece is *)

(* Rounding up to groups makes a piece of a group at least, and of an even   *)
(* number of sectors.                                                        *)
LEMMA WholeGroups ==
  ASSUME NEW n \in Nat \ {0}, NEW up, up = ((n + Group - 1) \div Group) * Group
  PROVE  up \in Nat /\ up >= n /\ up >= Group /\ up % 2 = 0
<1> DEFINE q == (n + Group - 1) \div Group
<1>1. Group \in Nat \ {0} /\ Group % 2 = 0
  BY IncrementalAssumption
<1>2. q \in Int /\ q * Group <= n + Group - 1 /\ n + Group - 1 < q * Group + Group
  BY <1>1, SMT
<1>3. up = q * Group
  OBVIOUS
<1> HIDE DEF q
<1>4. q >= 1
  <2> SUFFICES ASSUME q <= 0 PROVE FALSE
    BY <1>2
  <2>1. q * Group <= 0
    BY <1>1, <1>2
  <2> QED
    BY <1>1, <1>2, <2>1
<1>5. q * Group >= Group
  BY <1>1, <1>2, <1>4
<1>6. (q * Group) % 2 = 0
  <2>1. PICK h \in Int : Group = 2 * h
    BY <1>1
  <2>2. q * Group = 2 * (q * h)
    BY <1>2, <2>1
  <2> DEFINE e == q * h
  <2>3. e \in Int
    BY <1>2, <2>1
  <2> HIDE DEF e
  <2> QED
    BY <2>2, <2>3 DEF e
<1>7. q * Group \in Int
  BY <1>1, <1>2
<1> DEFINE p == q * Group
<1> HIDE DEF p
<1> QED
  BY <1>1, <1>2, <1>3, <1>5, <1>6, <1>7 DEF p

(* The comparison stops at the first sector that is the same.                *)
LEMMA RunStops ==
  ASSUME FlashTypeOK, Turn
  PROVE  /\ Run \in 0 .. size - offset
         /\ \A i \in 0 .. Run - 1 : offset + i \in differ
         /\ offset + Run < size => offset + Run \notin differ
<1> DEFINE Stops == {n \in 0 .. size - offset : offset + n < size => offset + n \notin differ}
           R == OpToRel(<, Nat)
<1>1. Stops \subseteq Nat /\ size - offset \in Stops
  BY DEF FlashTypeOK, Turn
<1>2. \A x, y \in Nat : ~(<<y, x>> \in R) => x <= y
  BY DEF OpToRel
<1>3. IsWellFoundedOn(R, Nat)
  BY NatLessThanWellFounded
<1> HIDE DEF R
<1>4. PICK n \in Stops : \A m \in Stops : ~(<<m, n>> \in R)
  <2>1. Stops # {}
    BY <1>1
  <2> HIDE DEF Stops
  <2> QED
    BY <1>1, <1>3, <2>1, WFMin
<1>5. \A m \in Stops : n <= m
  BY <1>1, <1>2, <1>4
<1>6. n \in 0 .. size - offset /\ (offset + n < size => offset + n \notin differ)
  OBVIOUS
<1>7. \A i \in 0 .. n - 1 : offset + i \in differ
  <2> SUFFICES ASSUME NEW i \in 0 .. n - 1, offset + i \notin differ PROVE FALSE
    OBVIOUS
  <2>1. i \in Stops /\ n \in Int
    BY <1>6 DEF FlashTypeOK, Turn
  <2> HIDE DEF Stops
  <2> QED
    BY <1>5, <2>1
<1>8. \E k \in 0 .. size - offset :
        /\ \A i \in 0 .. k - 1 : offset + i \in differ
        /\ offset + k < size => offset + k \notin differ
  BY <1>6, <1>7
<1> HIDE DEF Stops
<1> QED
  BY <1>8 DEF Run

(* A piece lies inside the image; it is empty when the sector is the same,   *)
(* and otherwise ends the image or is of whole groups.                       *)
LEMMA PieceOfGroups ==
  ASSUME FlashTypeOK, Turn
  PROVE  /\ Run \in Nat
         /\ Run = 0 => offset \notin differ /\ Piece = 0
         /\ Run > 0 =>
              /\ Piece \in 1 .. size - offset
              /\ offset + Piece = size \/ (Piece >= Group /\ Piece % 2 = 0)
<1> DEFINE up == ((Run + Group - 1) \div Group) * Group
<1>1. Run \in 0 .. size - offset /\ (offset + Run < size => offset + Run \notin differ)
  BY RunStops
<1>2. size \in Nat /\ offset \in Nat /\ offset < size
  BY DEF FlashTypeOK, Turn
<1>3. Piece = IF offset + up > size THEN size - offset ELSE up
  BY DEF Piece, RoundedToGroup
<1>4. CASE Run = 0
  <2>1. (0 + Group - 1) \div Group = 0
    BY IncrementalAssumption, SMT
  <2>2. up = 0
    BY <1>4, <2>1, IncrementalAssumption
  <2> HIDE DEF up
  <2> QED
    BY <1>1, <1>2, <1>3, <1>4, <2>2
<1>5. CASE Run > 0
  <2>1. Run \in Nat \ {0}
    BY <1>1, <1>2, <1>5
  <2>2. up \in Nat /\ up >= Run /\ up >= Group /\ up % 2 = 0
    BY <2>1, WholeGroups
  <2> HIDE DEF up
  <2> QED
    BY <1>1, <1>2, <1>3, <1>5, <2>1, <2>2
<1> QED
  BY <1>1, <1>2, <1>4, <1>5
-----------------------------------------------------------------------------
(* What the ROM erases *)

(* The least of two numbers. *)
LEMMA FixIsLeast ==
  ASSUME NEW start \in Nat, NEW n \in Nat
  PROVE  /\ Fix(start, n) \in Nat
         /\ Fix(start, n) = IF n <= Block - (start % Block) THEN n ELSE Block - (start % Block)
<1> DEFINE d == Block - (start % Block)
<1>1. d \in Nat
  BY BlockAssumption, SMT
<1> HIDE DEF d
<1>2. Fix(start, n) = CHOOSE x \in {n, d} : \A y \in {n, d} : x =< y
  BY DEF Fix, Min, d
<1>3. \E x \in {n, d} : \A y \in {n, d} : x =< y
  BY <1>1
<1>4. Fix(start, n) \in {n, d} /\ \A y \in {n, d} : Fix(start, n) =< y
  BY <1>2, <1>3
<1>5. Fix(start, n) = IF n <= d THEN n ELSE d
  BY <1>1, <1>4
<1> QED
  BY <1>1, <1>5 DEF d

(* The size flash_start sends makes the ROM erase the sectors asked for, and *)
(* one more if their number is odd.                                          *)
LEMMA StartErases ==
  ASSUME NEW start \in Nat, NEW n \in Nat
  PROVE  \/ Erased(start, n) = start .. start + n - 1
         \/ n % 2 = 1 /\ Erased(start, n) = start .. start + n
<1> DEFINE d == Block - (start % Block)
           m == EraseSize(start, n)
<1>1. d \in Nat \ {0}
  BY BlockAssumption, SMT
<1>2. Fix(start, n) = IF n <= d THEN n ELSE d
  BY <1>1, FixIsLeast
<1>3. m = IF n < 2 * Fix(start, n) THEN (n + 1) \div 2 ELSE n - Fix(start, n)
  BY DEF EraseSize
<1>4. m \in Nat
  <2> HIDE DEF d
  <2> QED
    BY <1>1, <1>2, <1>3
<1>5. Fix(start, m) = IF m <= d THEN m ELSE d
  BY <1>1, <1>4, FixIsLeast
<1>6. Erased(start, n) = start .. start + m + Fix(start, m) - 1
  BY DEF Erased, EraseArea
<1> HIDE DEF d, m
<1>7. m + Fix(start, m) = n \/ (n % 2 = 1 /\ m + Fix(start, m) = n + 1)
  <2>1. CASE n < 2 * Fix(start, n)
    <3>1. m = (n + 1) \div 2 /\ m <= d
      BY <1>1, <1>2, <1>3, <2>1
    <3> QED
      BY <1>1, <1>4, <1>5, <3>1
  <2>2. CASE ~(n < 2 * Fix(start, n))
    BY <1>1, <1>2, <1>3, <1>5, <2>2
  <2> QED
    BY <2>1, <2>2
<1>8. Fix(start, m) \in Int
  BY <1>1, <1>4, <1>5
<1>9. CASE m + Fix(start, m) = n
  <2>1. start + m + Fix(start, m) - 1 = start + n - 1
    BY <1>4, <1>8, <1>9
  <2> QED
    BY <1>6, <2>1
<1>10. CASE n % 2 = 1 /\ m + Fix(start, m) = n + 1
  <2>1. start + m + Fix(start, m) - 1 = start + n
    BY <1>4, <1>8, <1>10
  <2> QED
    BY <1>6, <1>10, <2>1
<1> QED
  BY <1>7, <1>9, <1>10

LEMMA ErasesWhatIsAsked ==
  ASSUME NEW first \in Nat, NEW n \in Nat \ {0}, base \in Nat
  PROVE  \/ ErasedFor(first, n) = first .. first + n - 1
         \/ n % 2 = 1 /\ ErasedFor(first, n) = first .. first + n
<1> DEFINE start == base + first
<1>1. start \in Nat
  OBVIOUS
<1>2. \/ Erased(start, n) = start .. start + n - 1
      \/ n % 2 = 1 /\ Erased(start, n) = start .. start + n
  BY <1>1, StartErases
<1>3. ErasedFor(first, n) = {s - base : s \in Erased(start, n)}
  BY DEF ErasedFor
<1>4. ASSUME NEW k \in Int
      PROVE  {s - base : s \in start .. start + k - 1} = first .. first + k - 1
  <2>1. ASSUME NEW x \in first .. first + k - 1
        PROVE  x \in {s - base : s \in start .. start + k - 1}
    <3>1. x + base \in start .. start + k - 1 /\ (x + base) - base = x
      BY <1>4, <2>1
    <3> QED
      BY <3>1
  <2>2. ASSUME NEW s \in start .. start + k - 1
        PROVE  s - base \in first .. first + k - 1
    BY <1>4, <2>2
  <2> QED
    BY <2>1, <2>2
<1>5. \A k \in Int : {s - base : s \in start .. start + k - 1} = first .. first + k - 1
  BY <1>4
<1> HIDE DEF start
<1>6. start + (n + 1) - 1 = start + n /\ first + (n + 1) - 1 = first + n /\ n + 1 \in Int /\ n \in Int
  BY <1>1
<1>7. CASE Erased(start, n) = start .. start + n - 1
  BY <1>3, <1>5, <1>6, <1>7
<1>8. CASE n % 2 = 1 /\ Erased(start, n) = start .. start + n
  <2>1. {s - base : s \in start .. start + (n + 1) - 1} = first .. first + (n + 1) - 1
    BY <1>5, <1>6
  <2> QED
    BY <1>3, <1>6, <1>8, <2>1
<1> QED
  BY <1>2, <1>7, <1>8

(* A piece is written where it was erased, also when it is cut short.        *)
LEMMA PieceIsErased ==
  ASSUME FlashTypeOK, written \subseteq erased,
         NEW first \in Nat, NEW n \in Nat \ {0}, first + n <= size,
         NEW ok \in BOOLEAN, FlashMem(first, n, ok)
  PROVE  /\ written' \subseteq 0 .. size - 1 /\ written' \subseteq erased'
         /\ written \subseteq written'
         /\ ok => /\ first .. first + n - 1 \subseteq written'
                  /\ erased' \subseteq erased \cup written' \cup {first + n}
                  /\ n % 2 = 0 => erased' \subseteq erased \cup written'
<1> DEFINE E == ErasedFor(first, n)
<1>1. \/ E = first .. first + n - 1
      \/ n % 2 = 1 /\ E = first .. first + n
  BY ErasesWhatIsAsked DEF FlashTypeOK
<1>2. /\ first .. first + n - 1 \subseteq E
      /\ E \subseteq (first .. first + n - 1) \cup {first + n}
      /\ n % 2 = 0 => E = first .. first + n - 1
  BY <1>1
<1>3. size \in Nat /\ written \subseteq 0 .. size - 1
  BY DEF FlashTypeOK
<1>4. first .. first + n - 1 \subseteq 0 .. size - 1
  BY <1>3
<1> HIDE DEF E
<1>5. CASE ok
  <2>1. erased' = erased \cup E /\ written' = written \cup (first .. first + n - 1)
    BY <1>5 DEF FlashMem, E
  <2> QED
    BY <1>2, <1>3, <1>4, <2>1
<1>6. CASE ~ok
  <2>1. CASE UNCHANGED <<erased, written>>
    BY <1>3, <1>6, <2>1
  <2>2. ASSUME NEW k \in 0 .. n - 1,
               erased' = erased \cup E, written' = written \cup (first .. first + k - 1)
        PROVE  written' \subseteq 0 .. size - 1 /\ written' \subseteq erased' /\ written \subseteq written'
    <3>1. first .. first + k - 1 \subseteq first .. first + n - 1
      BY <2>2
    <3> QED
      BY <1>2, <1>3, <1>4, <2>2, <3>1
  <2> QED
    BY <1>6, <2>1, <2>2 DEF FlashMem, E
<1> QED
  BY <1>5, <1>6
-----------------------------------------------------------------------------
(* The invariant *)

LEMMA FlashInit == Init => FlashInv
  BY IncrementalAssumption
  DEF Init, FlashInv, FlashTypeOK, DryUntouched, PassedIsDone, ErasedIsWritten, LeftOutBehindPiece

(* A written sector stays written, so what came behind a piece still does.   *)
LEMMA StaysBehind ==
  ASSUME NEW s, Behind(s), written \subseteq written'
  PROVE  Behind(s)'
  BY DEF Behind

(* A piece that is written, or found to be the same, brings the loop on.     *)
LEMMA PieceWritten ==
  ASSUME FlashInv, WritePiece
  PROVE  FlashInv'
<1>1. Turn /\ Run > 0 /\ pc = "real"
  BY DEF WritePiece
<1>2. /\ Piece \in 1 .. size - offset
      /\ offset + Piece = size \/ (Piece >= Group /\ Piece % 2 = 0)
  BY <1>1, PieceOfGroups DEF FlashInv
<1>3. /\ size \in Nat \ {0} /\ offset \in Nat /\ blocks \in Nat /\ base \in Nat
      /\ Group \in Nat \ {0}
  BY IncrementalAssumption DEF FlashInv, FlashTypeOK
<1>4. Piece \in Nat \ {0} /\ offset + Piece <= size
  BY <1>2, <1>3
<1>5. UNCHANGED <<size, differ, base>> /\ blocks' = blocks + 1
  BY DEF WritePiece
<1>6. CASE FlashMem(offset, Piece, FALSE) /\ pc' = "failed" /\ UNCHANGED offset
  <2>1. written' \subseteq 0 .. size - 1 /\ written' \subseteq erased'
    BY <1>3, <1>4, <1>6, PieceIsErased DEF FlashInv
  <2> QED
    BY <1>3, <1>5, <1>6, <2>1
    DEF FlashInv, FlashTypeOK, DryUntouched, PassedIsDone, ErasedIsWritten, LeftOutBehindPiece
<1>7. CASE FlashMem(offset, Piece, TRUE) /\ offset' = NextOffset /\ UNCHANGED pc
  <2>1. /\ written' \subseteq 0 .. size - 1 /\ written' \subseteq erased'
        /\ written \subseteq written'
        /\ offset .. offset + Piece - 1 \subseteq written'
        /\ erased' \subseteq erased \cup written' \cup {offset + Piece}
        /\ Piece % 2 = 0 => erased' \subseteq erased \cup written'
    BY <1>3, <1>4, <1>7, PieceIsErased DEF FlashInv
  <2>2. offset' = offset + Piece + 1
    BY <1>7 DEF NextOffset
  <2>3. FlashTypeOK'
    BY <1>3, <1>4, <1>5, <1>7, <2>1, <2>2 DEF FlashInv, FlashTypeOK
  <2>4. PassedIsDone'
    <3> SUFFICES ASSUME NEW s \in differ, s \notin written', s < offset' PROVE Behind(s)'
      BY <1>5 DEF PassedIsDone
    <3>1. s \in Nat /\ s < size
      BY <1>3 DEF FlashInv, FlashTypeOK
    <3>2. CASE s < offset
      <4>1. Behind(s)
        BY <1>1, <2>1, <3>2 DEF FlashInv, PassedIsDone
      <4> QED
        BY <2>1, <4>1, StaysBehind
    <3>3. CASE s >= offset
      <4>1. s = offset + Piece
        BY <1>3, <1>4, <2>1, <2>2, <3>1, <3>3
      <4>2. Piece >= Group
        BY <1>2, <3>1, <4>1
      <4>3. \A i \in 1 .. Group : s - i \in offset .. offset + Piece - 1
        BY <1>3, <1>4, <4>1, <4>2
      <4> QED
        BY <1>3, <1>4, <2>1, <4>1, <4>2, <4>3 DEF Behind
    <3> QED
      BY <1>3, <3>1, <3>2, <3>3
  <2>5. ErasedIsWritten'
    <3>1. erased' \subseteq erased \cup written' \cup {size}
      BY <1>2, <2>1
    <3> QED
      BY <1>1, <1>5, <2>1, <3>1 DEF FlashInv, ErasedIsWritten
  <2> QED
    BY <1>1, <1>7, <2>1, <2>3, <2>4, <2>5 DEF FlashInv, DryUntouched, LeftOutBehindPiece
<1> QED
  BY <1>6, <1>7 DEF WritePiece

(* Behind the dry run, everything is written at once or the real run begins. *)
LEMMA DryEnds ==
  ASSUME FlashInv, RunDry
  PROVE  FlashInv'
<1>1. /\ pc = "dry" /\ written = {} /\ erased = {} /\ offset' = 0 /\ blocks' = 0
      /\ UNCHANGED <<size, differ, base>>
  BY DEF RunDry, FlashInv, DryUntouched
<1>2. size \in Nat \ {0} /\ base \in Nat /\ differ \subseteq 0 .. size - 1
  BY DEF FlashInv, FlashTypeOK
<1> DEFINE first == 0
<1>3. first \in Nat /\ first + size <= size /\ FlashTypeOK /\ written \subseteq erased
  BY <1>2 DEF FlashInv
<1>4. CASE FlashMem(0, size, FALSE) /\ pc' = "failed"
  <2>1. written' \subseteq 0 .. size - 1 /\ written' \subseteq erased'
    <3>1. FlashMem(first, size, FALSE)
      BY <1>4
    <3> HIDE DEF first
    <3> QED
      BY <1>2, <1>3, <3>1, PieceIsErased
  <2> QED
    BY <1>1, <1>2, <1>4, <2>1
    DEF FlashInv, FlashTypeOK, DryUntouched, PassedIsDone, ErasedIsWritten, LeftOutBehindPiece
<1>5. CASE FlashMem(0, size, TRUE) /\ pc' = "done"
  <2>1. /\ written' \subseteq 0 .. size - 1 /\ written' \subseteq erased'
        /\ first .. first + size - 1 \subseteq written'
        /\ erased' \subseteq erased \cup written' \cup {first + size}
    <3>1. FlashMem(first, size, TRUE)
      BY <1>5
    <3> HIDE DEF first
    <3> QED
      BY <1>2, <1>3, <3>1, PieceIsErased
  <2>2. 0 .. size - 1 \subseteq written' /\ erased' \subseteq written' \cup {size}
    BY <1>1, <1>2, <2>1
  <2> QED
    BY <1>1, <1>2, <1>5, <2>1, <2>2
    DEF FlashInv, FlashTypeOK, DryUntouched, PassedIsDone, ErasedIsWritten, LeftOutBehindPiece
<1>6. CASE pc' = "real" /\ UNCHANGED <<written, erased>>
  <2>1. PassedIsDone'
    BY <1>1, <1>2, <1>6 DEF PassedIsDone
  <2> QED
    BY <1>1, <1>2, <1>6, <2>1
    DEF FlashInv, FlashTypeOK, DryUntouched, ErasedIsWritten, LeftOutBehindPiece
<1> QED
  BY <1>4, <1>5, <1>6 DEF RunDry

LEMMA FlashStep == FlashInv /\ [Next]_vars => FlashInv'
<1> SUFFICES ASSUME FlashInv, [Next]_vars PROVE FlashInv'
  OBVIOUS
<1>1. CASE SameSector
  <2>1. /\ pc \in {"dry", "real"} /\ Turn /\ Run = 0 /\ offset' = NextOffset
        /\ UNCHANGED <<size, differ, pc, blocks, written, base, erased>>
    BY <1>1 DEF SameSector, Turn
  <2>2. offset \notin differ /\ Piece = 0
    BY <2>1, PieceOfGroups DEF FlashInv
  <2>3. offset' = offset + 1 /\ offset \in Nat /\ differ \subseteq Nat
    BY <2>1, <2>2 DEF NextOffset, FlashInv, FlashTypeOK
  <2>4. FlashTypeOK'
    BY <2>1, <2>3 DEF FlashInv, FlashTypeOK
  <2>5. PassedIsDone'
    <3> SUFFICES ASSUME pc = "real", NEW s \in differ, s \notin written, s < offset'
                 PROVE  Behind(s)'
      BY <2>1 DEF PassedIsDone
    <3>1. s < offset
      BY <2>2, <2>3
    <3>2. Behind(s)
      BY <3>1 DEF FlashInv, PassedIsDone
    <3> QED
      BY <2>1, <3>2 DEF Behind
  <2> QED
    BY <2>1, <2>4, <2>5 DEF FlashInv, DryUntouched, ErasedIsWritten, LeftOutBehindPiece
<1>2. CASE CountPiece
  <2>1. /\ pc = "dry" /\ Turn /\ Run > 0 /\ offset' = NextOffset /\ blocks' = blocks + 1
        /\ UNCHANGED <<size, differ, pc, written, base, erased>>
    BY <1>2 DEF CountPiece
  <2>2. Piece \in 1 .. size - offset /\ offset \in Nat /\ size \in Nat
    BY <2>1, PieceOfGroups DEF FlashInv, FlashTypeOK
  <2>3. offset' \in Nat
    BY <2>1, <2>2 DEF NextOffset
  <2> QED
    BY <2>1, <2>3
    DEF FlashInv, FlashTypeOK, DryUntouched, PassedIsDone, ErasedIsWritten, LeftOutBehindPiece
<1>3. CASE WritePiece
  BY <1>3, PieceWritten
<1>4. CASE RunDry
  BY <1>4, DryEnds
<1>5. CASE RunReal
  <2>1. /\ pc = "real" /\ offset >= size /\ pc' = "done"
        /\ UNCHANGED <<size, differ, offset, blocks, written, base, erased>>
    BY <1>5 DEF RunReal
  <2>2. LeftOutBehindPiece'
    BY <2>1 DEF FlashInv, FlashTypeOK, PassedIsDone, Behind, LeftOutBehindPiece
  <2> QED
    BY <2>1, <2>2 DEF FlashInv, FlashTypeOK, DryUntouched, PassedIsDone, ErasedIsWritten
<1>6. CASE UNCHANGED vars
  BY <1>6 DEF vars, FlashInv, FlashTypeOK, DryUntouched, PassedIsDone, Behind,
              ErasedIsWritten, LeftOutBehindPiece
<1> QED
  BY <1>1, <1>2, <1>3, <1>4, <1>5, <1>6 DEF Next

(* flash_file's loops keep the invariant, whatever piece fails.              *)
THEOREM FlashInvariant == Spec => []FlashInv
  BY FlashInit, FlashStep, PTL DEF Spec

(* Of what differs, the real run leaves out at most the sector right behind  *)
(* a piece of whole groups.                                                  *)
THEOREM OnlyBehindPieces == Spec => []LeftOutBehindPiece
<1>1. FlashInv => LeftOutBehindPiece
  BY DEF FlashInv
<1> QED
  BY <1>1, FlashInvariant, PTL

(* flash_start's size makes the ROM erase each sector before it is written,  *)
(* and nothing else but the sector behind the image.                         *)
THEOREM ErasesWhatIsWritten == Spec => []ErasedAndWritten
<1>1. FlashInv => ErasedAndWritten
  BY DEF FlashInv, FlashTypeOK, ErasedIsWritten, ErasedAndWritten
<1> QED
  BY <1>1, FlashInvariant, PTL
-----------------------------------------------------------------------------
(* flash_mem over the serial line *)

Cells    == {"frame", "head", "plain", "escaped", "ok", "bad", "noise"}
Requests ==
  {r \in [command : {"sync", "start", "data", "done"}, at : Nat, data : Seq(Data)] :
     r.command = "data" => r.data # <<>>}

LineTypeOK ==
  /\ host \in {"force", "clear", "reset", "send", "head", "whole", "quiet", "done", "failed"}
  /\ phase \in {"detect", "resync", "flash"}
  /\ attempts \in Nat \ {0} /\ call \in 1 .. Len(Calls) + 1
  /\ seq \in 0 .. (IF call \in DOMAIN Calls THEN Len(Calls[call].sectors) ELSE 1)
  /\ recivedBuf \in [1 .. BufCells -> Cells \cup {"zero"}] /\ recivedPos \in 0 .. BufCells
  /\ reader \in {"read", "append", "count"} /\ chunk \in Seq(Cells)
  /\ loaded \in Nat /\ counted \in Nat
  /\ toDevice \in Seq(Requests) /\ toHost \in Seq(Cells)
  /\ flash \in [0 .. NumSectors - 1 -> Data \cup {Blank, "old", "mixed"}] /\ writeAt \in Int

\* Where main() is.
HostOrder ==
  /\ phase # "flash" => call = 1 /\ seq = 0
  /\ host = "force" => phase = "detect"
  /\ host = "done" => phase = "flash" /\ call \notin DOMAIN Calls

\* From the detection to the last call nothing may be on its way that is not waited for.
Watched == phase # "detect" /\ call \in DOMAIN Calls
Asking  == host \in {"clear", "reset", "send"}
Waiting == host \in {"head", "whole", "quiet"}

NothingPending ==
  Watched /\ Asking =>
    /\ toHost = <<>> /\ toDevice = <<>> /\ reader = "read"
    /\ host # "clear" => recivedPos = 0
    /\ host = "send" => counted = 0

\* What a sync is answered with begins with a frame, wherever it is by now.
FrameFirst ==
  /\ recivedPos > 0 => recivedBuf[1] = "frame"
  /\ reader = "append" => chunk # <<>> /\ loaded = recivedPos
  /\ recivedPos = 0 /\ reader = "append" => chunk[1] = "frame"
  /\ recivedPos = 0 /\ reader = "read" /\ toHost # <<>> => toHost[1] = "frame"
  /\ reader = "count" => recivedPos > 0
  /\ counted # 0 => recivedPos > 0

\* The sectors in front of the n-th are written and the others erased, and the ROM goes
\* on with that one.
InPlace(n) ==
  n > 0 =>
    /\ \A k \in 1 .. n - 1 : flash[Calls[call].at + k - 1] = Calls[call].sectors[k]
    /\ \A k \in n .. Len(Calls[call].sectors) : flash[Calls[call].at + k - 1] = Blank
    /\ writeAt = Calls[call].at + n - 1

EarlierCalls ==
  \A i \in DOMAIN Calls : i < call =>
    \A k \in DOMAIN Calls[i].sectors : InItsPlace(i, k)

\* The request was not taken yet.
Requested == toDevice = <<FlashRequest>> /\ InPlace(seq)

\* Nothing has come, and while nothing was requested nothing comes.
Unanswered == toHost = <<>> /\ reader = "read" /\ recivedPos = 0 /\ counted = 0 /\ host = "head"

\* The cells of one answer are in the buffer, read or on the line.
Read == IF reader = "append" THEN Len(chunk) ELSE 0
Answered(status, value) ==
  /\ toDevice = <<>>
  /\ recivedPos + Read + Len(toHost) = 5
  /\ reader = "append" => loaded = recivedPos
  /\ \A i \in 1 .. recivedPos : recivedBuf[i] = Unescaped(Answer(status, value)[i])
  /\ reader = "append" =>
       \A i \in 1 .. Len(chunk) : chunk[i] = Answer(status, value)[recivedPos + i]
  /\ \A i \in 1 .. Len(toHost) : toHost[i] = Answer(status, value)[recivedPos + Read + i]

OneAnswer ==
  \/ Unanswered /\ Requested
  \/ Unanswered /\ toDevice = <<>>
  \/ \E value \in {"plain", "escaped"} :
       \/ Answered("ok", value) /\ InPlace(seq + 1)
       \/ Answered("bad", value)

\* The ROM may be late with syncs and with the farewell, which leave the flash alone.
Harmless(r) == r.command \in {"sync", "done"} \/ (r.command = "start" /\ r.data = <<>>)

HarmlessLine ==
  phase # "flash" \/ call \notin DOMAIN Calls =>
    \A i \in 1 .. Len(toDevice) : Harmless(toDevice[i])

LineParts ==
  /\ EarlierCalls /\ HarmlessLine /\ NothingPending
  /\ phase = "flash" /\ Watched /\ Asking => InPlace(seq)
  /\ phase = "resync" /\ Watched /\ Waiting => FrameFirst
  /\ phase = "flash" /\ Watched /\ Waiting => OneAnswer

LineInv == LineTypeOK /\ HostOrder /\ (host # "failed" => LineParts)
-----------------------------------------------------------------------------
(* What the line carries *)

(* The calls of flash_mem lie within the flash.                              *)
LEMMA CallsKnown ==
  /\ DOMAIN Calls = 1 .. Len(Calls) /\ Len(Calls) \in Nat
  /\ \A i \in DOMAIN Calls :
       /\ Calls[i].at \in Nat /\ Calls[i].sectors \in Seq(Data)
       /\ Len(Calls[i].sectors) \in Nat
       /\ DOMAIN Calls[i].sectors = 1 .. Len(Calls[i].sectors)
       /\ Calls[i].at + Len(Calls[i].sectors) <= NumSectors
<1>1. Calls \in Seq([at : Nat, sectors : Seq(Data)])
  BY SerialAssumption
<1>2. DOMAIN Calls = 1 .. Len(Calls) /\ Len(Calls) \in Nat
  BY <1>1, LenProperties
<1>3. \A i \in DOMAIN Calls : Calls[i] \in [at : Nat, sectors : Seq(Data)]
  BY <1>1, <1>2, ElementOfSeq
<1>4. \A i \in DOMAIN Calls : Calls[i].at \in Nat /\ Calls[i].sectors \in Seq(Data)
  BY <1>3
<1>5. \A i \in DOMAIN Calls :
        Len(Calls[i].sectors) \in Nat /\ DOMAIN Calls[i].sectors = 1 .. Len(Calls[i].sectors)
  BY <1>4, LenProperties
<1> QED
  BY <1>2, <1>4, <1>5, SerialAssumption

(* An answer has five cells and begins with a frame, and so do several.      *)
LEMMA AnswerCells ==
  ASSUME NEW n \in Nat \ {0}, NEW status \in {"ok", "bad"}, NEW value \in {"plain", "escaped"}
  PROVE  /\ Answers(n, status, value) \in Seq(Cells) /\ Len(Answers(n, status, value)) = 5 * n
         /\ Answers(n, status, value)[1] = "frame"
         /\ n = 1 => \A i \in 1 .. 5 : Answers(n, status, value)[i] = Answer(status, value)[i]
<1>1. \A i \in 1 .. 5 : Answer(status, value)[i] \in Cells
  BY DEF Answer, Cells
<1>2. \A i \in 1 .. 5 * n : ((i - 1) % 5) + 1 \in 1 .. 5
  OBVIOUS
<1>3. Answers(n, status, value) \in [1 .. 5 * n -> Cells]
  BY <1>1, <1>2 DEF Answers
<1>4. 5 * n \in Nat /\ 1 \in 1 .. 5 * n
  OBVIOUS
<1>5. Answers(n, status, value) \in Seq(Cells)
  BY <1>3, <1>4, SeqDef
<1>6. Len(Answers(n, status, value)) = 5 * n
  <2>1. DOMAIN Answers(n, status, value) = 1 .. Len(Answers(n, status, value))
        /\ Len(Answers(n, status, value)) \in Nat
    BY <1>5, LenProperties
  <2>2. \A l \in Nat : 1 .. l = 1 .. 5 * n => l = 5 * n
    <3> SUFFICES ASSUME NEW l \in Nat, 1 .. l = 1 .. 5 * n PROVE l = 5 * n
      OBVIOUS
    <3>1. 5 * n \in 1 .. l
      BY <1>4
    <3>2. l \in 1 .. 5 * n
      BY <3>1
    <3> QED
      BY <3>1, <3>2
  <2>3. 1 .. Len(Answers(n, status, value)) = 1 .. 5 * n
    BY <1>3, <2>1
  <2> QED
    BY <2>1, <2>2, <2>3
<1>7. Answers(n, status, value)[1] = Answer(status, value)[((1 - 1) % 5) + 1]
  BY <1>4 DEF Answers
<1>8. n = 1 => \A i \in 1 .. 5 : Answers(n, status, value)[i] = Answer(status, value)[i]
  <2> SUFFICES ASSUME n = 1, NEW i \in 1 .. 5
               PROVE  Answers(n, status, value)[i] = Answer(status, value)[i]
    OBVIOUS
  <2>1. i \in 1 .. 5 * n /\ ((i - 1) % 5) + 1 = i
    OBVIOUS
  <2>2. Answers(n, status, value)[i] = Answer(status, value)[((i - 1) % 5) + 1]
    BY <2>1 DEF Answers
  <2> QED
    BY <2>1, <2>2
<1>9. Answers(n, status, value)[1] = "frame"
  BY <1>7 DEF Answer
<1> QED
  BY <1>5, <1>6, <1>8, <1>9

(* The count of bytes of some cells is a number.                             *)
LEMMA WidthIsCount ==
  ASSUME NEW cells \in Seq(Cells)
  PROVE  Width(cells) \in Nat
<1>1. Len(cells) \in Nat /\ DOMAIN cells = 1 .. Len(cells)
  BY LenProperties
<1> DEFINE escaped == {i \in DOMAIN cells : cells[i] = "escaped"}
           one == 1
<1>2. one \in Int
  OBVIOUS
<1> HIDE DEF one
<1>3. IsFiniteSet(one .. Len(cells))
  BY <1>1, <1>2, FS_Interval
<1>4. escaped \in SUBSET (1 .. Len(cells))
  BY <1>1
<1>5. IsFiniteSet(escaped)
  BY <1>3, <1>4, FS_Subset DEF one
<1>6. Cardinality(escaped) \in Nat
  BY <1>5, FS_CardinalityType
<1>7. Width(cells) = Len(cells) + Cardinality(escaped)
  BY DEF Width
<1> HIDE DEF escaped
<1> QED
  BY <1>1, <1>6, <1>7

(* read() splits what has come into what it returns and what stays.          *)
LEMMA LineSplit ==
  ASSUME NEW line \in Seq(Cells), line # <<>>, NEW n \in {1, Len(line)}
  PROVE  /\ n \in 1 .. Len(line)
         /\ SubSeq(line, 1, n) \in Seq(Cells) /\ Len(SubSeq(line, 1, n)) = n
         /\ \A i \in 1 .. n : SubSeq(line, 1, n)[i] = line[i]
         /\ SubSeq(line, n + 1, Len(line)) \in Seq(Cells)
         /\ Len(SubSeq(line, n + 1, Len(line))) = Len(line) - n
         /\ \A i \in 1 .. Len(line) - n : SubSeq(line, n + 1, Len(line))[i] = line[n + i]
<1>1. Len(line) \in Nat \ {0}
  BY EmptySeq
<1>2. n \in 1 .. Len(line)
  BY <1>1
<1>3. \A i \in 1 .. Len(line) : line[i] \in Cells
  BY ElementOfSeq
<1>4. /\ SubSeq(line, 1, n) \in Seq(Cells)
      /\ Len(SubSeq(line, 1, n)) = IF 1 <= n THEN n - 1 + 1 ELSE 0
      /\ \A i \in 1 .. n - 1 + 1 : SubSeq(line, 1, n)[i] = line[1 + i - 1]
  <2> DEFINE one == 1
  <2>1. one \in Int /\ n \in Int /\ \A i \in one .. n : line[i] \in Cells
    BY <1>1, <1>2, <1>3
  <2> HIDE DEF one
  <2>2. /\ SubSeq(line, one, n) \in Seq(Cells)
        /\ Len(SubSeq(line, one, n)) = IF one <= n THEN n - one + 1 ELSE 0
        /\ \A i \in 1 .. n - one + 1 : SubSeq(line, one, n)[i] = line[one + i - 1]
    BY <2>1, SubSeqProperties
  <2> QED
    BY <2>2 DEF one
<1>5. /\ SubSeq(line, n + 1, Len(line)) \in Seq(Cells)
      /\ Len(SubSeq(line, n + 1, Len(line)))
           = IF n + 1 <= Len(line) THEN Len(line) - (n + 1) + 1 ELSE 0
      /\ \A i \in 1 .. Len(line) - (n + 1) + 1 :
           SubSeq(line, n + 1, Len(line))[i] = line[(n + 1) + i - 1]
  <2>1. n + 1 \in Int /\ Len(line) \in Int /\ \A i \in n + 1 .. Len(line) : line[i] \in Cells
    BY <1>1, <1>2, <1>3
  <2> QED
    BY <2>1, SubSeqProperties
<1>6. Len(line) - (n + 1) + 1 = Len(line) - n /\ n - 1 + 1 = n
  BY <1>1, <1>2
<1>7. \A i \in 1 .. n : 1 + i - 1 = i
  OBVIOUS
<1>8. \A i \in 1 .. Len(line) - n : (n + 1) + i - 1 = n + i
  BY <1>1, <1>2
<1>9. Len(SubSeq(line, 1, n)) = n /\ Len(SubSeq(line, n + 1, Len(line))) = Len(line) - n
  BY <1>1, <1>2, <1>4, <1>5
<1>10. \A i \in 1 .. n : SubSeq(line, 1, n)[i] = line[i]
  BY <1>4, <1>6, <1>7
<1>11. \A i \in 1 .. Len(line) - n : SubSeq(line, n + 1, Len(line))[i] = line[n + i]
  BY <1>5, <1>6, <1>8
<1> QED
  BY <1>2, <1>4, <1>5, <1>9, <1>10, <1>11
-----------------------------------------------------------------------------
(* The reading thread *)

(* Nothing is on its way when the port is opened.                            *)
LEMMA LineInit == SerialInit => LineInv
<1> SUFFICES ASSUME SerialInit PROVE LineInv
  OBVIOUS
<1>1. {BufCells, NumSectors, Attempts} \subseteq Nat \ {0} /\ BufCells >= 5
  BY SerialAssumption
<1>2. call = 1 /\ seq = 0 /\ host = "force" /\ phase = "detect" /\ toDevice = <<>>
  BY DEF SerialInit
<1>3. seq \in 0 .. (IF call \in DOMAIN Calls THEN Len(Calls[call].sectors) ELSE 1)
  BY <1>2, CallsKnown
<1>4. call \in 1 .. Len(Calls) + 1
  BY <1>2, CallsKnown
<1>5. <<>> \in Seq(Cells) /\ <<>> \in Seq(Requests) /\ Len(toDevice) = 0
  BY <1>2
<1>6. LineTypeOK
  BY <1>1, <1>3, <1>4, <1>5 DEF LineTypeOK, SerialInit, Cells
<1>7. EarlierCalls /\ HarmlessLine /\ HostOrder
  BY <1>2, <1>5, CallsKnown DEF EarlierCalls, InItsPlace, HarmlessLine, HostOrder
<1> QED
  BY <1>2, <1>6, <1>7 DEF LineInv, LineParts, NothingPending, Asking, Waiting

(* read() takes the first cells from the line: those of an answer stay in    *)
(* order.                                                                    *)
LEMMA ReadLineKeeps == LineInv /\ ReadLine => LineInv'
<1> SUFFICES ASSUME LineInv, ReadLine PROVE LineInv'
  OBVIOUS
<1>1. LineTypeOK /\ HostOrder
  BY DEF LineInv
<1>2. PICK n \in {1, Len(toHost)} :
        chunk' = SubSeq(toHost, 1, n) /\ toHost' = SubSeq(toHost, n + 1, Len(toHost))
  BY DEF ReadLine
<1>3. /\ reader = "read" /\ toHost # <<>> /\ loaded' = recivedPos /\ reader' = "append"
      /\ UNCHANGED <<host, phase, attempts, call, seq, recivedBuf, recivedPos, counted, toDevice,
                     flash, writeAt>>
  BY DEF ReadLine, hostVars, progress, bufferVars, deviceVars
<1>4. toHost \in Seq(Cells) /\ Len(toHost) \in Nat \ {0} /\ recivedPos \in Nat
  BY <1>1, <1>3, EmptySeq DEF LineTypeOK
<1>5. /\ n \in 1 .. Len(toHost)
      /\ chunk' \in Seq(Cells) /\ Len(chunk') = n
      /\ \A i \in 1 .. n : chunk'[i] = toHost[i]
      /\ toHost' \in Seq(Cells) /\ Len(toHost') = Len(toHost) - n
      /\ \A i \in 1 .. Len(toHost) - n : toHost'[i] = toHost[n + i]
  BY <1>2, <1>3, <1>4, LineSplit
<1>6. LineTypeOK' /\ HostOrder'
  BY <1>1, <1>3, <1>5 DEF LineTypeOK, HostOrder
<1>7. ASSUME host # "failed" PROVE LineParts'
  <2>1. LineParts
    BY <1>7 DEF LineInv
  <2>2. EarlierCalls' /\ HarmlessLine'
    BY <1>3, <2>1 DEF LineParts, EarlierCalls, InItsPlace, HarmlessLine
  <2>3. ~(Watched /\ Asking)
    BY <1>3, <2>1 DEF LineParts, NothingPending
  <2>4. NothingPending' /\ (phase = "flash" /\ Watched /\ Asking => InPlace(seq))'
    BY <1>3, <2>3 DEF NothingPending, Watched, Asking
  <2>5. ASSUME FrameFirst PROVE FrameFirst'
    <3>1. chunk' # <<>> /\ chunk'[1] = toHost[1]
      BY <1>4, <1>5
    <3> QED
      BY <1>3, <2>5, <3>1 DEF FrameFirst
  <2>6. ASSUME OneAnswer PROVE OneAnswer'
    <3>1. ~Unanswered
      BY <1>3 DEF Unanswered
    <3>2. ASSUME NEW status \in {"ok", "bad"}, NEW value \in {"plain", "escaped"},
                 Answered(status, value)
          PROVE  Answered(status, value)'
      <4>1. Read = 0 /\ Read' = n
        BY <1>3, <1>5 DEF Read
      <4>2. recivedPos' + Read' + Len(toHost') = 5
        BY <1>3, <1>4, <1>5, <3>2, <4>1 DEF Answered
      <4>3. \A i \in 1 .. Len(toHost) : toHost[i] = Answer(status, value)[recivedPos + i]
        BY <1>4, <3>2, <4>1 DEF Answered
      <4>4. \A i \in 1 .. n : chunk'[i] = Answer(status, value)[recivedPos + i]
        BY <1>4, <1>5, <4>3
      <4>5. \A i \in 1 .. Len(toHost) - n :
              toHost'[i] = Answer(status, value)[recivedPos + n + i]
        <5> SUFFICES ASSUME NEW i \in 1 .. Len(toHost) - n
                     PROVE  toHost'[i] = Answer(status, value)[recivedPos + n + i]
          OBVIOUS
        <5>1. n + i \in 1 .. Len(toHost) /\ recivedPos + (n + i) = recivedPos + n + i
          BY <1>4, <1>5
        <5> QED
          BY <1>5, <4>3, <5>1
      <4> QED
        BY <1>3, <1>5, <3>2, <4>1, <4>2, <4>4, <4>5 DEF Answered
    <3>3. InPlace(seq + 1) => InPlace(seq + 1)'
      BY <1>3 DEF InPlace
    <3> QED
      BY <2>6, <3>1, <3>2, <3>3 DEF OneAnswer
  <2>7. Watched' = Watched /\ Waiting' = Waiting
    BY <1>3 DEF Watched, Waiting
  <2> QED
    BY <1>3, <2>1, <2>2, <2>4, <2>5, <2>6, <2>7 DEF LineParts
<1> QED
  BY <1>3, <1>6, <1>7 DEF LineInv

(* SerialPortRecieved puts them behind those in the buffer.                  *)
LEMMA AppendKeeps == LineInv /\ AppendChunk => LineInv'
<1> SUFFICES ASSUME LineInv, AppendChunk PROVE LineInv'
  OBVIOUS
<1> DEFINE end == Min({loaded + Len(chunk), BufCells})
<1>1. LineTypeOK /\ HostOrder
  BY DEF LineInv
<1>2. /\ reader = "append" /\ recivedPos' = end /\ loaded' = counted /\ reader' = "count"
      /\ recivedBuf' = [i \in 1 .. BufCells |->
                          IF i \in loaded + 1 .. end THEN Unescaped(chunk[i - loaded])
                          ELSE recivedBuf[i]]
      /\ UNCHANGED <<host, phase, attempts, call, seq, counted, chunk, toDevice, toHost,
                     flash, writeAt>>
  BY DEF AppendChunk, hostVars, progress, deviceVars
<1>3. chunk \in Seq(Cells) /\ Len(chunk) \in Nat /\ BufCells \in Nat /\ BufCells >= 5
      /\ recivedPos \in Nat /\ loaded \in Nat
  BY <1>1, SerialAssumption, LenProperties DEF LineTypeOK
<1>4. end = IF loaded + Len(chunk) <= BufCells THEN loaded + Len(chunk) ELSE BufCells
  <2>1. \A a, b \in Nat : Min({a, b}) = IF a <= b THEN a ELSE b
    BY DEF Min
  <2> QED
    BY <1>3, <2>1
<1> HIDE DEF end
<1>5. end \in 0 .. BufCells
  BY <1>3, <1>4
<1>6. recivedBuf' \in [1 .. BufCells -> Cells \cup {"zero"}]
  <2>1. \A i \in loaded + 1 .. end : i - loaded \in 1 .. Len(chunk)
    BY <1>3, <1>4
  <2>2. \A i \in 1 .. Len(chunk) : chunk[i] \in Cells
    BY <1>3, ElementOfSeq
  <2>3. \A c \in Cells : Unescaped(c) \in Cells
    BY DEF Unescaped, Cells
  <2> QED
    BY <1>1, <1>2, <2>1, <2>2, <2>3 DEF LineTypeOK
<1>7. LineTypeOK' /\ HostOrder'
  BY <1>1, <1>2, <1>5, <1>6 DEF LineTypeOK, HostOrder
<1>8. ASSUME host # "failed" PROVE LineParts'
  <2>1. LineParts
    BY <1>8 DEF LineInv
  <2>2. EarlierCalls' /\ HarmlessLine'
    BY <1>2, <2>1 DEF LineParts, EarlierCalls, InItsPlace, HarmlessLine
  <2>3. ~(Watched /\ Asking)
    BY <1>2, <2>1 DEF LineParts, NothingPending
  <2>4. NothingPending' /\ (phase = "flash" /\ Watched /\ Asking => InPlace(seq))'
    BY <1>2, <2>3 DEF NothingPending, Watched, Asking
  <2>5. ASSUME FrameFirst PROVE FrameFirst'
    <3>1. chunk # <<>> /\ loaded = recivedPos /\ Len(chunk) > 0
      BY <1>2, <1>3, <2>5, EmptySeq DEF FrameFirst
    <3>2. end > 0
      BY <1>3, <1>4, <3>1
    <3>3. recivedBuf'[1] = "frame"
      <4>1. CASE recivedPos > 0
        BY <1>2, <1>3, <2>5, <3>1, <4>1 DEF FrameFirst
      <4>2. CASE recivedPos = 0
        <5>1. 1 \in loaded + 1 .. end /\ 1 - loaded = 1 /\ 1 \in 1 .. BufCells
          BY <1>3, <1>5, <3>1, <3>2, <4>2
        <5>2. recivedBuf'[1] = Unescaped(chunk[1])
          BY <1>2, <5>1
        <5>3. chunk[1] = "frame"
          BY <1>2, <2>5, <4>2 DEF FrameFirst
        <5> QED
          BY <5>2, <5>3 DEF Unescaped
      <4> QED
        BY <1>3, <4>1, <4>2
    <3> QED
      BY <1>2, <3>2, <3>3, <1>5 DEF FrameFirst
  <2>6. ASSUME OneAnswer PROVE OneAnswer'
    <3>1. ~Unanswered
      BY <1>2 DEF Unanswered
    <3>2. ASSUME NEW status \in {"ok", "bad"}, NEW value \in {"plain", "escaped"},
                 Answered(status, value)
          PROVE  Answered(status, value)'
      <4>1. Read = Len(chunk) /\ Read' = 0 /\ loaded = recivedPos
        BY <1>2, <3>2 DEF Read, Answered
      <4>2. Len(toHost) \in Nat /\ recivedPos + Len(chunk) + Len(toHost) = 5
        BY <1>1, <3>2, <4>1, LenProperties DEF Answered, LineTypeOK
      <4>3. end = recivedPos + Len(chunk)
        BY <1>3, <1>4, <4>1, <4>2
      <4>4. ASSUME NEW i \in 1 .. end
            PROVE  recivedBuf'[i] = Unescaped(Answer(status, value)[i])
        <5>1. i \in 1 .. BufCells
          BY <1>3, <1>5, <4>4
        <5>2. CASE i <= recivedPos
          <6>1. recivedBuf'[i] = recivedBuf[i] /\ i \in 1 .. recivedPos
            BY <1>2, <1>3, <4>1, <4>4, <5>1, <5>2
          <6> QED
            BY <3>2, <6>1 DEF Answered
        <5>3. CASE i > recivedPos
          <6>1. i \in loaded + 1 .. end /\ i - loaded \in 1 .. Len(chunk)
                /\ recivedPos + (i - loaded) = i
            BY <1>3, <4>1, <4>3, <4>4, <5>3
          <6>2. recivedBuf'[i] = Unescaped(chunk[i - loaded])
            BY <1>2, <5>1, <6>1
          <6>3. chunk[i - loaded] = Answer(status, value)[i]
            BY <1>2, <3>2, <6>1 DEF Answered
          <6> QED
            BY <6>2, <6>3
        <5> QED
          BY <1>3, <4>4, <5>2, <5>3, <1>5
      <4>5. \A i \in 1 .. Len(toHost) : toHost[i] = Answer(status, value)[end + 0 + i]
        <5>1. \A i \in 1 .. Len(toHost) :
                toHost[i] = Answer(status, value)[recivedPos + Len(chunk) + i]
          BY <3>2, <4>1 DEF Answered
        <5> QED
          BY <1>3, <4>2, <4>3, <5>1
      <4>6. end + 0 + Len(toHost) = 5
        BY <1>3, <4>2, <4>3
      <4> QED
        BY <1>2, <3>2, <4>1, <4>4, <4>5, <4>6 DEF Answered
    <3>3. InPlace(seq + 1) => InPlace(seq + 1)'
      BY <1>2 DEF InPlace
    <3> QED
      BY <2>6, <3>1, <3>2, <3>3 DEF OneAnswer
  <2>7. Watched' = Watched /\ Waiting' = Waiting
    BY <1>2 DEF Watched, Waiting
  <2> QED
    BY <1>2, <2>1, <2>2, <2>4, <2>5, <2>6, <2>7 DEF LineParts
<1> QED
  BY <1>2, <1>7, <1>8 DEF LineInv

(* The thread stores the count: by then a cell is in the buffer.             *)
LEMMA CountKeeps == LineInv /\ Count => LineInv'
<1> SUFFICES ASSUME LineInv, Count PROVE LineInv'
  OBVIOUS
<1>1. LineTypeOK /\ HostOrder
  BY DEF LineInv
<1>2. /\ reader = "count" /\ reader' = "read" /\ chunk' = <<>>
      /\ UNCHANGED <<host, phase, attempts, call, seq, recivedBuf, recivedPos, toDevice, toHost,
                     flash, writeAt>>
  BY DEF Count, hostVars, progress, bufferVars, deviceVars
<1>3. chunk' \in Seq(Cells) /\ loaded' \in Nat /\ counted' \in Nat
  <2>1. Width(chunk) \in Nat
    BY <1>1, WidthIsCount DEF LineTypeOK
  <2> QED
    BY <1>1, <1>2, <2>1 DEF LineTypeOK, Count
<1>4. LineTypeOK' /\ HostOrder'
  BY <1>1, <1>2, <1>3 DEF LineTypeOK, HostOrder
<1>5. ASSUME host # "failed" PROVE LineParts'
  <2>1. LineParts
    BY <1>5 DEF LineInv
  <2>2. EarlierCalls' /\ HarmlessLine'
    BY <1>2, <2>1 DEF LineParts, EarlierCalls, InItsPlace, HarmlessLine
  <2>3. ~(Watched /\ Asking)
    BY <1>2, <2>1 DEF LineParts, NothingPending
  <2>4. NothingPending' /\ (phase = "flash" /\ Watched /\ Asking => InPlace(seq))'
    BY <1>2, <2>3 DEF NothingPending, Watched, Asking
  <2>5. ASSUME FrameFirst PROVE FrameFirst'
    <3>1. recivedPos \in Nat /\ recivedPos > 0
      BY <1>1, <1>2, <2>5 DEF FrameFirst, LineTypeOK
    <3> QED
      BY <1>2, <2>5, <3>1 DEF FrameFirst
  <2>6. ASSUME OneAnswer PROVE OneAnswer'
    <3>1. ~Unanswered
      BY <1>2 DEF Unanswered
    <3>2. Read' = 0 /\ Read = 0
      BY <1>2 DEF Read
    <3>3. \A status \in {"ok", "bad"}, value \in {"plain", "escaped"} :
            Answered(status, value) => Answered(status, value)'
      BY <1>2, <3>2 DEF Answered
    <3>4. InPlace(seq + 1) => InPlace(seq + 1)'
      BY <1>2 DEF InPlace
    <3> QED
      BY <2>6, <3>1, <3>3, <3>4 DEF OneAnswer
  <2>7. Watched' = Watched /\ Waiting' = Waiting
    BY <1>2 DEF Watched, Waiting
  <2> QED
    BY <1>2, <2>1, <2>2, <2>4, <2>5, <2>6, <2>7 DEF LineParts
<1> QED
  BY <1>2, <1>4, <1>5 DEF LineInv
-----------------------------------------------------------------------------
(* The ROM *)

(* A request is served with one to MaxAnswers answers behind what is on its  *)
(* way, and with one if it is no sync.                                       *)
LEMMA Served ==
  ASSUME LineTypeOK, NEW r, NEW status \in {"ok", "bad"}, NEW value \in {"plain", "escaped"},
         Serve(r, status, value)
  PROVE  /\ toHost' \in Seq(Cells) /\ toHost' # <<>>
         /\ toHost'[1] = IF toHost = <<>> THEN "frame" ELSE toHost[1]
         /\ toHost = <<>> /\ r.command # "sync" =>
              Len(toHost') = 5 /\ \A i \in 1 .. 5 : toHost'[i] = Answer(status, value)[i]
<1>1. PICK n \in 1 .. (IF r.command = "sync" THEN MaxAnswers ELSE 1) :
        toHost' = toHost \o Answers(n, status, value)
  BY DEF Serve
<1>2. n \in Nat \ {0} /\ (r.command # "sync" => n = 1)
  BY <1>1, SerialAssumption
<1> DEFINE said == Answers(n, status, value)
<1>3. /\ said \in Seq(Cells) /\ Len(said) = 5 * n /\ said[1] = "frame"
      /\ n = 1 => \A i \in 1 .. 5 : said[i] = Answer(status, value)[i]
  BY <1>2, AnswerCells
<1>4. toHost' = toHost \o said
  BY <1>1
<1> HIDE DEF said
<1>5. toHost \in Seq(Cells) /\ Len(toHost) \in Nat
  BY LenProperties DEF LineTypeOK
<1>6. /\ toHost' \in Seq(Cells) /\ Len(toHost') = Len(toHost) + Len(said)
      /\ \A i \in 1 .. Len(toHost) + Len(said) :
           toHost'[i] = IF i <= Len(toHost) THEN toHost[i] ELSE said[i - Len(toHost)]
  BY <1>3, <1>4, <1>5, ConcatProperties
<1>7. toHost' # <<>>
  BY <1>2, <1>3, <1>5, <1>6
<1>8. toHost = <<>> => toHost' = said
  BY <1>3, <1>4, ConcatEmptySeq
<1>9. toHost # <<>> => toHost'[1] = toHost[1]
  <2> SUFFICES ASSUME toHost # <<>> PROVE toHost'[1] = toHost[1]
    OBVIOUS
  <2>1. Len(toHost) >= 1
    BY <1>5, EmptySeq
  <2>2. 1 \in 1 .. Len(toHost) + Len(said) /\ 1 <= Len(toHost)
    BY <1>2, <1>3, <1>5, <2>1
  <2> QED
    BY <1>6, <2>2
<1> QED
  BY <1>2, <1>3, <1>6, <1>7, <1>8, <1>9

(* What a request does to the flash keeps it a flash, and a harmless one     *)
(* does nothing to it.                                                       *)
LEMMA Obeyed ==
  ASSUME LineTypeOK, NEW r \in Requests, Obey(r)
  PROVE  /\ flash' \in [0 .. NumSectors - 1 -> Data \cup {Blank, "old", "mixed"}] /\ writeAt' \in Int
         /\ Harmless(r) => flash' = flash
<1>1. flash \in [0 .. NumSectors - 1 -> Data \cup {Blank, "old", "mixed"}] /\ writeAt \in Int
  BY DEF LineTypeOK
<1>2. r.at \in Nat /\ r.data \in Seq(Data)
  BY DEF Requests
<1>3. CASE r.command = "start"
  <2>1. /\ flash' = [s \in DOMAIN flash |-> IF s \in Wipes(r) THEN Blank ELSE flash[s]]
        /\ writeAt' = r.at
    BY <1>3 DEF Obey
  <2>2. Harmless(r) => r.data = <<>>
    BY <1>3 DEF Harmless
  <2>3. Harmless(r) => Wipes(r) = {}
    <3> SUFFICES ASSUME r.data = <<>> PROVE Wipes(r) = {}
      BY <2>2
    <3>1. Len(r.data) = 0
      OBVIOUS
    <3>2. Wipes(r) = Erased(r.at, 0)
      BY <3>1 DEF Wipes
    <3>3. Erased(r.at, 0) = r.at .. r.at + 0 - 1 \/ 0 % 2 = 1
      BY <1>2, StartErases
    <3>4. 0 % 2 # 1
      OBVIOUS
    <3>5. r.at .. r.at + 0 - 1 = {}
      BY <1>2
    <3> QED
      BY <3>2, <3>3, <3>4, <3>5
  <2> QED
    BY <1>1, <1>2, <2>1, <2>3
<1>4. CASE r.command = "data" /\ writeAt \in DOMAIN flash
  <2>1. /\ flash' = [flash EXCEPT ![writeAt] = IF flash[writeAt] = Blank THEN r.data[1] ELSE "mixed"]
        /\ writeAt' = writeAt + 1
    BY <1>4 DEF Obey
  <2>2. r.data[1] \in Data
    <3>1. r.data # <<>>
      BY <1>4 DEF Requests
    <3>2. Len(r.data) \in Nat \ {0}
      BY <1>2, <3>1, EmptySeq
    <3>3. 1 \in 1 .. Len(r.data)
      BY <3>2
    <3> QED
      BY <1>2, <3>3, ElementOfSeq
  <2> QED
    BY <1>1, <1>4, <2>1, <2>2 DEF Harmless
<1>5. CASE r.command # "start" /\ ~(r.command = "data" /\ writeAt \in DOMAIN flash)
  BY <1>1, <1>5 DEF Obey
<1> QED
  BY <1>3, <1>4, <1>5

(* A flash_start erases all sectors of its image, and of the others at most  *)
(* the one behind it.                                                        *)
LEMMA StartWipes ==
  ASSUME NEW at \in Nat, NEW data, NEW n \in Nat, Len(data) = n
  PROVE  /\ at .. at + n - 1 \subseteq Wipes(Request("start", at, data))
         /\ \A s \in Wipes(Request("start", at, data)) :
              s \in at .. at + n - 1 \/ (n % 2 = 1 /\ s = at + n)
<1> DEFINE r == Request("start", at, data)
<1>1. Wipes(r) = Erased(at, n)
  BY DEF Wipes, Request
<1>2. \/ Wipes(r) = at .. at + n - 1
      \/ n % 2 = 1 /\ Wipes(r) = at .. at + n
  BY <1>1, StartErases
<1> QED
  BY <1>2

(* The request of a call puts the next sector into its place, and leaves the *)
(* sectors of earlier calls alone, but for the one behind its own.           *)
LEMMA RequestObeyed ==
  ASSUME LineTypeOK, EarlierCalls, InPlace(seq), call \in DOMAIN Calls,
         Obey(FlashRequest), UNCHANGED <<call, seq>>
  PROVE  EarlierCalls' /\ InPlace(seq + 1)'
<1> DEFINE at == Calls[call].at
           data == Calls[call].sectors
<1>1. /\ at \in Nat /\ Len(data) \in Nat /\ at + Len(data) <= NumSectors
      /\ DOMAIN data = 1 .. Len(data)
  BY CallsKnown
<1>2. seq \in 0 .. Len(data) /\ NumSectors \in Nat
      /\ flash \in [0 .. NumSectors - 1 -> Data \cup {Blank, "old", "mixed"}]
  BY SerialAssumption DEF LineTypeOK
<1>3. \A i \in DOMAIN Calls : i < call =>
        \A k \in DOMAIN Calls[i].sectors :
          /\ Calls[i].at + k - 1 \notin at .. at + Len(data) - 1
          /\ Calls[i].at + k - 1 \in 0 .. NumSectors - 1
  <2> SUFFICES ASSUME NEW i \in DOMAIN Calls, i < call, NEW k \in DOMAIN Calls[i].sectors
               PROVE  /\ Calls[i].at + k - 1 \notin at .. at + Len(data) - 1
                      /\ Calls[i].at + k - 1 \in 0 .. NumSectors - 1
    OBVIOUS
  <2>1. /\ Calls[i].at \in Nat /\ Len(Calls[i].sectors) \in Nat /\ k \in 1 .. Len(Calls[i].sectors)
        /\ Calls[i].at + Len(Calls[i].sectors) <= NumSectors
    BY CallsKnown
  <2>2. Calls[i].at + k - 1 \in Area(i)
    BY <2>1 DEF Area
  <2>3. i # call
    BY CallsKnown
  <2>4. Area(i) \cap Area(call) = {}
    BY <2>3, AreasAssumption
  <2>5. Area(call) = at .. at + Len(data) - 1
    BY DEF Area
  <2>6. Calls[i].at + k - 1 \notin at .. at + Len(data) - 1
    BY <2>2, <2>4, <2>5
  <2>7. Calls[i].at + k - 1 \in 0 .. NumSectors - 1
    BY <1>2, <2>1
  <2> QED
    BY <2>6, <2>7
<1>4. CASE seq = 0
  <2>1. FlashRequest = Request("start", at, data)
    BY <1>4 DEF FlashRequest
  <2>2. /\ FlashRequest.command = "start" /\ FlashRequest.at = at /\ FlashRequest.data = data
    BY <2>1 DEF Request
  <2> DEFINE W == Wipes(FlashRequest)
  <2>3. /\ flash' = [s \in DOMAIN flash |-> IF s \in W THEN Blank ELSE flash[s]]
        /\ writeAt' = at
    BY <2>2 DEF Obey
  <2>4. /\ at .. at + Len(data) - 1 \subseteq W
        /\ \A s \in W : s \in at .. at + Len(data) - 1 \/ (Len(data) % 2 = 1 /\ s = at + Len(data))
    <3> HIDE DEF at, data
    <3>1. /\ at .. at + Len(data) - 1 \subseteq Wipes(Request("start", at, data))
          /\ \A s \in Wipes(Request("start", at, data)) :
               s \in at .. at + Len(data) - 1 \/ (Len(data) % 2 = 1 /\ s = at + Len(data))
      BY <1>1, StartWipes
    <3> QED
      BY <2>1, <3>1 DEF W
  <2> HIDE DEF W
  <2>5. \A k \in 1 .. Len(data) : flash'[at + k - 1] = Blank
    <3> SUFFICES ASSUME NEW k \in 1 .. Len(data) PROVE flash'[at + k - 1] = Blank
      OBVIOUS
    <3>1. at + k - 1 \in at .. at + Len(data) - 1 /\ at + k - 1 \in 0 .. NumSectors - 1
      BY <1>1, <1>2
    <3> QED
      BY <1>2, <2>3, <2>4, <3>1
  <2>6. seq' = 0 /\ call' = call /\ writeAt' = at + 1 - 1
    BY <1>1, <1>4, <2>3
  <2>7. InPlace(seq + 1)'
    BY <2>5, <2>6 DEF InPlace
  <2>8. EarlierCalls'
    <3> SUFFICES ASSUME NEW i \in DOMAIN Calls, i < call, NEW k \in DOMAIN Calls[i].sectors
                 PROVE  InItsPlace(i, k)'
      BY DEF EarlierCalls
    <3> DEFINE s == Calls[i].at + k - 1
    <3>1. s \notin at .. at + Len(data) - 1 /\ s \in 0 .. NumSectors - 1
      BY <1>3
    <3>2. flash[s] = Calls[i].sectors[k] \/ (flash[s] = Blank /\ WipedBehind(i, s))
      BY DEF EarlierCalls, InItsPlace
    <3>3. CASE s \in W
      <4>1. Len(data) % 2 = 1 /\ s = at + Len(data) /\ flash'[s] = Blank
        BY <1>2, <2>3, <2>4, <3>1, <3>3
      <4>2. call > i /\ call \in DOMAIN Calls
        BY CallsKnown
      <4>3. WipedBehind(i, s)
        BY <4>1, <4>2 DEF WipedBehind
      <4>4. flash'[s] = Blank /\ WipedBehind(i, s)
        BY <4>1, <4>3
      <4> QED
        BY <4>4 DEF InItsPlace
    <3>4. CASE s \notin W
      <4>1. flash'[s] = flash[s]
        BY <1>2, <2>3, <3>1, <3>4
      <4> QED
        BY <3>2, <4>1 DEF InItsPlace
    <3> QED
      BY <3>3, <3>4
  <2> QED
    BY <2>7, <2>8
<1>5. CASE seq > 0
  <2>1. FlashRequest = Request("data", 0, <<data[seq]>>)
    BY <1>2, <1>5 DEF FlashRequest
  <2>2. FlashRequest.command = "data" /\ FlashRequest.data[1] = data[seq]
    BY <2>1 DEF Request
  <2>3. /\ writeAt = at + seq - 1
        /\ \A k \in 1 .. seq - 1 : flash[at + k - 1] = data[k]
        /\ \A k \in seq .. Len(data) : flash[at + k - 1] = Blank
    BY <1>5 DEF InPlace
  <2>4. writeAt = at + seq - 1 /\ writeAt \in at .. at + Len(data) - 1 /\ writeAt \in DOMAIN flash
    <3>1. writeAt = at + seq - 1
      BY <2>3
    <3>2. seq \in 1 .. Len(data)
      BY <1>1, <1>2, <1>5
    <3> HIDE DEF at, data
    <3> QED
      BY <1>1, <1>2, <3>1, <3>2
  <2>5. flash[writeAt] = Blank
    <3>1. seq \in seq .. Len(data)
      BY <1>1, <1>2
    <3>2. flash[at + seq - 1] = Blank
      BY <2>3, <3>1
    <3> QED
      BY <2>3, <3>2
  <2>6. flash' = [flash EXCEPT ![writeAt] = data[seq]] /\ writeAt' = writeAt + 1
    BY <2>2, <2>4, <2>5 DEF Obey
  <2>7. \A k \in 1 .. seq : flash'[at + k - 1] = data[k]
    <3> SUFFICES ASSUME NEW k \in 1 .. seq PROVE flash'[at + k - 1] = data[k]
      OBVIOUS
    <3>1. at + k - 1 \in 0 .. NumSectors - 1
      BY <1>1, <1>2, <1>5
    <3>2. CASE k = seq
      BY <1>2, <2>3, <2>4, <2>6, <3>2
    <3>3. CASE k # seq
      <4>1. k \in 1 .. seq - 1 /\ at + k - 1 # writeAt
        BY <1>1, <1>2, <2>3, <3>3
      <4> QED
        BY <1>2, <2>3, <2>6, <3>1, <4>1
    <3> QED
      BY <3>2, <3>3
  <2>8. \A k \in seq + 1 .. Len(data) : flash'[at + k - 1] = Blank
    <3> SUFFICES ASSUME NEW k \in seq + 1 .. Len(data) PROVE flash'[at + k - 1] = Blank
      OBVIOUS
    <3>1. at + k - 1 \in 0 .. NumSectors - 1 /\ at + k - 1 # writeAt /\ k \in seq .. Len(data)
      <4> HIDE DEF at, data
      <4> QED
        BY <1>1, <1>2, <1>5, <2>4
    <3>2. flash[at + k - 1] = Blank
      BY <2>3, <3>1
    <3> DEFINE s == at + k - 1
    <3>3. s \in DOMAIN flash /\ s # writeAt /\ flash[s] = Blank
      BY <1>2, <3>1, <3>2
    <3> HIDE DEF s
    <3>4. flash'[s] = Blank
      BY <2>6, <3>3
    <3> QED
      BY <3>4 DEF s
  <2>9. writeAt' = at + (seq + 1) - 1 /\ (seq + 1) - 1 = seq
    <3>1. at \in Nat /\ seq \in Nat
      BY <1>1, <1>2
    <3>2. writeAt = at + seq - 1
      BY <2>3
    <3>3. writeAt' = writeAt + 1
      BY <2>6
    <3> HIDE DEF at, data
    <3> QED
      BY <3>1, <3>2, <3>3
  <2>10. InPlace(seq + 1)'
    BY <2>7, <2>8, <2>9 DEF InPlace
  <2>11. \A s \in 0 .. NumSectors - 1 : s \notin at .. at + Len(data) - 1 => flash'[s] = flash[s]
    BY <1>2, <2>4, <2>6
  <2> QED
    BY <1>3, <2>10, <2>11 DEF EarlierCalls, InItsPlace
<1> QED
  BY <1>2, <1>4, <1>5

(* The ROM takes a request, and carries it out, refuses it or does neither.  *)
LEMMA DeviceKeeps == LineInv /\ DeviceNext => LineInv'
<1> SUFFICES ASSUME LineInv, DeviceNext PROVE LineInv'
  OBVIOUS
<1> DEFINE r == toDevice[1]
<1>1. LineTypeOK /\ HostOrder
  BY DEF LineInv
<1>2. /\ toDevice # <<>> /\ toDevice' = Tail(toDevice)
      /\ UNCHANGED <<host, phase, attempts, call, seq, recivedBuf, recivedPos, counted, reader,
                     chunk, loaded>>
  BY DEF DeviceNext, hostVars, progress, bufferVars, readerVars
<1>3. toDevice \in Seq(Requests) /\ Len(toDevice) \in Nat \ {0}
  BY <1>1, <1>2, EmptySeq DEF LineTypeOK
<1>4. r \in Requests
  <2>1. 1 \in 1 .. Len(toDevice)
    BY <1>3
  <2> QED
    BY <1>3, <2>1, ElementOfSeq
<1>5. /\ toDevice' \in Seq(Requests) /\ Len(toDevice') = Len(toDevice) - 1
      /\ \A i \in 1 .. Len(toDevice') : toDevice'[i] = toDevice[i + 1]
  BY <1>2, <1>3, HeadTailProperties
<1>6. /\ \/ Obey(r)
         \/ UNCHANGED <<flash, writeAt>>
      /\ \/ toHost' = toHost
         \/ \E status \in {"ok", "bad"}, value \in {"plain", "escaped"} :
              Serve(r, status, value) /\ (status = "ok" => Obey(r))
  BY DEF DeviceNext
<1>7. /\ flash' \in [0 .. NumSectors - 1 -> Data \cup {Blank, "old", "mixed"}] /\ writeAt' \in Int
      /\ Harmless(r) => flash' = flash
  <2>1. CASE Obey(r)
    BY <1>1, <1>4, <2>1, Obeyed
  <2>2. CASE UNCHANGED <<flash, writeAt>>
    BY <1>1, <2>2 DEF LineTypeOK
  <2> QED
    BY <1>6, <2>1, <2>2
<1>8. /\ toHost' \in Seq(Cells)
      /\ toHost' # <<>> => toHost'[1] = IF toHost = <<>> THEN "frame" ELSE toHost[1]
  <2>1. CASE toHost' = toHost
    BY <1>1, <2>1 DEF LineTypeOK
  <2>2. CASE \E status \in {"ok", "bad"}, value \in {"plain", "escaped"} : Serve(r, status, value)
    BY <1>1, <2>2, Served
  <2> QED
    BY <1>6, <2>1, <2>2
<1>9. LineTypeOK' /\ HostOrder'
  BY <1>1, <1>2, <1>5, <1>7, <1>8 DEF LineTypeOK, HostOrder
<1>10. ASSUME host # "failed" PROVE LineParts'
  <2>1. LineParts
    BY <1>10 DEF LineInv
  <2>2. ~(Watched /\ Asking) /\ ~(Watched /\ Asking)'
    BY <1>2, <2>1 DEF LineParts, NothingPending, Watched, Asking
  <2>3. CASE phase # "flash" \/ call \notin DOMAIN Calls
    <3>1. \A i \in 1 .. Len(toDevice) : Harmless(toDevice[i])
      BY <2>1, <2>3 DEF LineParts, HarmlessLine
    <3>2. flash' = flash
      BY <1>3, <1>7, <3>1
    <3>3. HarmlessLine'
      <4>1. \A i \in 1 .. Len(toDevice') : i + 1 \in 1 .. Len(toDevice)
        BY <1>3, <1>5
      <4> QED
        BY <1>5, <3>1, <4>1 DEF HarmlessLine
    <3>4. EarlierCalls'
      BY <1>2, <2>1, <3>2 DEF LineParts, EarlierCalls, InItsPlace
    <3>5. FrameFirst => FrameFirst'
      BY <1>2, <1>8 DEF FrameFirst
    <3>6. ~(phase = "flash" /\ Watched)'
      BY <1>2, <2>3 DEF Watched
    <3>7. Watched' = Watched /\ Waiting' = Waiting
      BY <1>2 DEF Watched, Waiting
    <3> QED
      BY <1>2, <2>1, <2>2, <3>3, <3>4, <3>5, <3>6, <3>7 DEF LineParts, NothingPending
  <2>4. CASE phase = "flash" /\ call \in DOMAIN Calls
    <3>1. Watched /\ Waiting
      BY <1>1, <1>10, <2>2, <2>4 DEF Watched, Waiting, Asking, LineTypeOK, HostOrder
    <3>2. OneAnswer
      BY <2>1, <2>4, <3>1 DEF LineParts
    <3>3. Unanswered /\ Requested
      BY <1>2, <3>2 DEF OneAnswer, Answered
    <3>4. r = FlashRequest /\ r.command # "sync" /\ toHost = <<>> /\ toDevice' = <<>>
      <4>1. toDevice = <<FlashRequest>> /\ toHost = <<>>
        BY <3>3 DEF Requested, Unanswered
      <4>2. Len(toDevice) = 1
        BY <4>1
      <4>3. toDevice' = <<>>
        <5>1. Len(toDevice') = 0
          BY <1>5, <4>2
        <5> QED
          BY <1>5, <5>1, EmptySeq
      <4>4. FlashRequest.command # "sync"
        BY <2>4 DEF FlashRequest, Request
      <4> QED
        BY <4>1, <4>3, <4>4
    <3>5. EarlierCalls' /\ (Obey(r) => InPlace(seq + 1)')
      <4>1. CASE Obey(r)
        BY <1>1, <1>2, <2>1, <2>4, <3>3, <3>4, <4>1, RequestObeyed DEF LineParts, Requested
      <4>2. CASE ~Obey(r)
        BY <1>2, <1>6, <2>1, <4>2 DEF LineParts, EarlierCalls, InItsPlace
      <4> QED
        BY <4>1, <4>2
    <3>6. OneAnswer'
      <4>1. CASE toHost' = toHost
        BY <1>2, <3>3, <3>4, <4>1 DEF OneAnswer, Unanswered
      <4>2. ASSUME NEW status \in {"ok", "bad"}, NEW value \in {"plain", "escaped"},
                   Serve(r, status, value)
            PROVE  Answered(status, value)'
        <5>1. Len(toHost') = 5 /\ \A i \in 1 .. 5 : toHost'[i] = Answer(status, value)[i]
          BY <1>1, <3>4, <4>2, Served
        <5>2. recivedPos' = 0 /\ reader' = "read" /\ Read' = 0
          BY <1>2, <3>3 DEF Unanswered, Read
        <5> QED
          BY <3>4, <5>1, <5>2 DEF Answered
      <4>3. ASSUME NEW status \in {"ok", "bad"}, NEW value \in {"plain", "escaped"},
                   Serve(r, status, value), status = "ok" => Obey(r)
            PROVE  OneAnswer'
        BY <3>5, <4>2, <4>3 DEF OneAnswer
      <4> QED
        BY <1>6, <4>1, <4>3
    <3>7. (phase = "flash" /\ call \in DOMAIN Calls)'
      BY <1>2, <2>4
    <3> QED
      BY <2>2, <3>5, <3>6, <3>7 DEF LineParts, NothingPending, HarmlessLine
  <2> QED
    BY <2>3, <2>4
<1> QED
  BY <1>2, <1>9, <1>10 DEF LineInv
-----------------------------------------------------------------------------
(* main() and flash_send *)

(* force_flash_mode is only used while the device is searched for.           *)
LEMMA ForceKeeps == LineInv /\ ForceFlashMode => LineInv'
<1> SUFFICES ASSUME LineInv, ForceFlashMode PROVE LineInv'
  OBVIOUS
<1>1. LineTypeOK /\ HostOrder /\ LineParts
  BY DEF LineInv, ForceFlashMode
<1>2. /\ host = "force" /\ host' = "clear" /\ toDevice' = <<>> /\ writeAt' = -1
      /\ toHost' \in {toHost, Append(toHost, "noise")}
      /\ UNCHANGED <<phase, attempts, call, seq, recivedBuf, recivedPos, counted, reader, chunk,
                     loaded, flash>>
  BY DEF ForceFlashMode, progress, bufferVars, readerVars
<1>3. toHost' \in Seq(Cells)
  <2>1. "noise" \in Cells
    BY DEF Cells
  <2>2. toHost \in Seq(Cells)
    BY <1>1 DEF LineTypeOK
  <2>3. Append(toHost, "noise") \in Seq(Cells)
    BY <2>1, <2>2, AppendProperties
  <2> QED
    BY <1>2, <2>2, <2>3
<1>4. toDevice' \in Seq(Requests) /\ Len(toDevice') = 0 /\ writeAt' \in Int
  BY <1>2
<1>5. LineTypeOK' /\ HostOrder'
  BY <1>1, <1>2, <1>3, <1>4 DEF LineTypeOK, HostOrder
<1>6. EarlierCalls' /\ HarmlessLine'
  BY <1>1, <1>2, <1>4 DEF LineParts, EarlierCalls, InItsPlace, HarmlessLine
<1>7. phase' = "detect"
  BY <1>1, <1>2 DEF HostOrder
<1> QED
  BY <1>5, <1>6, <1>7 DEF LineInv, LineParts, NothingPending, Watched

(* clearReciveBuffer: nothing is on its way that could undo it.              *)
LEMMA ClearKeeps == LineInv /\ Clear => LineInv'
<1> SUFFICES ASSUME LineInv, Clear PROVE LineInv'
  OBVIOUS
<1>1. LineTypeOK /\ HostOrder /\ LineParts
  BY DEF LineInv, Clear
<1>2. /\ host = "clear" /\ host' = "reset" /\ recivedPos' = 0
      /\ UNCHANGED <<phase, attempts, call, seq, recivedBuf, counted, reader, chunk, loaded,
                     toDevice, toHost, flash, writeAt>>
  BY DEF Clear, Cleared, progress, readerVars, deviceVars
<1>3. LineTypeOK' /\ HostOrder'
  <2>1. 0 \in 0 .. BufCells
    BY SerialAssumption
  <2> QED
    BY <1>1, <1>2, <2>1 DEF LineTypeOK, HostOrder
<1>4. EarlierCalls' /\ HarmlessLine' /\ NothingPending'
  BY <1>1, <1>2
  DEF LineParts, EarlierCalls, InItsPlace, HarmlessLine, NothingPending, Watched, Asking
<1>5. (phase = "flash" /\ Watched /\ Asking => InPlace(seq))'
  BY <1>1, <1>2 DEF LineParts, Watched, Asking, InPlace
<1>6. ~Waiting'
  BY <1>2 DEF Waiting
<1> QED
  BY <1>3, <1>4, <1>5, <1>6 DEF LineInv, LineParts

(* SerialPort::send sets the count to 0.                                     *)
LEMMA ResetKeeps == LineInv /\ ResetCount => LineInv'
<1> SUFFICES ASSUME LineInv, ResetCount PROVE LineInv'
  OBVIOUS
<1>1. LineTypeOK /\ HostOrder /\ LineParts
  BY DEF LineInv, ResetCount
<1>2. /\ host = "reset" /\ host' = "send" /\ counted' = 0
      /\ UNCHANGED <<phase, attempts, call, seq, recivedBuf, recivedPos, reader, chunk, loaded,
                     toDevice, toHost, flash, writeAt>>
  BY DEF ResetCount, progress, bufferVars, readerVars, deviceVars
<1>3. LineTypeOK' /\ HostOrder'
  BY <1>1, <1>2 DEF LineTypeOK, HostOrder
<1>4. EarlierCalls' /\ HarmlessLine' /\ NothingPending'
  BY <1>1, <1>2
  DEF LineParts, EarlierCalls, InItsPlace, HarmlessLine, NothingPending, Watched, Asking
<1>5. (phase = "flash" /\ Watched /\ Asking => InPlace(seq))'
  BY <1>1, <1>2 DEF LineParts, Watched, Asking, InPlace
<1>6. ~Waiting'
  BY <1>2 DEF Waiting
<1> QED
  BY <1>3, <1>4, <1>5, <1>6 DEF LineInv, LineParts

(* What is sent in the place where main() is.                                *)
LEMMA RequestKnown ==
  ASSUME LineTypeOK
  PROVE  /\ Current \in Requests
         /\ phase # "flash" \/ call \notin DOMAIN Calls => Harmless(Current)
<1>1. CASE phase # "flash"
  BY <1>1 DEF Current, Sync, Request, Requests, Harmless
<1>2. CASE phase = "flash" /\ call \notin DOMAIN Calls
  <2>1. seq \in {0, 1}
    BY <1>2 DEF LineTypeOK
  <2>2. Current = Farewell[seq + 1]
    BY <1>2 DEF Current, FlashRequest
  <2>3. Current \in {Request("start", 0, <<>>), Request("done", 0, <<>>)}
    BY <2>1, <2>2 DEF Farewell
  <2>4. <<>> \in Seq(Data) /\ 0 \in Nat
    BY EmptySeq
  <2>5. \A command \in {"start", "done"} :
          Request(command, 0, <<>>) \in Requests /\ Harmless(Request(command, 0, <<>>))
    BY <2>4 DEF Request, Requests, Harmless
  <2> QED
    BY <1>2, <2>3, <2>5
<1>3. CASE phase = "flash" /\ call \in DOMAIN Calls
  <2>1. /\ Calls[call].at \in Nat /\ Calls[call].sectors \in Seq(Data)
        /\ seq \in 0 .. Len(Calls[call].sectors) /\ Len(Calls[call].sectors) \in Nat
    BY <1>3, CallsKnown DEF LineTypeOK
  <2>2. CASE seq = 0
    BY <1>3, <2>1, <2>2 DEF Current, FlashRequest, Request, Requests
  <2>3. CASE seq > 0
    <3>1. seq \in 1 .. Len(Calls[call].sectors)
      BY <2>1, <2>3
    <3>2. Calls[call].sectors[seq] \in Data
      BY <2>1, <3>1, ElementOfSeq
    <3>3. <<Calls[call].sectors[seq]>> \in Seq(Data) /\ <<Calls[call].sectors[seq]>> # <<>>
      BY <3>2
    <3>4. Current = Request("data", 0, <<Calls[call].sectors[seq]>>)
      BY <1>3, <2>1, <2>3 DEF Current, FlashRequest
    <3> QED
      BY <1>3, <3>3, <3>4 DEF Request, Requests
  <2> QED
    BY <2>1, <2>2, <2>3
<1> QED
  BY <1>1, <1>2, <1>3

(* The request is sent, and is the only one on the line.                     *)
LEMMA SendKeeps == LineInv /\ Send => LineInv'
<1> SUFFICES ASSUME LineInv, Send PROVE LineInv'
  OBVIOUS
<1>1. LineTypeOK /\ HostOrder /\ LineParts
  BY DEF LineInv, Send
<1>2. /\ host = "send" /\ host' = "head" /\ toDevice' = Append(toDevice, Current)
      /\ UNCHANGED <<phase, attempts, call, seq, recivedBuf, recivedPos, counted, reader, chunk,
                     loaded, toHost, flash, writeAt>>
  BY DEF Send, progress, bufferVars, readerVars, deviceVars
<1>3. /\ toDevice \in Seq(Requests) /\ Len(toDevice) \in Nat
      /\ Current \in Requests
      /\ phase # "flash" \/ call \notin DOMAIN Calls => Harmless(Current)
  BY <1>1, RequestKnown, LenProperties DEF LineTypeOK
<1>4. /\ toDevice' \in Seq(Requests) /\ Len(toDevice') = Len(toDevice) + 1
      /\ \A i \in 1 .. Len(toDevice) : toDevice'[i] = toDevice[i]
      /\ toDevice'[Len(toDevice) + 1] = Current
  BY <1>2, <1>3, AppendProperties
<1>5. LineTypeOK' /\ HostOrder'
  BY <1>1, <1>2, <1>4 DEF LineTypeOK, HostOrder
<1>6. EarlierCalls'
  BY <1>1, <1>2 DEF LineParts, EarlierCalls, InItsPlace
<1>7. HarmlessLine'
  <2> SUFFICES ASSUME phase # "flash" \/ call \notin DOMAIN Calls, NEW i \in 1 .. Len(toDevice')
               PROVE  Harmless(toDevice'[i])
    BY <1>2 DEF HarmlessLine
  <2>1. CASE i \in 1 .. Len(toDevice)
    BY <1>1, <1>4, <2>1 DEF LineParts, HarmlessLine
  <2>2. CASE i = Len(toDevice) + 1
    BY <1>3, <1>4, <2>2
  <2> QED
    BY <1>3, <1>4, <2>1, <2>2
<1>8. Waiting' /\ ~Asking' /\ Asking /\ Watched' = Watched
  BY <1>2 DEF Waiting, Asking, Watched
<1>9. ASSUME Watched PROVE FrameFirst' /\ (phase = "flash" => OneAnswer')
  <2>1. toHost = <<>> /\ toDevice = <<>> /\ reader = "read" /\ recivedPos = 0 /\ counted = 0
    BY <1>1, <1>2, <1>8, <1>9 DEF LineParts, NothingPending
  <2>2. FrameFirst'
    BY <1>2, <2>1 DEF FrameFirst
  <2>3. ASSUME phase = "flash" PROVE OneAnswer'
    <3>1. InPlace(seq)'
      BY <1>1, <1>2, <1>8, <1>9, <2>3 DEF LineParts, InPlace
    <3>2. FlashRequest' = FlashRequest /\ Current = FlashRequest
      BY <1>2, <2>3 DEF FlashRequest, Current
    <3>3. toDevice' = <<FlashRequest>>'
      BY <1>2, <2>1, <3>2
    <3> QED
      BY <1>2, <2>1, <3>1, <3>3 DEF OneAnswer, Unanswered, Requested
  <2> QED
    BY <2>2, <2>3
<1> QED
  BY <1>2, <1>5, <1>6, <1>7, <1>8, <1>9 DEF LineInv, LineParts, NothingPending

(* What the return of flash_send needs, with what is sent before the calls   *)
(* and in them.                                                              *)
LEMMA ReturnKeeps ==
  ASSUME LineInv, Waiting, NEW ok \in BOOLEAN, Return(ok),
         phase = "resync" /\ Watched => AllAnswered,
         phase = "detect" /\ ok => AllAnswered,
         phase = "flash" /\ Watched /\ ok => AllAnswered /\ InPlace(seq + 1)
  PROVE  LineInv'
<1>1. LineTypeOK /\ HostOrder /\ LineParts /\ host # "failed"
  BY DEF LineInv, Waiting
<1>2. UNCHANGED <<recivedBuf, recivedPos, counted, reader, chunk, loaded, toDevice, toHost, flash,
                  writeAt>>
  BY DEF Return, bufferVars, readerVars, deviceVars
<1>3. CASE phase # "flash"
  <2>1. UNCHANGED <<call, seq>> /\ Synced(ok) /\ call = 1 /\ seq = 0
    BY <1>1, <1>3 DEF Return, Synced, progress, HostOrder
  <2>2. /\ host' \in {"clear", "force", "failed"} /\ phase' \in {"detect", "resync", "flash"}
        /\ host' = "force" => phase' = "detect"
        /\ phase' = "detect" \/ phase = "resync" \/ (phase = "detect" /\ ok)
        /\ attempts' \in Nat \ {0}
    <3>1. attempts \in Nat \ {0} /\ Attempts \in Nat \ {0} /\ phase \in {"detect", "resync"}
      BY <1>1, <1>3, SerialAssumption DEF LineTypeOK
    <3>2. CASE ok /\ phase = "detect"
      BY <2>1, <3>1, <3>2 DEF Synced
    <3>3. CASE ~ok /\ attempts > 1
      <4>1. attempts' = attempts - 1 /\ host' = "clear" /\ phase' = phase
        BY <2>1, <3>3 DEF Synced, Fewer
      <4> QED
        BY <3>1, <3>3, <4>1
    <3>4. CASE phase = "resync" /\ (ok \/ attempts = 1)
      BY <2>1, <3>1, <3>4 DEF Synced
    <3>5. CASE phase = "detect" /\ ~ok /\ ~(attempts > 1)
      BY <2>1, <3>1, <3>5 DEF Synced
    <3> QED
      BY <3>1, <3>2, <3>3, <3>4, <3>5
  <2>3. LineTypeOK' /\ HostOrder'
    BY <1>1, <1>2, <2>1, <2>2 DEF LineTypeOK, HostOrder
  <2>4. EarlierCalls' /\ HarmlessLine'
    BY <1>1, <1>2, <1>3, <2>1, CallsKnown DEF LineParts, EarlierCalls, InItsPlace, HarmlessLine
  <2>5. NothingPending'
    <3> SUFFICES ASSUME Watched', Asking'
                 PROVE  /\ toHost = <<>> /\ toDevice = <<>> /\ reader = "read" /\ host' = "clear"
      BY <1>2 DEF NothingPending
    <3>1. host' = "clear"
      BY <2>2 DEF Asking
    <3>2. phase' # "detect" /\ call \in DOMAIN Calls
      BY <2>1 DEF Watched
    <3>3. AllAnswered
      BY <2>2, <3>2 DEF Watched
    <3> QED
      BY <3>1, <3>3 DEF AllAnswered, Silent
  <2>6. InPlace(seq)'
    BY <2>1 DEF InPlace
  <2>7. ~Waiting'
    BY <2>2 DEF Waiting
  <2> QED
    BY <2>3, <2>4, <2>5, <2>6, <2>7 DEF LineInv, LineParts
<1>4. CASE phase = "flash"
  <2>1. Flashed(ok) /\ UNCHANGED <<phase, attempts>>
    BY <1>4 DEF Return, Flashed
  <2>2. CASE ~Passed(ok)
    <3>1. host' = "failed" /\ UNCHANGED <<call, seq>>
      BY <2>1, <2>2 DEF Flashed, progress
    <3>2. LineTypeOK' /\ HostOrder'
      BY <1>1, <1>2, <1>4, <2>1, <3>1 DEF LineTypeOK, HostOrder
    <3> QED
      BY <3>1, <3>2 DEF LineInv
  <2>3. CASE Passed(ok) /\ call \notin DOMAIN Calls
    <3>1. seq \in {0, 1} /\ Advance
      BY <1>1, <2>1, <2>3 DEF LineTypeOK, Flashed
    <3>2. \/ seq = 0 /\ seq' = 1 /\ host' = "clear" /\ call' = call
          \/ host' = "done" /\ UNCHANGED <<call, seq>>
      BY <2>3, <3>1 DEF Advance, LastRequest, progress
    <3>3. LineTypeOK' /\ HostOrder'
      BY <1>1, <1>2, <1>4, <2>1, <2>3, <3>1, <3>2 DEF LineTypeOK, HostOrder
    <3>4. EarlierCalls' /\ HarmlessLine'
      BY <1>1, <1>2, <2>1, <2>3, <3>2 DEF LineParts, EarlierCalls, InItsPlace, HarmlessLine
    <3>5. ~Watched'
      BY <2>3, <3>2 DEF Watched
    <3> QED
      BY <3>3, <3>4, <3>5 DEF LineInv, LineParts, NothingPending
  <2>4. CASE Passed(ok) /\ call \in DOMAIN Calls
    <3>1. ok /\ Watched
      BY <1>4, <2>4 DEF Passed, Watched
    <3>2. AllAnswered /\ InPlace(seq + 1)
      BY <1>4, <3>1
    <3>3. /\ Len(Calls[call].sectors) \in Nat /\ seq \in 0 .. Len(Calls[call].sectors)
          /\ DOMAIN Calls[call].sectors = 1 .. Len(Calls[call].sectors)
          /\ call \in 1 .. Len(Calls) /\ Len(Calls) \in Nat
      BY <1>1, <2>4, CallsKnown DEF LineTypeOK
    <3>4. /\ toHost' = <<>> /\ toDevice' = <<>> /\ reader' = "read"
          /\ Len(toDevice') = 0
      BY <1>2, <3>2 DEF AllAnswered, Silent
    <3>5. host' = "clear" /\ HostOrder'
      BY <1>1, <1>4, <2>1, <2>4 DEF Flashed, Advance, LastRequest, HostOrder
    <3>6. CASE seq # Len(Calls[call].sectors)
      <4>1. seq' = seq + 1 /\ call' = call
        BY <2>1, <2>4, <3>6 DEF Flashed, Advance, LastRequest
      <4>2. seq' \in 0 .. Len(Calls[call].sectors)
        BY <3>3, <3>6, <4>1
      <4>3. LineTypeOK'
        BY <1>1, <1>2, <2>1, <2>4, <3>5, <4>1, <4>2 DEF LineTypeOK
      <4>4. EarlierCalls' /\ InPlace(seq)'
        BY <1>1, <1>2, <3>2, <4>1 DEF LineParts, EarlierCalls, InItsPlace, InPlace
      <4> QED
        BY <3>4, <3>5, <4>3, <4>4 DEF LineInv, LineParts, NothingPending, HarmlessLine, Waiting
    <3>7. CASE seq = Len(Calls[call].sectors)
      <4>1. seq' = 0 /\ call' = call + 1
        BY <2>1, <2>4, <3>7 DEF Flashed, Advance, LastRequest
      <4>2. call' \in 1 .. Len(Calls) + 1
        BY <3>3, <4>1
      <4>3. 0 \in 0 .. (IF call' \in DOMAIN Calls THEN Len(Calls[call'].sectors) ELSE 1)
        BY CallsKnown
      <4>4. LineTypeOK'
        BY <1>1, <1>2, <2>1, <3>5, <4>1, <4>2, <4>3 DEF LineTypeOK
      <4>5. InPlace(seq)'
        BY <4>1 DEF InPlace
      <4>6. EarlierCalls'
        <5> SUFFICES ASSUME NEW i \in DOMAIN Calls, i < call + 1, NEW k \in DOMAIN Calls[i].sectors
                     PROVE  InItsPlace(i, k)
          BY <1>2, <4>1 DEF EarlierCalls, InItsPlace
        <5>1. CASE i < call
          BY <1>1, <5>1 DEF LineParts, EarlierCalls, InItsPlace
        <5>2. CASE i = call
          <6>1. seq + 1 > 0 /\ (seq + 1) - 1 = seq
            BY <3>3
          <6>2. \A j \in 1 .. seq : flash[Calls[call].at + j - 1] = Calls[call].sectors[j]
            BY <3>2, <6>1 DEF InPlace
          <6> QED
            BY <3>3, <3>7, <5>2, <6>2 DEF InItsPlace
        <5>3. i \in Int
          BY CallsKnown
        <5> QED
          BY <3>3, <5>1, <5>2, <5>3
      <4> QED
        BY <3>4, <3>5, <4>4, <4>5, <4>6
        DEF LineInv, LineParts, NothingPending, HarmlessLine, Waiting
    <3> QED
      BY <3>6, <3>7
  <2> QED
    BY <2>2, <2>3, <2>4
<1> QED
  BY <1>3, <1>4

(* The wait ends without an answer.                                          *)
LEMMA TimeOutKeeps == LineInv /\ TimeOut => LineInv'
<1> SUFFICES ASSUME LineInv, TimeOut PROVE LineInv'
  OBVIOUS
<1>1. /\ host \in {"head", "whole"} /\ (phase # "flash" => AllAnswered) /\ Return(FALSE)
  BY DEF TimeOut
<1>2. Waiting
  BY <1>1 DEF Waiting
<1> QED
  BY <1>1, <1>2, ReturnKeeps

(* A step to the next wait of the same flash_send.                           *)
LEMMA OnwardKeeps ==
  ASSUME LineInv, Waiting, host' \in {"whole", "quiet"}, counted # 0 \/ host # "head",
         UNCHANGED <<phase, rounds, attempts, progress, bufferVars, counted, readerVars, toDevice,
                     toHost, deviceVars>>
  PROVE  LineInv'
<1>1. LineTypeOK /\ HostOrder /\ LineParts
  BY DEF LineInv, Waiting
<1>2. UNCHANGED <<phase, attempts, call, seq, recivedBuf, recivedPos, counted, reader, chunk, loaded,
                  toDevice, toHost, flash, writeAt>>
  BY DEF progress, bufferVars, readerVars, deviceVars
<1>3. LineTypeOK' /\ HostOrder'
  BY <1>1, <1>2 DEF LineTypeOK, HostOrder
<1>4. EarlierCalls' /\ HarmlessLine' /\ ~Asking'
  BY <1>1, <1>2 DEF LineParts, EarlierCalls, InItsPlace, HarmlessLine, Asking
<1>5. FrameFirst => FrameFirst'
  BY <1>2 DEF FrameFirst
<1>6. OneAnswer => OneAnswer'
  <2>1. ~Unanswered
    BY DEF Unanswered
  <2>2. \A status \in {"ok", "bad"}, value \in {"plain", "escaped"} :
          Answered(status, value) => Answered(status, value)'
    BY <1>2 DEF Answered, Read
  <2>3. InPlace(seq + 1) => InPlace(seq + 1)'
    BY <1>2 DEF InPlace
  <2> QED
    BY <2>1, <2>2, <2>3 DEF OneAnswer
<1>7. Watched' = Watched
  BY <1>2 DEF Watched
<1> QED
  BY <1>1, <1>2, <1>3, <1>4, <1>5, <1>6, <1>7 DEF LineInv, LineParts, NothingPending

(* The head is looked at; a sync that is being answered is not given up      *)
(* here.                                                                     *)
LEMMA WaitHeadKeeps == LineInv /\ WaitHead => LineInv'
<1> SUFFICES ASSUME LineInv, WaitHead PROVE LineInv'
  OBVIOUS
<1>1. LineTypeOK /\ LineParts /\ Waiting /\ host = "head" /\ counted # 0
  BY DEF LineInv, WaitHead, Waiting, HeadCells, LineTypeOK
<1>2. CASE recivedBuf[1] # "frame" /\ recivedBuf[2] # "head"
  <2>1. Return(FALSE)
    BY <1>2 DEF WaitHead
  <2>2. ~(phase = "resync" /\ Watched)
    BY <1>1, <1>2 DEF LineParts, FrameFirst
  <2> QED
    BY <1>1, <2>1, <2>2, ReturnKeeps
<1>3. CASE ~(recivedBuf[1] # "frame" /\ recivedBuf[2] # "head")
  BY <1>1, <1>3, OnwardKeeps DEF WaitHead
<1> QED
  BY <1>2, <1>3

(* All of the answer is counted.                                             *)
LEMMA WaitWholeKeeps == LineInv /\ WaitWhole => LineInv'
  BY OnwardKeeps DEF WaitWhole, Waiting

(* An answer that is judged good was given to the request that waits for it. *)
LEMMA JudgeKeeps == LineInv /\ Judge => LineInv'
<1> SUFFICES ASSUME LineInv, Judge PROVE LineInv'
  OBVIOUS
<1> DEFINE ok == recivedBuf[2] = "head" /\ recivedBuf[5] = "frame" /\ recivedBuf[4] = "ok"
<1>1. LineTypeOK /\ LineParts /\ Waiting /\ host = "quiet"
  BY DEF LineInv, Judge, Waiting
<1>2. Return(ok) /\ ok \in BOOLEAN
  BY DEF Judge
<1>3. Silent /\ (phase # "flash" => AllAnswered)
  BY DEF Judge, LineQuiet, AllAnswered
<1>4. ASSUME phase = "flash", Watched, ok PROVE AllAnswered /\ InPlace(seq + 1)
  <2>1. OneAnswer /\ ~Unanswered
    BY <1>1, <1>4 DEF LineParts, Unanswered
  <2>2. PICK status \in {"ok", "bad"}, value \in {"plain", "escaped"} :
          Answered(status, value) /\ (status = "ok" => InPlace(seq + 1))
    BY <2>1 DEF OneAnswer
  <2>3. recivedPos = 5
    <3>1. Read = 0 /\ Len(toHost) = 0 /\ recivedPos \in Nat
      BY <1>1, <1>3, SerialAssumption DEF Silent, Read, LineTypeOK
    <3> QED
      BY <2>2, <3>1 DEF Answered
  <2>4. recivedBuf[4] = Unescaped(status)
    <3>1. 4 \in 1 .. recivedPos /\ Answer(status, value)[4] = status
      BY <2>3 DEF Answer
    <3> QED
      BY <2>2, <3>1 DEF Answered
  <2>5. status = "ok"
    BY <1>4, <2>4 DEF Unescaped
  <2> QED
    BY <1>3, <2>2, <2>5 DEF AllAnswered, Answered
<1> HIDE DEF ok
<1> QED
  BY <1>1, <1>2, <1>3, <1>4, ReturnKeeps
-----------------------------------------------------------------------------
(* Each step keeps the invariant.                                            *)
LEMMA LineStep == LineInv /\ [SerialNext]_serialVars => LineInv'
<1> SUFFICES ASSUME LineInv, [SerialNext]_serialVars PROVE LineInv'
  OBVIOUS
<1>1. CASE HostNext
  BY <1>1, ForceKeeps, ClearKeeps, ResetKeeps, SendKeeps, TimeOutKeeps, WaitHeadKeeps,
     WaitWholeKeeps, JudgeKeeps DEF HostNext
<1>2. CASE ReaderNext
  BY <1>2, ReadLineKeeps, AppendKeeps, CountKeeps DEF ReaderNext
<1>3. CASE DeviceNext
  BY <1>3, DeviceKeeps
<1>4. CASE UNCHANGED serialVars
  <2>1. UNCHANGED <<host, phase, attempts, call, seq, recivedBuf, recivedPos, counted, reader, chunk,
                    loaded, toDevice, toHost, flash, writeAt>>
    BY <1>4 DEF serialVars, hostVars, progress, bufferVars, readerVars, deviceVars
  <2>2. LineTypeOK' = LineTypeOK /\ HostOrder' = HostOrder
    BY <2>1 DEF LineTypeOK, HostOrder
  <2>3. LineParts' = LineParts
    <3>1. EarlierCalls' = EarlierCalls /\ HarmlessLine' = HarmlessLine
      BY <2>1 DEF EarlierCalls, InItsPlace, HarmlessLine
    <3>2. Watched' = Watched /\ Asking' = Asking /\ Waiting' = Waiting
      BY <2>1 DEF Watched, Asking, Waiting
    <3>3. NothingPending' = NothingPending /\ FrameFirst' = FrameFirst
      BY <2>1, <3>2 DEF NothingPending, FrameFirst
    <3>4. InPlace(seq)' = InPlace(seq) /\ InPlace(seq + 1)' = InPlace(seq + 1)
      BY <2>1 DEF InPlace
    <3>5. Requested' = Requested /\ Unanswered' = Unanswered
      BY <2>1, <3>4 DEF Requested, Unanswered, FlashRequest
    <3>6. \A status \in {"ok", "bad"}, value \in {"plain", "escaped"} :
            Answered(status, value)' = Answered(status, value)
      BY <2>1 DEF Answered, Read
    <3>7. OneAnswer' = OneAnswer
      BY <2>1, <3>4, <3>5, <3>6 DEF OneAnswer
    <3> QED
      BY <2>1, <3>1, <3>2, <3>3, <3>4, <3>7 DEF LineParts
  <2> QED
    BY <2>1, <2>2, <2>3 DEF LineInv
<1> QED
  BY <1>1, <1>2, <1>3, <1>4 DEF SerialNext

(* The answers to the syncs are all taken before the first call begins, each *)
(* request of a call has one answer, and what was written stays: this holds  *)
(* of every set of images, every number of lost and refused requests and of  *)
(* answers to a sync, and every step of the reading thread in between.       *)
THEOREM LineInvariant == SerialSpec => []LineInv
  BY LineInit, LineStep, PTL DEF SerialSpec

(* When esp-flasher says "Flashing done.", every sector of every image is in *)
(* its place, or blank because it lies right behind an image of an odd       *)
(* number of sectors that was sent later.                                    *)
THEOREM DoneIsFlashed == SerialSpec => []DoneMeansFlashed
<1>1. LineInv => DoneMeansFlashed
  <2> SUFFICES ASSUME LineInv, host = "done", NEW i \in DOMAIN Calls, NEW k \in DOMAIN Calls[i].sectors
               PROVE  InItsPlace(i, k)
    BY DEF DoneMeansFlashed
  <2>1. EarlierCalls /\ call \in 1 .. Len(Calls) + 1 /\ call \notin DOMAIN Calls
    BY DEF LineInv, LineParts, LineTypeOK, HostOrder
  <2>2. i < call
    BY <2>1, CallsKnown
  <2> QED
    BY <2>1, <2>2 DEF EarlierCalls
<1> QED
  BY <1>1, LineInvariant, PTL
=============================================================================
