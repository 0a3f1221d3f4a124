---------------------------- MODULE AudioProofs -----------------------------
(***************************************************************************)
(* The sound, for every number of buffers, length of music and of a        *)
(* buffer, and wherever the interrupt comes: a buffer that is played twice *)
(* is counted, a map is loaded in silence, and the ring is the queue of    *)
(* AudioQueue.                                                             *)
(***************************************************************************)
EXTENDS Audio, SequenceTheorems, TLAPS

USE AudioAssumption DEF AudioAssumption

\* The remainder is the only one.
LEMMA Remainder ==
  ASSUME NEW n \in Nat \ {0}, NEW a \in Int, NEW k \in Int, NEW r \in Nat, r < n,
         a = k * n + r
  PROVE  a % n = r
<1> DEFINE q == a \div n
           t == a % n
<1>1. q \in Int /\ t \in 0 .. n - 1 /\ a = q * n + t
  BY SMT
<1> SUFFICES t = r
  OBVIOUS
<1> HIDE DEF q, t
<1> DEFINE d == k - q
<1>2. d \in Int /\ d * n = t - r
  BY <1>1
<1> HIDE DEF d
<1>3. CASE d >= 1
  <2>1. d * n >= n
    BY <1>2, <1>3
  <2> QED
    BY <1>1, <1>2, <2>1
<1>4. CASE d <= -1
  <2>1. d * n <= -n
    BY <1>2, <1>4
  <2> QED
    BY <1>1, <1>2, <2>1
<1>5. CASE d = 0
  BY <1>2, <1>1, <1>5
<1> QED
  BY <1>2, <1>3, <1>4, <1>5

\* The buffer k places on, and how far one buffer is behind another.
LEMMA Onwards ==
  ASSUME NEW b \in Buffers, NEW k \in 0 .. BufCnt
  PROVE  (b + k) % BufCnt = IF b + k < BufCnt THEN b + k ELSE b + k - BufCnt
<1>1. CASE b + k < BufCnt
  <2>1. b + k = 0 * BufCnt + (b + k)
    BY DEF Buffers
  <2> QED
    BY <1>1, <2>1, Remainder DEF Buffers
<1>2. CASE b + k >= BufCnt
  <2>1. b + k = 1 * BufCnt + (b + k - BufCnt)
    BY DEF Buffers
  <2>2. b + k - BufCnt \in Nat /\ b + k - BufCnt < BufCnt
    BY <1>2 DEF Buffers
  <2> QED
    BY <1>2, <2>1, <2>2, Remainder DEF Buffers
<1> QED
  BY <1>1, <1>2 DEF Buffers

LEMMA Behind ==
  ASSUME NEW b \in Buffers, NEW c \in Buffers
  PROVE  (c - b) % BufCnt = IF c >= b THEN c - b ELSE c - b + BufCnt
<1>1. CASE c >= b
  <2>1. c - b = 0 * BufCnt + (c - b)
    BY DEF Buffers
  <2> QED
    BY <1>1, <2>1, Remainder DEF Buffers
<1>2. CASE c < b
  <2>1. c - b = (-1) * BufCnt + (c - b + BufCnt)
    BY DEF Buffers
  <2>2. c - b + BufCnt \in Nat /\ c - b + BufCnt < BufCnt
    BY <1>2 DEF Buffers
  <2> QED
    BY <1>2, <2>1, <2>2, Remainder DEF Buffers
<1> QED
  BY <1>1, <1>2 DEF Buffers

LEMMA NextBuffer ==
  ASSUME NEW b \in Buffers
  PROVE  /\ (b + 1) % BufCnt = IF b + 1 < BufCnt THEN b + 1 ELSE 0
         /\ (b + 1) % BufCnt \in Buffers
         /\ (b + 1) % BufCnt # b
<1>1. (b + 1) % BufCnt = IF b + 1 < BufCnt THEN b + 1 ELSE b + 1 - BufCnt
  BY Onwards
<1> QED
  BY <1>1 DEF Buffers
-----------------------------------------------------------------------------
Filling == pc \in {"music", "quiet"}

LEMMA TypeKept == TypeOK /\ [Next]_vars => TypeOK'
<1> SUFFICES ASSUME TypeOK, [Next]_vars PROVE TypeOK'
  OBVIOUS
<1> USE DEF TypeOK
<1>1. /\ NextIdx \in Buffers /\ (dmaidx + 1) % BufCnt \in Buffers
      /\ (playing + 1) % BufCnt \in Buffers
  BY NextBuffer DEF NextIdx
<1>2. ReadFrom \in 0 .. AudioSize /\ ReadFrom + Block \in 0 .. AudioSize
  BY DEF ReadFrom
<1>3. CASE BufferEnds
  <2>1. (broken \/ Waiting = {}) \in BOOLEAN
    OBVIOUS
  <2> QED
    BY <1>1, <1>3, <2>1 DEF BufferEnds, Isr, app
<1>4. CASE BufferEndsMasked
  <2>1. (broken \/ irq \/ Waiting = {}) \in BOOLEAN
    OBVIOUS
  <2> QED
    BY <1>1, <1>4, <2>1 DEF BufferEndsMasked, app
<1>5. CASE LateIsr
  <2>1. {running', irq'} \subseteq BOOLEAN
    BY <1>5 DEF LateIsr
  <2>2. underrunCnt' \in 0 .. 1 /\ dmaidx' \in Buffers
    BY <1>1, <1>5 DEF LateIsr, Isr
  <2> QED
    BY <1>5, <2>1, <2>2 DEF LateIsr, app
<1>6. CASE Frame \/ Transfer
  BY <1>6 DEF Frame, Transfer, ring, app
<1>7. CASE Restart
  <2>1. {running', irq'} \subseteq BOOLEAN /\ {broken', late'} \subseteq BOOLEAN
    BY <1>7 DEF Restart
  <2>2. /\ dmaidx' \in Buffers /\ lastidx' \in Buffers /\ playing' \in Buffers
        /\ underrunCnt' \in 0 .. 1 /\ audio_ptr' \in 0 .. AudioSize
        /\ bufcnt' \in 0 .. BufCnt + 1 /\ slept' \in 0 .. SleepsPerBuffer
    BY <1>7 DEF Restart, Buffers
  <2>3. content' \in [Buffers -> 0 .. AudioSize \cup {Silence, Torn}]
    BY <1>7 DEF Restart
  <2> QED
    BY <1>7, <2>1, <2>2, <2>3 DEF Restart
<1>8. CASE MusicGet \/ SilenceGet
  BY <1>1, <1>8 DEF MusicGet, SilenceGet, HandOut
<1>9. CASE MusicFill
  <2>1. content' \in [Buffers -> 0 .. AudioSize \cup {Silence, Torn}]
    BY <1>2, <1>9 DEF MusicFill
  <2> QED
    BY <1>2, <1>9, <2>1 DEF MusicFill, ring
<1>10. CASE SilenceFill
  BY <1>10 DEF SilenceFill, ring
<1>11. CASE MusicDone \/ Drawn \/ LoadMap \/ SilenceSleep \/ MapLoaded
  BY <1>11 DEF MusicDone, Drawn, LoadMap, SilenceSleep, MapLoaded, ring, app
<1>12. CASE SilenceWake
  BY <1>12 DEF SilenceWake, ring
<1>13. CASE UNCHANGED vars
  BY <1>13 DEF vars, ring, app
<1> QED
  BY <1>3, <1>4, <1>5, <1>6, <1>7, <1>8, <1>9, <1>10, <1>11, <1>12, <1>13 DEF Next, App
-----------------------------------------------------------------------------
(* Underruns.                                                                *)

\* As long as no interrupt was held up, the driver knows which buffer is playing.
InStep == ~ late => ~ irq /\ playing = dmaidx

\* While no underrun is counted, the app is ahead of the DMA, or it has just been
\* started and has not slept yet.
Ahead ==
  ~ late /\ underrunCnt = 0 => dmaidx # lastidx \/ (pc = "silence" /\ slept = 0)

PlayInv == TypeOK /\ InStep /\ Ahead /\ UnderrunCounted

\* A buffer that is not waiting is missed only when the app is one ahead and has not
\* filled it, or is not ahead at all.
LEMMA SomethingWaits ==
  ASSUME TypeOK, dmaidx # lastidx,
         Filling => (dmaidx + 1) % BufCnt # lastidx
  PROVE  (dmaidx + 1) % BufCnt \in Waiting
<1> USE DEF TypeOK
<1>1. (lastidx - dmaidx) % BufCnt \in Nat /\ (lastidx - dmaidx) % BufCnt >= 1
  BY Behind DEF Buffers
<1>2. 1 \in 1 .. (lastidx - dmaidx) % BufCnt
  BY <1>1
<1> HIDE DEF TypeOK
<1> QED
  BY <1>2 DEF Waiting, Filling

LEMMA PlayNextKeeps == PlayInv /\ [Next]_vars => PlayInv'
<1> SUFFICES ASSUME PlayInv, [Next]_vars PROVE PlayInv'
  OBVIOUS
<1>1. TypeOK /\ TypeOK'
  BY TypeKept DEF PlayInv
<1>2. SUFFICES ASSUME ~ late'
               PROVE  (InStep /\ Ahead /\ UnderrunCounted)'
  BY <1>1, <1>2 DEF PlayInv, InStep, Ahead, UnderrunCounted
<1>3. CASE Restart
  BY <1>3 DEF Restart, InStep, Ahead, UnderrunCounted
<1>4. CASE ~ late /\ BufferEnds
  <2>1. /\ ~ irq' /\ playing' = dmaidx' /\ dmaidx' = (dmaidx + 1) % BufCnt
        /\ lastidx' = lastidx /\ pc' = pc
    BY <1>4 DEF BufferEnds, Isr, app, PlayInv, InStep
  <2>2. CASE underrunCnt' = 0
    <3>1. underrunCnt = 0 /\ dmaidx' # lastidx
      BY <1>4, <2>2 DEF BufferEnds, Isr, Underrun
    <3>2. dmaidx # lastidx
      BY <1>4, <3>1 DEF BufferEnds, PlayInv, Ahead
    <3>3. Waiting # {}
      BY <1>1, <2>1, <3>1, <3>2, SomethingWaits
    <3>4. ~ broken'
      <4>1. ~ broken
        BY <1>4, <3>1 DEF PlayInv, UnderrunCounted
      <4>2. broken' = (broken \/ Waiting = {})
        BY <1>4 DEF BufferEnds
      <4> QED
        BY <3>3, <4>1, <4>2
    <3> QED
      BY <2>1, <3>1, <3>4 DEF InStep, Ahead, UnderrunCounted
  <2>3. CASE underrunCnt' # 0
    <3>1. underrunCnt' > 0
      BY <1>1, <2>3 DEF TypeOK
    <3> QED
      BY <2>1, <3>1 DEF InStep, Ahead, UnderrunCounted
  <2> QED
    BY <2>2, <2>3
<1>5. CASE ~ late /\ (MusicGet \/ SilenceGet)
  <2>1. lastidx' # dmaidx' /\ UNCHANGED <<underrunCnt, playing, irq, dmaidx, broken, late>>
    BY <1>5 DEF MusicGet, SilenceGet, HandOut, Available
  <2> QED
    BY <2>1 DEF PlayInv, InStep, Ahead, UnderrunCounted
<1>6. CASE ~ late /\ SilenceSleep
  <2>1. NextIdx = dmaidx /\ NextIdx # lastidx
    BY <1>1, <1>6, NextBuffer DEF SilenceSleep, Available, NextIdx, TypeOK
  <2> QED
    BY <1>6, <2>1 DEF SilenceSleep, ring, PlayInv, InStep, Ahead, UnderrunCounted
<1>7. CASE ~ late /\ (\/ Frame \/ Transfer \/ MusicFill \/ MusicDone \/ Drawn \/ LoadMap
                     \/ SilenceFill \/ SilenceWake \/ MapLoaded)
  <2>1. /\ UNCHANGED <<underrunCnt, playing, irq, dmaidx, lastidx, broken, late>>
        /\ pc # "silence"
    BY <1>7 DEF Frame, Transfer, MusicFill, MusicDone, Drawn, LoadMap, SilenceFill,
               SilenceWake, MapLoaded, ring, app
  <2> QED
    BY <2>1 DEF PlayInv, InStep, Ahead, UnderrunCounted
<1>8. CASE UNCHANGED vars
  BY <1>8 DEF vars, ring, app, PlayInv, InStep, Ahead, UnderrunCounted
<1>9. Restart \/ ~ late
  BY <1>2 DEF Next, App, BufferEnds, BufferEndsMasked, LateIsr, Frame, Transfer, MusicGet,
     MusicFill, MusicDone, Drawn, LoadMap, SilenceGet, SilenceFill, SilenceSleep, SilenceWake,
     MapLoaded, vars
<1>10. ~ BufferEndsMasked /\ (LateIsr => late)
  BY <1>2 DEF BufferEndsMasked, LateIsr, PlayInv, InStep
<1> QED
  BY <1>3, <1>4, <1>5, <1>6, <1>7, <1>8, <1>9, <1>10 DEF Next, App

LEMMA PlayInitially == Init => PlayInv
<1> SUFFICES ASSUME Init PROVE PlayInv
  OBVIOUS
<1>1. {running, irq} \subseteq BOOLEAN /\ {broken, late} \subseteq BOOLEAN
  BY DEF Init
<1>2. content \in [Buffers -> 0 .. AudioSize \cup {Silence, Torn}]
  BY DEF Init
<1>3. /\ dmaidx \in Buffers /\ lastidx \in Buffers /\ playing \in Buffers
      /\ underrunCnt \in 0 .. 1 /\ audio_ptr \in 0 .. AudioSize
      /\ bufcnt \in 0 .. BufCnt + 1 /\ slept \in 0 .. SleepsPerBuffer
  BY DEF Init, Buffers
<1>4. TypeOK
  BY <1>1, <1>2, <1>3 DEF Init, TypeOK
<1> QED
  BY <1>4 DEF Init, PlayInv, InStep, Ahead, UnderrunCounted

(* No buffer is played twice without underrunCnt having counted it, unless   *)
(* an interrupt was held up before, for a ring of any size.                  *)
THEOREM UnderrunIsCounted == Spec => []UnderrunCounted
<1>1. PlayInv => UnderrunCounted
  BY DEF PlayInv
<1> QED
  BY <1>1, PlayInitially, PlayNextKeeps, PTL DEF Spec
-----------------------------------------------------------------------------
(* Silence while a map is loaded.                                            *)

\* How many buffers have been handed out since this one.
Age(b) == IF b <= lastidx THEN lastidx - b ELSE lastidx - b + BufCnt

\* What fill_silence has handed out so far is silent, but for the buffer in hand.
SilentSoFar ==
  /\ pc \in {"silence", "sleep"} =>
       \A b \in Buffers : Age(b) < bufcnt => content[b] = Silence
  /\ pc = "quiet" =>
       \A b \in Buffers \ {lastidx} : Age(b) < bufcnt + 1 => content[b] = Silence

SilenceInv == TypeOK /\ SilentSoFar /\ LoadsInSilence

LEMMA AgeRange ==
  \A b, c \in Buffers : (IF b <= c THEN c - b ELSE c - b + BufCnt) \in 0 .. BufCnt - 1
BY DEF Buffers

LEMMA Aging ==
  ASSUME TypeOK, TypeOK', lastidx' = NextIdx, NEW b \in Buffers, b # lastidx'
  PROVE  Age(b)' = Age(b) + 1
<1>1. lastidx' = IF lastidx + 1 < BufCnt THEN lastidx + 1 ELSE 0
  BY NextBuffer DEF NextIdx, TypeOK
<1> QED
  BY <1>1 DEF Age, TypeOK, Buffers

LEMMA SilenceNextKeeps == SilenceInv /\ [Next]_vars => SilenceInv'
<1> SUFFICES ASSUME SilenceInv, [Next]_vars PROVE SilenceInv'
  OBVIOUS
<1>1. TypeOK /\ TypeOK'
  BY TypeKept DEF SilenceInv
<1>2. SUFFICES (SilentSoFar /\ LoadsInSilence)'
  BY <1>1 DEF SilenceInv
<1>3. CASE BufferEnds \/ BufferEndsMasked \/ LateIsr
  <2>1. UNCHANGED <<lastidx, content, pc, bufcnt>>
    BY <1>3 DEF BufferEnds, BufferEndsMasked, LateIsr, Isr, app
  <2> QED
    BY <2>1 DEF SilenceInv, SilentSoFar, LoadsInSilence, Age
<1>4. CASE Restart
  <2>1. pc' = "silence" /\ bufcnt' = 0
    BY <1>4 DEF Restart
  <2>2. \A b \in Buffers : ~ (Age(b)' < bufcnt')
    BY <1>1, <2>1, AgeRange DEF Age, TypeOK
  <2> QED
    BY <2>1, <2>2 DEF SilentSoFar, LoadsInSilence
<1>5. CASE LoadMap
  <2>1. pc' = "silence" /\ bufcnt' = 0
    BY <1>5 DEF LoadMap
  <2>2. \A b \in Buffers : ~ (Age(b)' < bufcnt')
    BY <1>1, <2>1, AgeRange DEF Age, TypeOK
  <2> QED
    BY <2>1, <2>2 DEF SilentSoFar, LoadsInSilence
<1>6. CASE SilenceGet
  <2>1. /\ pc = "silence" /\ pc' = "quiet" /\ lastidx' = NextIdx /\ bufcnt' = bufcnt
        /\ content' = [content EXCEPT ![NextIdx] = Torn]
    BY <1>6 DEF SilenceGet, HandOut
  <2>2. ASSUME NEW b \in Buffers \ {lastidx'}, Age(b)' < bufcnt' + 1 PROVE content'[b] = Silence
    <3>1. Age(b) < bufcnt
      BY <1>1, <2>1, <2>2, Aging DEF TypeOK, Age, Buffers
    <3>2. content[b] = Silence /\ content'[b] = content[b]
      BY <1>1, <2>1, <2>2, <3>1 DEF SilenceInv, SilentSoFar, TypeOK
    <3> QED
      BY <3>2
  <2> QED
    BY <2>1, <2>2 DEF SilentSoFar, LoadsInSilence
<1>7. CASE SilenceFill
  <2>1. /\ pc = "quiet" /\ pc' = "silence" /\ lastidx' = lastidx
        /\ bufcnt' = (IF bufcnt > BufCnt THEN bufcnt ELSE bufcnt + 1)
        /\ content' = [content EXCEPT ![lastidx] = Silence]
    BY <1>7 DEF SilenceFill, ring
  <2>2. ASSUME NEW b \in Buffers, Age(b)' < bufcnt' PROVE content'[b] = Silence
    <3>1. Age(b)' = Age(b)
      BY <2>1 DEF Age
    <3>2. Age(b) < bufcnt + 1
      BY <1>1, <2>1, <2>2, <3>1 DEF TypeOK, Age, Buffers
    <3>3. b # lastidx => content[b] = Silence
      BY <2>1, <3>2 DEF SilenceInv, SilentSoFar
    <3> QED
      BY <1>1, <2>1, <3>3 DEF TypeOK
  <2> QED
    BY <2>1, <2>2 DEF SilentSoFar, LoadsInSilence
<1>8. CASE SilenceSleep
  <2>1. /\ pc = "silence" /\ pc' = "sleep" /\ UNCHANGED <<lastidx, content, bufcnt>>
    BY <1>8 DEF SilenceSleep, ring
  <2> QED
    BY <2>1 DEF SilenceInv, SilentSoFar, LoadsInSilence, Age
<1>9. CASE SilenceWake
  <2>1. pc = "sleep" /\ UNCHANGED <<lastidx, content>>
    BY <1>9 DEF SilenceWake, ring
  <2>2. CASE SilenceDone
    <3>1. pc' = "load" /\ bufcnt = BufCnt
      BY <1>9, <2>2 DEF SilenceWake, SilenceDone
    <3>2. \A b \in Buffers : Age(b) < BufCnt
      BY <1>1 DEF TypeOK, Age, Buffers
    <3> QED
      BY <2>1, <3>1, <3>2 DEF SilenceInv, SilentSoFar, LoadsInSilence
  <2>3. CASE ~ SilenceDone
    <3>1. pc' = "silence" /\ bufcnt' = bufcnt
      BY <1>9, <2>3 DEF SilenceWake
    <3> QED
      BY <2>1, <3>1 DEF SilenceInv, SilentSoFar, LoadsInSilence, Age
  <2> QED
    BY <2>2, <2>3
<1>10. CASE Frame \/ Transfer \/ MusicGet \/ MusicFill \/ MusicDone \/ Drawn \/ MapLoaded
  <2>1. pc' \notin {"silence", "sleep", "quiet", "load"}
    BY <1>10 DEF Frame, Transfer, MusicGet, MusicFill, MusicDone, Drawn, MapLoaded, app
  <2> QED
    BY <2>1 DEF SilentSoFar, LoadsInSilence
<1>11. CASE UNCHANGED vars
  <2>1. UNCHANGED <<lastidx, content, pc, bufcnt>>
    BY <1>11 DEF vars, ring, app
  <2> QED
    BY <2>1 DEF SilenceInv, SilentSoFar, LoadsInSilence, Age
<1> QED
  BY <1>3, <1>4, <1>5, <1>6, <1>7, <1>8, <1>9, <1>10, <1>11 DEF Next, App

(* fill_silence leaves a whole ring of silence when it returns, for a ring   *)
(* of any size: also when the DMA has overtaken it, or its counter has       *)
(* passed the number of buffers before it looks.                             *)
THEOREM MapsLoadInSilence == Spec => []LoadsInSilence
<1>1. Init => SilenceInv
  <2> SUFFICES ASSUME Init PROVE SilenceInv
    OBVIOUS
  <2>1. TypeOK
    BY PlayInitially DEF PlayInv
  <2>2. pc = "silence" /\ bufcnt = 0
    BY DEF Init
  <2>3. \A b \in Buffers : ~ (Age(b) < bufcnt)
    BY <2>1, <2>2, AgeRange DEF Age, TypeOK
  <2> QED
    BY <2>1, <2>2, <2>3 DEF SilenceInv, SilentSoFar, LoadsInSilence
<1>2. SilenceInv => LoadsInSilence
  BY DEF SilenceInv
<1> QED
  BY <1>1, <1>2, SilenceNextKeeps, PTL DEF Spec
-----------------------------------------------------------------------------
(* The ring is a queue.                                                      *)

Distance == (lastidx - dmaidx) % BufCnt
Ready    == Distance - (IF Filling THEN 1 ELSE 0)
Intact   == ~ late /\ ~ broken

\* The DMA has not overtaken the buffer in the hand of the app.
HandAhead == Intact /\ Filling => dmaidx # lastidx

RingInv == TypeOK /\ InStep /\ HandAhead

LEMMA DistanceFacts ==
  ASSUME TypeOK
  PROVE  /\ Distance \in 0 .. BufCnt - 1
         /\ Distance = 0 <=> dmaidx = lastidx
         /\ Distance = 1 <=> (dmaidx + 1) % BufCnt = lastidx
         /\ (dmaidx + Distance) % BufCnt = lastidx
<1>1. /\ dmaidx \in Buffers /\ lastidx \in Buffers
      /\ Distance = IF lastidx >= dmaidx THEN lastidx - dmaidx ELSE lastidx - dmaidx + BufCnt
  BY Behind DEF TypeOK, Distance
<1>2. Distance \in 0 .. BufCnt - 1
  BY <1>1 DEF Buffers
<1>3. (dmaidx + Distance) % BufCnt = lastidx
  <2>1. (dmaidx + Distance) % BufCnt
          = IF dmaidx + Distance < BufCnt THEN dmaidx + Distance ELSE dmaidx + Distance - BufCnt
    BY <1>1, <1>2, Onwards
  <2> QED
    BY <1>1, <2>1 DEF Buffers
<1>4. Distance = 1 <=> (dmaidx + 1) % BufCnt = lastidx
  BY <1>1, NextBuffer DEF Buffers
<1> QED
  BY <1>1, <1>2, <1>3, <1>4 DEF Buffers

\* A buffer waits exactly when the queue is not empty.
LEMMA WaitingIsReady ==
  ASSUME TypeOK, Filling => dmaidx # lastidx
  PROVE  Ready \in 0 .. BufCnt - 1 /\ (Waiting = {} <=> Ready = 0)
<1>1. Ready \in 0 .. BufCnt - 1
  BY DistanceFacts DEF Ready
<1>2. CASE Ready = 0
  <2>1. CASE ~ Filling
    <3>1. 1 .. Distance = {}
      BY <1>2, <2>1 DEF Ready
    <3> QED
      BY <1>2, <3>1 DEF Waiting, Distance
  <2>2. CASE Filling
    <3>1. Distance = 1 /\ (dmaidx + 1) % BufCnt = lastidx
      BY <1>2, <2>2, DistanceFacts DEF Ready
    <3>2. \A k \in 1 .. Distance : k = 1
      BY <3>1
    <3> QED
      BY <1>2, <2>2, <3>1, <3>2 DEF Waiting, Distance, Filling
  <2> QED
    BY <2>1, <2>2
<1>3. CASE Ready # 0
  <2>1. dmaidx # lastidx /\ (Filling => (dmaidx + 1) % BufCnt # lastidx)
    BY <1>1, <1>3, DistanceFacts DEF Ready
  <2>2. Waiting # {}
    BY <2>1, SomethingWaits
  <2> QED
    BY <1>1, <1>3, <2>2
<1> QED
  BY <1>1, <1>2, <1>3

Blocks == 0 .. AudioSize \cup {Silence, Torn}

\* The blocks of the ring from one buffer on are a sequence.
LEMMA RingSequence ==
  ASSUME NEW c \in [Buffers -> Blocks], NEW d \in Buffers, NEW n \in 0 .. BufCnt
  PROVE  /\ [k \in 1 .. n |-> c[(d + k) % BufCnt]] \in Seq(Blocks)
         /\ Len([k \in 1 .. n |-> c[(d + k) % BufCnt]]) = n
<1>1. ASSUME NEW k \in 1 .. n PROVE c[(d + k) % BufCnt] \in Blocks
  <2>1. (d + k) % BufCnt = IF d + k < BufCnt THEN d + k ELSE d + k - BufCnt
    BY Onwards
  <2>2. (d + k) % BufCnt \in Buffers
    BY <2>1 DEF Buffers
  <2> QED
    BY <2>2
<1> DEFINE q == [k \in 1 .. n |-> c[(d + k) % BufCnt]]
<1>2. q \in [1 .. n -> Blocks] /\ n \in Nat
  BY <1>1
<1> HIDE DEF q
<1>3. q \in Seq(Blocks) /\ Len(q) = n
  BY <1>2
<1> QED
  BY <1>3 DEF q

LEMMA RingNextKeeps == RingInv /\ [Next]_vars => RingInv'
<1> SUFFICES ASSUME RingInv, [Next]_vars PROVE RingInv'
  OBVIOUS
<1>1. TypeOK /\ TypeOK'
  BY TypeKept DEF RingInv
<1>2. CASE Restart
  BY <1>1, <1>2 DEF Restart, RingInv, InStep, HandAhead, Filling
<1>3. CASE BufferEnds
  <2>1. InStep'
    BY <1>3 DEF BufferEnds, Isr, RingInv, InStep
  <2>2. ASSUME Intact', Filling' PROVE dmaidx' # lastidx'
    <3>1. broken' = (broken \/ Waiting = {}) /\ late' = late /\ pc' = pc
      BY <1>3 DEF BufferEnds, app
    <3>2. Intact /\ Filling /\ Waiting # {}
      BY <2>2, <3>1 DEF Intact, Filling
    <3>3. Distance # 1
      BY <1>1, <3>2, WaitingIsReady DEF RingInv, HandAhead, Ready
    <3> QED
      BY <1>1, <1>3, <3>3, DistanceFacts DEF BufferEnds, Isr
  <2> QED
    BY <1>1, <2>1, <2>2 DEF RingInv, HandAhead
<1>4. CASE BufferEndsMasked
  BY <1>1, <1>4 DEF BufferEndsMasked, RingInv, InStep, HandAhead, Intact
<1>5. CASE LateIsr
  BY <1>1, <1>5 DEF LateIsr, RingInv, InStep, HandAhead, Intact
<1>6. CASE MusicGet \/ SilenceGet
  <2>1. lastidx' # dmaidx' /\ UNCHANGED <<playing, irq, dmaidx, late>>
    BY <1>6 DEF MusicGet, SilenceGet, HandOut, Available
  <2> QED
    BY <1>1, <2>1 DEF RingInv, InStep, HandAhead
<1>7. CASE \/ Frame \/ Transfer \/ MusicFill \/ MusicDone \/ Drawn \/ LoadMap
           \/ SilenceFill \/ SilenceSleep \/ SilenceWake \/ MapLoaded
  <2>1. UNCHANGED <<playing, irq, dmaidx, lastidx, late>> /\ ~ Filling'
    BY <1>7 DEF Frame, Transfer, MusicFill, MusicDone, Drawn, LoadMap, SilenceFill,
               SilenceSleep, SilenceWake, MapLoaded, ring, app, Filling
  <2> QED
    BY <1>1, <2>1 DEF RingInv, InStep, HandAhead
<1>8. CASE UNCHANGED vars
  <2>1. UNCHANGED <<playing, irq, dmaidx, lastidx, late, broken, pc>>
    BY <1>8 DEF vars, ring, app
  <2> QED
    BY <1>1, <2>1 DEF RingInv, InStep, HandAhead, Intact, Filling
<1> QED
  BY <1>2, <1>3, <1>4, <1>5, <1>6, <1>7, <1>8 DEF Next, App

(* A buffer that ends is the next block of the queue.                        *)
LEMMA PlayMaps ==
  ASSUME RingInv, TypeOK', BufferEnds, Intact, Intact'
  PROVE  Queue!Play
<1>1. /\ playing = dmaidx /\ dmaidx' = (dmaidx + 1) % BufCnt /\ playing' = dmaidx'
      /\ UNCHANGED <<lastidx, content, audio_ptr, broken, late>> /\ (Filling' <=> Filling)
  <2>1. /\ playing = dmaidx /\ playing' = (playing + 1) % BufCnt /\ dmaidx' = (dmaidx + 1) % BufCnt
        /\ UNCHANGED <<lastidx, content, audio_ptr, late, pc>>
    BY DEF BufferEnds, Isr, app, RingInv, InStep, Intact
  <2>2. broken' = broken
    BY DEF Intact, RingInv, TypeOK
  <2> QED
    BY <2>1, <2>2 DEF Filling
<1>2. Waiting # {}
  BY DEF BufferEnds, Intact
<1>3. Ready \in 1 .. BufCnt - 1
  BY <1>2, WaitingIsReady DEF RingInv, HandAhead
<1>4. Distance' = Distance - 1
  <2>1. dmaidx \in Buffers /\ lastidx \in Buffers /\ dmaidx' \in Buffers /\ Distance # 0
    BY <1>3, DistanceFacts DEF RingInv, TypeOK, Ready
  <2>2. /\ Distance = IF lastidx >= dmaidx THEN lastidx - dmaidx ELSE lastidx - dmaidx + BufCnt
        /\ Distance' = IF lastidx >= dmaidx' THEN lastidx - dmaidx' ELSE lastidx - dmaidx' + BufCnt
    BY <1>1, <2>1, Behind DEF Distance
  <2>3. dmaidx' = IF dmaidx + 1 < BufCnt THEN dmaidx + 1 ELSE 0
    BY <1>1, <2>1, NextBuffer
  <2> QED
    BY <2>1, <2>2, <2>3 DEF Buffers
<1>5. Ready' = Ready - 1
  BY <1>1, <1>4, DistanceFacts DEF Ready, RingInv
<1>6. \A k \in 1 .. Ready - 1 : (dmaidx' + k) % BufCnt = (dmaidx + (k + 1)) % BufCnt
  <2>1. dmaidx \in Buffers /\ dmaidx' \in Buffers
    BY DEF RingInv, TypeOK
  <2>2. dmaidx' = IF dmaidx + 1 < BufCnt THEN dmaidx + 1 ELSE 0
    BY <1>1, <2>1, NextBuffer
  <2>3. ASSUME NEW k \in 1 .. Ready - 1 PROVE (dmaidx' + k) % BufCnt = (dmaidx + (k + 1)) % BufCnt
    <3>1. k \in 0 .. BufCnt /\ k + 1 \in 0 .. BufCnt
      BY <1>3
    <3>2. /\ (dmaidx' + k) % BufCnt = IF dmaidx' + k < BufCnt THEN dmaidx' + k ELSE dmaidx' + k - BufCnt
          /\ (dmaidx + (k + 1)) % BufCnt
               = IF dmaidx + (k + 1) < BufCnt THEN dmaidx + (k + 1) ELSE dmaidx + (k + 1) - BufCnt
      BY <2>1, <3>1, Onwards
    <3> QED
      BY <1>3, <2>1, <2>2, <3>1, <3>2 DEF Buffers
  <2> QED
    BY <2>3
<1> DEFINE q == Queued(Ready)
           t == [k \in 1 .. Ready - 1 |-> content[(dmaidx' + k) % BufCnt]]
<1>7. /\ q \in Seq(Blocks) /\ Len(q) = Ready /\ q # <<>>
      /\ t \in Seq(Blocks) /\ Len(t) = Ready - 1
  <2>1. /\ content \in [Buffers -> Blocks] /\ dmaidx \in Buffers /\ dmaidx' \in Buffers
        /\ Ready \in 0 .. BufCnt /\ Ready - 1 \in 0 .. BufCnt
    BY <1>3 DEF RingInv, TypeOK, Blocks
  <2>2. q \in Seq(Blocks) /\ Len(q) = Ready
    BY <2>1, RingSequence DEF Queued
  <2>3. t \in Seq(Blocks) /\ Len(t) = Ready - 1
    BY <2>1, RingSequence
  <2> QED
    BY <1>3, <2>2, <2>3
<1>8. \A k \in 1 .. Ready : q[k] = content[(dmaidx + k) % BufCnt]
  BY DEF Queued
<1>9. Queued(Ready)' = t
  BY <1>1, <1>5 DEF Queued
<1>10. t = Tail(q)
  <2>1. /\ Tail(q) \in Seq(Blocks) /\ Len(Tail(q)) = Ready - 1
        /\ \A i \in 1 .. Len(Tail(q)) : Tail(q)[i] = q[i + 1]
    BY <1>7, HeadTailProperties
  <2>2. \A i \in 1 .. Ready - 1 : t[i] = q[i + 1]
    BY <1>3, <1>6, <1>8
  <2> HIDE DEF q, t
  <2> QED
    BY <1>7, <2>1, <2>2, SeqEqual
<1>11. content'[playing'] = Head(q)
  BY <1>1, <1>3, <1>7, <1>8
<1>12. ReadFrom' = ReadFrom
  BY <1>1 DEF ReadFrom
<1> QED
  BY <1>1, <1>7, <1>9, <1>10, <1>11, <1>12 DEF Queue!Play, Ready, Distance, Filling

\* A buffer is at one place behind another.
LEMMA PlaceOf ==
  ASSUME NEW b \in Buffers, NEW c \in Buffers, NEW k \in 0 .. BufCnt - 1
  PROVE  (b + k) % BufCnt = c <=> k = (c - b) % BufCnt
<1>1. (b + k) % BufCnt = IF b + k < BufCnt THEN b + k ELSE b + k - BufCnt
  BY Onwards
<1>2. (c - b) % BufCnt = IF c >= b THEN c - b ELSE c - b + BufCnt
  BY Behind
<1> QED
  BY <1>1, <1>2 DEF Buffers

(* A buffer that is filled is the last block of the queue.                   *)
LEMMA FillMaps ==
  ASSUME RingInv, TypeOK', Intact, Filling, ~ Filling', NEW v \in Blocks,
         UNCHANGED <<dmaidx, lastidx, playing>>, content' = [content EXCEPT ![lastidx] = v]
  PROVE  /\ Len(Queued(Ready)) < BufCnt - 1
         /\ Queued(Ready)' = Append(Queued(Ready), v)
         /\ content'[playing'] = content[playing]
<1>1. /\ dmaidx \in Buffers /\ lastidx \in Buffers /\ dmaidx # lastidx /\ playing = dmaidx
      /\ content \in [Buffers -> Blocks] /\ content' \in [Buffers -> Blocks]
  BY DEF RingInv, HandAhead, InStep, Intact, TypeOK, Blocks
<1>2. /\ Distance \in 1 .. BufCnt - 1 /\ Distance' = Distance
      /\ Ready = Distance - 1 /\ Ready' = Distance
  <2>1. Distance \in 1 .. BufCnt - 1
    BY <1>1, DistanceFacts DEF RingInv
  <2>2. Distance' = Distance
    BY DEF Distance
  <2> QED
    BY <2>1, <2>2 DEF Ready
<1>3. \A k \in 1 .. Distance - 1 : (dmaidx + k) % BufCnt # lastidx
  BY <1>1, <1>2, PlaceOf DEF Distance
<1>4. (dmaidx + Distance) % BufCnt = lastidx
  BY DistanceFacts DEF RingInv
<1> DEFINE n == Distance
           q == [k \in 1 .. n - 1 |-> content[(dmaidx + k) % BufCnt]]
           t == [k \in 1 .. n |-> content'[(dmaidx + k) % BufCnt]]
<1>5. q \in Seq(Blocks) /\ Len(q) = n - 1 /\ t \in Seq(Blocks) /\ Len(t) = n
  <2>1. n - 1 \in 0 .. BufCnt /\ n \in 0 .. BufCnt
    BY <1>2
  <2> QED
    BY <1>1, <2>1, RingSequence
<1>6. \A k \in 1 .. n - 1 : t[k] = q[k]
  <2>1. ASSUME NEW k \in 1 .. n - 1 PROVE t[k] = q[k]
    <3>1. k \in 1 .. n /\ (dmaidx + k) % BufCnt # lastidx /\ (dmaidx + k) % BufCnt \in Buffers
      <4>1. k \in 0 .. BufCnt
        BY <1>2
      <4>2. (dmaidx + k) % BufCnt \in Buffers
        BY <1>1, <4>1, Onwards DEF Buffers
      <4> QED
        BY <1>2, <1>3, <4>2
    <3>2. content'[(dmaidx + k) % BufCnt] = content[(dmaidx + k) % BufCnt]
      BY <1>1, <3>1
    <3> QED
      BY <3>1, <3>2
  <2> QED
    BY <2>1
<1>7. t[n] = v
  BY <1>1, <1>2, <1>4
<1> HIDE DEF t, q, n
<1>8. t = Append(q, v)
  <2>1. /\ Append(q, v) \in Seq(Blocks) /\ Len(Append(q, v)) = Len(q) + 1
        /\ \A i \in 1 .. Len(q) : Append(q, v)[i] = q[i]
        /\ Append(q, v)[Len(q) + 1] = v
    BY <1>5, AppendProperties
  <2>2. n \in Nat /\ n >= 1
    BY <1>2 DEF n
  <2>3. \A i \in 1 .. n : t[i] = Append(q, v)[i]
    BY <1>5, <1>6, <1>7, <2>1, <2>2
  <2> QED
    BY <1>5, <2>1, <2>2, <2>3, SeqEqual
<1>9. q = Queued(Ready)
  BY <1>2 DEF q, n, Queued
<1>10. t = Queued(Ready)'
  BY <1>2 DEF t, n, Queued
<1>11. Len(Queued(Ready)) < BufCnt - 1
  BY <1>2, <1>5, <1>9 DEF n
<1>12. content'[playing'] = content[playing]
  BY <1>1
<1> QED
  BY <1>8, <1>9, <1>10, <1>11, <1>12

(* A buffer that is handed out was not waiting and is not playing.           *)
LEMMA HandOutMaps ==
  ASSUME RingInv, TypeOK', Intact, HandOut, ~ Filling, Filling'
  PROVE  /\ Queued(Ready)' = Queued(Ready)
         /\ content'[playing'] = content[playing]
<1>1. /\ dmaidx \in Buffers /\ lastidx \in Buffers /\ lastidx' \in Buffers /\ playing = dmaidx
      /\ content \in [Buffers -> Blocks]
      /\ lastidx' = (lastidx + 1) % BufCnt /\ lastidx' # dmaidx
      /\ UNCHANGED <<dmaidx, playing>> /\ content' = [content EXCEPT ![lastidx'] = Torn]
  BY DEF RingInv, InStep, Intact, TypeOK, Blocks, HandOut, Available, NextIdx
<1>2. Distance' = Distance + 1
  <2>1. /\ Distance = IF lastidx >= dmaidx THEN lastidx - dmaidx ELSE lastidx - dmaidx + BufCnt
        /\ Distance' = IF lastidx' >= dmaidx THEN lastidx' - dmaidx ELSE lastidx' - dmaidx + BufCnt
    BY <1>1, Behind DEF Distance
  <2>2. lastidx' = IF lastidx + 1 < BufCnt THEN lastidx + 1 ELSE 0
    BY <1>1, NextBuffer
  <2> QED
    BY <1>1, <2>1, <2>2 DEF Buffers
<1>3. Distance \in 0 .. BufCnt - 1 /\ Ready = Distance /\ Ready' = Distance
  BY <1>2, DistanceFacts DEF Ready, RingInv
<1>4. ASSUME NEW k \in 1 .. Distance
      PROVE  content'[(dmaidx + k) % BufCnt] = content[(dmaidx + k) % BufCnt]
  <2>1. k \in 0 .. BufCnt - 1 /\ k # Distance' /\ k \in 0 .. BufCnt
    BY <1>2, <1>3
  <2>2. (dmaidx + k) % BufCnt # lastidx'
    BY <1>1, <2>1, PlaceOf DEF Distance
  <2>3. (dmaidx + k) % BufCnt \in Buffers
    BY <1>1, <2>1, Onwards DEF Buffers
  <2> QED
    BY <1>1, <2>2, <2>3
<1>5. Queued(Ready)' = Queued(Ready)
  BY <1>1, <1>3, <1>4 DEF Queued
<1> QED
  BY <1>1, <1>5

\* The queue as AudioQueue sees it.
LEMMA QueueIs == /\ Queued(Ready) = Queued(((lastidx - dmaidx) % BufCnt)
                                           - (IF pc \in {"music", "quiet"} THEN 1 ELSE 0))
                 /\ Queued(Ready)' = Queued(((lastidx - dmaidx) % BufCnt)
                                            - (IF pc \in {"music", "quiet"} THEN 1 ELSE 0))'
BY DEF Ready, Distance, Filling

LEMMA StepMaps == RingInv /\ [Next]_vars => [Queue!Next]_(Queue!vars)
<1> SUFFICES ASSUME RingInv, [Next]_vars PROVE [Queue!Next]_(Queue!vars)
  OBVIOUS
<1>1. TypeOK /\ TypeOK' /\ {broken, broken', late, late'} \subseteq BOOLEAN
  BY TypeKept DEF RingInv, TypeOK
<1>2. CASE Restart
  <2>1. TypeOK' /\ Distance' = 0 /\ Ready' = 0
    BY <1>1, <1>2, DistanceFacts DEF Restart, Ready, Filling, Distance
  <2>2. Queued(Ready)' = <<>>
    BY <2>1 DEF Queued
  <2>3. content'[playing'] = Silence /\ ReadFrom' = 0
    BY <1>2 DEF Restart, ReadFrom, Buffers
  <2>4. Queue!Reset
    BY <1>2, <2>2, <2>3, QueueIs DEF Restart, Queue!Reset
  <2> QED
    BY <2>4 DEF Queue!Next
<1>3. CASE BufferEndsMasked
  BY <1>3 DEF BufferEndsMasked, Queue!Next, Queue!Lose
<1>4. CASE ~ Restart /\ late
  <2>1. late' = late
    BY <1>4, <1>1 DEF Next, App, BufferEnds, BufferEndsMasked, LateIsr, Frame, Transfer, MusicGet,
       MusicFill, MusicDone, Drawn, LoadMap, SilenceGet, SilenceFill, SilenceSleep, SilenceWake,
       MapLoaded, vars
  <2>2. late'
    BY <1>4, <2>1
  <2> QED
    BY <1>1, <2>2 DEF Queue!Next, Queue!Lose
<1>5. CASE ~ Restart /\ ~ BufferEndsMasked /\ ~ late
  <2>1. late' = late
    BY <1>5 DEF Next, App, BufferEnds, LateIsr, Frame, Transfer, MusicGet,
       MusicFill, MusicDone, Drawn, LoadMap, SilenceGet, SilenceFill, SilenceSleep, SilenceWake,
       MapLoaded, vars
  <2>2. CASE broken
    <3>1. broken'
      BY <1>5, <2>2 DEF Next, App, BufferEnds, LateIsr, Frame, Transfer, MusicGet,
         MusicFill, MusicDone, Drawn, LoadMap, SilenceGet, SilenceFill, SilenceSleep, SilenceWake,
         MapLoaded, vars
    <3> QED
      BY <1>1, <2>1, <2>2, <3>1 DEF Queue!Next, Queue!Starve
  <2> SUFFICES ASSUME ~ broken PROVE [Queue!Next]_(Queue!vars)
    BY <2>2
  <2>3. Intact
    BY <1>5 DEF Intact
  <2>4. CASE BufferEnds
    <3>1. CASE broken'
      <4>1. Waiting = {}
        BY <2>4, <3>1 DEF BufferEnds
      <4>2. Ready = 0
        BY <1>1, <2>3, <4>1, WaitingIsReady DEF RingInv, HandAhead
      <4>3. Queued(Ready) = <<>>
        BY <4>2 DEF Queued
      <4> QED
        BY <1>1, <2>1, <3>1, <4>3, QueueIs DEF Queue!Next, Queue!Starve
    <3>2. CASE ~ broken'
      <4>1. Intact'
        BY <1>5, <2>1, <3>2 DEF Intact
      <4>2. Queue!Play
        BY <1>1, <2>3, <2>4, <4>1, PlayMaps
      <4> QED
        BY <1>5, <4>2 DEF Queue!Next
    <3> QED
      BY <3>1, <3>2
  <2>5. CASE MusicFill
    <3>1. /\ Filling /\ ~ Filling' /\ UNCHANGED <<dmaidx, lastidx, playing, broken>>
          /\ content' = [content EXCEPT ![lastidx] = ReadFrom] /\ audio_ptr' = ReadFrom + Block
      BY <2>5 DEF MusicFill, Filling, ring
    <3>2. ReadFrom \in Blocks
      BY <1>1 DEF ReadFrom, TypeOK, Blocks
    <3>3. /\ Len(Queued(Ready)) < BufCnt - 1
          /\ Queued(Ready)' = Append(Queued(Ready), ReadFrom)
          /\ content'[playing'] = content[playing]
      BY <1>1, <2>3, <3>1, <3>2, FillMaps
    <3>4. ReadFrom' = Queue!After(ReadFrom)
      BY <1>1, <3>1 DEF ReadFrom, Queue!After, TypeOK
    <3>5. Queue!AddMusic
      BY <2>1, <3>1, <3>3, <3>4, QueueIs DEF Queue!AddMusic, Queue!Add
    <3> QED
      BY <1>5, <3>5 DEF Queue!Next
  <2>6. CASE SilenceFill
    <3>1. /\ Filling /\ ~ Filling' /\ UNCHANGED <<dmaidx, lastidx, playing, broken, audio_ptr>>
          /\ content' = [content EXCEPT ![lastidx] = Silence]
      BY <2>6 DEF SilenceFill, Filling, ring
    <3>2. Silence \in Blocks /\ ReadFrom' = ReadFrom
      BY <3>1 DEF Blocks, ReadFrom
    <3>3. /\ Len(Queued(Ready)) < BufCnt - 1
          /\ Queued(Ready)' = Append(Queued(Ready), Silence)
          /\ content'[playing'] = content[playing]
      BY <1>1, <2>3, <3>1, <3>2, FillMaps
    <3>4. Queue!AddSilence
      BY <2>1, <3>1, <3>2, <3>3, QueueIs DEF Queue!AddSilence, Queue!Add
    <3> QED
      BY <1>5, <3>4 DEF Queue!Next
  <2>7. CASE MusicGet \/ SilenceGet
    <3>1. HandOut /\ ~ Filling /\ Filling' /\ UNCHANGED <<broken, audio_ptr>>
      BY <2>7 DEF MusicGet, SilenceGet, Filling
    <3>2. Queued(Ready)' = Queued(Ready) /\ content'[playing'] = content[playing]
      BY <1>1, <2>3, <3>1, HandOutMaps
    <3>3. ReadFrom' = ReadFrom
      BY <3>1 DEF ReadFrom
    <3> QED
      BY <2>1, <3>1, <3>2, <3>3, QueueIs DEF Queue!vars
  <2>8. CASE \/ Frame \/ Transfer \/ MusicDone \/ Drawn \/ LoadMap
             \/ SilenceSleep \/ SilenceWake \/ MapLoaded \/ UNCHANGED vars
    <3>1. /\ UNCHANGED <<dmaidx, lastidx, playing, content, audio_ptr, broken>>
          /\ (Filling' <=> Filling)
      BY <2>8 DEF Frame, Transfer, MusicDone, Drawn, LoadMap, SilenceSleep, SilenceWake,
                  MapLoaded, vars, ring, app, Filling
    <3>2. Ready' = Ready /\ ReadFrom' = ReadFrom
      BY <3>1 DEF Ready, Distance, ReadFrom
    <3>3. Queued(Ready)' = Queued(Ready)
      BY <3>1, <3>2 DEF Queued
    <3> QED
      BY <2>1, <3>1, <3>2, <3>3, QueueIs DEF Queue!vars
  <2>9. ~ LateIsr
    BY <1>5 DEF LateIsr, RingInv, InStep
  <2> QED
    BY <1>5, <2>4, <2>5, <2>6, <2>7, <2>8, <2>9 DEF Next, App
<1> QED
  BY <1>1, <1>2, <1>3, <1>4, <1>5

(* The ring implements the queue of blocks, for every size: as long as no    *)
(* buffer was missing, what is heard is what was filled, in that order.      *)
THEOREM RingImplementsQueue == Spec => ImplementsQueue
<1>1. Init => RingInv
  <2> SUFFICES ASSUME Init PROVE RingInv
    OBVIOUS
  <2>1. TypeOK /\ InStep
    BY PlayInitially DEF PlayInv
  <2>2. ~ Filling
    BY DEF Init, Filling
  <2> QED
    BY <2>1, <2>2 DEF RingInv, HandAhead
<1>2. Init => Queue!Init
  <2> SUFFICES ASSUME Init PROVE Queue!Init
    OBVIOUS
  <2>1. Ready = 0
    BY PlayInitially, DistanceFacts DEF PlayInv, Init, Ready, Filling
  <2>2. Queued(Ready) = <<>>
    BY <2>1 DEF Queued
  <2>3. content[playing] = Silence /\ ReadFrom = 0
    BY DEF Init, ReadFrom, Buffers
  <2> QED
    BY <2>2, <2>3, QueueIs DEF Init, Queue!Init
<1> QED
  BY <1>1, <1>2, RingNextKeeps, StepMaps, PTL DEF Spec, ImplementsQueue, Queue!Spec
=============================================================================
