---------------------------- MODULE DeferProofs -----------------------------
(***************************************************************************)
(* Proofs about the deferred-function scheduler, for every table size,     *)
(* every set of jobs, delays and intervals, and every period of the tick:  *)
(* its invariant, and that the table implements the timers of Timers.      *)
(***************************************************************************)
EXTENDS Defer, FiniteSetTheorems, WellFoundedInduction, TLAPS

\* Least picks the least element.
LEMMA LeastIsIn ==
  ASSUME NEW S, S \subseteq Nat, S # {}
  PROVE  Least(S) \in S /\ \A j \in S : Least(S) <= j
<1> DEFINE R == OpToRel(<, Nat)
<1>1. \A x, y \in S : ~(<<y, x>> \in R) => x <= y
  BY DEF OpToRel
<1> HIDE DEF R
<1>2. \E i \in S : \A j \in S : ~(<<j, i>> \in R)
  <2>1. IsWellFoundedOn(R, Nat)
    BY NatLessThanWellFounded DEF R
  <2> QED
    BY <2>1, WFMin
<1>3. \E i \in S : \A j \in S : i <= j
  BY <1>1, <1>2
<1> QED
  BY <1>3 DEF Least

\* add_defer_func's search finds a free slot whenever there is one.
LEMMA FirstFreeIsFree ==
  ASSUME NEW tbl, FreeSlots(tbl) # {}
  PROVE  FirstFree(tbl) \in FreeSlots(tbl)
BY LeastIsIn, FreeSlots(tbl) \subseteq Nat DEF FirstFree, FreeSlots, Slots

\* add_defer_func writes one slot that was free, or none.
LEMMA AddDeferSlot ==
  ASSUME NEW tbl, NEW entry
  PROVE  \/ FreeSlots(tbl) = {} /\ AddDefer(tbl, entry) = tbl
         \/ \E i \in Slots : tbl[i] = Free /\ AddDefer(tbl, entry) = [tbl EXCEPT ![i] = entry]
BY FirstFreeIsFree DEF AddDefer, FreeSlots

USE MaxDeferredAssumption, DelaysAssumption, IntervalsAssumption, TickAssumption, FreeAssumption

\* The tick never runs ahead of the true time, whether or not it returned to 0.
LEMMA TickNotAhead ==
  ASSUME NEW a \in Nat, NEW b \in Nat, a <= b
  PROVE  GetMsTicks(b) - GetMsTicks(a) <= b - a
<1> DEFINE P == TickPeriod
           qa == a \div P
           qb == b \div P
<1>1. /\ qa \in Nat /\ qb \in Nat
      /\ a = (qa * P) + (a % P)
      /\ b = (qb * P) + (b % P)
      /\ a % P \in 0 .. P - 1
      /\ b % P \in 0 .. P - 1
  OBVIOUS
<1>2. qa <= qb
  <2>1. SUFFICES ASSUME qb < qa PROVE FALSE
    BY <1>1
  <2>2. qb + 1 <= qa
    BY <2>1, <1>1
  <2> HIDE DEF qa, qb
  <2>3. (qb + 1) * P <= qa * P
    BY <2>2, <1>1
  <2>4. b < qa * P
    BY <2>3, <1>1
  <2>5. QED
    BY <2>4, <1>1
<1> HIDE DEF qa, qb
<1>3. qa * P <= qb * P
  BY <1>1, <1>2
<1>4. QED
  BY <1>1, <1>3 DEF GetMsTicks

LEMMA TickType == ASSUME NEW c \in Nat PROVE GetMsTicks(c) \in Nat
  BY DEF GetMsTicks

\* The states before anything was posted satisfy the invariant.
LEMMA InitIInv == Init => IInv
  BY DEF Init, IInv, TypeOK, NeverEarly, NoEntryLost, ScheduleKept, NewNeverRan, PostedInPast,
         SampleNotAhead, Walking, EmptyTable, Slots, Holds, NotPosted, Posting, Fates

\* Time alone makes nothing early.
LEMMA TickStep == IInv /\ Tick => IInv'
<1> SUFFICES ASSUME IInv, Tick PROVE IInv'
  OBVIOUS
<1> USE DEF IInv, Tick, history
<1>1. TypeOK'
  BY DEF TypeOK
<1>2. NeverEarly'
  BY DEF NeverEarly, TypeOK, Posting
<1>3. PostedInPast' /\ SampleNotAhead'
  BY TickType DEF PostedInPast, SampleNotAhead, TypeOK, Posting, Walking
<1>4. QED
  BY <1>1, <1>2, <1>3 DEF NoEntryLost, ScheduleKept, NewNeverRan, Holds

\* A step of the walk that calls nothing.
LEMMA SkipStep == IInv /\ CallSkip => IInv'
<1> SUFFICES ASSUME IInv, CallSkip PROVE IInv'
  OBVIOUS
<1> USE DEF IInv, CallSkip, history
<1>1. TypeOK'
  BY DEF TypeOK, Walking
<1>2. SampleNotAhead'
  BY DEF TypeOK, SampleNotAhead, Walking
<1>3. QED
  BY <1>1, <1>2 DEF NeverEarly, NoEntryLost, ScheduleKept, NewNeverRan, PostedInPast, Holds

\* The sample taken at the start of a walk is the tick of the true time.
LEMMA BeginStep == IInv /\ CallBegin => IInv'
<1> SUFFICES ASSUME IInv, CallBegin PROVE IInv'
  OBVIOUS
<1> USE DEF IInv, CallBegin, history
<1>1. TypeOK'
  BY TickType DEF TypeOK
<1>2. SampleNotAhead'
  BY TickNotAhead DEF TypeOK, SampleNotAhead, PostedInPast, Posting
<1>3. QED
  BY <1>1, <1>2 DEF NeverEarly, NoEntryLost, ScheduleKept, NewNeverRan, PostedInPast, Holds

\* Taking an entry out of its slot loses no other entry.
LEMMA RemoveStep == ASSUME NEW i \in Slots, IInv, Remove(i) PROVE IInv'
<1> USE DEF IInv, Remove
<1> DEFINE job == deffuncs[i].job
<1>1. job \in Jobs
  BY DEF TypeOK, Entry
<1>2. TypeOK'
  BY <1>1 DEF TypeOK, Fates
<1>3. NoEntryLost'
  BY <1>1 DEF TypeOK, NoEntryLost, Holds
<1>4. ScheduleKept'
  BY DEF TypeOK, ScheduleKept
<1>5. NewNeverRan' /\ SampleNotAhead'
  BY <1>1 DEF TypeOK, NewNeverRan, SampleNotAhead, Walking
<1>6. QED
  BY <1>2, <1>3, <1>4, <1>5 DEF NeverEarly, PostedInPast

\* add_defer_func fills one free slot with the entry of a job that never ran, or
\* drops the job.
LEMMA AddStep ==
  ASSUME NEW j \in Jobs, NEW delay \in Delays, NEW interval \in Intervals,
         IInv, Add(j, delay, interval)
  PROVE  IInv'
<1> DEFINE e == [job |-> j, start |-> delay + GetMsTicks(clock), step |-> interval]
<1> USE DEF IInv
<1>0. /\ ~Walking /\ fate[j] = "new"
      /\ deffuncs' = AddDefer(deffuncs, e)
      /\ fate' = [fate EXCEPT ![j] = IF FreeSlots(deffuncs) = {} THEN "dropped" ELSE "accepted"]
      /\ posted' = [posted EXCEPT ![j] = [at |-> clock, delay |-> delay, interval |-> interval]]
      /\ clock' = clock /\ current' = current /\ scan' = scan /\ runs' = runs
  BY DEF Add
<1>1. e \in Entry /\ e # Free
  BY TickType DEF Entry, TypeOK
<1>2. \A i \in Slots : ~Holds(i, j)
  BY <1>0 DEF NoEntryLost
<1>3. runs[j] = 0
  BY <1>0 DEF NewNeverRan
<1>4. posted' \in [Jobs -> Posting] /\ fate' \in [Jobs -> Fates]
  BY <1>0 DEF TypeOK, Posting, Fates
<1>5. NeverEarly' /\ NewNeverRan' /\ PostedInPast' /\ SampleNotAhead'
  BY <1>0, <1>3, <1>4 DEF NeverEarly, NewNeverRan, PostedInPast, SampleNotAhead, TypeOK, Walking
<1> HIDE DEF e
<1>6. CASE FreeSlots(deffuncs) = {} /\ deffuncs' = deffuncs
  <2>1. TypeOK'
    BY <1>0, <1>4, <1>6 DEF TypeOK
  <2>2. NoEntryLost'
    BY <1>0, <1>2, <1>6 DEF NoEntryLost, Holds, TypeOK
  <2>3. ScheduleKept'
    BY <1>0, <1>2, <1>6 DEF ScheduleKept, Holds, TypeOK
  <2>4. QED
    BY <1>5, <2>1, <2>2, <2>3
<1>7. ASSUME NEW i \in Slots, deffuncs[i] = Free, deffuncs' = [deffuncs EXCEPT ![i] = e],
             FreeSlots(deffuncs) # {}
      PROVE  IInv'
  <2>1. TypeOK'
    BY <1>0, <1>1, <1>4, <1>7 DEF TypeOK
  <2>2. deffuncs'[i] = e /\ \A k \in Slots : k # i => deffuncs'[k] = deffuncs[k]
    BY <1>7 DEF TypeOK
  <2>3. NoEntryLost'
    <3>1. e.job = j
      BY DEF e
    <3>2. fate'[j] = "accepted" /\ \A k \in Jobs : k # j => fate'[k] = fate[k]
      BY <1>0, <1>7 DEF TypeOK
    <3>3. \A k \in Jobs, s \in Slots : Holds(s, k)' <=> (IF k = j THEN s = i ELSE Holds(s, k))
      BY <1>1, <1>2, <1>7, <2>2, <3>1 DEF Holds
    <3>4. QED
      BY <3>2, <3>3 DEF NoEntryLost
  <2>4. ScheduleKept'
    <3>1. ASSUME NEW k \in Slots, deffuncs'[k] # Free
          PROVE  /\ deffuncs'[k].step = posted'[deffuncs'[k].job].interval
                 /\ deffuncs'[k].start = GetMsTicks(posted'[deffuncs'[k].job].at)
                      + posted'[deffuncs'[k].job].delay + runs'[deffuncs'[k].job] * deffuncs'[k].step
                 /\ deffuncs'[k].step = 0 => runs'[deffuncs'[k].job] = 0
      <4>1. CASE k = i
        <5>1. posted'[j] = [at |-> clock, delay |-> delay, interval |-> interval]
          BY <1>0 DEF TypeOK
        <5>2. GetMsTicks(clock) \in Nat
          BY TickType DEF TypeOK
        <5>3. runs'[j] * interval = 0 /\ delay \in Nat /\ interval \in Nat
          BY <1>0, <1>3
        <5>4. /\ deffuncs'[k].job = j /\ deffuncs'[k].step = interval
              /\ deffuncs'[k].start = delay + GetMsTicks(clock)
          BY <4>1, <2>2 DEF e
        <5>5. QED
          BY <5>1, <5>2, <5>3, <5>4, <1>0, <1>3
      <4>2. CASE k # i
        <5>1. deffuncs'[k] = deffuncs[k] /\ deffuncs[k].job # j /\ deffuncs[k] # Free
          BY <4>2, <2>2, <1>2, <3>1 DEF Holds
        <5>2. deffuncs[k].job \in Jobs
          BY <5>1 DEF TypeOK, Entry
        <5>3. posted'[deffuncs[k].job] = posted[deffuncs[k].job]
          BY <5>1, <5>2, <1>0 DEF TypeOK
        <5>4. QED
          BY <5>1, <5>3, <1>0 DEF ScheduleKept
      <4>3. QED
        BY <4>1, <4>2
    <3>2. QED
      BY <3>1 DEF ScheduleKept
  <2>5. QED
    BY <1>5, <2>1, <2>3, <2>4
<1>8. QED
  BY <1>0, <1>6, <1>7, AddDeferSlot DEF FreeSlots

\* A function is called only once its time has come in true time, and its entry
\* moves on by one interval or leaves the table.
LEMMA RunStep == ASSUME NEW r \in {"OK", "DONE"}, IInv, CallRun(r) PROVE IInv'
<1> USE DEF IInv
<1>a. scan \in Slots /\ Walking /\ deffuncs[scan] \in Entry /\ deffuncs[scan] # Free
  BY DEF CallRun, DueNow, TypeOK, Walking, Slots
<1>b. PICK e \in Entry : e = deffuncs[scan]
  BY <1>a
<1>c. PICK j \in Jobs : j = e.job
  BY DEF Entry
<1>0. /\ Walking /\ e # Free /\ current >= e.start
      /\ deffuncs' = [deffuncs EXCEPT ![scan] = AfterCall(e, r)]
      /\ runs' = [runs EXCEPT ![j] = @ + 1]
      /\ fate' = [fate EXCEPT ![j] = IF AfterCall(e, r) = Free THEN "finished" ELSE @]
      /\ scan' = scan + 1
      /\ clock' = clock /\ current' = current /\ posted' = posted
  BY <1>a, <1>b, <1>c DEF CallRun, DueNow
<1>1. scan \in Slots /\ e = deffuncs[scan] /\ e.job = j
  BY <1>a, <1>b, <1>c
<1>2. fate[j] = "accepted" /\ \A k \in Slots : Holds(k, j) => k = scan
  BY <1>0, <1>1 DEF NoEntryLost, Holds
<1>3. /\ e.step = posted[j].interval
      /\ e.start = GetMsTicks(posted[j].at) + posted[j].delay + runs[j] * e.step
      /\ e.step = 0 => runs[j] = 0
  BY <1>0, <1>1 DEF ScheduleKept
<1>4. /\ posted[j].at \in Nat /\ posted[j].delay \in Nat /\ posted[j].interval \in Nat
      /\ e.start \in Nat /\ e.step \in Nat /\ e.step \in Intervals
      /\ runs[j] \in Nat /\ clock \in Nat /\ current \in Nat
      /\ GetMsTicks(posted[j].at) \in Nat
  BY <1>1, TickType DEF TypeOK, Posting, Entry
<1>5. AfterCall(e, r) \in Entry \cup {Free}
  BY <1>1, <1>4 DEF AfterCall, Entry
<1>6. \/ AfterCall(e, r) = Free
      \/ /\ e.step # 0
         /\ AfterCall(e, r) # Free
         /\ AfterCall(e, r).job = j /\ AfterCall(e, r).step = e.step
         /\ AfterCall(e, r).start = e.start + e.step
  BY <1>1, <1>5 DEF AfterCall, Entry
<1>7. runs'[j] = runs[j] + 1 /\ \A k \in Jobs : k # j => runs'[k] = runs[k]
  BY <1>0, <1>1 DEF TypeOK
<1>8. TypeOK'
  <2>1. runs' \in [Jobs -> Nat]
    BY <1>0, <1>1 DEF TypeOK
  <2>2. fate' \in [Jobs -> Fates]
    BY <1>0, <1>1 DEF TypeOK, Fates
  <2>3. deffuncs' \in [Slots -> Entry \cup {Free}]
    BY <1>0, <1>1, <1>5 DEF TypeOK
  <2>4. scan' \in 0 .. MaxDeferred
    BY <1>0, <1>1 DEF Slots
  <2>5. QED
    BY <1>0, <2>1, <2>2, <2>3, <2>4 DEF TypeOK
<1>9. NeverEarly'
  <2>1. current - GetMsTicks(posted[j].at) <= clock - posted[j].at
    BY <1>0, <1>1, <1>2 DEF SampleNotAhead
  <2> DEFINE due == runs[j] * e.step
  <2>2. due \in Nat
    BY <1>4
  <2>3. clock >= posted[j].at + posted[j].delay + due
    <3> HIDE DEF due
    <3>1. e.start = GetMsTicks(posted[j].at) + posted[j].delay + due
      BY <1>3 DEF due
    <3>2. QED
      BY <1>0, <1>4, <2>1, <2>2, <3>1
  <2>4. clock >= posted[j].at + posted[j].delay + (runs'[j] - 1) * posted[j].interval
    BY <1>3, <1>4, <1>7, <2>3
  <2>5. QED
    BY <1>0, <1>7, <2>4 DEF NeverEarly
<1>10. NoEntryLost'
  <2>1. deffuncs'[scan] = AfterCall(e, r) /\ \A k \in Slots : k # scan => deffuncs'[k] = deffuncs[k]
    BY <1>0, <1>1 DEF TypeOK
  <2>2. \A k \in Slots, q \in Jobs : q # j => (Holds(k, q)' <=> Holds(k, q))
    BY <1>0, <1>1, <1>6, <2>1 DEF Holds
  <2>3. \A q \in Jobs : q # j => fate'[q] = fate[q]
    BY <1>0 DEF TypeOK
  <2>4. CASE AfterCall(e, r) = Free
    <3>1. fate'[j] = "finished" /\ \A k \in Slots : ~Holds(k, j)'
      BY <1>0, <1>1, <1>2, <2>1, <2>4 DEF TypeOK, Holds
    <3>2. QED
      BY <2>2, <2>3, <3>1 DEF NoEntryLost
  <2>5. CASE AfterCall(e, r) # Free
    <3>1. fate'[j] = "accepted" /\ \A k \in Slots : Holds(k, j)' <=> k = scan
      BY <1>0, <1>1, <1>2, <1>6, <2>1, <2>5 DEF TypeOK, Holds
    <3>2. QED
      BY <1>1, <2>2, <2>3, <3>1 DEF NoEntryLost
  <2>6. QED
    BY <2>4, <2>5
<1>11. ScheduleKept'
  <2>1. ASSUME NEW k \in Slots, deffuncs'[k] # Free
        PROVE  /\ deffuncs'[k].step = posted'[deffuncs'[k].job].interval
               /\ deffuncs'[k].start = GetMsTicks(posted'[deffuncs'[k].job].at)
                    + posted'[deffuncs'[k].job].delay + runs'[deffuncs'[k].job] * deffuncs'[k].step
               /\ deffuncs'[k].step = 0 => runs'[deffuncs'[k].job] = 0
    <3>1. CASE k = scan
      <4>1. deffuncs'[k] = AfterCall(e, r)
        BY <3>1, <1>0, <1>1 DEF TypeOK
      <4>2. (runs[j] + 1) * e.step = runs[j] * e.step + e.step
        BY <1>4
      <4>3. runs[j] * e.step \in Nat
        BY <1>4
      <4>4. QED
        BY <4>1, <4>2, <4>3, <2>1, <1>0, <1>3, <1>4, <1>6, <1>7
    <3>2. CASE k # scan
      <4>1. deffuncs'[k] = deffuncs[k] /\ deffuncs[k] # Free
        BY <3>2, <2>1, <1>0 DEF TypeOK
      <4>2. deffuncs[k].job \in Jobs
        BY <4>1 DEF TypeOK, Entry
      <4>3. deffuncs[k].job # j
        BY <1>2, <3>2, <4>1 DEF Holds
      <4>4. runs'[deffuncs[k].job] = runs[deffuncs[k].job]
        BY <1>7, <4>2, <4>3
      <4>5. QED
        BY <4>1, <4>4, <1>0 DEF ScheduleKept
    <3>3. QED
      BY <3>1, <3>2
  <2>2. QED
    BY <2>1 DEF ScheduleKept
<1>12. NewNeverRan' /\ PostedInPast'
  BY <1>0, <1>1, <1>2, <1>7 DEF NewNeverRan, PostedInPast, TypeOK
<1>13. SampleNotAhead'
  BY <1>0, <1>1, <1>2 DEF SampleNotAhead, TypeOK, Walking
<1>14. QED
  BY <1>8, <1>9, <1>10, <1>11, <1>12, <1>13

\* The inductive invariant holds in every reachable state.
THEOREM SchedulerInvariant == Spec => []IInv
<1>1. Init => IInv
  BY InitIInv
<1>2. IInv /\ [Next]_vars => IInv'
  <2> SUFFICES ASSUME IInv, [Next]_vars PROVE IInv'
    OBVIOUS
  <2>1. CASE UNCHANGED vars
    BY <2>1 DEF vars, IInv, TypeOK, NeverEarly, NoEntryLost, ScheduleKept, NewNeverRan,
                PostedInPast, SampleNotAhead, Walking, Holds
  <2>2. CASE Next
    BY <2>2, TickStep, AddStep, RemoveStep, BeginStep, SkipStep, RunStep DEF Next
  <2>3. QED
    BY <2>1, <2>2
<1>3. QED
  BY <1>1, <1>2, PTL DEF Spec

\* Every variable stays in its type.
THEOREM TypeCorrect == Spec => []TypeOK
  BY SchedulerInvariant, PTL DEF IInv

\* No deferred function is ever called before its time or too often, although the
\* tick returns to 0 and the walk compares with a sample that is already old.
THEOREM NeverCalledEarly == Spec => []NeverEarly
  BY SchedulerInvariant, PTL DEF IInv

\* No entry of the table is overwritten, duplicated or lost.
THEOREM EntriesKept == Spec => []NoEntryLost
  BY SchedulerInvariant, PTL DEF IInv
-----------------------------------------------------------------------------
(* The timers of Timers are the jobs held in a slot, each at the true time its *)
(* schedule asks for; the used slots and the timers are equal in number.       *)

HeldJobs  == {k \in Jobs : \E i \in Slots : Holds(i, k)}
UsedSlots == {i \in Slots : deffuncs[i] # Free}
TimerOf(k) == [job |-> k, due |-> DueAt(k), interval |-> posted[k].interval]

LEMMA TimersAreHeld == TimersOf = {TimerOf(k) : k \in HeldJobs}
  BY DEF TimersOf, TimerOf, HeldJobs

\* A used slot holds one job, and a job is held in one slot.
LEMMA SlotsAndTimers == IInv => ExistsBijection(UsedSlots, TimersOf)
<1> SUFFICES ASSUME IInv PROVE ExistsBijection(UsedSlots, TimersOf)
  OBVIOUS
<1> USE DEF IInv
<1>1. \A i \in UsedSlots : /\ deffuncs[i].job \in Jobs
                           /\ Holds(i, deffuncs[i].job)
                           /\ deffuncs[i].job \in HeldJobs
  BY DEF TypeOK, Entry, UsedSlots, Holds, HeldJobs
<1> DEFINE f == [i \in UsedSlots |-> TimerOf(deffuncs[i].job)]
<1>2. f \in [UsedSlots -> TimersOf]
  BY <1>1, TimersAreHeld
<1>3. ASSUME NEW a \in UsedSlots, NEW b \in UsedSlots, f[a] = f[b] PROVE a = b
  <2>1. deffuncs[a].job = deffuncs[b].job
    BY <1>3 DEF TimerOf
  <2>2. Holds(a, deffuncs[a].job) /\ Holds(b, deffuncs[a].job) /\ deffuncs[a].job \in Jobs
    BY <1>1, <1>3, <2>1
  <2>3. QED
    BY <1>3, <2>2 DEF NoEntryLost, UsedSlots
<1>4. \A t \in TimersOf : \E i \in UsedSlots : f[i] = t
  BY TimersAreHeld DEF HeldJobs, Holds, UsedSlots
<1> HIDE DEF f
<1>5. f \in Bijection(UsedSlots, TimersOf)
  BY <1>2, <1>3, <1>4 DEF Bijection, Injection, IsInjective, Surjection
<1>6. QED
  BY <1>5 DEF ExistsBijection

\* The set of timers is full exactly when the table has no free slot.
LEMMA CapacityIsSlots ==
  IInv => IF FreeSlots(deffuncs) = {} THEN Cardinality(TimersOf) = MaxDeferred
                                      ELSE Cardinality(TimersOf) < MaxDeferred
<1> SUFFICES ASSUME IInv
             PROVE  IF FreeSlots(deffuncs) = {} THEN Cardinality(TimersOf) = MaxDeferred
                                                ELSE Cardinality(TimersOf) < MaxDeferred
  OBVIOUS
<1>1. IsFiniteSet(Slots) /\ Cardinality(Slots) = MaxDeferred
  <2>1. 0 \in Int /\ MaxDeferred - 1 \in Int
    OBVIOUS
  <2>2. /\ IsFiniteSet(0 .. MaxDeferred - 1)
        /\ Cardinality(0 .. MaxDeferred - 1) =
             IF 0 > MaxDeferred - 1 THEN 0 ELSE (MaxDeferred - 1) - 0 + 1
    BY <2>1, FS_Interval
  <2>3. QED
    BY <2>2 DEF Slots
<1>2. /\ IsFiniteSet(UsedSlots) /\ Cardinality(UsedSlots) <= MaxDeferred
      /\ Cardinality(UsedSlots) = MaxDeferred => UsedSlots = Slots
  BY <1>1, FS_Subset, UsedSlots \in SUBSET Slots DEF UsedSlots
<1>3. Cardinality(TimersOf) = Cardinality(UsedSlots)
  BY <1>2, SlotsAndTimers, FS_Bijection
<1>4. FreeSlots(deffuncs) = {} <=> UsedSlots = Slots
  BY DEF FreeSlots, UsedSlots
<1>5. Cardinality(UsedSlots) \in Nat
  BY <1>2, FS_CardinalityType
<1>6. FreeSlots(deffuncs) = {} => Cardinality(TimersOf) = MaxDeferred
  BY <1>1, <1>3, <1>4
<1>7. FreeSlots(deffuncs) # {} => Cardinality(TimersOf) < MaxDeferred
  BY <1>2, <1>3, <1>4, <1>5
<1>8. QED
  BY <1>6, <1>7

\* Timers counts with the same Cardinality.
LEMMA SameCardinality == \A S : Abstract!Cardinality(S) = Cardinality(S)
  BY DEF Abstract!Cardinality, Cardinality

\* The initial states map to the empty set of timers.
LEMMA InitMaps == Init => Abstract!Init
  BY DEF Init, Abstract!Init, TimersOf, Holds, EmptyTable, Slots

\* The timers change with the jobs that are held and with their schedules only.
LEMMA SameTimers ==
  ASSUME UNCHANGED deffuncs,
         \A k \in HeldJobs : posted'[k] = posted[k] /\ runs'[k] = runs[k]
  PROVE  TimersOf' = TimersOf
<1>1. HeldJobs' = HeldJobs
  BY DEF HeldJobs, Holds
<1>2. \A k \in HeldJobs : TimerOf(k)' = TimerOf(k)
  BY DEF TimerOf, DueAt
<1>3. TimersOf' = {TimerOf(k)' : k \in HeldJobs'}
  BY DEF TimersOf, TimerOf, HeldJobs
<1>4. QED
  BY <1>1, <1>2, <1>3, TimersAreHeld

\* One job leaves its slot, and its timer the set.
LEMMA OneTimerLess ==
  ASSUME NEW j \in Jobs, HeldJobs' = HeldJobs \ {j},
         \A k \in HeldJobs \ {j} : posted'[k] = posted[k] /\ runs'[k] = runs[k]
  PROVE  TimersOf' = TimersOf \ {TimerOf(j)}
<1>1. \A k \in HeldJobs \ {j} : TimerOf(k)' = TimerOf(k)
  BY DEF TimerOf, DueAt
<1>2. TimersOf' = {TimerOf(k)' : k \in HeldJobs'}
  BY DEF TimersOf, TimerOf, HeldJobs
<1>3. TimersOf' = {TimerOf(k) : k \in HeldJobs \ {j}}
  BY <1>1, <1>2
<1>4. \A k \in HeldJobs : TimerOf(k) = TimerOf(j) => k = j
  BY DEF TimerOf
<1>5. QED
  BY <1>3, <1>4, TimersAreHeld

\* One job is in the table behind a step, with a timer that is new.
LEMMA OneTimerNew ==
  ASSUME NEW j \in Jobs, HeldJobs' = HeldJobs \cup {j},
         \A k \in HeldJobs \ {j} : posted'[k] = posted[k] /\ runs'[k] = runs[k]
  PROVE  TimersOf' = (TimersOf \ {TimerOf(j)}) \cup {TimerOf(j)'}
<1>1. \A k \in HeldJobs \ {j} : TimerOf(k)' = TimerOf(k)
  BY DEF TimerOf, DueAt
<1>2. TimersOf' = {TimerOf(k)' : k \in HeldJobs'}
  BY DEF TimersOf, TimerOf, HeldJobs
<1>3. TimersOf' = {TimerOf(k) : k \in HeldJobs \ {j}} \cup {TimerOf(j)'}
  BY <1>1, <1>2
<1>4. \A k \in HeldJobs : TimerOf(k) = TimerOf(j) => k = j
  BY DEF TimerOf
<1>5. QED
  BY <1>3, <1>4, TimersAreHeld

\* Time passes.
LEMMA TickMaps == Tick => Abstract!Advance
<1> SUFFICES ASSUME Tick PROVE Abstract!Advance
  OBVIOUS
<1> USE DEF Tick, history
<1>1. TimersOf' = TimersOf
  BY SameTimers
<1>2. QED
  BY <1>1 DEF Abstract!Advance

\* A call or the beginning of a walk that changes no entry changes no timer.
LEMMA WalkMaps == CallBegin \/ CallSkip => UNCHANGED Abstract!vars
<1> SUFFICES ASSUME CallBegin \/ CallSkip PROVE UNCHANGED Abstract!vars
  OBVIOUS
<1> USE DEF CallBegin, CallSkip, history
<1>1. TimersOf' = TimersOf
  BY SameTimers
<1>2. QED
  BY <1>1 DEF Abstract!vars

\* remove_defer_func cancels the timer of the job in the slot.
LEMMA RemoveMaps ==
  ASSUME NEW i \in Slots, IInv, Remove(i)
  PROVE  \E t \in TimersOf : Abstract!Cancel(t)
<1> DEFINE j == deffuncs[i].job
<1> USE DEF IInv, Remove
<1>1. j \in Jobs /\ Holds(i, j) /\ fate[j] = "accepted"
  BY DEF TypeOK, Entry, Holds, NoEntryLost
<1>2. \A k \in Slots : Holds(k, j) => k = i
  BY <1>1 DEF NoEntryLost
<1>3. HeldJobs' = HeldJobs \ {j}
  <2>1. \A k \in Slots, q \in Jobs : Holds(k, q)' <=> (Holds(k, q) /\ k # i)
    BY DEF Holds, TypeOK
  <2>2. \A k \in Slots, q \in Jobs : Holds(k, q) => (k = i <=> q = j)
    BY <1>1, <1>2 DEF Holds
  <2>3. QED
    BY <2>1, <2>2 DEF HeldJobs
<1>4. TimersOf' = TimersOf \ {TimerOf(j)}
  BY <1>1, <1>3, OneTimerLess
<1>5. {k \in Jobs : fate[k] = "dropped"}' = {k \in Jobs : fate[k] = "dropped"}
  BY <1>1 DEF TypeOK
<1>6. TimerOf(j) \in TimersOf
  BY <1>1, TimersAreHeld DEF HeldJobs
<1>7. QED
  BY <1>4, <1>5, <1>6 DEF Abstract!Cancel

\* add_defer_func posts a timer while a slot is free, and refuses it otherwise.
LEMMA AddMaps ==
  ASSUME NEW j \in Jobs, NEW delay \in Delays, NEW interval \in Intervals,
         IInv, Add(j, delay, interval)
  PROVE  Abstract!Post(j, delay, interval) \/ Abstract!Refuse(j)
<1> DEFINE e == [job |-> j, start |-> delay + GetMsTicks(clock), step |-> interval]
<1> USE DEF IInv
<1>0. /\ fate[j] = "new"
      /\ deffuncs' = AddDefer(deffuncs, e)
      /\ fate' = [fate EXCEPT ![j] = IF FreeSlots(deffuncs) = {} THEN "dropped" ELSE "accepted"]
      /\ posted' = [posted EXCEPT ![j] = [at |-> clock, delay |-> delay, interval |-> interval]]
      /\ clock' = clock /\ runs' = runs
  BY DEF Add
<1>1. e # Free /\ e.job = j
  <2>1. e \in Entry
    BY TickType DEF Entry, TypeOK
  <2>2. QED
    BY <2>1
<1>2. \A i \in Slots : ~Holds(i, j)
  BY <1>0 DEF NoEntryLost
<1>3. j \notin HeldJobs
  BY <1>2 DEF HeldJobs
<1>4. \A k \in HeldJobs \ {j} : posted'[k] = posted[k] /\ runs'[k] = runs[k]
  BY <1>0 DEF TypeOK, HeldJobs
<1> HIDE DEF e
<1>5. CASE FreeSlots(deffuncs) = {} /\ deffuncs' = deffuncs
  <2>1. TimersOf' = TimersOf
    BY <1>3, <1>4, <1>5, SameTimers
  <2>2. Cardinality(TimersOf) = MaxDeferred
    BY <1>5, CapacityIsSlots
  <2>3. {k \in Jobs : fate[k] = "dropped"}' = {k \in Jobs : fate[k] = "dropped"} \cup {j}
    BY <1>0, <1>5 DEF TypeOK
  <2>4. QED
    BY <1>0, <2>1, <2>2, <2>3, SameCardinality DEF Abstract!Refuse
<1>6. ASSUME NEW i \in Slots, deffuncs[i] = Free, deffuncs' = [deffuncs EXCEPT ![i] = e],
             FreeSlots(deffuncs) # {}
      PROVE  Abstract!Post(j, delay, interval)
  <2>1. deffuncs'[i] = e /\ \A k \in Slots : k # i => deffuncs'[k] = deffuncs[k]
    BY <1>6 DEF TypeOK
  <2>2. \A k \in Slots, q \in Jobs : Holds(k, q)' <=> (Holds(k, q) \/ (k = i /\ q = j))
    BY <1>1, <1>6, <2>1 DEF Holds
  <2>3. HeldJobs' = HeldJobs \cup {j}
    BY <1>6, <2>2 DEF HeldJobs
  <2>4. TimersOf' = (TimersOf \ {TimerOf(j)}) \cup {TimerOf(j)'}
    BY <1>4, <2>3, OneTimerNew
  <2>5. \A t \in TimersOf : t.job # j
    BY <1>3, TimersAreHeld DEF TimerOf
  <2>6. TimerOf(j)' = [job |-> j, due |-> clock + delay, interval |-> interval]
    <3>1. posted'[j] = [at |-> clock, delay |-> delay, interval |-> interval]
      BY <1>0 DEF TypeOK
    <3>2. runs'[j] = 0 /\ clock \in Nat /\ delay \in Nat /\ interval \in Nat
      BY <1>0 DEF NewNeverRan, TypeOK
    <3>3. DueAt(j)' = clock + delay
      BY <3>1, <3>2 DEF DueAt
    <3>4. QED
      BY <3>1, <3>3 DEF TimerOf
  <2>7. TimersOf' = TimersOf \cup {[job |-> j, due |-> clock + delay, interval |-> interval]}
    BY <2>4, <2>5, <2>6 DEF TimerOf
  <2>8. Cardinality(TimersOf) < MaxDeferred
    BY <1>6, CapacityIsSlots
  <2>9. {k \in Jobs : fate[k] = "dropped"}' = {k \in Jobs : fate[k] = "dropped"}
    BY <1>0, <1>6 DEF TypeOK
  <2>10. QED
    BY <1>0, <2>5, <2>7, <2>8, <2>9, SameCardinality DEF Abstract!Post, Abstract!Timer
<1>7. QED
  BY <1>0, <1>5, <1>6, AddDeferSlot DEF FreeSlots

\* A function is called when the true time has reached the timer's, although the
\* walk goes by its sample; the timer is gone behind the call, or one interval on.
LEMMA RunMaps ==
  ASSUME NEW r \in {"OK", "DONE"}, IInv, CallRun(r)
  PROVE  \E t \in TimersOf : Abstract!Expire(t)
<1> USE DEF IInv
<1>1. scan \in Slots /\ Walking /\ deffuncs[scan] \in Entry /\ deffuncs[scan] # Free
  BY DEF CallRun, DueNow, TypeOK, Walking, Slots
<1>2. PICK e \in Entry : e = deffuncs[scan]
  BY <1>1
<1>3. PICK j \in Jobs : j = e.job
  BY DEF Entry
<1>4. /\ current >= e.start
      /\ deffuncs' = [deffuncs EXCEPT ![scan] = AfterCall(e, r)]
      /\ runs' = [runs EXCEPT ![j] = @ + 1]
      /\ fate' = [fate EXCEPT ![j] = IF AfterCall(e, r) = Free THEN "finished" ELSE @]
      /\ clock' = clock /\ posted' = posted
  BY <1>1, <1>2, <1>3 DEF CallRun, DueNow
<1>5. /\ fate[j] = "accepted" /\ Holds(scan, j)
      /\ \A k \in Slots : Holds(k, j) => k = scan
  BY <1>1, <1>2, <1>3 DEF NoEntryLost, Holds
<1>6. /\ e.step = posted[j].interval
      /\ e.start = GetMsTicks(posted[j].at) + posted[j].delay + runs[j] * e.step
  BY <1>1, <1>2, <1>3 DEF ScheduleKept
<1>7. /\ posted[j].at \in Nat /\ posted[j].delay \in Nat /\ posted[j].interval \in Nat
      /\ runs[j] \in Nat /\ clock \in Nat /\ current \in Nat
      /\ GetMsTicks(posted[j].at) \in Nat /\ runs[j] * posted[j].interval \in Nat
  <2>1. posted[j].at \in Nat /\ posted[j].delay \in Nat /\ posted[j].interval \in Nat
    BY DEF TypeOK, Posting
  <2>2. QED
    BY <2>1, TickType DEF TypeOK
<1>8. DueAt(j) <= clock
  <2>1. current - GetMsTicks(posted[j].at) <= clock - posted[j].at
    BY <1>1, <1>5 DEF SampleNotAhead
  <2> DEFINE gone == runs[j] * posted[j].interval
  <2>2. e.start = GetMsTicks(posted[j].at) + posted[j].delay + gone
    BY <1>6
  <2>3. DueAt(j) = posted[j].at + posted[j].delay + gone
    BY DEF DueAt
  <2>4. gone \in Nat
    BY <1>7
  <2> HIDE DEF gone
  <2>5. QED
    BY <1>4, <1>7, <2>1, <2>2, <2>3, <2>4
<1>9. TimerOf(j) \in TimersOf
  BY <1>1, <1>5, TimersAreHeld DEF HeldJobs
<1>10. \A k \in HeldJobs \ {j} : posted'[k] = posted[k] /\ runs'[k] = runs[k]
  BY <1>4 DEF TypeOK, HeldJobs
<1>11. deffuncs'[scan] = AfterCall(e, r) /\ \A k \in Slots : k # scan => deffuncs'[k] = deffuncs[k]
  BY <1>1, <1>4 DEF TypeOK
<1>12. \A k \in Slots, q \in Jobs : Holds(k, q) => (k = scan <=> q = j)
  BY <1>2, <1>3, <1>5 DEF Holds
<1>13. {k \in Jobs : fate[k] = "dropped"}' = {k \in Jobs : fate[k] = "dropped"}
  BY <1>4, <1>5 DEF TypeOK
<1>14. CASE AfterCall(e, r) = Free
  <2>1. \A k \in Slots, q \in Jobs : Holds(k, q)' <=> (Holds(k, q) /\ k # scan)
    BY <1>11, <1>14 DEF Holds
  <2>2. HeldJobs' = HeldJobs \ {j}
    BY <1>12, <2>1 DEF HeldJobs
  <2>3. TimersOf' = TimersOf \ {TimerOf(j)}
    BY <1>10, <2>2, OneTimerLess
  <2>4. Abstract!Expire(TimerOf(j))
    BY <1>4, <1>8, <1>13, <2>3 DEF Abstract!Expire, TimerOf
  <2>5. QED
    BY <1>9, <2>4
<1>15. CASE AfterCall(e, r) # Free
  <2>1. e.step # 0 /\ AfterCall(e, r) = [e EXCEPT !.start = @ + e.step]
    BY <1>15 DEF AfterCall
  <2>2. AfterCall(e, r).job = j
    BY <1>3, <2>1 DEF Entry
  <2>3. \A k \in Slots, q \in Jobs : Holds(k, q)' <=> Holds(k, q)
    BY <1>2, <1>3, <1>1, <1>11, <1>15, <2>2 DEF Holds
  <2>4. HeldJobs' = HeldJobs \cup {j}
    BY <1>1, <1>5, <2>3 DEF HeldJobs
  <2>5. TimersOf' = (TimersOf \ {TimerOf(j)}) \cup {TimerOf(j)'}
    BY <1>10, <2>4, OneTimerNew
  <2>6. posted[j].interval > 0
    BY <1>6, <1>7, <2>1
  <2>7. DueAt(j)' = DueAt(j) + posted[j].interval
    <3>1. runs'[j] = runs[j] + 1
      BY <1>4 DEF TypeOK
    <3>2. (runs[j] + 1) * posted[j].interval = runs[j] * posted[j].interval + posted[j].interval
      BY <1>7
    <3>3. QED
      BY <1>4, <1>7, <3>1, <3>2 DEF DueAt
  <2>8. TimerOf(j)' = Abstract!Timer(j, DueAt(j) + posted[j].interval, posted[j].interval)
    BY <1>4, <2>7 DEF TimerOf, Abstract!Timer
  <2>9. Abstract!Expire(TimerOf(j))
    BY <1>4, <1>8, <1>13, <2>5, <2>6, <2>8 DEF Abstract!Expire, TimerOf
  <2>10. QED
    BY <1>9, <2>9
<1>16. QED
  BY <1>14, <1>15

\* Every behaviour of the table is one of the timers: a timer rings only when it is
\* due in true time, a periodic one does not drift, and a job is refused only while
\* every slot is taken.
THEOREM TableImplementsTimers == Spec => ImplementsTimers
<1>1. IInv /\ [Next]_vars => [Abstract!Next]_(Abstract!vars)
  <2> SUFFICES ASSUME IInv, [Next]_vars PROVE Abstract!Next \/ UNCHANGED Abstract!vars
    OBVIOUS
  <2>1. CASE UNCHANGED vars
    <3>1. TimersOf' = TimersOf
      BY <2>1, SameTimers DEF vars
    <3>2. QED
      BY <2>1, <3>1 DEF vars, Abstract!vars
  <2>2. CASE Tick
    BY <2>2, TickMaps DEF Abstract!Next
  <2>3. ASSUME NEW j \in Jobs, NEW delay \in Delays, NEW interval \in Intervals,
               Add(j, delay, interval)
        PROVE  Abstract!Next
    BY <2>3, AddMaps DEF Abstract!Next
  <2>4. ASSUME NEW i \in Slots, Remove(i) PROVE Abstract!Next
    BY <2>4, RemoveMaps DEF Abstract!Next
  <2>5. CASE CallBegin \/ CallSkip
    BY <2>5, WalkMaps
  <2>6. ASSUME NEW r \in {"OK", "DONE"}, CallRun(r) PROVE Abstract!Next
    BY <2>6, RunMaps DEF Abstract!Next
  <2>7. QED
    BY <2>1, <2>2, <2>3, <2>4, <2>5, <2>6 DEF Next
<1>2. QED
  BY <1>1, InitMaps, SchedulerInvariant, PTL DEF Spec, ImplementsTimers, Abstract!Spec
=============================================================================
