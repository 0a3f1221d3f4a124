------------------------------- MODULE Defer --------------------------------
(***************************************************************************)
(* The deferred-function scheduler of the oc image (oc/sources/oc.c):      *)
(* add_defer_func, remove_defer_func and call_defer_funcs over the fixed   *)
(* table deffuncs.  main_loop samples GetMsTicks once and passes it to     *)
(* call_defer_funcs, which walks the table in index order.                 *)
(*                                                                         *)
(* A job is one call of add_defer_func.  Its function is opaque: it may    *)
(* return DEFER_RESULT_OK or DEFER_RESULT_DONE.  No deferred function of   *)
(* the repository adds or removes an entry, so the table changes under a   *)
(* walk only through the walk itself; time passes during the walk.         *)
(*                                                                         *)
(* GetMsTicks is system_get_time()/1000: a 32-bit microsecond counter, so  *)
(* the tick returns to 0 after TickPeriod milliseconds and never reaches   *)
(* the 2^32 that start_tick could hold.  `clock' is the true time.         *)
(***************************************************************************)
EXTENDS DeferTable, FiniteSets

CONSTANTS
  Jobs,       \* the calls of add_defer_func
  Delays,     \* values of its start_tick argument
  Intervals,  \* values of its interval argument, 0 for one shot
  TickPeriod, \* number of values of GetMsTicks: 2^32 / 1000
  Horizon     \* bound on the true time, for model checking

ASSUME DelaysAssumption    == Delays \subseteq Nat
ASSUME IntervalsAssumption == Intervals \subseteq Nat
ASSUME TickAssumption      == TickPeriod \in Nat \ {0} /\ Horizon \in Nat

VARIABLES
  deffuncs, \* the table
  clock,    \* true time in milliseconds since power up
  current,  \* current_tick, the argument of call_defer_funcs
  scan,     \* index of the walk; MaxDeferred when call_defer_funcs is not running
  fate,     \* history: what became of each job
  posted,   \* history: true time, delay and interval of the job's add_defer_func
  runs      \* history: number of calls of the job's function

vars == <<deffuncs, clock, current, scan, fate, posted, runs>>
history == <<fate, posted, runs>>

NotPosted == [at |-> 0, delay |-> 0, interval |-> 0]
Entry     == [job : Jobs, start : Nat, step : Intervals]
Posting   == [at : Nat, delay : Nat, interval : Nat]
Fates     == {"new", "accepted", "dropped", "finished", "removed"}

ASSUME FreeAssumption == Free \notin Entry

\* get_ms_ticks at the true time c.
GetMsTicks(c) == c % TickPeriod

Walking == scan < MaxDeferred

Holds(i, j) == deffuncs[i] # Free /\ deffuncs[i].job = j

Init ==
  /\ deffuncs = EmptyTable
  /\ clock = 0
  /\ current = 0
  /\ scan = MaxDeferred
  /\ fate = [j \in Jobs |-> "new"]
  /\ posted = [j \in Jobs |-> NotPosted]
  /\ runs = [j \in Jobs |-> 0]

Tick ==
  /\ clock < Horizon
  /\ clock' = clock + 1
  /\ UNCHANGED <<deffuncs, current, scan, history>>

\* add_defer_func(delay, interval, func, arg), called from a network callback.
Add(j, delay, interval) ==
  /\ ~Walking
  /\ fate[j] = "new"
  /\ deffuncs' = AddDefer(deffuncs, [job   |-> j,
                                     start |-> delay + GetMsTicks(clock),
                                     step  |-> interval])
  /\ fate' = [fate EXCEPT ![j] = IF FreeSlots(deffuncs) = {} THEN "dropped" ELSE "accepted"]
  /\ posted' = [posted EXCEPT ![j] = [at |-> clock, delay |-> delay, interval |-> interval]]
  /\ UNCHANGED <<clock, current, scan, runs>>

\* remove_defer_func(func, arg) of an entry that is in the table.
Remove(i) ==
  /\ ~Walking
  /\ deffuncs[i] # Free
  /\ deffuncs' = [deffuncs EXCEPT ![i] = Free]
  /\ fate' = [fate EXCEPT ![deffuncs[i].job] = "removed"]
  /\ UNCHANGED <<clock, current, scan, posted, runs>>

\* main_loop samples the tick and enters call_defer_funcs.
CallBegin ==
  /\ ~Walking
  /\ current' = GetMsTicks(clock)
  /\ scan' = 0
  /\ UNCHANGED <<deffuncs, clock, history>>

\* Variant: only at the very tick.
DueExactly == deffuncs[scan] # Free /\ current = deffuncs[scan].start

\* The entry the walk stands at is to be called in this walk.
DueNow == deffuncs[scan] # Free /\ current >= deffuncs[scan].start

\* The two `continue's of the loop.
CallSkip ==
  /\ Walking
  /\ ~DueNow
  /\ scan' = scan + 1
  /\ UNCHANGED <<deffuncs, clock, current, history>>

\* Variant: start_tick left as it was.
AfterCallSame(e, r) == IF e.step = 0 \/ r = "DONE" THEN Free ELSE e

\* What the loop stores in the slot of entry e once its function returned r.
AfterCall(e, r) ==
  IF e.step = 0 \/ r = "DONE" THEN Free ELSE [e EXCEPT !.start = @ + e.step]

CallRun(r) ==
  /\ Walking
  /\ DueNow
  /\ LET e == deffuncs[scan] IN
       /\ deffuncs' = [deffuncs EXCEPT ![scan] = AfterCall(e, r)]
       /\ runs' = [runs EXCEPT ![e.job] = @ + 1]
       /\ fate' = [fate EXCEPT ![e.job] = IF AfterCall(e, r) = Free THEN "finished" ELSE @]
  /\ scan' = scan + 1
  /\ UNCHANGED <<clock, current, posted>>

Next ==
  \/ Tick
  \/ \E j \in Jobs, delay \in Delays, interval \in Intervals : Add(j, delay, interval)
  \/ \E i \in Slots : Remove(i)
  \/ CallBegin
  \/ CallSkip
  \/ \E r \in {"OK", "DONE"} : CallRun(r)

Spec == Init /\ [][Next]_vars

\* The oc image's main_loop is called for ever by the firmware and the emulator
\* (while (!quit)), and call_defer_funcs is a loop that always returns.
Fairness ==
  /\ WF_vars(CallBegin)
  /\ WF_vars(CallSkip \/ \E r \in {"OK", "DONE"} : CallRun(r))

FairSpec == Spec /\ Fairness
-----------------------------------------------------------------------------
TypeOK ==
  /\ deffuncs \in [Slots -> Entry \cup {Free}]
  /\ clock \in Nat
  /\ current \in Nat
  /\ scan \in 0 .. MaxDeferred
  /\ fate \in [Jobs -> Fates]
  /\ posted \in [Jobs -> Posting]
  /\ runs \in [Jobs -> Nat]

\* The true time at which the schedule of job j asks for its next call.
DueAt(j) == posted[j].at + posted[j].delay + runs[j] * posted[j].interval

\* A job's function is never called before its time, and a periodic one never
\* more often than its schedule: when it has been called n times, the time for
\* the n-th call has come.  The tick may return to 0 and the walk uses a sample
\* that is old by the time the function is called.
NeverEarly ==
  \A j \in Jobs :
    runs[j] > 0 => clock >= posted[j].at + posted[j].delay + (runs[j] - 1) * posted[j].interval

\* A job is in the table exactly while it was accepted and has neither finished
\* nor been removed, and then in one slot: nothing add, remove or the walk does
\* overwrites, duplicates or loses an entry.
NoEntryLost ==
  \A j \in Jobs :
    IF fate[j] = "accepted"
    THEN \E i \in Slots : Holds(i, j) /\ \A k \in Slots : Holds(k, j) => k = i
    ELSE \A i \in Slots : ~Holds(i, j)

\* A job that is still to be posted has never been called.
NewNeverRan == \A j \in Jobs : fate[j] = "new" => runs[j] = 0

PostedInPast == \A j \in Jobs : posted[j].at <= clock

\* The sample the walk goes by is no further from the tick at which an entry of
\* the table was posted than the true time is from that call of add_defer_func.
SampleNotAhead ==
  Walking => \A j \in Jobs :
    fate[j] = "accepted" =>
      current - GetMsTicks(posted[j].at) <= clock - posted[j].at

\* The schedule in the table is the job's own: start_tick advances by the
\* interval from the tick of add_defer_func plus the delay, without drift, and a
\* one-shot entry still in the table has never been called.
ScheduleKept ==
  \A i \in Slots :
    deffuncs[i] # Free =>
      LET e == deffuncs[i] IN
        /\ e.step = posted[e.job].interval
        /\ e.start = GetMsTicks(posted[e.job].at) + posted[e.job].delay + runs[e.job] * e.step
        /\ e.step = 0 => runs[e.job] = 0

\* The inductive invariant behind NeverEarly and NoEntryLost.
IInv ==
  /\ TypeOK
  /\ NeverEarly
  /\ NoEntryLost
  /\ ScheduleKept
  /\ NewNeverRan
  /\ PostedInPast
  /\ SampleNotAhead

\* A job whose time has come is called, or removed, sooner or later, however late
\* the walks are, unless the tick has returned to 0 by then, which may strand it.
DueIsCalled ==
  \A j \in Jobs : \A n \in 0 .. 1 :
    (fate[j] = "accepted" /\ runs[j] = n /\ DueAt(j) <= clock)
      ~> (runs[j] > n \/ fate[j] # "accepted" \/ clock >= TickPeriod)

\* The table implements the bounded set of timers in true time, the return of the
\* tick to 0 and the stale sample of the walk included: a timer rings only when it
\* is due, and a job is refused only while every slot is taken.
TimersOf == {[job |-> j, due |-> DueAt(j), interval |-> posted[j].interval] :
               j \in {k \in Jobs : \E i \in Slots : Holds(i, k)}}

Abstract ==
  INSTANCE Timers WITH time <- clock, pending <- TimersOf, Capacity <- MaxDeferred,
                       refused <- {j \in Jobs : fate[j] = "dropped"}

ImplementsTimers == Abstract!Spec
=============================================================================
