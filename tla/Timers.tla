------------------------------- MODULE Timers -------------------------------
(***************************************************************************)
(* What the deferred functions promise: a bounded set of timers in true    *)
(* time.  A timer may expire once its time has come, in any order and any  *)
(* time later; a periodic one that goes on is due one interval after the   *)
(* time it was due.  A request is dropped only when the capacity is used   *)
(* up by timers that are still pending.                                    *)
(***************************************************************************)
EXTENDS Integers, FiniteSets

CONSTANTS Jobs, Delays, Intervals, Capacity

VARIABLES
  time,
  pending,
  refused  \* the jobs that were dropped

vars == <<time, pending, refused>>

Timer(j, due, interval) == [job |-> j, due |-> due, interval |-> interval]

Init == time = 0 /\ pending = {} /\ refused = {}

Advance == time' = time + 1 /\ UNCHANGED <<pending, refused>>

Post(j, delay, interval) ==
  /\ \A t \in pending : t.job # j
  /\ Cardinality(pending) < Capacity
  /\ pending' = pending \cup {Timer(j, time + delay, interval)}
  /\ UNCHANGED <<time, refused>>

Refuse(j) ==
  /\ Cardinality(pending) = Capacity
  /\ refused' = refused \cup {j}
  /\ UNCHANGED <<time, pending>>

Cancel(t) == pending' = pending \ {t} /\ UNCHANGED <<time, refused>>

Expire(t) ==
  /\ t.due <= time
  /\ \/ pending' = pending \ {t}
     \/ /\ t.interval > 0
        /\ pending' = (pending \ {t}) \cup {Timer(t.job, t.due + t.interval, t.interval)}
  /\ UNCHANGED <<time, refused>>

Next ==
  \/ Advance
  \/ \E j \in Jobs, delay \in Delays, interval \in Intervals : Post(j, delay, interval)
  \/ \E j \in Jobs : Refuse(j)
  \/ \E t \in pending : Cancel(t) \/ Expire(t)

Spec == Init /\ [][Next]_vars
=============================================================================
