----------------------------- MODULE DeferTable -----------------------------
(***************************************************************************)
(* The table of deferred functions of the oc image: OCDEFER deffuncs[] and *)
(* the slot search of add_defer_func (oc/sources/oc.c).  An entry is left  *)
(* to the user of the table; a slot whose func pointer is NULL is Free.    *)
(***************************************************************************)
EXTENDS Integers

CONSTANTS
  MaxDeferred, \* MAX_DEFERRED_FUNCS
  Free         \* a slot with func == NULL

ASSUME MaxDeferredAssumption == MaxDeferred \in Nat \ {0}

Slots == 0 .. MaxDeferred - 1

\* Variant: the search stops one slot short.
FreeSlotsShort(tbl) == {i \in 0 .. MaxDeferred - 2 : tbl[i] = Free}

FreeSlots(tbl) == {i \in Slots : tbl[i] = Free}

Least(S) == CHOOSE i \in S : \A j \in S : i <= j

\* The first loop of add_defer_func stops at the lowest free index.
FirstFree(tbl) == Least(FreeSlots(tbl))

\* Variant: a full table is not noticed.
AddDeferUnchecked(tbl, entry) ==
  [tbl EXCEPT ![IF FreeSlots(tbl) = {} THEN 0 ELSE FirstFree(tbl)] = entry]

\* add_defer_func: a full table drops the new entry after a debug message.
AddDefer(tbl, entry) ==
  IF FreeSlots(tbl) = {} THEN tbl ELSE [tbl EXCEPT ![FirstFree(tbl)] = entry]

EmptyTable == [i \in Slots |-> Free]
=============================================================================
