------------------------------- MODULE MCBoot -------------------------------
(***************************************************************************)
(* The layout of the device, a chip of nine sectors in blocks of two: the  *)
(* area of the firmware starts and ends inside a block as the real one     *)
(* does, that of oc starts inside one.  The last sector of the firmware's  *)
(* file is not full, and it is read in two chunks; on the other card both  *)
(* files are longer than the areas kept for them.                          *)
(***************************************************************************)
EXTENDS Boot

BootBase == [firmware |-> 1, oc |-> 5]
BootSpan == [firmware |-> 4, oc |-> 3]
BootLengths == {[firmware |-> 7, oc |-> 4], [firmware |-> 9, oc |-> 7]}
BootImages == {Old} \cup (Files \X (0 .. 4))
=============================================================================
