------------------------- MODULE MCIncrementalFlash -------------------------
(* Every image of up to eleven sectors; the same groups as in the code. *)
EXTENDS IncrementalFlash
=============================================================================
