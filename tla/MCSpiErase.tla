----------------------------- MODULE MCSpiErase -----------------------------
(* Every area of a chip of nine sectors in blocks of four. *)
EXTENDS SpiErase
=============================================================================
