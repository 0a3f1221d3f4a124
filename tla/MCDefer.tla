------------------------------ MODULE MCDefer -------------------------------
(* Small instances of Defer: three jobs over a table of two slots. *)
EXTENDS Defer
=============================================================================
