------------------------------ MODULE MCSdCard ------------------------------
(* Small instances of SdCard: a fast card, one that needs a lower clock, one  *)
(* without a volume, and one that is good for the installation only.          *)
EXTENDS SdCard

MCCards ==
  {[limit |-> 250, formatted |-> TRUE],
   [limit |-> 50,  formatted |-> TRUE],
   [limit |-> 250, formatted |-> FALSE],
   [limit |-> 5,   formatted |-> TRUE]}
=============================================================================
