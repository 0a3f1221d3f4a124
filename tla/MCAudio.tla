------------------------------ MODULE MCAudio -------------------------------
(* The ring of four buffers, and music of two blocks and a half. *)
EXTENDS Audio
=============================================================================
