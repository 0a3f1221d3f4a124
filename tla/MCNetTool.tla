----------------------------- MODULE MCNetTool ------------------------------
(* Small instances of NetTool: files of three bytes, sent in words of two; a file that
   is fetched takes two chunks, and the old one on the card begins with the new one. *)
EXTENDS NetTool

MCItems    == Commands \cup Fields \cup {"#", "f", "1", "3", "a", "b", "c", "nl", "nul"}
MCControls == {"nl", "nul"}
MCNumeral  == [i \in MCItems |-> CASE i = "1" -> 1 [] i = "3" -> 3 [] OTHER -> 0]
MCNames    == {<<"f">>}

NoSegments == {}
AllCmds    == {"put", "get", "list", "reboot"}
OldFile    == {<<"a", "b", "c", "b">>}
OtherFile  == {<<"b", "c", "a">>}
NewFile    == <<"a", "b", "c">>
=============================================================================
