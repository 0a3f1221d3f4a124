------------------------------ MODULE MCOcData ------------------------------
(* What oc keeps in the flash: the configuration, and a file an app has loaded.
   One processor runs both and they share no data, so that each is explored with
   the other at rest. *)
EXTENDS Config, LoadFile

Pair(k, v) == [key |-> <<k>>, value |-> v]

\* Comments, blank and indented lines, spaces around the colon, a colon and a hash
\* in a value, a key twice, an end without a line feed, and no setting at all.
MCFiles == {
  [text  |-> <<"#", "a", ":", "1", "nl", "nl", " ", "a", ":", "1", "nl", "b", " ", ":", " ", "2">>,
   pairs |-> <<Pair("a", <<"1">>), Pair("b", <<"2">>)>>],
  [text  |-> <<"b", ":", "#", ":", "2", "nl", "a", ":", " ", "2", "nl", "a", ":", "1", "nl">>,
   pairs |-> <<Pair("b", <<"#", ":", "2">>), Pair("a", <<"2">>), Pair("a", <<"1">>)>>],
  [text  |-> <<"#", "1", "nl">>, pairs |-> <<>>]}
MCStored == {<<"a", ":", "2">>}
MCValues == {<<"#">>}
MCNames  == {<<"a">>, <<"c">>}

\* Two versions that differ behind the first sectors, and a shorter one.
Version(n, b) == [i \in 1 .. n |-> IF i = n THEN "z" ELSE b]
MCVersions == {Version(11, "x"), Version(12, "x"), Version(5, "y")}

ConfigAtRest == pc = "off" /\ text = Missing /\ sector = Erased
LoadAtRest   == asked = 0 /\ mishaps = 0 /\ file = Version(5, "y") /\ cells[Start] = FF

Init == ConfigInit /\ LoadInit /\ (ConfigAtRest \/ LoadAtRest)

Next ==
  \/ ConfigNext /\ LoadAtRest /\ UNCHANGED loadVars
  \/ LoadNext /\ ConfigAtRest /\ UNCHANGED configVars

Spec == Init /\ [][Next]_<<configVars, loadVars>>
=============================================================================
