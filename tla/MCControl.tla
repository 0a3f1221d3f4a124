----------------------------- MODULE MCControl ------------------------------
(* Small instances of Control: a peer that sends headers and data of one file
   in any order and number, cut or joined at will. *)
EXTENDS Control

Text == Commands \cup Fields \cup {"#", "f", "1", "2", "d", "e"}

MCItems    == Text \cup {"nl", "nul"}
MCControls == {"nl", "nul"}
MCNumeral  == [i \in MCItems |-> CASE i = "1" -> 1 [] i = "2" -> 2 [] OTHER -> 0]
MCNames    == {<<"f">>}

NameField == <<"filename", "nl", "f", "nl">>
SizeField(n) == <<"filesize", "nl", n, "nl">>

NoFile  == {}
OneFile == {<<"d", "e", "f">>}

\* Two puts of different lengths, one with data in the segment of its header, once
\* at an even and once at an odd place.
PutSegments ==
  {<<"PUT", "nl">> \o NameField \o SizeField("2") \o <<"#", "nl">>,
   <<"PUT", "nl">> \o NameField \o SizeField("1") \o <<"#", "nl", "d">>,
   <<"PUT", "nl">> \o NameField \o SizeField("1") \o <<"#", "nl", "nl", "d">>,
   <<"d">>, <<"d", "d">>}

\* Reading a file, with or without its name, the other commands and a field that
\* is none.
GetSegments ==
  {<<"GET", "nl">> \o NameField \o <<"#", "nl">>,
   <<"GET", "nl", "#", "nl">>,
   <<"VERIFY", "nl">> \o NameField \o <<"#", "nl">>,
   <<"LIST", "nl", "#", "nl">>, <<"REBOOT", "nl", "#", "nl">>, <<"LIST", "nl", "e", "nl">>}
=============================================================================
