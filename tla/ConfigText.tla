----------------------------- MODULE ConfigText -----------------------------
(***************************************************************************)
(* The text of 0:/boot/config.txt: how config_parse reads it into pairs of *)
(* a key and a value, how config_set writes it, and how config_get_string  *)
(* looks a key up (oc/sources/config.c).  An item of a text is a byte, or  *)
(* a run of bytes of one class.  config_parse ends its strings in place,   *)
(* so that a key and a value are parts of the text.                        *)
(***************************************************************************)
EXTENDS Integers, SequencesExt

CONSTANTS
  Letters, \* a .. z, A .. Z
  Digits   \* what else stands in a value, up to 'z'

Newline   == "nl"
Spaces    == {" ", Newline}
Printable == Letters \cup Digits \cup {":", "#"}
Items     == Spaces \cup Printable

\* Every byte is of one class.
ASSUME ByteClasses == (Letters \cup Digits) \cap (Spaces \cup {":", "#"}) = {}

\* SKIP_...: the first position from p on whose item is not in S, or the end.
Past(S, t, p) == Min({q \in p .. Len(t) : t[q] \notin S} \cup {Len(t) + 1})

\* SKIP_LINE: blank lines are skipped with it, the indentation of the next is not.
NextLine(t, p) == Past({Newline}, t, Past(Items \ {Newline}, t, p))

\* Where the colon of a key that starts at p is looked for.
ColonAt(t, p) ==
  LET q == Past(Letters, t, p)
  IN  IF q > Len(t) \/ t[q] = ":" THEN q ELSE Past(Spaces, t, q + 1)

ValueAt(t, p) == Past(Spaces, t, ColonAt(t, p) + 1)

PairAt(t, p) ==
  [key   |-> SubSeq(t, p, Past(Letters, t, p) - 1),
   value |-> SubSeq(t, ValueAt(t, p), Past(Printable, t, ValueAt(t, p)) - 1)]

\* The item at which it shows whether a line that starts at p has a pair.
Decisive(t, p) == IF t[p] = "#" THEN p ELSE ColonAt(t, p)

\* One turn of config_parse, which is at p: a comment and a line without a colon are
\* skipped; a key that the text ends behind, with its colon or without, is dropped.
\* from[q] is what it makes of the text from a later position q on.
Turn(t, from, p) ==
  LET k == Past(Spaces, t, p)
      c == Decisive(t, k)
  IN  CASE k > Len(t) \/ c > Len(t) -> <<>>
        [] k <= Len(t) /\ c <= Len(t) /\ t[c] # ":" -> from[NextLine(t, c)]
        [] OTHER -> IF ValueAt(t, k) > Len(t) THEN <<>>
                    ELSE <<PairAt(t, k)>> \o from[Past(Printable, t, ValueAt(t, k)) + 1]

\* config_parse
Pairs(t) == LET from[p \in 1 .. Len(t) + 2] == Turn(t, from, p) IN from[1]

\* Variant: the line is not ended.
LineOpen(pair) == pair.key \o <<":", " ">> \o pair.value

\* The text config_set writes.
Line(pair) == pair.key \o <<":", " ">> \o pair.value \o <<Newline>>
Text(pairs) == FlattenSeq([i \in 1 .. Len(pairs) |-> Line(pairs[i])])

\* config_set gives every entry of that name the value, and adds none.
Replaced(pairs, name, value) ==
  [i \in 1 .. Len(pairs) |->
     IF pairs[i].key = name THEN [pairs[i] EXCEPT !.value = value] ELSE pairs[i]]
=============================================================================
