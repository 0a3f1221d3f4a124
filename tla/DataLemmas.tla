----------------------------- MODULE DataLemmas -----------------------------
(***************************************************************************)
(* Lemmas about data that the proofs about several components rest on:     *)
(* the least of some naturals, induction over a set of naturals, what      *)
(* FlattenSeq computes, how strings are joined and cut, and multiples.  An *)
(* induction is about the set of the numbers of which a statement holds,   *)
(* and a recursive function is first shown to exist, since TLA+ defines it *)
(* by CHOOSE.                                                              *)
(***************************************************************************)
EXTENDS SequencesExt, Integers, SequenceTheorems, WellFoundedInduction, TLAPS

\* A non-empty set of naturals has a least element.
LEMMA LeastElement ==
  ASSUME NEW S, S \subseteq Nat, S # {}
  PROVE  \E i \in S : \A j \in S : i <= j
<1> DEFINE R == OpToRel(<, Nat)
<1>1. \A x, y \in S : ~(<<y, x>> \in R) => x <= y
  BY DEF OpToRel
<1> HIDE DEF R
<1>2. \E i \in S : \A j \in S : ~(<<j, i>> \in R)
  <2>1. IsWellFoundedOn(R, Nat)
    BY NatLessThanWellFounded DEF R
  <2> QED
    BY <2>1, WFMin
<1> QED
  BY <1>1, <1>2

\* What holds of 0 and, with a number, of the next one holds of all up to n.
LEMMA CountingUp ==
  ASSUME NEW n \in Nat, NEW S, 0 \in S, \A i \in 0 .. n - 1 : i \in S => i + 1 \in S
  PROVE  \A i \in 0 .. n : i \in S
<1> DEFINE Bad == {i \in 0 .. n : i \notin S}
<1> SUFFICES ASSUME Bad # {} PROVE FALSE
  OBVIOUS
<1>1. Bad \subseteq Nat
  OBVIOUS
<1>2. PICK i \in Bad : \A j \in Bad : i <= j
  BY <1>1, LeastElement
<1>3. i \in 1 .. n /\ i \notin S
  BY <1>2
<1>4. i - 1 \in 0 .. n - 1 /\ i - 1 \in S /\ (i - 1) + 1 = i
  BY <1>2, <1>3
<1> QED
  BY <1>3, <1>4

\* The same downwards, from n to 0.
LEMMA CountingDown ==
  ASSUME NEW n \in Nat, NEW S, n \in S, \A i \in 1 .. n : i \in S => i - 1 \in S
  PROVE  \A i \in 0 .. n : i \in S
<1> DEFINE T == {i \in 0 .. n : n - i \in S}
<1>1. 0 \in T
  OBVIOUS
<1>2. \A i \in 0 .. n - 1 : i \in T => i + 1 \in T
  <2> TAKE i \in 0 .. n - 1
  <2>1. n - i \in 1 .. n /\ (n - i) - 1 = n - (i + 1)
    OBVIOUS
  <2> QED
    BY <2>1
<1> HIDE DEF T
<1>3. \A i \in 0 .. n : i \in T
  BY <1>1, <1>2, CountingUp
<1>4. ASSUME NEW i \in 0 .. n PROVE i \in S
  <2>1. n - i \in 0 .. n /\ n - (n - i) = i
    OBVIOUS
  <2>2. n - i \in T
    BY <1>3, <2>1
  <2> QED
    BY <2>1, <2>2 DEF T
<1> QED
  BY <1>4
-----------------------------------------------------------------------------
(* FlattenSeq *)

\* One step of it, as the library writes it.
Flat(s, f) == [i \in 1 .. Len(s) |-> IF i = 1 THEN s[i] ELSE f[i - 1] \o s[i]]

\* There is a function that the recursion defines.
LEMMA FlatExists ==
  ASSUME NEW s, Len(s) \in Nat
  PROVE  \E f : f = Flat(s, f)
<1> DEFINE n == Len(s)
           Upto(f, m) == \A i \in 1 .. m : f[i] = IF i = 1 THEN s[i] ELSE f[i - 1] \o s[i]
           S == {m \in 0 .. n : \E f : f = [i \in 1 .. n |-> f[i]] /\ Upto(f, m)}
<1>1. 0 \in S
  <2> DEFINE g == [i \in 1 .. n |-> <<>>]
  <2>1. g = [i \in 1 .. n |-> g[i]] /\ Upto(g, 0)
    OBVIOUS
  <2> HIDE DEF g
  <2> QED
    BY <2>1
<1>2. \A m \in 0 .. n - 1 : m \in S => m + 1 \in S
  <2> SUFFICES ASSUME NEW m \in 0 .. n - 1, m \in S PROVE m + 1 \in S
    OBVIOUS
  <2>1. PICK f : f = [i \in 1 .. n |-> f[i]] /\ Upto(f, m)
    OBVIOUS
  <2> DEFINE x == IF m = 0 THEN s[1] ELSE f[m] \o s[m + 1]
             g == [i \in 1 .. n |-> IF i = m + 1 THEN x ELSE f[i]]
  <2> HIDE DEF x
  <2>2. g = [i \in 1 .. n |-> g[i]]
    OBVIOUS
  <2>3. ASSUME NEW i \in 1 .. m + 1 PROVE g[i] = IF i = 1 THEN s[i] ELSE g[i - 1] \o s[i]
    <3>1. i \in 1 .. n
      OBVIOUS
    <3>2. CASE i = m + 1
      BY <3>1, <3>2 DEF x
    <3>3. CASE i # m + 1
      <4>1. i \in 1 .. m /\ g[i] = f[i]
        BY <3>1, <3>3
      <4>2. i # 1 => i - 1 \in 1 .. n /\ i - 1 # m + 1
        BY <3>1, <4>1
      <4>3. i # 1 => g[i - 1] = f[i - 1]
        BY <4>2
      <4> QED
        BY <2>1, <4>1, <4>3
    <3> QED
      BY <3>2, <3>3
  <2> HIDE DEF g
  <2>4. m + 1 \in 0 .. n /\ Upto(g, m + 1)
    BY <2>3
  <2> QED
    BY <2>2, <2>4
<1>3. n \in S
  <2> HIDE DEF S
  <2>1. \A m \in 0 .. n : m \in S
    BY <1>1, <1>2, CountingUp
  <2> QED
    BY <2>1
<1>4. PICK f : f = [i \in 1 .. n |-> f[i]] /\ Upto(f, n)
  BY <1>3
<1> QED
  BY <1>4 DEF Flat

\* What FlattenSeq computes: the parts one behind the other, from the empty sequence on.
Joins(s, f) == f[0] = <<>> /\ \A i \in 1 .. Len(s) : f[i] = f[i - 1] \o s[i]

LEMMA FlattenRun ==
  ASSUME NEW S, NEW s \in Seq(Seq(S))
  PROVE  \E f \in [0 .. Len(s) -> Seq(S)] : Joins(s, f) /\ FlattenSeq(s) = f[Len(s)]
<1> DEFINE n == Len(s)
<1>1. n \in Nat /\ \A i \in 1 .. n : s[i] \in Seq(S)
  <2>1. n \in Nat
    BY LenProperties
  <2>2. ASSUME NEW i \in 1 .. n PROVE s[i] \in Seq(S)
    BY ElementOfSeq
  <2> QED
    BY <2>1, <2>2
<1> DEFINE h == CHOOSE g : g = Flat(s, g)
<1>2. h = Flat(s, h)
  BY <1>1, FlatExists
<1>3. FlattenSeq(s) = IF n = 0 THEN s ELSE h[n]
  BY DEF FlattenSeq, Flat
<1> HIDE DEF h
<1> DEFINE f == [i \in 0 .. n |-> IF i = 0 THEN <<>> ELSE h[i]]
<1>4. f[0] = <<>>
  BY <1>1
<1>5. ASSUME NEW i \in 1 .. n, f[i - 1] \in Seq(S) PROVE f[i] = f[i - 1] \o s[i]
  <2>1. h[i] = IF i = 1 THEN s[i] ELSE h[i - 1] \o s[i]
    BY <1>2 DEF Flat
  <2>2. f[i] = h[i]
    BY <1>1
  <2>3. CASE i = 1
    <3>1. f[i - 1] = <<>> /\ s[i] \in Seq(S)
      BY <1>1, <1>4, <2>3
    <3> QED
      BY <2>1, <2>2, <2>3, <3>1, ConcatEmptySeq
  <2>4. CASE i # 1
    <3>1. f[i - 1] = h[i - 1]
      BY <1>1, <2>4
    <3> QED
      BY <2>1, <2>2, <2>4, <3>1
  <2> QED
    BY <2>3, <2>4
<1> DEFINE T == {i \in 0 .. n : f[i] \in Seq(S)}
<1>6. \A i \in 0 .. n : i \in T
  <2>1. <<>> \in Seq(S)
    BY EmptySeq
  <2>2. 0 \in T
    BY <1>1, <1>4, <2>1
  <2>3. \A i \in 0 .. n - 1 : i \in T => i + 1 \in T
    <3> SUFFICES ASSUME NEW i \in 0 .. n - 1, i \in T PROVE i + 1 \in T
      OBVIOUS
    <3>1. i + 1 \in 1 .. n /\ (i + 1) - 1 = i
      BY <1>1
    <3> HIDE DEF f
    <3>2. f[i] \in Seq(S) /\ s[i + 1] \in Seq(S)
      BY <1>1, <3>1
    <3>3. f[i + 1] = f[i] \o s[i + 1]
      BY <1>5, <3>1, <3>2
    <3>4. f[i] \o s[i + 1] \in Seq(S)
      BY <3>2, ConcatProperties
    <3>5. i + 1 \in 0 .. n
      BY <1>1, <3>1
    <3> QED
      BY <3>3, <3>4, <3>5
  <2> HIDE DEF T
  <2> QED
    BY <1>1, <2>2, <2>3, CountingUp
<1>7. f = [i \in 0 .. n |-> f[i]]
  OBVIOUS
<1>8. FlattenSeq(s) = f[n]
  <2>1. CASE n = 0
    <3>1. s = <<>>
      BY <2>1, EmptySeq
    <3> QED
      BY <1>3, <1>4, <2>1, <3>1
  <2>2. CASE n # 0
    BY <1>1, <1>3, <2>2
  <2> QED
    BY <2>1, <2>2
<1> HIDE DEF f
<1>9. \A i \in 0 .. n : f[i] \in Seq(S)
  BY <1>6
<1>10. f \in [0 .. n -> Seq(S)]
  BY <1>7, <1>9
<1>11. ASSUME NEW i \in 1 .. n PROVE f[i] = f[i - 1] \o s[i]
  <2>1. i - 1 \in 0 .. n
    BY <1>1
  <2>2. f[i - 1] \in Seq(S)
    BY <1>9, <2>1
  <2> QED
    BY <1>5, <2>2
<1> QED
  BY <1>4, <1>8, <1>10, <1>11 DEF Joins

\* Whatever puts the parts one behind the other is that.
LEMMA FlattenIs ==
  ASSUME NEW S, NEW s \in Seq(Seq(S)), NEW g, Joins(s, g)
  PROVE  /\ FlattenSeq(s) = g[Len(s)]
         /\ \A i \in 0 .. Len(s) : g[i] \in Seq(S)
<1> DEFINE n == Len(s)
<1>1. n \in Nat
  BY LenProperties
<1>2. PICK f \in [0 .. n -> Seq(S)] : Joins(s, f) /\ FlattenSeq(s) = f[n]
  BY FlattenRun
<1> DEFINE T == {i \in 0 .. n : g[i] = f[i]}
<1>3. \A i \in 0 .. n : i \in T
  <2>1. 0 \in T
    BY <1>1, <1>2 DEF Joins
  <2>2. \A i \in 0 .. n - 1 : i \in T => i + 1 \in T
    <3> SUFFICES ASSUME NEW i \in 0 .. n - 1, i \in T PROVE i + 1 \in T
      OBVIOUS
    <3>1. i + 1 \in 1 .. n /\ (i + 1) - 1 = i /\ i + 1 \in 0 .. n
      BY <1>1
    <3>2. g[i + 1] = g[i] \o s[i + 1] /\ f[i + 1] = f[i] \o s[i + 1]
      BY <1>2, <3>1 DEF Joins
    <3> QED
      BY <3>1, <3>2
  <2> HIDE DEF T
  <2> QED
    BY <1>1, <2>1, <2>2, CountingUp
<1> QED
  BY <1>1, <1>2, <1>3

LEMMA FlattenEmpty == FlattenSeq(<<>>) = <<>>
BY DEF FlattenSeq

\* FlattenSeq of a sequence to which a part is appended.
LEMMA FlattenAppend ==
  ASSUME NEW S, NEW s \in Seq(Seq(S)), NEW x \in Seq(S)
  PROVE  /\ FlattenSeq(s) \in Seq(S)
         /\ FlattenSeq(Append(s, x)) = FlattenSeq(s) \o x
<1> DEFINE n == Len(s)
           t == Append(s, x)
<1>1. /\ n \in Nat /\ t \in Seq(Seq(S)) /\ Len(t) = n + 1
      /\ \A i \in 1 .. n : t[i] = s[i]
      /\ t[n + 1] = x
  BY LenProperties, AppendProperties
<1>2. PICK f \in [0 .. n -> Seq(S)] : Joins(s, f) /\ FlattenSeq(s) = f[n]
  BY FlattenRun
<1> DEFINE g == [i \in 0 .. n + 1 |-> IF i = n + 1 THEN f[n] \o x ELSE f[i]]
<1> HIDE DEF t
<1>3. g[0] = <<>> /\ g[n + 1] = f[n] \o x /\ f[n] \in Seq(S)
  <2>1. 0 \in 0 .. n + 1 /\ n + 1 \in 0 .. n + 1 /\ 0 # n + 1 /\ n \in 0 .. n
    BY <1>1
  <2>2. g[0] = f[0] /\ g[n + 1] = f[n] \o x
    BY <2>1
  <2> QED
    BY <1>2, <2>1, <2>2 DEF Joins
<1>4. ASSUME NEW i \in 1 .. Len(t) PROVE g[i] = g[i - 1] \o t[i]
  <2>1. CASE i = n + 1
    <3>1. n \in 0 .. n + 1 /\ n # n + 1 /\ i - 1 = n
      BY <1>1, <2>1
    <3>2. g[i - 1] = f[n]
      BY <3>1
    <3> QED
      BY <1>1, <1>3, <2>1, <3>2
  <2>2. CASE i # n + 1
    <3>1. i \in 1 .. n
      BY <1>1, <2>2
    <3>2. g[i] = f[i] /\ g[i - 1] = f[i - 1]
      BY <1>1, <3>1
    <3> QED
      BY <1>1, <1>2, <3>1, <3>2 DEF Joins
  <2> QED
    BY <2>1, <2>2
<1> HIDE DEF g
<1>5. Joins(t, g)
  BY <1>3, <1>4 DEF Joins
<1>6. FlattenSeq(t) = g[Len(t)]
  BY <1>1, <1>5, FlattenIs
<1> QED
  BY <1>1, <1>2, <1>3, <1>6 DEF t

\* Two sequences, one behind the other.
LEMMA Behind ==
  ASSUME NEW S, NEW a \in Seq(S), NEW b \in Seq(S), NEW c, c = a \o b
  PROVE  /\ c \in Seq(S)
         /\ Len(a) \in Nat /\ Len(b) \in Nat /\ Len(c) = Len(a) + Len(b)
         /\ \A j \in 1 .. Len(a) : c[j] = a[j]
         /\ \A j \in 1 .. Len(b) : c[Len(a) + j] = b[j]
<1>1. Len(a) \in Nat /\ Len(b) \in Nat
  BY LenProperties
<1>2. /\ c \in Seq(S) /\ Len(c) = Len(a) + Len(b)
      /\ \A i \in 1 .. Len(a) + Len(b) : c[i] = IF i <= Len(a) THEN a[i] ELSE b[i - Len(a)]
  BY ConcatProperties
<1>3. \A j \in 1 .. Len(b) : Len(a) + j \in 1 .. Len(a) + Len(b) /\ ~(Len(a) + j <= Len(a))
                             /\ (Len(a) + j) - Len(a) = j
  BY <1>1
<1>4. \A j \in 1 .. Len(a) : j \in 1 .. Len(a) + Len(b) /\ j <= Len(a)
  BY <1>1
<1> QED
  BY <1>1, <1>2, <1>3, <1>4

\* A part stays where it was put, whatever is put behind it.
LEMMA PrefixStays ==
  ASSUME NEW S, NEW s \in Seq(Seq(S)), NEW f, Joins(s, f),
         NEW m \in 0 .. Len(s), NEW k \in m .. Len(s)
  PROVE  Len(f[m]) <= Len(f[k]) /\ \A j \in 1 .. Len(f[m]) : f[k][j] = f[m][j]
<1> DEFINE n == Len(s)
           Good(i) == Len(f[m]) <= Len(f[i]) /\ \A j \in 1 .. Len(f[m]) : f[i][j] = f[m][j]
           T == {d \in 0 .. n - m : Good(m + d)}
<1>1. n \in Nat /\ n - m \in Nat /\ k \in m .. n
  BY LenProperties
<1>2. ASSUME NEW i \in 0 .. n PROVE f[i] \in Seq(S) /\ Len(f[i]) \in Nat
  BY FlattenIs, LenProperties
<1>3. 0 \in T
  <2>1. m + 0 = m /\ Len(f[m]) \in Nat
    BY <1>2
  <2> QED
    BY <1>1, <2>1
<1>4. \A d \in 0 .. n - m - 1 : d \in T => d + 1 \in T
  <2> SUFFICES ASSUME NEW d \in 0 .. n - m - 1, d \in T PROVE d + 1 \in T
    OBVIOUS
  <2> DEFINE i == m + d
  <2>1. i \in 0 .. n /\ i + 1 \in 1 .. n /\ (i + 1) - 1 = i /\ m + (d + 1) = i + 1
        /\ d + 1 \in 0 .. n - m
    <3> HIDE DEF T, Good
    <3> QED
      BY <1>1
  <2>6. Good(i)
    OBVIOUS
  <2> HIDE DEF i
  <2>2. f[i + 1] = f[i] \o s[i + 1]
    BY <2>1 DEF Joins
  <2>3. s[i + 1] \in Seq(S) /\ f[i] \in Seq(S)
    BY <1>2, <2>1, ElementOfSeq
  <2> DEFINE a == f[i]
             c == f[i + 1]
             z == f[m]
  <2>4. /\ Len(a) \in Nat /\ Len(c) >= Len(a) /\ \A j \in 1 .. Len(a) : c[j] = a[j]
    <3> HIDE DEF a, c
    <3>1. a \in Seq(S) /\ s[i + 1] \in Seq(S) /\ c = a \o s[i + 1]
      BY <2>2, <2>3 DEF a, c
    <3> QED
      BY <3>1, Behind
  <2>5. Len(z) \in Nat /\ Len(z) <= Len(a) /\ \A j \in 1 .. Len(z) : a[j] = z[j]
    BY <1>2, <2>6
  <2>7. Good(i + 1)
    <3> HIDE DEF a, c, z
    <3>1. Len(c) \in Nat
      BY <1>2, <2>1 DEF c
    <3>2. Len(z) <= Len(c) /\ \A j \in 1 .. Len(z) : c[j] = z[j]
      BY <2>4, <2>5, <3>1
    <3> QED
      BY <3>2 DEF c, z
  <2> HIDE DEF Good
  <2> QED
    BY <2>1, <2>7
<1> HIDE DEF T
<1>5. \A d \in 0 .. n - m : d \in T
  BY <1>1, <1>3, <1>4, CountingUp
<1>6. ASSUME NEW i \in m .. n PROVE Good(i)
  <2>1. i - m \in 0 .. n - m /\ m + (i - m) = i
    BY <1>1
  <2> HIDE DEF Good
  <2>2. Good(m + (i - m))
    BY <1>5, <2>1 DEF T
  <2> QED
    BY <2>1, <2>2
<1> QED
  BY <1>6

InPlace(s, f, i) ==
  /\ Len(f[i]) = Len(f[i - 1]) + Len(s[i])
  /\ Len(f[i]) <= Len(f[Len(s)])
  /\ \A j \in 1 .. Len(s[i]) : f[Len(s)][Len(f[i - 1]) + j] = s[i][j]

LEMMA PartsInPlace ==
  ASSUME NEW S, NEW s \in Seq(Seq(S)), NEW f, Joins(s, f),
         NEW i \in 1 .. Len(s)
  PROVE  InPlace(s, f, i)
<1> DEFINE n == Len(s)
<1>1. n \in Nat /\ i \in 0 .. n /\ i - 1 \in 0 .. n /\ n \in i .. n
  BY LenProperties
<1>2. f[i - 1] \in Seq(S) /\ f[i] \in Seq(S) /\ s[i] \in Seq(S)
  BY <1>1, FlattenIs, ElementOfSeq
<1>3. f[i] = f[i - 1] \o s[i]
  BY DEF Joins
<1> DEFINE a == f[i - 1]
           b == s[i]
           c == f[i]
           z == f[n]
<1>4. Len(c) <= Len(z) /\ \A j \in 1 .. Len(c) : z[j] = c[j]
  <2>1. i \in 0 .. Len(s) /\ Len(s) \in i .. Len(s)
    BY <1>1
  <2> HIDE DEF a, b
  <2> QED
    BY <2>1, PrefixStays
<1>5. c \in Seq(S) /\ a \in Seq(S) /\ b \in Seq(S) /\ c = a \o b
  BY <1>2, <1>3
<1>6. Len(c) = Len(a) + Len(b) /\ Len(c) <= Len(z) /\ \A j \in 1 .. Len(b) : z[Len(a) + j] = b[j]
  <2> HIDE DEF a, b, c, z
  <2>1. /\ Len(a) \in Nat /\ Len(b) \in Nat /\ Len(c) = Len(a) + Len(b)
        /\ \A j \in 1 .. Len(b) : c[Len(a) + j] = b[j]
    BY <1>5, Behind
  <2>2. \A j \in 1 .. Len(b) : Len(a) + j \in 1 .. Len(c)
    BY <2>1
  <2> QED
    BY <1>4, <2>1, <2>2
<1> QED
  BY <1>6 DEF InPlace

\* Short sequences.
LEMMA ShortSeqs ==
  ASSUME NEW S, NEW x \in S, NEW y \in S
  PROVE  <<x>> \in Seq(S) /\ <<x, y>> \in Seq(S)
OBVIOUS
-----------------------------------------------------------------------------
(* Strings that are joined and cut. *)

\* Two ways to cut a string, and what stands between the cuts.
SameString(a, b, c, d) == a \o b = c \o d
Between(S, a, b, c, d) ==
  \E m \in Seq(S) : c = a \o m /\ b = m \o d /\ Len(c) = Len(a) + Len(m)

\* The longer of two fronts of a string is the shorter one and a part of what is behind it.
LEMMA TwoCuts ==
  ASSUME NEW S, NEW a \in Seq(S), NEW b \in Seq(S), NEW c \in Seq(S), NEW d \in Seq(S),
         SameString(a, b, c, d), Len(a) <= Len(c)
  PROVE  Between(S, a, b, c, d)
<1>0. a \o b = c \o d
  BY DEF SameString
<1> DEFINE k == Len(a)
           m == SubSeq(c, k + 1, Len(c))
           w == SubSeq(c, 1, k)
<1>1. k \in Nat /\ Len(c) \in Nat /\ k <= Len(c)
  BY LenProperties
<1>2. \A i \in 1 .. k : i \in 1 .. Len(c) /\ c[i] \in S /\ c[i] = a[i]
  <2>1. \A i \in 1 .. k : i \in 1 .. Len(c)
    BY <1>1
  <2>2. \A i \in 1 .. Len(a) : (a \o b)[i] = a[i]
    BY Behind
  <2>3. \A i \in 1 .. Len(c) : (c \o d)[i] = c[i]
    BY Behind
  <2>4. \A i \in 1 .. Len(c) : c[i] \in S
    BY ElementOfSeq
  <2> QED
    BY <1>0, <2>1, <2>2, <2>3, <2>4
<1>3. m \in Seq(S)
  <2>1. \A i \in k + 1 .. Len(c) : c[i] \in S
    BY <1>1, ElementOfSeq
  <2> QED
    BY <1>1, <2>1, SubSeqProperties
<1>4. w = a
  <2>1. /\ w \in Seq(S) /\ Len(w) = IF 1 <= k THEN k - 1 + 1 ELSE 0
        /\ \A i \in 1 .. k - 1 + 1 : w[i] = c[1 + i - 1]
    <3>1. \A i \in 1 .. k : c[i] \in S
      BY <1>2
    <3> HIDE DEF k
    <3> QED
      BY <1>1, <3>1, SubSeqProperties
  <2>2. Len(w) = k /\ \A i \in 1 .. k : w[i] = c[i]
    <3> HIDE DEF w, k
    <3>1. k - 1 + 1 = k /\ \A i \in 1 .. k : 1 + i - 1 = i
      BY <1>1
    <3> QED
      BY <1>1, <2>1, <3>1
  <2>3. Len(w) = Len(a) /\ \A i \in 1 .. Len(w) : w[i] = a[i]
    <3> HIDE DEF w
    <3> QED
      BY <1>2, <2>2
  <2> HIDE DEF w
  <2> QED
    BY <2>1, <2>3, SeqEqual
<1>5. c = a \o m
  <2>1. 1 \in 1 .. Len(c) + 1 /\ k \in 1 - 1 .. Len(c) /\ Len(c) \in k .. Len(c)
    BY <1>1
  <2>2. SubSeq(c, 1, k) \o SubSeq(c, k + 1, Len(c)) = SubSeq(c, 1, Len(c))
    BY <2>1, ConcatAdjacentSubSeq
  <2>3. SubSeq(c, 1, Len(c)) = c
    BY SubSeqFull
  <2> QED
    BY <1>4, <2>2, <2>3
<1> HIDE DEF m, w
<1>6. b = m \o d
  <2>1. a \o b = (a \o m) \o d
    BY <1>0, <1>5
  <2>2. (a \o m) \o d = a \o (m \o d)
    BY <1>3, ConcatAssociative
  <2>3. m \o d \in Seq(S)
    BY <1>3, ConcatProperties
  <2>4. a \o b = a \o (m \o d)
    BY <2>1, <2>2
  <2> HIDE DEF k
  <2>5. \A s, t, v \in Seq(S) : s \o t = s \o v => t = v
    BY ConcatSimplifications
  <2> QED
    BY <2>3, <2>4, <2>5
<1>7. Len(c) = Len(a) + Len(m)
  BY <1>3, <1>5, ConcatProperties
<1> QED
  BY <1>3, <1>5, <1>6, <1>7 DEF Between

\* The first of a joined string.
LEMMA FirstOf ==
  ASSUME NEW S, NEW a \in Seq(S), NEW b \in Seq(S), a # <<>>
  PROVE  Len(a) >= 1 /\ (a \o b)[1] = a[1] /\ a \o b # <<>> /\ a[1] \in S
<1>1. Len(a) \in Nat /\ Len(a) >= 1 /\ 1 \in 1 .. Len(a)
  BY EmptySeq
<1>2. a[1] \in S
  BY <1>1, ElementOfSeq
<1>3. (a \o b)[1] = a[1]
  BY <1>1, Behind
<1>4. Len(a \o b) # 0
  <2>1. Len(a \o b) = Len(a) + Len(b) /\ Len(b) \in Nat
    BY ConcatProperties, LenProperties
  <2> QED
    BY <1>1, <2>1
<1>5. a \o b # <<>>
  BY <1>4, EmptySeq
<1> QED
  BY <1>1, <1>2, <1>3, <1>5

\* An item and what is behind it.
LEMMA ItemFirst ==
  ASSUME NEW S, NEW x \in S, NEW b \in Seq(S)
  PROVE  /\ <<x>> \o b \in Seq(S) /\ (<<x>> \o b)[1] = x /\ <<x>> \o b # <<>>
         /\ Len(<<x>> \o b) = Len(b) + 1
<1>1. <<x>> \in Seq(S) /\ <<x>> # <<>> /\ <<x>>[1] = x /\ Len(<<x>>) = 1
  OBVIOUS
<1>2. Len(b) \in Nat /\ Len(<<x>> \o b) = Len(<<x>>) + Len(b)
  BY <1>1, ConcatProperties, LenProperties
<1>3. (<<x>> \o b)[1] = <<x>>[1] /\ <<x>> \o b # <<>>
  BY <1>1, FirstOf
<1>4. <<x>> \o b \in Seq(S)
  BY <1>1, ConcatProperties
<1> QED
  BY <1>1, <1>2, <1>3, <1>4

\* What is behind the front of a joined string.
LEMMA BackOf ==
  ASSUME NEW S, NEW a \in Seq(S), NEW b \in Seq(S)
  PROVE  /\ SubSeq(a \o b, Len(a) + 1, Len(a \o b)) = b
         /\ SubSeq(a \o b, 1, Len(a)) = a
<1> DEFINE w == a \o b
           k == Len(a)
           n == Len(b)
           s == SubSeq(w, k + 1, k + n)
           t == SubSeq(w, 1, k)
<1>1. /\ w \in Seq(S) /\ k \in Nat /\ n \in Nat /\ Len(w) = k + n
      /\ \A j \in 1 .. k : w[j] = a[j]
      /\ \A j \in 1 .. n : w[k + j] = b[j]
  BY Behind
<1> HIDE DEF w, k, n
<1>2. \A i \in 1 .. k + n : w[i] \in S
  BY <1>1, ElementOfSeq
<1>3. s \in Seq(S) /\ Len(s) = n /\ \A i \in 1 .. n : s[i] = b[i]
  <2>1. \A i \in k + 1 .. k + n : w[i] \in S
    BY <1>1, <1>2
  <2>2. /\ s \in Seq(S)
        /\ Len(s) = IF k + 1 <= k + n THEN k + n - (k + 1) + 1 ELSE 0
        /\ \A i \in 1 .. k + n - (k + 1) + 1 : s[i] = w[k + 1 + i - 1]
    BY <1>1, <2>1, SubSeqProperties
  <2>3. k + n - (k + 1) + 1 = n /\ (~(k + 1 <= k + n) => n = 0) /\ \A i \in 1 .. n : k + 1 + i - 1 = k + i
    BY <1>1
  <2> HIDE DEF s
  <2> QED
    BY <1>1, <2>2, <2>3
<1>4. t \in Seq(S) /\ Len(t) = k /\ \A i \in 1 .. k : t[i] = a[i]
  <2>1. \A i \in 1 .. k : w[i] \in S
    BY <1>1, <1>2
  <2>2. /\ t \in Seq(S)
        /\ Len(t) = IF 1 <= k THEN k - 1 + 1 ELSE 0
        /\ \A i \in 1 .. k - 1 + 1 : t[i] = w[1 + i - 1]
    BY <1>1, <2>1, SubSeqProperties
  <2>3. k - 1 + 1 = k /\ (~(1 <= k) => k = 0) /\ \A i \in 1 .. k : 1 + i - 1 = i
    BY <1>1
  <2> HIDE DEF t
  <2> QED
    BY <1>1, <2>2, <2>3
<1> HIDE DEF s, t
<1>5. s = b
  BY <1>3, SeqEqual DEF n
<1>6. t = a
  BY <1>4, SeqEqual DEF k
<1> QED
  BY <1>1, <1>5, <1>6 DEF w, k, n, s, t

\* A sequence is one over any set that its elements are in.
LEMMA SeqOver ==
  ASSUME NEW S, NEW T, NEW m \in Seq(S), \A j \in 1 .. Len(m) : m[j] \in T
  PROVE  m \in Seq(T)
<1> DEFINE n == Len(m)
<1>1. n \in Nat /\ m \in [1 .. n -> S]
  BY LenProperties
<1>2. m = [j \in 1 .. n |-> m[j]]
  BY <1>1
<1>3. \A j \in 1 .. n : m[j] \in T
  OBVIOUS
<1> HIDE DEF n
<1>4. m \in [1 .. n -> T]
  BY <1>2, <1>3
<1> QED
  BY <1>1, <1>4, SeqDef

\* A string that is cut in two.
LEMMA CutOff ==
  ASSUME NEW S, NEW w \in Seq(S), NEW n \in 1 .. Len(w), NEW a, a = SubSeq(w, 1, n),
         NEW b, b = SubSeq(w, n + 1, Len(w))
  PROVE  /\ a \in Seq(S) /\ b \in Seq(S) /\ SameString(a, b, w, <<>>)
         /\ a \o b = w /\ a # <<>>
<1>1. Len(w) \in Nat /\ n \in Nat /\ \A i \in 1 .. Len(w) : w[i] \in S
  BY LenProperties, ElementOfSeq
<1>2. a \in Seq(S) /\ Len(a) = n
  <2>1. \A i \in 1 .. n : w[i] \in S
    BY <1>1
  <2> QED
    BY <1>1, <2>1, SubSeqProperties
<1>3. b \in Seq(S)
  <2>1. \A i \in n + 1 .. Len(w) : w[i] \in S
    BY <1>1
  <2> QED
    BY <1>1, <2>1, SubSeqProperties
<1>4. a \o b = w
  <2>1. 1 \in 1 .. Len(w) + 1 /\ n \in 1 - 1 .. Len(w) /\ Len(w) \in n .. Len(w)
    BY <1>1
  <2>2. SubSeq(w, 1, n) \o SubSeq(w, n + 1, Len(w)) = SubSeq(w, 1, Len(w))
    BY <2>1, ConcatAdjacentSubSeq
  <2>3. SubSeq(w, 1, Len(w)) = w
    BY SubSeqFull
  <2> QED
    BY <2>2, <2>3
<1>5. a # <<>>
  <2>1. a = <<>> => Len(a) = 0
    BY EmptySeq
  <2> QED
    BY <1>2, <2>1
<1>6. w \o <<>> = w
  BY ConcatEmptySeq
<1> QED
  BY <1>2, <1>3, <1>4, <1>5, <1>6 DEF SameString

\* Three strings, joined.
Regroup(a, b, c) == (a \o b) \o c = a \o (b \o c)

\* It does not matter which two of three strings are joined first.
LEMMA Regroups ==
  ASSUME NEW S, NEW a \in Seq(S), NEW b \in Seq(S), NEW c \in Seq(S)
  PROVE  Regroup(a, b, c) /\ a \o b \in Seq(S) /\ b \o c \in Seq(S)
BY ConcatAssociative, ConcatProperties DEF Regroup

\* What is taken from a segment up to the announced size is the rest of the file.
LEMMA LastTaken ==
  ASSUME NEW S, NEW d \in Seq(S), NEW r \in Seq(S), NEW a \in Seq(S), NEW f \in Seq(S), NEW z \in Seq(S),
         NEW n \in 0 .. Len(r), Len(d) + n = Len(f), SameString(d, r \o a, f, z)
  PROVE  d \o SubSeq(r, 1, n) = f
<1> DEFINE r1 == SubSeq(r, 1, n)
           r2 == SubSeq(r, n + 1, Len(r))
           x == d \o r1
           y == r2 \o a
<1>1. Len(r) \in Nat /\ Len(d) \in Nat /\ n \in Nat /\ n <= Len(r) /\ \A i \in 1 .. Len(r) : r[i] \in S
  BY LenProperties, ElementOfSeq
<1>2. r1 \in Seq(S) /\ Len(r1) = n
  <2>1. \A i \in 1 .. n : r[i] \in S
    BY <1>1
  <2>2. r1 \in Seq(S) /\ Len(r1) = (IF 1 <= n THEN n - 1 + 1 ELSE 0)
    BY <1>1, <2>1, SubSeqProperties
  <2> HIDE DEF r1
  <2> QED
    BY <1>1, <2>2
<1>3. r2 \in Seq(S)
  <2>1. \A i \in n + 1 .. Len(r) : r[i] \in S
    BY <1>1
  <2> QED
    BY <1>1, <2>1, SubSeqProperties
<1>4. r1 \o r2 = r
  <2>1. 1 \in 1 .. Len(r) + 1 /\ n \in 1 - 1 .. Len(r) /\ Len(r) \in n .. Len(r)
    BY <1>1
  <2>2. SubSeq(r, 1, n) \o SubSeq(r, n + 1, Len(r)) = SubSeq(r, 1, Len(r))
    BY <2>1, ConcatAdjacentSubSeq
  <2>3. SubSeq(r, 1, Len(r)) = r
    BY SubSeqFull
  <2> QED
    BY <2>2, <2>3
<1> HIDE DEF r1, r2
<1>5. x \in Seq(S) /\ Len(x) = Len(f) /\ y \in Seq(S)
  <2>1. x \in Seq(S) /\ Len(x) = Len(d) + Len(r1)
    BY <1>2, ConcatProperties
  <2>2. y \in Seq(S)
    BY <1>3, ConcatProperties
  <2> QED
    BY <1>2, <2>1, <2>2
<1>6. SameString(x, y, f, z)
  <2>1. Regroup(d, r1, y) /\ Regroup(r1, r2, a)
    BY <1>2, <1>3, <1>5, Regroups
  <2>2. (d \o r1) \o y = d \o (r1 \o y)
    BY <2>1 DEF Regroup
  <2>3. (r1 \o r2) \o a = r1 \o (r2 \o a)
    BY <2>1 DEF Regroup
  <2>4. x \o y = d \o (r \o a)
    BY <1>4, <2>2, <2>3
  <2> QED
    BY <2>4 DEF SameString
<1> HIDE DEF x, y
<1>7. Between(S, x, y, f, z)
  <2>1. Len(x) <= Len(f)
    BY <1>5, LenProperties
  <2> QED
    BY <1>5, <1>6, <2>1, TwoCuts
<1>8. PICK m \in Seq(S) : f = x \o m /\ Len(f) = Len(x) + Len(m)
  BY <1>7 DEF Between
<1>9. m = <<>>
  <2>1. Len(m) \in Nat /\ Len(x) \in Nat /\ Len(f) = Len(x)
    BY <1>5, LenProperties
  <2>2. Len(m) = 0
    BY <1>8, <2>1
  <2> QED
    BY <2>2, EmptySeq
<1>10. f = x
  BY <1>5, <1>8, <1>9, ConcatEmptySeq
<1> QED
  BY <1>10 DEF x, r1

\* What is behind all but the last item is the last item.
LEMMA LastOfConcat ==
  ASSUME NEW S, NEW a \in Seq(S), NEW t \in Seq(S), Len(t) = 1, NEW m, m = Len(a) + 1
  PROVE  SubSeq(a \o t, m, m) = t
<1>1. Len(a) \in Nat /\ m \in Nat
  BY LenProperties
<1>2. m \in Len(a) + 1 .. Len(a) + Len(t)
  BY <1>1
<1>3. SubSeq(a \o t, m, m) = SubSeq(t, m - Len(a), m - Len(a))
  BY <1>2, SubSeqOfConcat2
<1>4. m - Len(a) = 1
  BY <1>1
<1>5. SubSeq(t, 1, Len(t)) = t
  BY SubSeqFull
<1> QED
  BY <1>3, <1>4, <1>5

-----------------------------------------------------------------------------
(* Multiples. *)

\* Multiples are in the order of their factors.
LEMMA Factors ==
  ASSUME NEW n \in Nat \ {0}, NEW x \in Int, NEW y \in Int
  PROVE  /\ x * n <= y * n => x <= y
         /\ x * n < y * n => x < y
         /\ x <= y => x * n <= y * n
<1> DEFINE d == x - y
           e == y - x
<1>1. d \in Int /\ d * n = x * n - y * n /\ e \in Int /\ e * n = y * n - x * n
  OBVIOUS
<1>2. d >= 1 => d * n >= n
  BY <1>1
<1>3. d >= 0 => d * n >= 0
  BY <1>1
<1>4. e >= 0 => e * n >= 0
  BY <1>1
<1> QED
  BY <1>1, <1>2, <1>3, <1>4

\* A length that is no multiple can be filled up to one.
LEMMA FillsUp ==
  ASSUME NEW w \in Nat \ {0}, NEW len \in Nat
  PROVE  \E n \in 0 .. w - 1 : (len + n) % w = 0
<1> DEFINE q == len \div w
           t == len % w
<1>1. q \in Int /\ t \in 0 .. w - 1 /\ len = q * w + t
  BY SMT
<1> HIDE DEF q
<1>2. CASE t = 0
  <2>1. (len + 0) % w = 0 /\ 0 \in 0 .. w - 1
    BY <1>2
  <2> QED
    BY <2>1
<1>3. CASE t # 0
  <2> HIDE DEF t
  <2> DEFINE m == len + (w - t)
             p == m \div w
             r == m % w
  <2>1. w - t \in 0 .. w - 1 /\ m \in Nat
    BY <1>1, <1>3
  <2>2. (q + 1) * w = q * w + w /\ q * w \in Int
    BY <1>1
  <2> DEFINE k == q * w
  <2>3. m = k + w
    <3> HIDE DEF k
    <3>1. k \in Int /\ len = k + t
      BY <1>1, <2>2 DEF k
    <3> QED
      BY <1>1, <3>1
  <2>4. m = (q + 1) * w
    BY <2>2, <2>3
  <2> HIDE DEF m
  <2>5. p \in Int /\ r \in 0 .. w - 1 /\ m = p * w + r
    BY <2>1, SMT
  <2> HIDE DEF p, r
  <2>6. p * w <= (q + 1) * w /\ (q + 1) * w < (p + 1) * w
    <3>1. (p + 1) * w = p * w + w /\ p * w \in Int
      BY <2>5
    <3> DEFINE l == p * w
    <3>2. l \in Int /\ m = l + r
      BY <2>5, <3>1
    <3> HIDE DEF l
    <3>3. l <= m /\ m < l + w
      BY <2>5, <3>2
    <3> QED
      BY <2>4, <3>1, <3>3 DEF l
  <2>7. p <= q + 1 /\ q + 1 < p + 1
    BY <1>1, <2>5, <2>6, Factors
  <2>8. p = q + 1
    BY <1>1, <2>5, <2>7
  <2>9. r = 0
    <3> DEFINE l == p * w
    <3>1. l \in Int /\ m = l + r /\ m = l
      BY <2>4, <2>5, <2>8
    <3> HIDE DEF l
    <3> QED
      BY <2>5, <3>1
  <2> QED
    BY <2>1, <2>9 DEF r, m
<1> QED
  BY <1>2, <1>3
=============================================================================
