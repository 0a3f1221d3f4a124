---------------------------- MODULE OcDataProofs ----------------------------
(***************************************************************************)
(* What oc keeps in its flash.                                             *)
(*                                                                         *)
(* Config: no header is ever found on a sector that was not written whole, *)
(* for every set of files and settings and wherever power is lost.  Behind *)
(* HeaderMeansWhole stands that the header is written last: while the      *)
(* parts are written there is no header, and those before the next one are *)
(* as they are to be.                                                      *)
(*                                                                         *)
(* ConfigText: config_parse is a recursion over the positions of a text.   *)
(* What it makes of a position depends on later ones only, so that there   *)
(* is one function with that recursion, and what holds from a position on  *)
(* is shown downwards from the end of the text.  On this rest that a text  *)
(* of settings and comments is read as it is written, and that what        *)
(* config_set writes means the table it was written from.                  *)
(*                                                                         *)
(* Config again: KeepInv says where the settings are, by what the history  *)
(* variable trust tells of the calls to the card: in the sector, in the    *)
(* file, or in the file that is being taken over.                          *)
(*                                                                         *)
(* LoadFile: a load brings the whole file and stays in its sectors.        *)
(***************************************************************************)
EXTENDS Config, LoadFile, DataLemmas

ThreeParts == sector = <<sector[1], sector[2], sector[3]>>

EraseFromFirst == pc = "erase" => part = 1

WrittenSoFar ==
  pc = "write" =>
    /\ part \in Parts
    /\ sector[HeaderPart] # Magic
    /\ part > 1 => sector[1] = Image(conf)[1]
    /\ part > 2 => sector[2] = Image(conf)[2]

SectorInv == ThreeParts /\ EraseFromFirst /\ WrittenSoFar /\ HeaderMeansWhole

\* The parts of a table.
LEMMA ImageParts ==
  ASSUME NEW t
  PROVE  /\ Image(t) = <<Image(t)[1], Image(t)[2], Image(t)[3]>>
         /\ Image(t)[1] = t /\ Image(t)[3] = Magic
BY DEF Image

\* An erased sector, whole or in part, is three parts without a header.
LEMMA ErasedParts ==
  /\ Erased = <<Erased[1], Erased[2], Erased[3]>>
  /\ Erased[3] # Magic
  /\ <<Torn, Torn, Torn>>[3] # Magic
BY ConfigAssumption DEF Erased, ConfigAssumption

\* A part that is placed leaves the others as they were.
LEMMA OnePart ==
  ASSUME ThreeParts, NEW k \in Parts, NEW v
  PROVE  /\ [sector EXCEPT ![k] = v][k] = v
         /\ \A i \in Parts \ {k} : [sector EXCEPT ![k] = v][i] = sector[i]
         /\ [sector EXCEPT ![k] = v] =
              <<[sector EXCEPT ![k] = v][1], [sector EXCEPT ![k] = v][2], [sector EXCEPT ![k] = v][3]>>
<1>1. DOMAIN sector = 1 .. 3 /\ Len(sector) = 3
  BY DEF ThreeParts
<1>2. k = 1 \/ k = 2 \/ k = 3
  BY DEF Parts
<1> QED
  BY <1>1, <1>2 DEF ThreeParts, Parts

LEMMA InitEstablishes == ConfigInit => SectorInv
<1> SUFFICES ASSUME ConfigInit PROVE SectorInv
  OBVIOUS
<1>1. pc = "off"
  BY DEF ConfigInit
<1>2. CASE sector = Erased
  BY <1>1, <1>2, ErasedParts
  DEF SectorInv, ThreeParts, EraseFromFirst, WrittenSoFar, HeaderMeansWhole, Valid, HeaderPart
<1>3. ASSUME NEW t, sector = Image(t) PROVE SectorInv
  BY <1>1, <1>3, ImageParts
  DEF SectorInv, ThreeParts, EraseFromFirst, WrittenSoFar, HeaderMeansWhole
<1> QED
  BY <1>2, <1>3 DEF ConfigInit

\* Every step that leaves the sector alone and is not in the middle of writing it.
LEMMA SectorLeftAlone ==
  ASSUME SectorInv, UNCHANGED sector, pc' # "write", pc' = "erase" => part' = 1
  PROVE  SectorInv'
BY DEF SectorInv, ThreeParts, EraseFromFirst, WrittenSoFar, HeaderMeansWhole, Valid, HeaderPart, Image

\* Every step that leaves no header in it.
LEMMA WithoutHeader ==
  ASSUME ThreeParts', sector'[3] # Magic, pc' \notin {"erase", "write"}
  PROVE  SectorInv'
BY DEF SectorInv, ThreeParts, EraseFromFirst, WrittenSoFar, HeaderMeansWhole, Valid, HeaderPart

LEMMA EraseKeeps == SectorInv /\ EraseSector => SectorInv'
<1> SUFFICES ASSUME SectorInv, EraseSector PROVE SectorInv'
  OBVIOUS
<1>1. pc' = "write" /\ part' = 1 /\ sector' = Erased
  BY DEF EraseSector, SectorInv, EraseFromFirst
<1> QED
  BY <1>1, ErasedParts
  DEF SectorInv, ThreeParts, EraseFromFirst, WrittenSoFar, HeaderMeansWhole, Valid, HeaderPart, Parts

LEMMA WriteKeeps == SectorInv /\ WritePart => SectorInv'
<1> SUFFICES ASSUME SectorInv, WritePart PROVE SectorInv'
  OBVIOUS
<1> DEFINE v == Image(conf)[part]
<1>1. pc = "write" /\ part \in Parts /\ conf' = conf /\ part' = part + 1
      /\ sector' = [sector EXCEPT ![part] = v]
  BY DEF SectorInv, WrittenSoFar, WritePart, Place
<1>2. Len(sector) = 3
  BY DEF SectorInv, ThreeParts
<1>3. /\ sector'[part] = v
      /\ \A i \in Parts \ {part} : sector'[i] = sector[i]
      /\ ThreeParts'
  BY <1>1, OnePart DEF SectorInv, ThreeParts
<1>4. CASE part = 1
  <2>1. pc' = "write" /\ part' = 2 /\ sector'[1] = Image(conf)[1] /\ sector'[3] # Magic
    BY <1>1, <1>2, <1>3, <1>4 DEF WritePart, SectorInv, WrittenSoFar, Parts, HeaderPart
  <2> QED
    BY <2>1, <1>1, <1>3
    DEF SectorInv, EraseFromFirst, WrittenSoFar, HeaderMeansWhole, Valid, HeaderPart, Parts, Image
<1>5. CASE part = 2
  <2>1. /\ pc' = "write" /\ part' = 3 /\ sector'[3] # Magic
        /\ sector'[1] = Image(conf)[1] /\ sector'[2] = Image(conf)[2]
    BY <1>1, <1>2, <1>3, <1>5 DEF WritePart, SectorInv, WrittenSoFar, Parts, HeaderPart
  <2> QED
    BY <2>1, <1>1, <1>3
    DEF SectorInv, EraseFromFirst, WrittenSoFar, HeaderMeansWhole, Valid, HeaderPart, Parts, Image
<1>6. CASE part = 3
  <2>1. /\ pc' = "idle"
        /\ sector'[1] = Image(conf)[1] /\ sector'[2] = Image(conf)[2]
        /\ sector'[3] = Image(conf)[3]
    BY <1>1, <1>2, <1>3, <1>6 DEF WritePart, SectorInv, WrittenSoFar, Parts
  <2>2. sector' = Image(conf) /\ sector'[1] = conf
    BY <2>1, <1>3, ImageParts DEF ThreeParts
  <2> QED
    BY <2>1, <2>2, <1>3 DEF SectorInv, EraseFromFirst, WrittenSoFar, HeaderMeansWhole, Image
<1> QED
  BY <1>1, <1>4, <1>5, <1>6 DEF Parts

LEMMA LossKeeps == SectorInv /\ PowerLoss => SectorInv'
<1> SUFFICES ASSUME SectorInv, PowerLoss PROVE SectorInv'
  OBVIOUS
<1>1. pc' = "off"
  BY DEF PowerLoss
<1>2. CASE sector' = sector
  BY <1>1, <1>2, SectorLeftAlone
<1>3. CASE sector' = Erased
  BY <1>1, <1>3, ErasedParts, WithoutHeader DEF ThreeParts
<1>4. CASE sector' = <<Torn, Torn, Torn>>
  BY <1>1, <1>4, ErasedParts, WithoutHeader DEF ThreeParts
<1>5. CASE pc = "write" /\ sector' = [sector EXCEPT ![Place(part)] = Torn]
  <2>1. part \in Parts /\ sector[3] # Magic /\ Torn # Magic /\ ThreeParts
    BY <1>5, ConfigAssumption DEF SectorInv, WrittenSoFar, HeaderPart, ConfigAssumption
  <2>2. sector' = [sector EXCEPT ![part] = Torn]
    BY <1>5 DEF Place
  <2>3. sector'[3] # Magic /\ ThreeParts'
    BY <2>1, <2>2, OnePart DEF ThreeParts, Parts
  <2> QED
    BY <1>1, <2>3, WithoutHeader
<1> QED
  BY <1>2, <1>3, <1>4, <1>5 DEF PowerLoss, Remains

LEMMA NextKeeps == SectorInv /\ [ConfigNext]_configVars => SectorInv'
<1> SUFFICES ASSUME SectorInv, [ConfigNext]_configVars PROVE SectorInv'
  OBVIOUS
<1>1. CASE PowerOn
  BY <1>1, SectorLeftAlone DEF PowerOn
<1>2. CASE ReadNothing
  BY <1>2, SectorLeftAlone DEF ReadNothing
<1>3. CASE ReadText
  BY <1>3, SectorLeftAlone DEF ReadText
<1>4. CASE EraseSector
  BY <1>4, EraseKeeps
<1>5. CASE WritePart
  BY <1>5, WriteKeeps
<1>6. ASSUME NEW name \in Names, NEW value \in Values, SetOpen(name, value) PROVE SectorInv'
  BY <1>6, SectorLeftAlone DEF SetOpen
<1>7. CASE SetClose
  BY <1>7, SectorLeftAlone DEF SetClose
<1>8. CASE PowerLoss
  BY <1>8, LossKeeps
<1>9. CASE UpdateFirmware
  BY <1>9, ErasedParts, WithoutHeader DEF UpdateFirmware, ThreeParts
<1>10. CASE EditFile
  BY <1>10, SectorLeftAlone DEF EditFile
<1>11. CASE UNCHANGED configVars
  BY <1>11 DEF configVars, SectorInv, ThreeParts, EraseFromFirst, WrittenSoFar, HeaderMeansWhole,
               Valid, HeaderPart, Image, Parts
<1> QED
  BY <1>1, <1>2, <1>3, <1>4, <1>5, <1>6, <1>7, <1>8, <1>9, <1>10, <1>11 DEF ConfigNext, ConfigStep

(* config_get_string never goes through half a table: wherever power is lost *)
(* in config_init, config_set or an update, a header stands only on a sector *)
(* that was written to its end.                                              *)
THEOREM HeaderLast == ConfigSpec => []HeaderMeansWhole
<1>1. SectorInv => HeaderMeansWhole
  BY DEF SectorInv
<1> QED
  BY <1>1, InitEstablishes, NextKeeps, PTL DEF ConfigSpec
-----------------------------------------------------------------------------
(* How config_parse reads a text.                                            *)

LEMMA MinIs ==
  ASSUME NEW S, S \subseteq Nat, S # {}
  PROVE  Min(S) \in S /\ \A j \in S : Min(S) <= j
BY LeastElement DEF Min

\* Past stops at the first item that is not in the class.
LEMMA PastStops ==
  ASSUME NEW S, NEW t, Len(t) \in Nat, NEW p \in 1 .. Len(t) + 1
  PROVE  /\ Past(S, t, p) \in p .. Len(t) + 1
         /\ \A i \in p .. Past(S, t, p) - 1 : t[i] \in S
         /\ Past(S, t, p) <= Len(t) => t[Past(S, t, p)] \notin S
<1> DEFINE Ends == {q \in p .. Len(t) : t[q] \notin S} \cup {Len(t) + 1}
           m == Min(Ends)
<1>1. Ends \subseteq Nat /\ Ends # {}
  OBVIOUS
<1>2. m \in Ends /\ \A j \in Ends : m <= j
  BY <1>1, MinIs
<1>3. Past(S, t, p) = m
  BY DEF Past
<1> HIDE DEF m
<1>4. m \in p .. Len(t) + 1 /\ (m <= Len(t) => t[m] \notin S)
  BY <1>2
<1>5. ASSUME NEW i \in p .. m - 1 PROVE t[i] \in S
  <2>1. i \in p .. Len(t)
    BY <1>4
  <2>2. i \notin Ends
    BY <1>2, <1>4, <1>5
  <2> QED
    BY <2>1, <2>2
<1> QED
  BY <1>3, <1>4, <1>5

LEMMA PastIs ==
  ASSUME NEW S, NEW t, Len(t) \in Nat, NEW p \in 1 .. Len(t) + 1, NEW q \in p .. Len(t) + 1,
         \A i \in p .. q - 1 : t[i] \in S, q <= Len(t) => t[q] \notin S
  PROVE  Past(S, t, p) = q
<1> DEFINE m == Past(S, t, p)
<1>1. /\ m \in p .. Len(t) + 1
      /\ \A i \in p .. m - 1 : t[i] \in S
      /\ m <= Len(t) => t[m] \notin S
  BY PastStops
<1> HIDE DEF m
<1>2. ~ (m < q)
  <2> SUFFICES ASSUME m < q PROVE FALSE
    OBVIOUS
  <2>1. m \in p .. q - 1 /\ m <= Len(t)
    BY <1>1
  <2> QED
    BY <1>1, <2>1
<1>3. ~ (q < m)
  <2> SUFFICES ASSUME q < m PROVE FALSE
    OBVIOUS
  <2>1. q \in p .. m - 1 /\ q <= Len(t)
    BY <1>1
  <2> QED
    BY <1>1, <2>1
<1>4. m = q
  BY <1>1, <1>2, <1>3
<1> QED
  BY <1>4 DEF m

\* Behind the end there is only the end.
LEMMA PastBehind ==
  ASSUME NEW S, NEW t, Len(t) \in Nat, NEW p \in Nat, p > Len(t)
  PROVE  Past(S, t, p) = Len(t) + 1
<1> DEFINE Ends == {q \in p .. Len(t) : t[q] \notin S} \cup {Len(t) + 1}
<1>1. Ends = {Len(t) + 1}
  OBVIOUS
<1>2. Past(S, t, p) = Min(Ends)
  BY DEF Past
<1> HIDE DEF Ends
<1>3. Ends \subseteq Nat /\ Ends # {}
  BY <1>1
<1>4. Min(Ends) \in Ends
  BY <1>3, MinIs
<1> QED
  BY <1>1, <1>2, <1>4

\* The places a turn looks at are behind one another.
LEMMA ColonBehind ==
  ASSUME NEW t \in Seq(Items), NEW k \in 1 .. Len(t)
  PROVE  /\ ColonAt(t, k) \in k .. Len(t) + 1
         /\ ColonAt(t, k) <= Len(t) => t[ColonAt(t, k)] # Newline
<1> DEFINE q == Past(Letters, t, k)
           c == Past(Spaces, t, q + 1)
<1>1. Len(t) \in Nat /\ k \in 1 .. Len(t) + 1
  BY LenProperties
<1>2. q \in k .. Len(t) + 1
  BY <1>1, PastStops
<1>3. ColonAt(t, k) = IF q > Len(t) \/ t[q] = ":" THEN q ELSE c
  BY DEF ColonAt
<1> HIDE DEF q
<1>4. CASE q > Len(t) \/ t[q] = ":"
  BY <1>1, <1>2, <1>3, <1>4 DEF Newline
<1>5. CASE ~ (q > Len(t) \/ t[q] = ":")
  <2>1. q + 1 \in 1 .. Len(t) + 1
    BY <1>1, <1>2, <1>5
  <2>2. c \in q + 1 .. Len(t) + 1 /\ (c <= Len(t) => t[c] \notin Spaces)
    BY <1>1, <2>1, PastStops
  <2> HIDE DEF c
  <2>3. c \in k .. Len(t) + 1
    BY <1>1, <1>2, <2>2
  <2> QED
    BY <1>3, <1>5, <2>2, <2>3 DEF Spaces
<1> QED
  BY <1>4, <1>5

\* Where a turn goes on.
LEMMA GoesOn ==
  ASSUME NEW t \in Seq(Items), NEW p \in 1 .. Len(t) + 2,
         NEW k, k = Past(Spaces, t, p), k <= Len(t),
         NEW c, c = Decisive(t, k), c <= Len(t)
  PROVE  /\ k \in p .. Len(t) /\ t[k] \notin Spaces /\ c \in k .. Len(t)
         /\ t[c] # ":" => NextLine(t, c) \in p + 1 .. Len(t) + 1
         /\ t[c] = ":" => /\ c = ColonAt(t, k)
                          /\ ValueAt(t, k) \in p + 1 .. Len(t) + 1
                          /\ ValueAt(t, k) <= Len(t) =>
                               Past(Printable, t, ValueAt(t, k)) + 1 \in p + 1 .. Len(t) + 2
<1>1. Len(t) \in Nat
  BY LenProperties
<1>2. p \in 1 .. Len(t) + 1
  BY <1>1, PastBehind
<1>3. k \in p .. Len(t) /\ t[k] \notin Spaces
  BY <1>1, <1>2, PastStops
<1>4. k \in 1 .. Len(t) /\ t[k] # Newline
  <2>1. Newline \in Spaces
    BY DEF Spaces
  <2> QED
    BY <1>1, <1>2, <1>3, <2>1
<1>5. c \in k .. Len(t) /\ t[c] # Newline
  BY <1>1, <1>4, ColonBehind DEF Decisive
<1>6. c \in 1 .. Len(t) /\ t[c] \in Items
  BY <1>1, <1>4, <1>5, ElementOfSeq
<1>7. NextLine(t, c) \in p + 1 .. Len(t) + 1
  <2> DEFINE S == Items \ {Newline}
             N == {Newline}
             m == Past(S, t, c)
  <2>1. /\ m \in c .. Len(t) + 1
        /\ m <= Len(t) => t[m] \notin S
    <3> HIDE DEF S
    <3>1. c \in 1 .. Len(t) + 1
      BY <1>1, <1>6
    <3> QED
      BY <1>1, <3>1, PastStops
  <2>2. NextLine(t, c) = Past(N, t, m)
    BY DEF NextLine
  <2> HIDE DEF m
  <2>3. m # c
    BY <1>5, <1>6, <2>1
  <2>4. m \in p + 1 .. Len(t) + 1
    BY <1>1, <1>2, <1>3, <1>5, <2>1, <2>3
  <2>5. Past(N, t, m) \in m .. Len(t) + 1
    <3> HIDE DEF N
    <3>1. m \in 1 .. Len(t) + 1
      BY <1>1, <1>2, <2>4
    <3> QED
      BY <1>1, <3>1, PastStops
  <2> QED
    BY <1>1, <1>2, <2>2, <2>4, <2>5
<1>8. ASSUME t[c] = ":"
      PROVE  /\ c = ColonAt(t, k)
             /\ ValueAt(t, k) \in p + 1 .. Len(t) + 1
             /\ ValueAt(t, k) <= Len(t) =>
                  Past(Printable, t, ValueAt(t, k)) + 1 \in p + 1 .. Len(t) + 2
  <2>1. c = ColonAt(t, k)
    BY <1>8 DEF Decisive
  <2> DEFINE v == ValueAt(t, k)
  <2>2. v \in c + 1 .. Len(t) + 1
    <3>1. c + 1 \in 1 .. Len(t) + 1
      BY <1>1, <1>6
    <3>2. v = Past(Spaces, t, c + 1)
      BY <2>1 DEF ValueAt
    <3> QED
      BY <1>1, <3>1, <3>2, PastStops
  <2> HIDE DEF v
  <2>3. v \in p + 1 .. Len(t) + 1 /\ v \in 1 .. Len(t) + 1
    BY <1>1, <1>2, <1>3, <1>5, <2>2
  <2>4. Past(Printable, t, v) \in v .. Len(t) + 1
    BY <1>1, <2>3, PastStops
  <2>5. Past(Printable, t, v) + 1 \in p + 1 .. Len(t) + 2
    BY <1>1, <1>2, <2>3, <2>4
  <2> QED
    BY <2>1, <2>3, <2>5 DEF v
<1> QED
  BY <1>3, <1>5, <1>7, <1>8

LEMMA PlacesAreNumbers ==
  ASSUME NEW t \in Seq(Items), NEW p \in 1 .. Len(t) + 2, NEW k, k = Past(Spaces, t, p)
  PROVE  Len(t) \in Int /\ k \in Int /\ (k <= Len(t) => Decisive(t, k) \in Int)
<1>1. Len(t) \in Nat /\ p \in Nat
  BY LenProperties
<1>2. CASE p <= Len(t) + 1
  <2>1. k \in p .. Len(t) + 1
    BY <1>1, <1>2, PastStops
  <2>2. ASSUME k <= Len(t) PROVE Decisive(t, k) \in Int
    <3>1. k \in 1 .. Len(t)
      BY <1>1, <2>1, <2>2
    <3>2. ColonAt(t, k) \in k .. Len(t) + 1
      BY <3>1, ColonBehind
    <3> QED
      BY <1>1, <3>1, <3>2 DEF Decisive
  <2> QED
    BY <1>1, <2>1, <2>2
<1>3. CASE p > Len(t) + 1
  <2>1. k = Len(t) + 1
    BY <1>1, <1>3, PastBehind
  <2> QED
    BY <1>1, <2>1
<1> QED
  BY <1>1, <1>2, <1>3

\* The text ends where a turn looks for a key or its colon.
LEMMA TurnEnds ==
  ASSUME NEW t \in Seq(Items), NEW p \in 1 .. Len(t) + 2, NEW f,
         NEW k, k = Past(Spaces, t, p), NEW c, c = Decisive(t, k),
         k > Len(t) \/ c > Len(t)
  PROVE  Turn(t, f, p) = <<>>
<1>1. Len(t) \in Int /\ k \in Int /\ (k <= Len(t) => c \in Int)
  BY PlacesAreNumbers
<1> DEFINE atEnd == k > Len(t) \/ c > Len(t)
           noPair == k <= Len(t) /\ c <= Len(t) /\ t[c] # ":"
           go == <<PairAt(t, k)>> \o f[Past(Printable, t, ValueAt(t, k)) + 1]
           res == IF ValueAt(t, k) > Len(t) THEN <<>> ELSE go
<1>2. Turn(t, f, p) = CASE atEnd -> <<>> [] noPair -> f[NextLine(t, c)] [] OTHER -> res
  BY DEF Turn
<1>3. atEnd /\ ~ noPair
  BY <1>1
<1> HIDE DEF atEnd, noPair, res
<1>4. QED
  BY <1>2, <1>3

\* There is no pair.
LEMMA TurnSkips ==
  ASSUME NEW t \in Seq(Items), NEW p \in 1 .. Len(t) + 2, NEW f,
         NEW k, k = Past(Spaces, t, p), NEW c, c = Decisive(t, k),
         k <= Len(t), c <= Len(t), t[c] # ":"
  PROVE  Turn(t, f, p) = f[NextLine(t, c)]
<1>1. Len(t) \in Int /\ k \in Int /\ (k <= Len(t) => c \in Int)
  BY PlacesAreNumbers
<1> DEFINE atEnd == k > Len(t) \/ c > Len(t)
           noPair == k <= Len(t) /\ c <= Len(t) /\ t[c] # ":"
           go == <<PairAt(t, k)>> \o f[Past(Printable, t, ValueAt(t, k)) + 1]
           res == IF ValueAt(t, k) > Len(t) THEN <<>> ELSE go
<1>2. Turn(t, f, p) = CASE atEnd -> <<>> [] noPair -> f[NextLine(t, c)] [] OTHER -> res
  BY DEF Turn
<1>3. ~ atEnd /\ noPair
  BY <1>1
<1> HIDE DEF atEnd, noPair, res
<1>4. QED
  BY <1>2, <1>3

\* There is a pair, if the text goes on behind its colon.
LEMMA TurnTakes ==
  ASSUME NEW t \in Seq(Items), NEW p \in 1 .. Len(t) + 2, NEW f,
         NEW k, k = Past(Spaces, t, p), NEW c, c = Decisive(t, k),
         k <= Len(t), c <= Len(t), t[c] = ":"
  PROVE  Turn(t, f, p) = IF ValueAt(t, k) > Len(t) THEN <<>>
                         ELSE <<PairAt(t, k)>> \o f[Past(Printable, t, ValueAt(t, k)) + 1]
<1>1. Len(t) \in Int /\ k \in Int /\ (k <= Len(t) => c \in Int)
  BY PlacesAreNumbers
<1> DEFINE atEnd == k > Len(t) \/ c > Len(t)
           noPair == k <= Len(t) /\ c <= Len(t) /\ t[c] # ":"
           go == <<PairAt(t, k)>> \o f[Past(Printable, t, ValueAt(t, k)) + 1]
           res == IF ValueAt(t, k) > Len(t) THEN <<>> ELSE go
<1>2. Turn(t, f, p) = CASE atEnd -> <<>> [] noPair -> f[NextLine(t, c)] [] OTHER -> res
  BY DEF Turn
<1>3. ~ atEnd /\ ~ noPair
  BY <1>1
<1> HIDE DEF atEnd, noPair, res
<1>4. QED
  BY <1>2, <1>3 DEF res

\* A turn looks at the positions behind its own.
LEMMA TurnLooksAhead ==
  ASSUME NEW t \in Seq(Items), NEW p \in 1 .. Len(t) + 2, NEW f, NEW g,
         \A q \in p + 1 .. Len(t) + 2 : f[q] = g[q]
  PROVE  Turn(t, f, p) = Turn(t, g, p)
<1> DEFINE k == Past(Spaces, t, p)
           c == Decisive(t, k)
           v == ValueAt(t, k)
<1>1. k = Past(Spaces, t, p) /\ c = Decisive(t, k)
  OBVIOUS
<1>2. k \in Int /\ (k <= Len(t) => c \in Int) /\ Len(t) \in Int
  BY PlacesAreNumbers
<1> HIDE DEF k, c
<1>3. CASE k > Len(t) \/ c > Len(t)
  BY <1>1, <1>3, TurnEnds
<1>4. CASE k <= Len(t) /\ c <= Len(t) /\ t[c] # ":"
  <2>1. NextLine(t, c) \in p + 1 .. Len(t) + 1
    BY <1>1, <1>4, GoesOn
  <2>2. NextLine(t, c) \in p + 1 .. Len(t) + 2
    BY <1>2, <2>1
  <2>3. Turn(t, f, p) = f[NextLine(t, c)]
    BY <1>1, <1>4, TurnSkips
  <2>4. Turn(t, g, p) = g[NextLine(t, c)]
    BY <1>1, <1>4, TurnSkips
  <2> QED
    BY <2>2, <2>3, <2>4
<1>5. CASE k <= Len(t) /\ c <= Len(t) /\ t[c] = ":"
  <2> DEFINE n == Past(Printable, t, v) + 1
  <2>1. v \in p + 1 .. Len(t) + 1 /\ (v <= Len(t) => n \in p + 1 .. Len(t) + 2)
    BY <1>1, <1>5, GoesOn
  <2>2. /\ Turn(t, f, p) = IF v > Len(t) THEN <<>> ELSE <<PairAt(t, k)>> \o f[n]
        /\ Turn(t, g, p) = IF v > Len(t) THEN <<>> ELSE <<PairAt(t, k)>> \o g[n]
    BY <1>1, <1>5, TurnTakes
  <2> HIDE DEF n, v
  <2>3. CASE v > Len(t)
    BY <2>2, <2>3
  <2>4. CASE v <= Len(t)
    <3>1. f[n] = g[n]
      BY <2>1, <2>4
    <3>2. ~ (v > Len(t))
      BY <1>2, <2>1, <2>4
    <3> QED
      BY <2>2, <3>1, <3>2
  <2> QED
    BY <1>2, <2>1, <2>3, <2>4
<1> QED
  BY <1>2, <1>3, <1>4, <1>5

\* What a text means from each position on.
Reads(t, f) == \A p \in 1 .. Len(t) + 2 : f[p] = Turn(t, f, p)

\* The recursion of Pairs defines a function, since each turn goes on behind where it is.
LEMMA PairsReads ==
  ASSUME NEW t \in Seq(Items)
  PROVE  \E f : Reads(t, f) /\ Pairs(t) = f[1]
<1> DEFINE n == Len(t) + 2
           From(f, m) == \A p \in m + 1 .. n : f[p] = Turn(t, f, p)
           S == {m \in 0 .. n : \E f : f = [p \in 1 .. n |-> f[p]] /\ From(f, m)}
<1>1. n \in Nat
  BY LenProperties
<1>2. n \in S
  <2> DEFINE g == [p \in 1 .. n |-> <<>>]
  <2>1. g = [p \in 1 .. n |-> g[p]] /\ From(g, n)
    BY <1>1
  <2> HIDE DEF g
  <2> QED
    BY <1>1, <2>1
<1>3. \A m \in 1 .. n : m \in S => m - 1 \in S
  <2> SUFFICES ASSUME NEW m \in 1 .. n, m \in S PROVE m - 1 \in S
    OBVIOUS
  <2>1. PICK f : f = [p \in 1 .. n |-> f[p]] /\ From(f, m)
    OBVIOUS
  <2> DEFINE g == [p \in 1 .. n |-> IF p = m THEN Turn(t, f, m) ELSE f[p]]
  <2>2. g = [p \in 1 .. n |-> g[p]]
    OBVIOUS
  <2>3. ASSUME NEW p \in m .. n PROVE g[p] = Turn(t, g, p)
    <3>1. p \in 1 .. Len(t) + 2
      BY <1>1
    <3>2. ASSUME NEW q \in p + 1 .. Len(t) + 2 PROVE f[q] = g[q]
      BY <1>1, <3>1
    <3>3. Turn(t, f, p) = Turn(t, g, p)
      <4> HIDE DEF g
      <4> QED
        BY <3>1, <3>2, TurnLooksAhead
    <3>4. CASE p = m
      BY <3>1, <3>3, <3>4
    <3>5. CASE p # m
      <4>1. p \in m + 1 .. n
        BY <1>1, <3>5
      <4>2. g[p] = f[p]
        BY <3>1, <3>5
      <4> HIDE DEF g
      <4> QED
        BY <2>1, <3>3, <4>1, <4>2
    <3> QED
      BY <3>4, <3>5
  <2> HIDE DEF g
  <2>4. (m - 1) + 1 = m /\ m - 1 \in 0 .. n
    BY <1>1
  <2>5. From(g, m - 1)
    BY <2>3, <2>4
  <2> QED
    BY <2>2, <2>4, <2>5
<1>4. 0 \in S
  <2> HIDE DEF S
  <2>1. \A m \in 0 .. n : m \in S
    BY <1>1, <1>2, <1>3, CountingDown
  <2> QED
    BY <1>1, <2>1
<1> DEFINE h == CHOOSE f : f = [p \in 1 .. Len(t) + 2 |-> Turn(t, f, p)]
<1>5. h = [p \in 1 .. Len(t) + 2 |-> Turn(t, h, p)]
  <2>1. PICK f : f = [p \in 1 .. n |-> f[p]] /\ From(f, 0)
    BY <1>4
  <2>2. f = [p \in 1 .. n |-> Turn(t, f, p)]
    BY <1>1, <2>1
  <2> QED
    BY <2>2
<1>6. Pairs(t) = h[1]
  BY DEF Pairs
<1> HIDE DEF h
<1>7. Reads(t, h)
  BY <1>5 DEF Reads
<1> QED
  BY <1>6, <1>7
-----------------------------------------------------------------------------
(* What the lines of a text mean.                                            *)

PairType == [key : Seq(Letters), value : Seq(Printable) \ {<<>>}]

\* A key, a colon and a value with spaces between them, from p to before e.
Setting(t, p, e, pair) ==
  \E k, c, v \in p .. e :
    /\ k <= c /\ c < v /\ v < e /\ e <= Len(t) + 1
    /\ \A i \in p .. k - 1 : t[i] \in Spaces
    /\ t[k] \notin Spaces /\ t[k] # "#"
    /\ pair = [key |-> SubSeq(t, k, k + Len(pair.key) - 1), value |-> SubSeq(t, v, e - 1)]
    /\ k + Len(pair.key) <= c /\ pair.key \in Seq(Letters)
    /\ \A i \in k + Len(pair.key) .. c - 1 : t[i] \in Spaces
    /\ t[c] = ":"
    /\ \A i \in c + 1 .. v - 1 : t[i] \in Spaces
    /\ \A i \in v .. e - 1 : t[i] \in Printable
    /\ e <= Len(t) => t[e] = Newline

\* A comment, from p to before e.
Comment(t, p, e) ==
  \E k \in p .. e :
    /\ k < e /\ e <= Len(t) + 1
    /\ \A i \in p .. k - 1 : t[i] \in Spaces
    /\ t[k] = "#"
    /\ \A i \in k .. e - 1 : t[i] # Newline
    /\ e <= Len(t) => t[e] = Newline

\* A rest without anything.
Nothing(t, p, e) == e = Len(t) + 1 /\ \A i \in p .. Len(t) : t[i] \in Spaces

LEMMA ReadSetting ==
  ASSUME NEW t \in Seq(Items), NEW f, Reads(t, f), NEW p \in 1 .. Len(t) + 1, NEW e \in Nat,
         NEW pair, Setting(t, p, e, pair)
  PROVE  e \in p .. Len(t) + 1 /\ f[p] = <<pair>> \o f[e + 1]
<1>1. Len(t) \in Nat
  BY LenProperties
<1>2. PICK k \in p .. e, c \in p .. e, v \in p .. e :
        /\ k <= c /\ c < v /\ v < e /\ e <= Len(t) + 1
        /\ \A i \in p .. k - 1 : t[i] \in Spaces
        /\ t[k] \notin Spaces /\ t[k] # "#"
        /\ pair = [key |-> SubSeq(t, k, k + Len(pair.key) - 1), value |-> SubSeq(t, v, e - 1)]
        /\ k + Len(pair.key) <= c /\ pair.key \in Seq(Letters)
        /\ \A i \in k + Len(pair.key) .. c - 1 : t[i] \in Spaces
        /\ t[c] = ":"
        /\ \A i \in c + 1 .. v - 1 : t[i] \in Spaces
        /\ \A i \in v .. e - 1 : t[i] \in Printable
        /\ e <= Len(t) => t[e] = Newline
  BY DEF Setting
<1> DEFINE q == k + Len(pair.key)
<1>3. Len(pair.key) \in Nat
  BY <1>2, LenProperties
<1>4. q \in k .. c /\ k \in 1 .. Len(t) /\ c \in 1 .. Len(t) /\ v \in 1 .. Len(t)
  BY <1>1, <1>2, <1>3
<1>5. Past(Spaces, t, p) = k
  <2>1. k \in p .. Len(t) + 1
    BY <1>1, <1>2
  <2> QED
    BY <1>1, <1>2, <2>1, PastIs
<1>6. \A i \in k .. q - 1 : t[i] \in Letters
  <2>1. Len(pair.key) >= 0 /\ \A i \in 1 .. Len(pair.key) : pair.key[i] \in Letters
    BY <1>2, <1>3, ElementOfSeq
  <2> DEFINE w == SubSeq(t, k, k + Len(pair.key) - 1)
  <2>2. pair.key = w
    BY <1>2
  <2>3. \A i \in k .. k + Len(pair.key) - 1 : t[i] \in Items
    BY <1>1, <1>3, <1>4, ElementOfSeq
  <2>4. \A i \in 1 .. Len(pair.key) : w[i] = t[k + i - 1]
    <3> DEFINE m == k + Len(pair.key) - 1
    <3>1. k \in Int /\ m \in Int /\ m - k + 1 = Len(pair.key) /\ k <= m + 1
      BY <1>3, <1>4
    <3>2. \A i \in k .. m : t[i] \in Items
      BY <2>3
    <3>3. Len(w) = Len(pair.key) /\ w = SubSeq(t, k, m)
      BY <2>2
    <3> HIDE DEF m, w
    <3>4. \A i \in 1 .. m - k + 1 : SubSeq(t, k, m)[i] = t[k + i - 1]
      BY <3>1, <3>2, SubSeqProperties
    <3> QED
      BY <3>1, <3>3, <3>4
  <2>5. ASSUME NEW i \in k .. q - 1 PROVE t[i] \in Letters
    <3>1. i - k + 1 \in 1 .. Len(pair.key) /\ k + (i - k + 1) - 1 = i
      BY <1>3, <1>4
    <3> QED
      BY <2>1, <2>2, <2>4, <3>1
  <2> QED
    BY <2>5
<1>7. ":" \notin Letters /\ ":" \notin Spaces /\ Letters \cap Spaces = {} /\ Printable \cap Spaces = {}
      /\ Newline \in Spaces
  BY ByteClasses DEF Spaces, Newline, Printable
<1>8. Past(Letters, t, k) = q
  <2>1. q \in k .. Len(t) + 1
    BY <1>1, <1>4
  <2>2. t[q] \notin Letters
    <3>1. CASE q = c
      BY <1>2, <1>7, <3>1
    <3>2. CASE q < c
      <4>1. q \in q .. c - 1
        BY <1>4, <3>2
      <4> QED
        BY <1>2, <1>7, <4>1
    <3> QED
      BY <1>4, <3>1, <3>2
  <2>3. k \in 1 .. Len(t) + 1
    BY <1>1, <1>4
  <2> HIDE DEF q
  <2> QED
    BY <1>1, <1>6, <2>1, <2>2, <2>3, PastIs
<1>9. ColonAt(t, k) = c
  <2>1. CASE q = c
    BY <1>1, <1>2, <1>4, <1>8, <2>1 DEF ColonAt
  <2>2. CASE q < c
    <3>1. q \in q .. c - 1 /\ ~ (q > Len(t)) /\ t[q] # ":"
      <4>1. q \in q .. c - 1 /\ ~ (q > Len(t))
        BY <1>1, <1>4, <2>2
      <4>2. t[q] \in Spaces
        BY <1>2, <4>1
      <4> QED
        BY <1>7, <4>1, <4>2
    <3>2. q + 1 \in 1 .. Len(t) + 1 /\ c \in q + 1 .. Len(t) + 1
      BY <1>1, <1>4, <2>2
    <3>3. \A i \in q + 1 .. c - 1 : t[i] \in Spaces
      BY <1>2, <1>4
    <3> HIDE DEF q
    <3>4. Past(Spaces, t, q + 1) = c
      BY <1>1, <1>2, <1>7, <3>2, <3>3, PastIs
    <3> QED
      BY <1>8, <3>1, <3>4 DEF ColonAt
  <2> QED
    BY <1>4, <2>1, <2>2
<1>10. ValueAt(t, k) = v
  <2>1. c + 1 \in 1 .. Len(t) + 1 /\ v \in c + 1 .. Len(t) + 1
    BY <1>1, <1>2, <1>4
  <2>2. t[v] \notin Spaces
    BY <1>2, <1>4, <1>7
  <2>3. Past(Spaces, t, c + 1) = v
    BY <1>1, <1>2, <2>1, <2>2, PastIs
  <2> QED
    BY <1>9, <2>3 DEF ValueAt
<1>11. Past(Printable, t, v) = e
  <2>1. v \in 1 .. Len(t) + 1 /\ e \in v .. Len(t) + 1
    BY <1>1, <1>2, <1>4
  <2>2. e <= Len(t) => t[e] \notin Printable
    BY <1>2, <1>7
  <2> QED
    BY <1>1, <1>2, <2>1, <2>2, PastIs
<1>12. PairAt(t, k) = pair
  <2>1. PairAt(t, k) = [key |-> SubSeq(t, k, q - 1), value |-> SubSeq(t, v, e - 1)]
    BY <1>8, <1>10, <1>11 DEF PairAt
  <2> QED
    BY <1>2, <2>1
<1>13. Decisive(t, k) = c
  BY <1>2, <1>9 DEF Decisive
<1>14. f[p] = <<pair>> \o f[e + 1]
  <2>1. p \in 1 .. Len(t) + 2 /\ k <= Len(t) /\ c <= Len(t) /\ ~ (v > Len(t))
    BY <1>1, <1>4
  <2>2. f[p] = Turn(t, f, p)
    BY <2>1 DEF Reads
  <2>3. Turn(t, f, p) = IF ValueAt(t, k) > Len(t) THEN <<>>
                        ELSE <<PairAt(t, k)>> \o f[Past(Printable, t, ValueAt(t, k)) + 1]
    BY <1>2, <1>5, <1>13, <2>1, TurnTakes
  <2> QED
    BY <1>10, <1>11, <1>12, <2>1, <2>2, <2>3
<1> QED
  BY <1>2, <1>14

LEMMA ReadPastEnd ==
  ASSUME NEW t \in Seq(Items), NEW f, Reads(t, f), NEW p \in 1 .. Len(t) + 2,
         \A i \in p .. Len(t) : t[i] \in Spaces
  PROVE  f[p] = <<>>
<1>1. Len(t) \in Nat
  BY LenProperties
<1>2. Past(Spaces, t, p) = Len(t) + 1
  <2>1. CASE p <= Len(t) + 1
    <3>1. p \in 1 .. Len(t) + 1 /\ Len(t) + 1 \in p .. Len(t) + 1
      BY <1>1, <2>1
    <3>2. \A i \in p .. (Len(t) + 1) - 1 : t[i] \in Spaces
      BY <1>1
    <3>3. ~ (Len(t) + 1 <= Len(t))
      BY <1>1
    <3> DEFINE q == Len(t) + 1
    <3> HIDE DEF q
    <3>4. q \in p .. Len(t) + 1 /\ (\A i \in p .. q - 1 : t[i] \in Spaces) /\ ~ (q <= Len(t))
      BY <3>1, <3>2, <3>3 DEF q
    <3>5. Past(Spaces, t, p) = q
      BY <1>1, <3>1, <3>4, PastIs
    <3> QED
      BY <3>5 DEF q
  <2>2. CASE p > Len(t) + 1
    BY <1>1, <2>2, PastBehind
  <2> QED
    BY <1>1, <2>1, <2>2
<1> DEFINE k == Past(Spaces, t, p)
           c == Decisive(t, k)
<1>3. k > Len(t) /\ k = Past(Spaces, t, p) /\ c = Decisive(t, k)
  BY <1>1, <1>2
<1> HIDE DEF k, c
<1>4. Turn(t, f, p) = <<>>
  BY <1>3, TurnEnds
<1> QED
  BY <1>4 DEF Reads

\* Where one starts in the white space before a line makes no difference.
LEMMA TurnFrom ==
  ASSUME NEW t, NEW f, NEW p, NEW q, Past(Spaces, t, p) = Past(Spaces, t, q)
  PROVE  Turn(t, f, p) = Turn(t, f, q)
BY DEF Turn

LEMMA ReadComment ==
  ASSUME NEW t \in Seq(Items), NEW f, Reads(t, f), NEW p \in 1 .. Len(t) + 1, NEW e \in Nat,
         Comment(t, p, e)
  PROVE  e \in p .. Len(t) + 1 /\ f[p] = f[e + 1]
<1>1. Len(t) \in Nat
  BY LenProperties
<1>2. PICK k \in p .. e :
        /\ k < e /\ e <= Len(t) + 1
        /\ \A i \in p .. k - 1 : t[i] \in Spaces
        /\ t[k] = "#"
        /\ \A i \in k .. e - 1 : t[i] # Newline
        /\ e <= Len(t) => t[e] = Newline
  BY DEF Comment
<1>3. k \in 1 .. Len(t) /\ p \in 1 .. Len(t) + 2 /\ "#" \notin Spaces /\ "#" # ":"
  <2>1. k \in 1 .. Len(t) /\ p \in 1 .. Len(t) + 2
    BY <1>1, <1>2
  <2>2. "#" \notin Spaces /\ "#" # ":"
    BY DEF Spaces, Newline
  <2> QED
    BY <2>1, <2>2
<1>4. Past(Spaces, t, p) = k
  <2>1. k \in p .. Len(t) + 1 /\ t[k] \notin Spaces
    BY <1>1, <1>2, <1>3
  <2> QED
    BY <1>1, <1>2, <2>1, PastIs
<1>5. Decisive(t, k) = k
  BY <1>2 DEF Decisive
<1>6. f[p] = f[NextLine(t, k)]
  <2>1. Turn(t, f, p) = f[NextLine(t, k)]
    <3>1. k <= Len(t) /\ t[k] # ":"
      BY <1>2, <1>3
    <3> QED
      BY <1>3, <1>4, <1>5, <3>1, TurnSkips
  <2> QED
    BY <1>3, <2>1 DEF Reads
<1> DEFINE S == Items \ {Newline}
           N == {Newline}
           m == Past(N, t, e)
<1>7. Past(S, t, k) = e
  <2>1. k \in 1 .. Len(t) + 1 /\ e \in k .. Len(t) + 1
    BY <1>1, <1>2, <1>3
  <2>2. ASSUME NEW i \in k .. e - 1 PROVE t[i] \in S
    <3>1. i \in 1 .. Len(t)
      BY <1>1, <1>2, <1>3
    <3>2. t[i] \in Items
      BY <3>1, ElementOfSeq
    <3> QED
      BY <1>2, <3>2
  <2>3. e <= Len(t) => t[e] \notin S
    BY <1>2
  <2> HIDE DEF S
  <2> QED
    BY <1>1, <2>1, <2>2, <2>3, PastIs
<1>8. NextLine(t, k) = m
  BY <1>7 DEF NextLine
<1>9. e \in 1 .. Len(t) + 1 /\ e \in p .. Len(t) + 1 /\ e + 1 \in 1 .. Len(t) + 2
  BY <1>1, <1>2, <1>3
<1>10. m \in e .. Len(t) + 1 /\ \A i \in e .. m - 1 : t[i] \in N
  <2> HIDE DEF N
  <2> QED
    BY <1>1, <1>9, PastStops
<1>11. m <= Len(t) => t[m] # Newline
  <2>1. m <= Len(t) => t[m] \notin N
    <3> HIDE DEF N
    <3> QED
      BY <1>1, <1>9, PastStops
  <2> QED
    BY <2>1
<1> HIDE DEF m
<1>12. \A i \in e .. m - 1 : t[i] \in Spaces
  BY <1>10 DEF Spaces
<1>13. CASE e = Len(t) + 1
  <2>1. m \in 1 .. Len(t) + 2
    BY <1>1, <1>9, <1>10
  <2>2. f[m] = <<>>
    <3>1. \A i \in m .. Len(t) : t[i] \in Spaces
      BY <1>1, <1>10, <1>13
    <3> QED
      BY <2>1, <3>1, ReadPastEnd
  <2>3. f[e + 1] = <<>>
    <3> DEFINE n == e + 1
    <3>1. n \in 1 .. Len(t) + 2 /\ \A i \in n .. Len(t) : t[i] \in Spaces
      BY <1>1, <1>9, <1>13
    <3> HIDE DEF n
    <3>2. f[n] = <<>>
      BY <3>1, ReadPastEnd
    <3> QED
      BY <3>2 DEF n
  <2> QED
    BY <1>6, <1>8, <1>9, <2>2, <2>3
<1>14. CASE e # Len(t) + 1
  <2>1. e <= Len(t) /\ t[e] = Newline
    BY <1>1, <1>2, <1>9, <1>14
  <2>2. m \in e + 1 .. Len(t) + 1
    <3>1. m # e
      BY <1>11, <2>1
    <3> QED
      BY <1>1, <1>9, <1>10, <3>1
  <2> DEFINE n == e + 1
             a == Past(Spaces, t, m)
  <2>3. m \in 1 .. Len(t) + 1 /\ n \in 1 .. Len(t) + 1 /\ m \in n .. Len(t) + 1 /\ n \in e .. m
    BY <1>1, <1>9, <2>1, <2>2
  <2>4. /\ a \in m .. Len(t) + 1
        /\ \A i \in m .. a - 1 : t[i] \in Spaces
        /\ a <= Len(t) => t[a] \notin Spaces
    BY <1>1, <2>3, PastStops
  <2> HIDE DEF n, a
  <2>5. Past(Spaces, t, n) = a
    <3>1. ASSUME NEW i \in n .. a - 1 PROVE t[i] \in Spaces
      <4>1. CASE i < m
        BY <1>9, <1>12, <2>3, <4>1
      <4>2. CASE i >= m
        BY <2>3, <2>4, <4>2
      <4> QED
        BY <2>3, <2>4, <4>1, <4>2
    <3>2. a \in n .. Len(t) + 1
      BY <1>1, <2>3, <2>4
    <3> QED
      BY <1>1, <2>3, <2>4, <3>1, <3>2, PastIs
  <2>6. Turn(t, f, m) = Turn(t, f, n)
    BY <2>5, TurnFrom DEF a
  <2>7. f[m] = Turn(t, f, m) /\ f[n] = Turn(t, f, n)
    <3>1. m \in 1 .. Len(t) + 2 /\ n \in 1 .. Len(t) + 2
      BY <1>1, <2>3
    <3> QED
      BY <3>1 DEF Reads
  <2> QED
    BY <1>6, <1>8, <1>9, <2>6, <2>7 DEF n
<1> QED
  BY <1>13, <1>14

\* With the line from p to before e, rest becomes ps.
LineSays(t, p, e, ps, rest) ==
  \/ \E pair : Setting(t, p, e, pair) /\ ps = <<pair>> \o rest
  \/ (Comment(t, p, e) \/ Nothing(t, p, e)) /\ ps = rest

LEMMA ReadLine ==
  ASSUME NEW t \in Seq(Items), NEW f, Reads(t, f), NEW p \in 1 .. Len(t) + 1, NEW e \in Int,
         NEW ps, LineSays(t, p, e, ps, f[e + 1])
  PROVE  f[p] = ps
<1>1. Len(t) \in Nat
  BY LenProperties
<1>2. ASSUME NEW pair, Setting(t, p, e, pair), ps = <<pair>> \o f[e + 1] PROVE f[p] = ps
  <2>1. e \in Nat
    BY <1>1, <1>2 DEF Setting
  <2>2. f[p] = <<pair>> \o f[e + 1]
    BY <1>2, <2>1, ReadSetting
  <2> QED
    BY <1>2, <2>2
<1>3. CASE Comment(t, p, e) /\ ps = f[e + 1]
  <2>1. e \in Nat
    BY <1>1, <1>3 DEF Comment
  <2> QED
    BY <1>3, <2>1, ReadComment
<1>4. CASE Nothing(t, p, e) /\ ps = f[e + 1]
  <2>1. f[p] = <<>>
    <3>1. p \in 1 .. Len(t) + 2
      BY <1>1
    <3> QED
      BY <1>4, <3>1, ReadPastEnd DEF Nothing
  <2>2. f[e + 1] = <<>>
    <3> DEFINE q == e + 1
    <3>1. q \in 1 .. Len(t) + 2 /\ \A j \in q .. Len(t) : t[j] \in Spaces
      BY <1>1, <1>4 DEF Nothing
    <3> HIDE DEF q
    <3>2. f[q] = <<>>
      BY <3>1, ReadPastEnd
    <3> QED
      BY <3>2 DEF q
  <2> QED
    BY <1>4, <2>1, <2>2
<1> QED
  BY <1>2, <1>3, <1>4 DEF LineSays

\* A text that is lines, from the places at, with the pairs that are left to say there.
WellWritten(t, ps) ==
  \E n \in Nat : \E at, says :
    /\ at[0] = 1 /\ at[n] \in {Len(t) + 1, Len(t) + 2} /\ says[0] = ps /\ says[n] = <<>>
    /\ \A i \in 1 .. n :
         /\ at[i - 1] \in 1 .. Len(t) + 1 /\ at[i] \in Nat
         /\ LineSays(t, at[i - 1], at[i] - 1, says[i - 1], says[i])

(* config_parse reads what is written: comments and blank lines are passed   *)
(* over, and each line of a key, a colon and a value gives that pair, with   *)
(* spaces anywhere between them and with or without a line feed at the end.  *)
THEOREM ReadsWhatIsWritten ==
  ASSUME NEW t \in Seq(Items), NEW ps, WellWritten(t, ps)
  PROVE  Pairs(t) = ps
<1>1. PICK f : Reads(t, f) /\ Pairs(t) = f[1]
  BY PairsReads
<1>n. PICK n \in Nat : \E at, says :
        /\ at[0] = 1 /\ at[n] \in {Len(t) + 1, Len(t) + 2} /\ says[0] = ps /\ says[n] = <<>>
        /\ \A i \in 1 .. n :
             /\ at[i - 1] \in 1 .. Len(t) + 1 /\ at[i] \in Nat
             /\ LineSays(t, at[i - 1], at[i] - 1, says[i - 1], says[i])
  BY DEF WellWritten
<1>2. PICK at, says :
        /\ at[0] = 1 /\ at[n] \in {Len(t) + 1, Len(t) + 2} /\ says[0] = ps /\ says[n] = <<>>
        /\ \A i \in 1 .. n :
             /\ at[i - 1] \in 1 .. Len(t) + 1 /\ at[i] \in Nat
             /\ LineSays(t, at[i - 1], at[i] - 1, says[i - 1], says[i])
  BY <1>n
<1>3. Len(t) \in Nat
  BY LenProperties
<1> DEFINE S == {i \in 0 .. n : f[at[i]] = says[i]}
<1>4. n \in S
  <2> DEFINE a == at[n]
  <2>1. a \in 1 .. Len(t) + 2 /\ \A i \in a .. Len(t) : t[i] \in Spaces
    BY <1>2, <1>3
  <2> HIDE DEF a
  <2>2. f[a] = <<>>
    BY <1>1, <2>1, ReadPastEnd
  <2> QED
    BY <1>2, <2>2 DEF a
<1>5. \A i \in 1 .. n : i \in S => i - 1 \in S
  <2> SUFFICES ASSUME NEW i \in 1 .. n, f[at[i]] = says[i] PROVE f[at[i - 1]] = says[i - 1]
    OBVIOUS
  <2>1. /\ at[i - 1] \in 1 .. Len(t) + 1 /\ at[i] \in Nat
        /\ LineSays(t, at[i - 1], at[i] - 1, says[i - 1], says[i])
    BY <1>2
  <2> DEFINE p == at[i - 1]
             e == at[i] - 1
             l == says[i - 1]
  <2>2. e + 1 = at[i] /\ e \in Int
    BY <2>1
  <2>3. says[i] = f[e + 1]
    BY <2>2
  <2>4. p \in 1 .. Len(t) + 1
    BY <2>1
  <2>5. LineSays(t, p, e, l, f[e + 1])
    BY <2>1, <2>3
  <2> HIDE DEF p, e, l
  <2>6. f[p] = l
    BY <1>1, <2>2, <2>4, <2>5, ReadLine
  <2> QED
    BY <2>6 DEF p, l
<1>6. \A i \in 0 .. n : i \in S
  <2> HIDE DEF S
  <2> QED
    BY <1>4, <1>5, CountingDown
<1> QED
  BY <1>1, <1>2, <1>6

-----------------------------------------------------------------------------
(* What config_parse finds is well formed, and what config_set writes is     *)
(* found again.                                                              *)

LEMMA PairAtType ==
  ASSUME NEW t \in Seq(Items), NEW k \in 1 .. Len(t), ColonAt(t, k) < Len(t) + 1,
         ValueAt(t, k) \in 1 .. Len(t)
  PROVE  PairAt(t, k) \in PairType
<1> DEFINE q == Past(Letters, t, k)
           c == ColonAt(t, k)
           v == ValueAt(t, k)
           e == Past(Printable, t, v)
<1>1. Len(t) \in Nat /\ k \in 1 .. Len(t) + 1 /\ v \in 1 .. Len(t) + 1 /\ v \in 1 .. Len(t)
  BY LenProperties
<1>2. q \in k .. Len(t) + 1 /\ \A i \in k .. q - 1 : t[i] \in Letters
  BY <1>1, PastStops
<1>3. c \in 1 .. Len(t) /\ c + 1 \in 1 .. Len(t) + 1
  <2>1. c \in k .. Len(t) + 1 /\ c < Len(t) + 1
    BY ColonBehind
  <2> QED
    BY <1>1, <2>1
<1>4. v <= Len(t) => t[v] \notin Spaces
  <2>1. v = Past(Spaces, t, c + 1)
    BY DEF ValueAt
  <2> HIDE DEF c
  <2> QED
    BY <1>1, <1>3, <2>1, PastStops
<1>5. /\ e \in v .. Len(t) + 1
      /\ \A i \in v .. e - 1 : t[i] \in Printable
      /\ e <= Len(t) => t[e] \notin Printable
  <2> HIDE DEF v
  <2> QED
    BY <1>1, PastStops
<1>6. PairAt(t, k) = [key |-> SubSeq(t, k, q - 1), value |-> SubSeq(t, v, e - 1)]
  BY DEF PairAt
<1> HIDE DEF q, c, v, e
<1>7. e # v
  <2>1. t[v] \in Items /\ t[v] \notin Spaces
    BY <1>1, <1>4, ElementOfSeq
  <2>2. t[v] \in Printable
    BY <2>1 DEF Items
  <2> QED
    BY <1>1, <1>5, <2>2
<1>8. SubSeq(t, k, q - 1) \in Seq(Letters)
  <2>1. k \in Int /\ q - 1 \in Int
    BY <1>1, <1>2
  <2> QED
    BY <1>2, <2>1, SubSeqProperties
<1>9. SubSeq(t, v, e - 1) \in Seq(Printable) /\ Len(SubSeq(t, v, e - 1)) = (e - 1) - v + 1
  <2>1. v \in Int /\ e - 1 \in Int /\ v <= e - 1
    BY <1>1, <1>5, <1>7
  <2> QED
    BY <1>5, <2>1, SubSeqProperties
<1>10. SubSeq(t, v, e - 1) # <<>>
  <2>1. (e - 1) - v + 1 # 0
    BY <1>1, <1>5, <1>7
  <2> QED
    BY <1>9, <2>1, EmptySeq
<1> QED
  BY <1>6, <1>8, <1>9, <1>10 DEF PairType

LEMMA PairsType ==
  ASSUME NEW t \in Seq(Items)
  PROVE  Pairs(t) \in Seq(PairType)
<1>1. PICK f : Reads(t, f) /\ Pairs(t) = f[1]
  BY PairsReads
<1> DEFINE n == Len(t) + 2
           S == {i \in 0 .. n : \A p \in i + 1 .. n : f[p] \in Seq(PairType)}
<1>2. n \in Nat /\ Len(t) \in Nat
  BY LenProperties
<1>3. n \in S
  BY <1>2
<1>4. \A i \in 1 .. n : i \in S => i - 1 \in S
  <2> SUFFICES ASSUME NEW i \in 1 .. n, \A p \in i + 1 .. n : f[p] \in Seq(PairType)
               PROVE  f[i] \in Seq(PairType)
    <3>1. ASSUME NEW i \in 1 .. n, i \in S, f[i] \in Seq(PairType) PROVE i - 1 \in S
      <4>1. \A p \in (i - 1) + 1 .. n : p = i \/ p \in i + 1 .. n
        BY <1>2
      <4>2. i - 1 \in 0 .. n
        BY <1>2
      <4> QED
        BY <3>1, <4>1, <4>2
    <3> QED
      BY <3>1
  <2> DEFINE k == Past(Spaces, t, i)
             c == Decisive(t, k)
             v == ValueAt(t, k)
  <2>1. k = Past(Spaces, t, i) /\ c = Decisive(t, k) /\ v = ValueAt(t, k)
    OBVIOUS
  <2> HIDE DEF k, c, v
  <2>2. i \in 1 .. Len(t) + 2
    OBVIOUS
  <2>3. k \in Int /\ (k <= Len(t) => c \in Int)
    BY <2>1, <2>2, PlacesAreNumbers
  <2>4. f[i] = Turn(t, f, i)
    BY <1>1, <2>2 DEF Reads
  <2>5. <<>> \in Seq(PairType)
    BY EmptySeq
  <2>6. CASE k > Len(t) \/ c > Len(t)
    BY <2>1, <2>2, <2>4, <2>5, <2>6, TurnEnds
  <2>7. CASE k <= Len(t) /\ c <= Len(t) /\ t[c] # ":"
    <3>1. f[i] = f[NextLine(t, c)]
      BY <2>1, <2>2, <2>4, <2>7, TurnSkips
    <3>2. NextLine(t, c) \in i + 1 .. Len(t) + 1
      BY <2>1, <2>2, <2>7, GoesOn
    <3>3. NextLine(t, c) \in i + 1 .. n
      BY <1>2, <3>2
    <3> QED
      BY <3>1, <3>3
  <2>8. CASE k <= Len(t) /\ c <= Len(t) /\ t[c] = ":"
    <3> DEFINE m == Past(Printable, t, v) + 1
    <3>1. f[i] = IF v > Len(t) THEN <<>> ELSE <<PairAt(t, k)>> \o f[m]
      BY <2>1, <2>2, <2>4, <2>8, TurnTakes
    <3>2. /\ c = ColonAt(t, k) /\ v \in i + 1 .. Len(t) + 1 /\ k \in i .. Len(t)
          /\ v <= Len(t) => m \in i + 1 .. Len(t) + 2
      BY <2>1, <2>2, <2>8, GoesOn
    <3> HIDE DEF m
    <3>3. CASE v > Len(t)
      BY <2>5, <3>1, <3>3
    <3>4. CASE v <= Len(t)
      <4>1. k \in 1 .. Len(t) /\ ColonAt(t, k) < Len(t) + 1 /\ v \in 1 .. Len(t)
        BY <1>2, <2>3, <2>8, <3>2, <3>4
      <4>2. PairAt(t, k) \in PairType
        BY <2>1, <4>1, PairAtType
      <4>3. f[m] \in Seq(PairType)
        BY <3>2, <3>4
      <4>4. f[i] = <<PairAt(t, k)>> \o f[m]
        BY <1>2, <3>1, <3>4, <4>1
      <4>5. <<PairAt(t, k)>> \in Seq(PairType)
        BY <4>2
      <4> QED
        BY <4>3, <4>4, <4>5, ConcatProperties
    <3> QED
      BY <1>2, <3>2, <3>3, <3>4
  <2> QED
    BY <1>2, <2>3, <2>6, <2>7, <2>8
<1>5. \A i \in 0 .. n : i \in S
  <2> HIDE DEF S
  <2> QED
    BY <1>2, <1>3, <1>4, CountingDown
<1>6. 0 \in S
  <2> HIDE DEF S
  <2> QED
    BY <1>2, <1>5
<1> QED
  BY <1>1, <1>2, <1>6

\* The items of a line that config_set writes.
LEMMA LineItems ==
  ASSUME NEW pair \in PairType
  PROVE  /\ Line(pair) \in Seq(Items)
         /\ Len(pair.key) \in Nat /\ Len(pair.value) \in Nat \ {0}
         /\ Len(Line(pair)) = Len(pair.key) + Len(pair.value) + 3
         /\ \A j \in 1 .. Len(pair.key) : Line(pair)[j] = pair.key[j]
         /\ Line(pair)[Len(pair.key) + 1] = ":"
         /\ Line(pair)[Len(pair.key) + 2] = " "
         /\ \A j \in 1 .. Len(pair.value) : Line(pair)[Len(pair.key) + 2 + j] = pair.value[j]
         /\ Line(pair)[Len(pair.key) + Len(pair.value) + 3] = Newline
<1> DEFINE a == pair.key
           b == <<":", " ">>
           d == pair.value
           z == <<Newline>>
           ab == a \o b
           abd == ab \o d
           l == abd \o z
<1>1. a \in Seq(Items) /\ d \in Seq(Items) /\ d # <<>>
  <2>1. a \in Seq(Letters) /\ d \in Seq(Printable) /\ d # <<>>
    BY DEF PairType
  <2>2. Letters \subseteq Items /\ Printable \subseteq Items
    BY DEF Items, Printable
  <2> QED
    BY <2>1, <2>2, SeqMonotonic
<1>2. b \in Seq(Items) /\ z \in Seq(Items)
  <2>1. ":" \in Items /\ " " \in Items /\ Newline \in Items
    BY DEF Items, Printable, Spaces
  <2> QED
    BY <2>1, ShortSeqs
<1>3. Len(b) = 2 /\ Len(z) = 1
  OBVIOUS
<1>4. b[1] = ":" /\ b[2] = " " /\ z[1] = Newline
  OBVIOUS
<1>5. Line(pair) = l /\ ab = a \o b /\ abd = ab \o d /\ l = abd \o z
  BY DEF Line
<1> HIDE DEF a, b, d, z, ab, abd, l
<1>6. /\ ab \in Seq(Items) /\ Len(a) \in Nat /\ Len(ab) = Len(a) + Len(b)
      /\ \A j \in 1 .. Len(a) : ab[j] = a[j]
      /\ \A j \in 1 .. Len(b) : ab[Len(a) + j] = b[j]
  BY <1>1, <1>2, <1>5, Behind
<1>7. /\ abd \in Seq(Items) /\ Len(d) \in Nat /\ Len(abd) = Len(ab) + Len(d)
      /\ \A j \in 1 .. Len(ab) : abd[j] = ab[j]
      /\ \A j \in 1 .. Len(d) : abd[Len(ab) + j] = d[j]
  BY <1>1, <1>5, <1>6, Behind
<1>8. /\ l \in Seq(Items) /\ Len(l) = Len(abd) + Len(z)
      /\ \A j \in 1 .. Len(abd) : l[j] = abd[j]
      /\ \A j \in 1 .. Len(z) : l[Len(abd) + j] = z[j]
  BY <1>2, <1>5, <1>7, Behind
<1> DEFINE na == Len(a)
           nd == Len(d)
<1>9. /\ na \in Nat /\ nd \in Nat /\ nd # 0
      /\ Len(ab) = na + 2 /\ Len(abd) = na + 2 + nd /\ Len(l) = na + nd + 3
  <2>1. Len(d) # 0
    BY <1>1, EmptySeq
  <2>2. Len(ab) = Len(a) + 2
    BY <1>3, <1>6
  <2>3. Len(abd) = (Len(a) + 2) + Len(d)
    BY <1>7, <2>2
  <2>4. Len(l) = ((Len(a) + 2) + Len(d)) + 1
    BY <1>3, <1>8, <2>3
  <2>5. na \in Nat /\ nd \in Nat
    BY <1>6, <1>7
  <2> QED
    BY <2>1, <2>2, <2>3, <2>4, <2>5
<1>10. \A j \in 1 .. na : l[j] = a[j]
  <2> TAKE j \in 1 .. na
  <2>1. j \in 1 .. na + 2 /\ j \in 1 .. na + 2 + nd
    <3> HIDE DEF na, nd
    <3> QED
      BY <1>9
  <2> QED
    BY <1>6, <1>7, <1>8, <1>9, <2>1
<1>11. l[na + 1] = ":" /\ l[na + 2] = " "
  <2>1. /\ na + 1 \in 1 .. na + 2 /\ na + 2 \in 1 .. na + 2
        /\ na + 1 \in 1 .. na + 2 + nd /\ na + 2 \in 1 .. na + 2 + nd
    <3> HIDE DEF na, nd
    <3> QED
      BY <1>9
  <2>2. 1 \in 1 .. Len(b) /\ 2 \in 1 .. Len(b)
    BY <1>3
  <2>3. ab[na + 1] = ":" /\ ab[na + 2] = " "
    BY <1>4, <1>6, <2>2
  <2> QED
    BY <1>7, <1>8, <1>9, <2>1, <2>3
<1>12. \A j \in 1 .. nd : l[na + 2 + j] = d[j]
  <2> TAKE j \in 1 .. nd
  <2>1. na + 2 + j \in 1 .. na + 2 + nd
    <3> HIDE DEF na, nd
    <3> QED
      BY <1>9
  <2>2. abd[na + 2 + j] = d[j]
    BY <1>7, <1>9
  <2> QED
    BY <1>8, <1>9, <2>1, <2>2
<1>13. l[na + nd + 3] = Newline
  <2>1. 1 \in 1 .. Len(z)
    BY <1>3
  <2>2. Len(abd) + 1 = na + nd + 3
    <3> HIDE DEF na, nd
    <3> QED
      BY <1>9
  <2>3. l[Len(abd) + 1] = Newline
    BY <1>4, <1>8, <2>1
  <2> QED
    BY <2>2, <2>3
<1>14. pair.key = a /\ pair.value = d
  BY DEF a, d
<1>15. Len(d) \in Nat \ {0}
  BY <1>9
<1>16. Line(pair) \in Seq(Items) /\ Len(pair.key) \in Nat /\ Len(pair.value) \in Nat \ {0}
       /\ Len(Line(pair)) = Len(pair.key) + Len(pair.value) + 3
  BY <1>5, <1>6, <1>8, <1>9, <1>14, <1>15
<1>17. \A j \in 1 .. Len(pair.key) : Line(pair)[j] = pair.key[j]
  BY <1>5, <1>10, <1>14
<1>18. Line(pair)[Len(pair.key) + 1] = ":" /\ Line(pair)[Len(pair.key) + 2] = " "
  BY <1>5, <1>11, <1>14
<1>19. \A j \in 1 .. Len(pair.value) : Line(pair)[Len(pair.key) + 2 + j] = pair.value[j]
  BY <1>5, <1>12, <1>14
<1>20. Line(pair)[Len(pair.key) + Len(pair.value) + 3] = Newline
  BY <1>5, <1>13, <1>14
<1> QED
  BY <1>16, <1>17, <1>18, <1>19, <1>20

\* The lines of config_set, one behind the other.
Lines(ps) == [i \in 1 .. Len(ps) |-> Line(ps[i])]

LEMMA LinesType ==
  ASSUME NEW ps \in Seq(PairType)
  PROVE  /\ Len(ps) \in Nat /\ \A i \in 1 .. Len(ps) : ps[i] \in PairType
         /\ Lines(ps) \in Seq(Seq(Items)) /\ Len(Lines(ps)) = Len(ps)
         /\ \A i \in 1 .. Len(ps) : Lines(ps)[i] = Line(ps[i])
         /\ Text(ps) = FlattenSeq(Lines(ps))
<1>1. Len(ps) \in Nat
  BY LenProperties
<1>2. \A i \in 1 .. Len(ps) : ps[i] \in PairType
  BY ElementOfSeq
<1>3. \A i \in 1 .. Len(ps) : Line(ps[i]) \in Seq(Items)
  BY <1>2, LineItems
<1>4. Lines(ps) \in [1 .. Len(ps) -> Seq(Items)]
  BY <1>3 DEF Lines
<1>5. Lines(ps) \in Seq(Seq(Items))
  BY <1>1, <1>4, SeqDef
<1>6. Len(Lines(ps)) = Len(ps) /\ \A i \in 1 .. Len(ps) : Lines(ps)[i] = Line(ps[i])
  BY <1>1 DEF Lines
<1>7. Text(ps) = FlattenSeq(Lines(ps))
  BY DEF Text, Lines
<1> QED
  BY <1>1, <1>2, <1>5, <1>6, <1>7

\* A line of config_set where it stands in a text says its pair.
LEMMA LineIsSetting ==
  ASSUME NEW pair \in PairType, NEW t \in Seq(Items), NEW a \in Nat,
         a + Len(Line(pair)) <= Len(t),
         \A j \in 1 .. Len(Line(pair)) : t[a + j] = Line(pair)[j]
  PROVE  Setting(t, a + 1, a + Len(Line(pair)), pair)
<1> DEFINE l == Line(pair)
           nk == Len(pair.key)
           nv == Len(pair.value)
           p == a + 1
           e == a + Len(l)
           c == p + nk
           v == c + 2
<1>1. /\ nk \in Nat /\ nv \in Nat \ {0} /\ Len(l) = nk + nv + 3
      /\ \A j \in 1 .. nk : l[j] = pair.key[j]
      /\ l[nk + 1] = ":" /\ l[nk + 2] = " "
      /\ \A j \in 1 .. nv : l[nk + 2 + j] = pair.value[j]
      /\ l[nk + nv + 3] = Newline
  BY LineItems
<1>2. pair.key \in Seq(Letters) /\ pair.value \in Seq(Printable)
      /\ pair = [key |-> pair.key, value |-> pair.value]
  BY DEF PairType
<1>3. Len(t) \in Nat
  BY LenProperties
<1>4. \A j \in 1 .. nk + nv + 3 : t[a + j] = l[j]
  BY <1>1
<1>n. nk \in Nat /\ nv \in Nat \ {0} /\ Len(l) = nk + nv + 3 /\ a + Len(l) <= Len(t)
  BY <1>1
<1> HIDE DEF l, nk, nv
<1>5. e = v + nv /\ e <= Len(t) + 1 /\ e \in Nat /\ p \in Nat /\ c \in p .. e /\ v \in p .. e
      /\ p \in p .. e /\ v < e
  BY <1>n, <1>3
<1>6. /\ c = a + (nk + 1) /\ c + 1 = a + (nk + 2) /\ e = a + (nk + nv + 3)
      /\ nk + 1 \in 1 .. nk + nv + 3 /\ nk + 2 \in 1 .. nk + nv + 3
      /\ nk + nv + 3 \in 1 .. nk + nv + 3
  BY <1>n
<1>7. t[c] = ":" /\ t[c + 1] = " " /\ t[e] = Newline
  BY <1>1, <1>4, <1>6
<1>8. \A i \in p .. c - 1 : t[i] = pair.key[i - a] /\ t[i] \in Letters /\ i - a \in 1 .. nk
  <2> TAKE i \in p .. c - 1
  <2>1. i - a \in 1 .. nk /\ i - a \in 1 .. nk + nv + 3 /\ a + (i - a) = i
    BY <1>n
  <2>2. t[i] = pair.key[i - a]
    BY <1>1, <1>4, <2>1
  <2>3. pair.key[i - a] \in Letters
    BY <1>2, <2>1, ElementOfSeq DEF nk
  <2> QED
    BY <2>1, <2>2, <2>3
<1>9. \A i \in v .. e - 1 : /\ t[i] = pair.value[i - v + 1] /\ t[i] \in Printable
                            /\ i - v + 1 \in 1 .. nv
  <2> TAKE i \in v .. e - 1
  <2>1. /\ i - v + 1 \in 1 .. nv /\ nk + 2 + (i - v + 1) \in 1 .. nk + nv + 3
        /\ a + (nk + 2 + (i - v + 1)) = i
    BY <1>n, <1>5
  <2>2. t[i] = pair.value[i - v + 1]
    BY <1>1, <1>4, <2>1
  <2>3. pair.value[i - v + 1] \in Printable
    BY <1>2, <2>1, ElementOfSeq DEF nv
  <2> QED
    BY <2>1, <2>2, <2>3
<1>10. SubSeq(t, p, c - 1) = pair.key
  <2> DEFINE w == SubSeq(t, p, c - 1)
             S == Items \cup Letters
  <2>1. p \in Int /\ c - 1 \in Int /\ (c - 1) - p + 1 = nk /\ (p <= c - 1 \/ nk = 0)
    BY <1>n
  <2>2. \A i \in p .. c - 1 : t[i] \in Letters
    BY <1>8
  <2> HIDE DEF p, c
  <2>3. /\ w \in Seq(Letters) /\ Len(w) = IF p <= c - 1 THEN (c - 1) - p + 1 ELSE 0
        /\ \A i \in 1 .. (c - 1) - p + 1 : w[i] = t[p + i - 1]
    BY <2>1, <2>2, SubSeqProperties
  <2>4. Len(w) = nk
    BY <1>n, <2>1, <2>3
  <2>5. ASSUME NEW i \in 1 .. nk PROVE w[i] = pair.key[i]
    <3>1. p + i - 1 \in p .. c - 1 /\ (p + i - 1) - a = i
      BY <1>n DEF p, c
    <3> QED
      BY <1>8, <2>1, <2>3, <3>1 DEF p
  <2> HIDE DEF w
  <2> QED
    BY <1>2, <2>3, <2>4, <2>5, SeqEqual DEF nk, w
<1>11. SubSeq(t, v, e - 1) = pair.value
  <2> DEFINE w == SubSeq(t, v, e - 1)
  <2>1. v \in Int /\ e - 1 \in Int /\ (e - 1) - v + 1 = nv /\ v <= e - 1
    BY <1>n, <1>5
  <2>2. \A i \in v .. e - 1 : t[i] \in Printable
    BY <1>9
  <2>3. ASSUME NEW i \in 1 .. nv
        PROVE  v + i - 1 \in v .. e - 1 /\ (v + i - 1) - v + 1 = i
    BY <1>n, <1>5
  <2> HIDE DEF v, e
  <2>4. /\ w \in Seq(Printable) /\ Len(w) = IF v <= e - 1 THEN (e - 1) - v + 1 ELSE 0
        /\ \A i \in 1 .. (e - 1) - v + 1 : w[i] = t[v + i - 1]
    BY <2>1, <2>2, SubSeqProperties
  <2>5. Len(w) = nv
    BY <2>1, <2>4
  <2>6. ASSUME NEW i \in 1 .. nv PROVE w[i] = pair.value[i]
    BY <1>9, <2>1, <2>3, <2>4, <2>6
  <2> HIDE DEF w
  <2> QED
    BY <1>2, <2>4, <2>5, <2>6, SeqEqual DEF nv, w
<1>12. t[p] \notin Spaces /\ t[p] # "#"
  <2>1. CASE nk = 0
    <3>1. p = c
      BY <2>1
    <3> QED
      BY <1>7, <3>1 DEF Spaces, Newline
  <2>2. CASE nk # 0
    <3>1. p \in p .. c - 1
      BY <1>n, <2>2
    <3>2. t[p] \in Letters
      BY <1>8, <3>1
    <3> QED
      BY <3>2, ByteClasses
  <2> QED
    BY <2>1, <2>2
<1>13. \A i \in c + 1 .. v - 1 : t[i] \in Spaces
  <2>1. \A i \in c + 1 .. v - 1 : i = c + 1
    BY <1>n
  <2> QED
    BY <1>7, <2>1 DEF Spaces
<1>14. /\ p <= c /\ c < v /\ p + nk <= c /\ nk = Len(pair.key) /\ p + nk - 1 = c - 1
       /\ \A i \in p + nk .. c - 1 : t[i] \in Spaces
       /\ \A i \in p .. p - 1 : t[i] \in Spaces
  <2>1. p <= c /\ c < v /\ p + nk <= c /\ p + nk - 1 = c - 1
        /\ p + nk .. c - 1 = {} /\ p .. p - 1 = {}
    BY <1>n
  <2>2. nk = Len(pair.key)
    BY DEF nk
  <2> HIDE DEF p, c, v
  <2> QED
    BY <2>1, <2>2
<1>15. pair = [key |-> SubSeq(t, p, p + Len(pair.key) - 1), value |-> SubSeq(t, v, e - 1)]
  <2>1. p + Len(pair.key) - 1 = c - 1
    BY <1>14
  <2> HIDE DEF p, c, v, e
  <2> QED
    BY <1>2, <1>10, <1>11, <2>1
<1>16. Setting(t, p, e, pair)
  <2>1. p + Len(pair.key) <= c /\ \A i \in p + Len(pair.key) .. c - 1 : t[i] \in Spaces
    BY <1>14
  <2> HIDE DEF p, c, v, e
  <2> QED
    BY <1>2, <1>5, <1>7, <1>9, <1>12, <1>13, <1>14, <1>15, <2>1 DEF Setting
<1> QED
  BY <1>16 DEF l

(* What config_set writes, config_parse reads: for every table of keys and   *)
(* values, the text of it means that table again, so that a set changes the  *)
(* one value and keeps the others.                                           *)
THEOREM TextIsReadBack ==
  ASSUME NEW ps \in Seq(PairType)
  PROVE  Text(ps) \in Seq(Items) /\ Pairs(Text(ps)) = ps
<1> DEFINE n == Len(ps)
           ls == Lines(ps)
           t == Text(ps)
<1>1. /\ n \in Nat /\ \A i \in 1 .. n : ps[i] \in PairType
      /\ ls \in Seq(Seq(Items)) /\ Len(ls) = n
      /\ \A i \in 1 .. n : ls[i] = Line(ps[i])
      /\ t = FlattenSeq(ls)
  BY LinesType
<1> HIDE DEF ls, t
<1>2. PICK f : Joins(ls, f) /\ t = f[n]
  BY <1>1, FlattenRun
<1>3. \A i \in 0 .. n : f[i] \in Seq(Items)
  BY <1>1, <1>2, FlattenIs
<1>4. t \in Seq(Items)
  BY <1>1, <1>2, <1>3
<1> DEFINE at == [i \in 0 .. n |-> Len(f[i]) + 1]
           says == [i \in 0 .. n |-> SubSeq(ps, i + 1, n)]
<1>5. \A i \in 0 .. n : at[i] = Len(f[i]) + 1 /\ says[i] = SubSeq(ps, i + 1, n)
  OBVIOUS
<1>6. \A i \in 0 .. n : Len(f[i]) \in Nat
  BY <1>3, LenProperties
<1> HIDE DEF at, says
<1>7. at[0] = 1 /\ at[n] \in {Len(t) + 1, Len(t) + 2}
  <2>1. f[0] = <<>> /\ 0 \in 0 .. n /\ n \in 0 .. n
    BY <1>1, <1>2 DEF Joins
  <2>2. Len(f[0]) = 0
    BY <2>1, EmptySeq
  <2> QED
    BY <1>2, <1>5, <2>1, <2>2
<1>8. says[0] = ps /\ says[n] = <<>>
  <2>1. 0 \in 0 .. n /\ n \in 0 .. n /\ n < n + 1
    BY <1>1
  <2>2. says[0] = SubSeq(ps, 1, n) /\ says[n] = SubSeq(ps, n + 1, n)
    BY <1>5, <2>1
  <2>3. SubSeq(ps, 1, n) = ps
    BY SubSeqFull
  <2>4. SubSeq(ps, n + 1, n) = <<>>
    BY <1>1, <2>1, SubSeqEmpty
  <2> QED
    BY <2>2, <2>3, <2>4
<1>9. ASSUME NEW i \in 1 .. n
      PROVE  /\ at[i - 1] \in 1 .. Len(t) + 1 /\ at[i] \in Nat
             /\ LineSays(t, at[i - 1], at[i] - 1, says[i - 1], says[i])
  <2> DEFINE a == Len(f[i - 1])
             l == Line(ps[i])
             b == Len(f[i])
  <2>1. i - 1 \in 0 .. n /\ i \in 0 .. n /\ i \in 1 .. Len(ls)
    BY <1>1
  <2>2. b = a + Len(l) /\ b <= Len(t) /\ \A j \in 1 .. Len(l) : t[a + j] = l[j]
    <3>1. InPlace(ls, f, i)
      <4>1. ls \in Seq(Seq(Items)) /\ Joins(ls, f) /\ i \in 1 .. Len(ls)
        BY <1>1, <1>2, <2>1
      <4> HIDE DEF a, b, l
      <4> QED
        BY <4>1, PartsInPlace
    <3>2. ls[i] = l /\ f[Len(ls)] = t
      BY <1>1, <1>2
    <3> QED
      BY <3>1, <3>2 DEF InPlace
  <2>3. a \in Nat /\ b \in Nat /\ at[i - 1] = a + 1 /\ at[i] = b + 1
    BY <1>5, <1>6, <2>1
  <2>4. ps[i] \in PairType
    BY <1>1
  <2>5. Setting(t, a + 1, a + Len(l), ps[i])
    <3> HIDE DEF a, b
    <3> QED
      BY <1>4, <2>2, <2>3, <2>4, LineIsSetting
  <2>6. says[i - 1] = <<ps[i]>> \o says[i]
    <3>1. n \in i .. n /\ (i - 1) + 1 = i
      BY <1>1
    <3>2. SubSeq(ps, i, n) = <<ps[i]>> \o SubSeq(ps, i + 1, n)
      BY <3>1, SubSeqRecursiveFirst
    <3> QED
      BY <1>5, <2>1, <3>1, <3>2
  <2> HIDE DEF a, b, l
  <2>7. Len(t) \in Nat
    BY <1>4, LenProperties
  <2>8. at[i] - 1 = a + Len(l) /\ at[i - 1] \in 1 .. Len(t) + 1 /\ at[i] \in Nat
    <3>1. Len(l) \in Nat
      BY <2>4, LineItems, LenProperties DEF l
    <3> QED
      BY <2>2, <2>3, <2>7, <3>1
  <2> QED
    BY <2>3, <2>5, <2>6, <2>8 DEF LineSays
<1>10. WellWritten(t, ps)
  BY <1>1, <1>7, <1>8, <1>9 DEF WellWritten
<1> QED
  BY <1>4, <1>10, ReadsWhatIsWritten DEF t
-----------------------------------------------------------------------------
(* The settings through edits, sets, updates and losses of power.           *)

TextType ==
  /\ text = Missing \/ text \in Seq(Items)
  /\ conf \in Seq(Items) /\ (Valid => sector[1] \in Seq(Items))
  /\ wanted \in Seq(PairType) /\ setting \in Seq(PairType)
  /\ trust \in {"whole", "sector", "file"}

FileSays   == ~ NoText /\ Pairs(text) = wanted
SectorSays == Valid /\ Pairs(sector[1]) = wanted
WritesIt   == conf = text /\ FileSays

TrustWhole ==
  trust = "whole" =>
    /\ NoText \/ FileSays
    /\ pc \in {"erase", "write"} => WritesIt
    /\ pc \notin {"erase", "write"} => SectorSays \/ (~ Valid /\ wanted = <<>>)
    /\ pc = "save" => Pairs(conf) = setting

TrustSector ==
  trust = "sector" =>
    /\ pc # "save"
    /\ FileSays \/ (NoText /\ wanted = <<>>)

KeepInv == TextType /\ TrustWhole /\ TrustSector

FilesRead == \A f \in Files : Pairs(f.text) = f.pairs

\* An empty text says nothing.
LEMMA NothingWritten == Pairs(<<>>) = <<>> /\ <<>> \in Seq(PairType) /\ <<>> \in Seq(Items)
<1>1. <<>> \in Seq(PairType) /\ <<>> \in Seq(Items)
  BY EmptySeq
<1>2. Text(<<>>) = <<>>
  <2>1. Lines(<<>>) = <<>>
    BY DEF Lines
  <2> QED
    BY <2>1, FlattenEmpty DEF Text, Lines
<1> QED
  BY <1>1, <1>2, TextIsReadBack

\* A table stays a table when a value is replaced.
LEMMA ReplacedType ==
  ASSUME NEW ps \in Seq(PairType), NEW name, NEW value \in Values
  PROVE  Replaced(ps, name, value) \in Seq(PairType)
<1> DEFINE n == Len(ps)
           g(i) == IF ps[i].key = name THEN [ps[i] EXCEPT !.value = value] ELSE ps[i]
<1>1. n \in Nat /\ \A i \in 1 .. n : ps[i] \in PairType
  BY LenProperties, ElementOfSeq
<1>2. value \in Seq(Printable) \ {<<>>}
  BY ConfigAssumption DEF ConfigAssumption
<1>3. \A i \in 1 .. n : g(i) \in PairType
  BY <1>1, <1>2 DEF PairType
<1>4. Replaced(ps, name, value) = [i \in 1 .. n |-> g(i)]
  BY DEF Replaced
<1> HIDE DEF n, g
<1>5. [i \in 1 .. n |-> g(i)] \in Seq(PairType)
  BY <1>1, <1>3, SeqDef
<1> QED
  BY <1>4, <1>5

\* The files of the user: what they mean is a table.
LEMMA FilePairs ==
  ASSUME FilesRead, NEW f \in Files
  PROVE  /\ f.text \in Seq(Items) /\ f.text # Missing
         /\ f.pairs \in Seq(PairType) /\ Pairs(f.text) = f.pairs
<1>1. f.text \in Seq(Items) /\ Missing \notin Seq(Items)
  BY ConfigAssumption DEF ConfigAssumption
<1>2. Pairs(f.text) = f.pairs
  BY DEF FilesRead
<1> QED
  BY <1>1, <1>2, PairsType

LEMMA KeepInit == FilesRead /\ ConfigInit => KeepInv
<1> SUFFICES ASSUME FilesRead, ConfigInit PROVE KeepInv
  OBVIOUS
<1>1. pc = "off" /\ conf = <<>> /\ setting = <<>>
  BY DEF ConfigInit
<1>2. Valid => sector[1] \in Seq(Items)
  <2>1. CASE sector = Erased
    BY <2>1, ErasedParts DEF Valid, HeaderPart
  <2>2. ASSUME NEW s \in Stored, sector = Image(s) PROVE sector[1] \in Seq(Items)
    BY <2>2, ImageParts, ConfigAssumption DEF ConfigAssumption
  <2> QED
    BY <2>1, <2>2 DEF ConfigInit
<1>3. CASE /\ text = Missing /\ wanted = IF Valid THEN Pairs(sector[1]) ELSE <<>>
           /\ trust = "whole"
  <2>1. wanted \in Seq(PairType)
    BY <1>2, <1>3, PairsType, NothingWritten
  <2>2. TextType
    BY <1>1, <1>2, <1>3, <2>1, NothingWritten DEF TextType
  <2>3. TrustWhole /\ TrustSector
    BY <1>1, <1>3 DEF TrustWhole, TrustSector, NoText, SectorSays
  <2> QED
    BY <2>2, <2>3 DEF KeepInv
<1>4. ASSUME NEW f \in Files, text = f.text, wanted = f.pairs, trust = "sector" PROVE KeepInv
  <2>1. /\ text \in Seq(Items) /\ text # Missing
        /\ wanted \in Seq(PairType) /\ Pairs(text) = wanted
    BY <1>4, FilePairs
  <2>2. TextType
    BY <1>1, <1>2, <1>4, <2>1, NothingWritten DEF TextType
  <2>3. FileSays \/ (NoText /\ wanted = <<>>)
    BY <2>1, NothingWritten DEF FileSays, NoText
  <2>4. TrustWhole /\ TrustSector
    BY <1>1, <1>4, <2>3 DEF TrustWhole, TrustSector
  <2> QED
    BY <2>2, <2>4 DEF KeepInv
<1> QED
  BY <1>3, <1>4 DEF ConfigInit

\* Steps that leave all of it as it is, but where oc is: not from or to a write or a set.
LEMMA KeepMoves ==
  ASSUME KeepInv, UNCHANGED <<text, sector, conf, wanted, setting, trust>>,
         pc \notin {"erase", "write", "save"}, pc' \notin {"erase", "write", "save"}
  PROVE  KeepInv'
BY DEF KeepInv, TextType, TrustWhole, TrustSector, FileSays, SectorSays, Valid, NoText, WritesIt

LEMMA KeepReads == KeepInv /\ ReadText => KeepInv'
<1> SUFFICES ASSUME KeepInv, ReadText PROVE KeepInv'
  OBVIOUS
<1>1. PICK t \in Read :
        /\ conf' = t
        /\ trust' = IF trust = "file" THEN trust ELSE IF t = text THEN "whole" ELSE "sector"
        /\ pc' = IF sector = Image(conf') THEN "idle" ELSE "erase"
  BY DEF ReadText
<1>2. /\ text # Missing /\ text # <<>> /\ text \in Seq(Items) /\ ~ NoText
      /\ UNCHANGED <<text, sector, wanted, setting>>
  BY DEF ReadText, Something, NoText, KeepInv, TextType
<1>3. t \in Seq(Items)
  <2>1. ASSUME NEW n \in 1 .. Len(text) PROVE SubSeq(text, 1, n) \in Seq(Items)
    <3>1. \A i \in 1 .. n : i \in 1 .. Len(text)
      BY <1>2, LenProperties
    <3> QED
      BY <1>2, <2>1, <3>1, SubSeqProperties, LenProperties
  <2> QED
    BY <1>2, <2>1 DEF Read
<1>4. TextType'
  BY <1>1, <1>2, <1>3 DEF KeepInv, TextType, Valid
<1>5. (NoText' <=> NoText) /\ (FileSays' <=> FileSays)
  BY <1>2 DEF NoText, FileSays
<1>6. trust # "file" => FileSays
  BY <1>2 DEF KeepInv, TextType, TrustWhole, TrustSector
<1>7. pc' # "save" /\ pc' # "write"
  BY <1>1
<1>8. trust' = "whole" => WritesIt'
  BY <1>1, <1>2, <1>5, <1>6 DEF WritesIt
<1>9. trust' = "whole" /\ pc' # "erase" => SectorSays'
  <2> SUFFICES ASSUME trust' = "whole", pc' # "erase" PROVE SectorSays'
    OBVIOUS
  <2>1. sector' = Image(t) /\ t = text /\ Pairs(text) = wanted /\ wanted' = wanted
    BY <1>1, <1>2, <1>6 DEF FileSays
  <2> QED
    BY <2>1, ImageParts DEF SectorSays, Valid, HeaderPart
<1>10. trust' = "sector" => FileSays'
  BY <1>1, <1>5, <1>6
<1>11. TrustWhole'
  BY <1>7, <1>8, <1>9 DEF TrustWhole, WritesIt
<1>12. TrustSector'
  BY <1>7, <1>10 DEF TrustSector
<1> QED
  BY <1>4, <1>11, <1>12 DEF KeepInv

LEMMA KeepErases == KeepInv /\ EraseSector => KeepInv'
<1> SUFFICES ASSUME KeepInv, EraseSector PROVE KeepInv'
  OBVIOUS
<1>1. ~ Valid'
  BY ErasedParts DEF EraseSector, Valid, HeaderPart
<1>2. pc = "erase" /\ pc' = "write" /\ UNCHANGED <<text, conf, wanted, setting, trust>>
  BY DEF EraseSector
<1> QED
  BY <1>1, <1>2 DEF KeepInv, TextType, TrustWhole, TrustSector, FileSays, WritesIt, NoText

\* The last part makes the sector the table of the text.
LEMMA WritesWhole ==
  ASSUME SectorInv, WritePart
  PROVE  (pc' = "idle" /\ sector' = Image(conf)) \/ (pc' = "write" /\ sector'[3] # Magic)
<1> DEFINE v == Image(conf)[part]
<1>1. pc = "write" /\ part \in Parts /\ Len(sector) = 3
      /\ pc' = (IF part = Len(sector) THEN "idle" ELSE "write")
      /\ sector' = [sector EXCEPT ![part] = v]
  BY DEF SectorInv, WrittenSoFar, WritePart, Place, ThreeParts
<1>2. /\ sector'[part] = v
      /\ \A i \in Parts \ {part} : sector'[i] = sector[i]
      /\ ThreeParts'
  BY <1>1, OnePart DEF SectorInv, ThreeParts
<1>3. CASE part # 3
  BY <1>1, <1>2, <1>3 DEF SectorInv, WrittenSoFar, Parts, HeaderPart
<1>4. CASE part = 3
  <2>1. sector'[1] = Image(conf)[1] /\ sector'[2] = Image(conf)[2] /\ sector'[3] = Image(conf)[3]
    BY <1>1, <1>2, <1>4 DEF SectorInv, WrittenSoFar, Parts
  <2> QED
    BY <2>1, <1>1, <1>2, <1>4, ImageParts DEF ThreeParts
<1> QED
  BY <1>3, <1>4

LEMMA KeepWrites == SectorInv /\ KeepInv /\ WritePart => KeepInv'
<1> SUFFICES ASSUME SectorInv, KeepInv, WritePart PROVE KeepInv'
  OBVIOUS
<1>1. pc = "write" /\ UNCHANGED <<text, conf, wanted, setting, trust>>
  BY DEF WritePart
<1>2. CASE pc' = "write" /\ sector'[3] # Magic
  <2>1. ~ Valid'
    BY <1>2 DEF Valid, HeaderPart
  <2> QED
    BY <1>1, <1>2, <2>1
    DEF KeepInv, TextType, TrustWhole, TrustSector, FileSays, WritesIt, NoText
<1>3. CASE pc' = "idle" /\ sector' = Image(conf)
  <2>1. sector'[1] = conf /\ Valid' /\ conf \in Seq(Items)
    BY <1>3, ImageParts DEF Valid, HeaderPart, KeepInv, TextType
  <2>2. TextType'
    BY <1>1, <2>1 DEF KeepInv, TextType
  <2>3. (NoText' <=> NoText) /\ (FileSays' <=> FileSays)
    BY <1>1 DEF NoText, FileSays
  <2>4. trust = "whole" => SectorSays'
    BY <1>1, <2>1 DEF KeepInv, TrustWhole, WritesIt, FileSays, SectorSays
  <2>5. TrustWhole' /\ TrustSector'
    BY <1>1, <1>3, <2>3, <2>4 DEF KeepInv, TrustWhole, TrustSector
  <2> QED
    BY <2>2, <2>5 DEF KeepInv
<1> QED
  BY <1>2, <1>3, WritesWhole

LEMMA KeepSets ==
  ASSUME KeepInv, NEW name \in Names, NEW value \in Values, SetOpen(name, value)
  PROVE  KeepInv'
<1> DEFINE ps == Pairs(sector[1])
           new == Replaced(ps, name, value)
<1>1. /\ pc = "idle" /\ Valid /\ text' = <<>> /\ conf' = Text(new)
      /\ setting' = Replaced(wanted, name, value) /\ pc' = "save"
      /\ trust' = (IF trust = "whole" THEN trust ELSE "file")
      /\ UNCHANGED <<sector, wanted>>
  BY DEF SetOpen
<1>2. sector[1] \in Seq(Items) /\ wanted \in Seq(PairType)
  BY <1>1 DEF KeepInv, TextType
<1>3. ps \in Seq(PairType)
  BY <1>2, PairsType
<1>4. new \in Seq(PairType) /\ setting' \in Seq(PairType)
  BY <1>1, <1>2, <1>3, ReplacedType
<1>5. Text(new) \in Seq(Items) /\ Pairs(Text(new)) = new
  BY <1>4, TextIsReadBack
<1>6. TextType'
  BY <1>1, <1>2, <1>4, <1>5, NothingWritten DEF KeepInv, TextType, Valid
<1>7. trust' = "whole" => SectorSays' /\ Pairs(conf') = setting'
  <2> SUFFICES ASSUME trust' = "whole" PROVE SectorSays' /\ Pairs(conf') = setting'
    OBVIOUS
  <2>1. SectorSays
    BY <1>1 DEF KeepInv, TrustWhole
  <2> QED
    BY <1>1, <1>5, <2>1 DEF SectorSays, Valid
<1>8. NoText' /\ trust' # "sector"
  BY <1>1 DEF NoText
<1> QED
  BY <1>1, <1>6, <1>7, <1>8 DEF KeepInv, TrustWhole, TrustSector

LEMMA KeepCloses == KeepInv /\ SetClose => KeepInv'
<1> SUFFICES ASSUME KeepInv, SetClose PROVE KeepInv'
  OBVIOUS
<1>1. /\ pc = "save" /\ pc' = "read" /\ setting' = <<>> /\ UNCHANGED <<sector, conf>>
      /\ conf \in Seq(Items) /\ conf # Missing /\ setting \in Seq(PairType)
  BY ConfigAssumption DEF SetClose, KeepInv, TextType, ConfigAssumption
<1>2. CASE text' = conf /\ wanted' = setting /\ trust' = IF trust = "whole" THEN "sector" ELSE trust
  <2>1. TextType'
    BY <1>1, <1>2, NothingWritten DEF KeepInv, TextType, Valid
  <2>2. trust' # "whole"
    BY <1>2
  <2>3. trust' = "sector" => FileSays' \/ (NoText' /\ wanted' = <<>>)
    <3> SUFFICES ASSUME trust' = "sector" PROVE FileSays' \/ (NoText' /\ wanted' = <<>>)
      OBVIOUS
    <3>1. trust = "whole"
      BY <1>1, <1>2 DEF KeepInv, TrustSector
    <3>2. Pairs(conf) = setting
      BY <1>1, <3>1 DEF KeepInv, TrustWhole
    <3> QED
      BY <1>1, <1>2, <3>2, NothingWritten DEF FileSays, NoText
  <2> QED
    BY <1>1, <2>1, <2>2, <2>3 DEF KeepInv, TrustWhole, TrustSector
<1>3. ASSUME NEW n \in 0 .. Len(conf) - 1, text' = SubSeq(conf, 1, n), trust' = "file",
             UNCHANGED wanted
      PROVE  KeepInv'
  <2>1. SubSeq(conf, 1, n) \in Seq(Items)
    <3>1. n \in Nat /\ \A i \in 1 .. n : i \in 1 .. Len(conf)
      BY <1>1, LenProperties
    <3> QED
      BY <1>1, <3>1, SubSeqProperties, LenProperties
  <2>2. TextType'
    BY <1>1, <1>3, <2>1, NothingWritten DEF KeepInv, TextType, Valid
  <2> QED
    BY <1>3, <2>2 DEF KeepInv, TrustWhole, TrustSector
<1> QED
  BY <1>2, <1>3 DEF SetClose

\* The sector is as it was, or without a header.
LEMMA LossLeaves ==
  ASSUME SectorInv, PowerLoss
  PROVE  sector' = sector \/ ~ Valid'
<1>1. CASE sector' = Erased \/ sector' = <<Torn, Torn, Torn>>
  BY <1>1, ErasedParts DEF Valid, HeaderPart
<1>2. CASE pc = "write" /\ sector' = [sector EXCEPT ![Place(part)] = Torn]
  <2>1. part \in Parts /\ sector[3] # Magic /\ Torn # Magic /\ ThreeParts
    BY <1>2, ConfigAssumption DEF SectorInv, WrittenSoFar, HeaderPart, ConfigAssumption
  <2>2. sector' = [sector EXCEPT ![part] = Torn]
    BY <1>2 DEF Place
  <2>3. sector'[3] # Magic
    BY <2>1, <2>2, OnePart DEF ThreeParts, Parts
  <2> QED
    BY <2>3 DEF Valid, HeaderPart
<1> QED
  BY <1>1, <1>2 DEF PowerLoss, Remains

LEMMA KeepLosesPower == SectorInv /\ KeepInv /\ PowerLoss => KeepInv'
<1> SUFFICES ASSUME SectorInv, KeepInv, PowerLoss PROVE KeepInv'
  OBVIOUS
<1>1. /\ pc' = "off" /\ conf' = <<>> /\ setting' = <<>> /\ UNCHANGED <<text, wanted>>
      /\ trust' = IF trust = "whole" /\ pc \in {"erase", "write"} THEN "sector" ELSE trust
  BY DEF PowerLoss
<1>2. (NoText' <=> NoText) /\ (FileSays' <=> FileSays)
  BY <1>1 DEF NoText, FileSays
<1>3. TextType'
  <2>1. CASE sector' = sector
    BY <1>1, <2>1, NothingWritten DEF KeepInv, TextType, Valid
  <2>2. CASE ~ Valid'
    BY <1>1, <2>2, NothingWritten DEF KeepInv, TextType
  <2> QED
    BY <2>1, <2>2, LossLeaves
<1>4. trust' = "whole" => pc \notin {"erase", "write"} /\ sector' = sector /\ trust = "whole"
  BY <1>1 DEF PowerLoss, Remains
<1>5. TrustWhole'
  BY <1>1, <1>2, <1>4 DEF KeepInv, TrustWhole, SectorSays, Valid
<1>6. TrustSector'
  BY <1>1, <1>2 DEF KeepInv, TrustWhole, TrustSector, WritesIt
<1> QED
  BY <1>3, <1>5, <1>6 DEF KeepInv

LEMMA KeepUpdates == KeepInv /\ UpdateFirmware => KeepInv'
<1> SUFFICES ASSUME KeepInv, UpdateFirmware PROVE KeepInv'
  OBVIOUS
<1>1. /\ pc = "off" /\ pc' = "off" /\ UNCHANGED <<text, conf, setting>>
      /\ wanted' = IF NoText THEN <<>> ELSE wanted
  BY DEF UpdateFirmware
<1>2. ~ Valid'
  BY ErasedParts DEF UpdateFirmware, Valid, HeaderPart
<1>3. (NoText' <=> NoText) /\ trust \in {"whole", "sector", "file"}
  BY <1>1 DEF NoText, KeepInv, TextType
<1>4. trust' = (IF trust = "file" THEN "file" ELSE IF NoText THEN "whole" ELSE "sector")
  BY <1>3 DEF UpdateFirmware
<1>5. TextType'
  BY <1>1, <1>2, <1>3, <1>4, NothingWritten DEF KeepInv, TextType
<1>6. trust' = "whole" => NoText' /\ wanted' = <<>>
  BY <1>1, <1>3, <1>4
<1>7. trust' = "sector" => FileSays'
  <2> SUFFICES ASSUME trust' = "sector" PROVE FileSays'
    OBVIOUS
  <2>1. ~ NoText /\ trust # "file"
    BY <1>4
  <2>2. FileSays
    BY <1>3, <2>1 DEF KeepInv, TrustWhole, TrustSector
  <2> QED
    BY <1>1, <1>3, <2>1, <2>2 DEF FileSays
<1>8. TrustWhole'
  BY <1>1, <1>2, <1>6 DEF TrustWhole
<1>9. TrustSector'
  BY <1>1, <1>7 DEF TrustSector
<1> QED
  BY <1>5, <1>8, <1>9 DEF KeepInv

LEMMA KeepEdits == FilesRead /\ KeepInv /\ EditFile => KeepInv'
<1> SUFFICES ASSUME FilesRead, KeepInv, EditFile PROVE KeepInv'
  OBVIOUS
<1>1. PICK f \in Files : text' = f.text /\ wanted' = f.pairs
  BY DEF EditFile
<1>2. pc' = "off" /\ trust' = "sector" /\ UNCHANGED <<sector, conf, setting>>
  BY DEF EditFile
<1>3. /\ text' \in Seq(Items) /\ text' # Missing
      /\ wanted' \in Seq(PairType) /\ Pairs(text') = wanted'
  BY <1>1, FilePairs
<1>4. TextType'
  BY <1>2, <1>3 DEF KeepInv, TextType, Valid
<1>5. FileSays' \/ (NoText' /\ wanted' = <<>>)
  BY <1>3, NothingWritten DEF FileSays, NoText
<1> QED
  BY <1>2, <1>4, <1>5 DEF KeepInv, TrustWhole, TrustSector

LEMMA KeepNext == FilesRead /\ SectorInv /\ KeepInv /\ [ConfigNext]_configVars => KeepInv'
<1> SUFFICES ASSUME FilesRead, SectorInv, KeepInv, [ConfigNext]_configVars PROVE KeepInv'
  OBVIOUS
<1>1. CASE PowerOn
  BY <1>1, KeepMoves DEF PowerOn
<1>2. CASE ReadNothing
  BY <1>2, KeepMoves DEF ReadNothing
<1>3. CASE ReadText
  BY <1>3, KeepReads
<1>4. CASE EraseSector
  BY <1>4, KeepErases
<1>5. CASE WritePart
  BY <1>5, KeepWrites
<1>6. ASSUME NEW name \in Names, NEW value \in Values, SetOpen(name, value) PROVE KeepInv'
  BY <1>6, KeepSets
<1>7. CASE SetClose
  BY <1>7, KeepCloses
<1>8. CASE PowerLoss
  BY <1>8, KeepLosesPower
<1>9. CASE UpdateFirmware
  BY <1>9, KeepUpdates
<1>10. CASE EditFile
  BY <1>10, KeepEdits
<1>11. CASE UNCHANGED configVars
  BY <1>11 DEF configVars, KeepInv, TextType, TrustWhole, TrustSector, FileSays, SectorSays,
               WritesIt, NoText, Valid, HeaderPart
<1> QED
  BY <1>1, <1>2, <1>3, <1>4, <1>5, <1>6, <1>7, <1>8, <1>9, <1>10, <1>11 DEF ConfigNext, ConfigStep

(* For any files that config_parse reads as they are meant: through edits,   *)
(* sets, updates of the firmware and losses of power anywhere, the settings  *)
(* written or set last are in the file or in the sector, also while          *)
(* config_set has the file open and empty.                                   *)
THEOREM SettingsKept == FilesRead => (ConfigSpec => []KeptSomewhere)
<1> SUFFICES ASSUME FilesRead PROVE ConfigSpec => []KeptSomewhere
  OBVIOUS
<1>1. ConfigInit => SectorInv /\ KeepInv
  BY InitEstablishes, KeepInit
<1>2. SectorInv /\ KeepInv /\ [ConfigNext]_configVars => (SectorInv /\ KeepInv)'
  BY NextKeeps, KeepNext
<1>3. SectorInv /\ KeepInv => KeptSomewhere
  <2> SUFFICES ASSUME KeepInv PROVE KeptSomewhere
    OBVIOUS
  <2>1. trust # "file" => FileSays \/ SectorSays \/ wanted = <<>>
    BY DEF KeepInv, TextType, TrustWhole, TrustSector, WritesIt
  <2> QED
    BY <2>1 DEF KeptSomewhere, FileSays, SectorSays
<1> QED
  BY <1>1, <1>2, <1>3, PTL DEF ConfigSpec

(* And when oc runs, config_get_string answers every one of them with its    *)
(* last value, unless a call to the card was cut short.                      *)
THEOREM SettingsInForce == FilesRead => (ConfigSpec => []InForce)
<1> SUFFICES ASSUME FilesRead PROVE ConfigSpec => []InForce
  OBVIOUS
<1>1. ConfigInit => SectorInv /\ KeepInv
  BY InitEstablishes, KeepInit
<1>2. SectorInv /\ KeepInv /\ [ConfigNext]_configVars => (SectorInv /\ KeepInv)'
  BY NextKeeps, KeepNext
<1>3. SectorInv /\ KeepInv => InForce
  <2> SUFFICES ASSUME SectorInv, KeepInv, pc = "idle", trust = "whole", NEW name \in Names
               PROVE  Get(name) = Answers(wanted)[name]
    BY DEF InForce
  <2>1. Answers(wanted)[name] = Lookup(wanted, Len(wanted), name)
    BY DEF Answers
  <2>2. CASE SectorSays
    <3>1. sector = Image(sector[1]) /\ Valid /\ Pairs(sector[1]) = wanted
      BY <2>2 DEF SectorInv, HeaderMeansWhole, SectorSays
    <3>2. sector[2] = Len(wanted)
      BY <3>1 DEF Image
    <3> QED
      BY <2>1, <3>1, <3>2 DEF Get
  <2>3. CASE ~ Valid /\ wanted = <<>>
    <3>1. Matches(wanted, Len(wanted), name) = {}
      BY <2>3 DEF Matches
    <3> QED
      BY <2>1, <2>3, <3>1 DEF Get, Lookup
  <2> QED
    BY <2>2, <2>3 DEF KeepInv, TrustWhole
<1> QED
  BY <1>1, <1>2, <1>3, PTL DEF ConfigSpec

(* Files of comments, blank lines and settings are read so.                  *)
COROLLARY WrittenFilesRead ==
  ASSUME \A f \in Files : WellWritten(f.text, f.pairs)
  PROVE  FilesRead
BY ReadsWhatIsWritten, ConfigAssumption DEF ConfigAssumption, FilesRead
-----------------------------------------------------------------------------
(* Rounding.                                                                 *)

LEMMA RoundedFacts ==
  ASSUME NEW u \in Nat \ {0}, NEW n \in Nat
  PROVE  /\ \E q \in Nat : Rounded(n, u) = q * u
         /\ Rounded(n, u) \in n .. n + u - 1
<1> DEFINE a == n + u - 1
           q == a \div u
           r == a % u
<1>1. q \in Int /\ r \in 0 .. u - 1 /\ a = q * u + r
  BY SMT
<1>2. Rounded(n, u) = q * u
  BY DEF Rounded
<1>3. q >= 0
  BY SMT
<1> HIDE DEF q, r
<1>4. q \in Nat /\ q * u \in Int
  BY <1>1, <1>3
<1> DEFINE p == q * u
<1>5. p \in Int /\ a = p + r
  BY <1>1, <1>4
<1>6. p \in n .. n + u - 1
  BY <1>1, <1>5
<1> QED
  BY <1>2, <1>4, <1>6

LEMMA RoundedIs ==
  ASSUME NEW u \in Nat \ {0}, NEW n \in Nat, NEW q \in Nat, q * u \in n .. n + u - 1
  PROVE  Rounded(n, u) = q * u
<1>1. PICK p \in Nat : Rounded(n, u) = p * u
  BY RoundedFacts
<1>2. p * u \in n .. n + u - 1
  BY <1>1, RoundedFacts
<1>3. (q + 1) * u = q * u + u /\ (p + 1) * u = p * u + u
  OBVIOUS
<1>4. p * u < (q + 1) * u /\ q * u < (p + 1) * u
  BY <1>2, <1>3
<1>5. p < q + 1 /\ q < p + 1
  BY <1>4, Factors
<1> QED
  BY <1>1, <1>5

LEMMA RoundedOrder ==
  ASSUME NEW u \in Nat \ {0}, NEW a \in Nat, NEW b \in Nat, a <= b
  PROVE  Rounded(a, u) <= Rounded(b, u)
<1>1. PICK p \in Nat : Rounded(a, u) = p * u
  BY RoundedFacts
<1>2. PICK q \in Nat : Rounded(b, u) = q * u
  BY RoundedFacts
<1>3. p * u < (q + 1) * u
  <2>1. (q + 1) * u = q * u + u
    OBVIOUS
  <2>2. p * u <= a + u - 1 /\ q * u >= b
    BY <1>1, <1>2, RoundedFacts
  <2> QED
    BY <2>1, <2>2
<1>4. p <= q
  BY <1>3, Factors
<1> QED
  BY <1>1, <1>2, <1>4, Factors

LEMMA RoundedBehind ==
  ASSUME NEW u \in Nat \ {0}, NEW m \in Nat, NEW n \in Nat
  PROVE  Rounded(m * u + n, u) = m * u + Rounded(n, u)
<1>1. PICK p \in Nat : Rounded(n, u) = p * u
  BY RoundedFacts
<1>2. (m + p) * u = m * u + p * u
  OBVIOUS
<1>3. m * u \in Nat /\ p * u \in n .. n + u - 1
  BY <1>1, RoundedFacts
<1>4. (m + p) * u \in m * u + n .. m * u + n + u - 1 /\ m * u + n \in Nat /\ m + p \in Nat
  BY <1>2, <1>3
<1> QED
  BY <1>1, <1>2, <1>4, RoundedIs

LEMMA RoundedMultiple ==
  ASSUME NEW u \in Nat \ {0}, NEW m \in Nat
  PROVE  Rounded(m * u, u) = m * u
<1>1. m * u \in Nat
  OBVIOUS
<1> QED
  BY <1>1, RoundedIs

\* What is a multiple of the larger unit is one of the smaller.
LEMMA MultiplesAgree ==
  ASSUME NEW w \in Nat \ {0}, NEW u \in Nat \ {0}, u % w = 0, NEW m \in Nat
  PROVE  Rounded(m * u, w) = m * u
<1>1. PICK k \in Nat : u = k * w
  <2>1. u = (u \div w) * w + (u % w) /\ u \div w \in Int
    BY SMT
  <2>2. u \div w >= 0
    BY SMT
  <2> QED
    BY <2>1, <2>2
<1>2. m * u = (m * k) * w /\ m * k \in Nat
  BY <1>1
<1> QED
  BY <1>2, RoundedMultiple

LEMMA RoundedTwice ==
  ASSUME NEW w \in Nat \ {0}, NEW u \in Nat \ {0}, u % w = 0, NEW n \in Nat
  PROVE  /\ Rounded(n, w) <= Rounded(n, u)
         /\ Rounded(Rounded(n, w), u) = Rounded(n, u)
<1>1. PICK p \in Nat : Rounded(n, u) = p * u
  BY RoundedFacts
<1>2. Rounded(n, w) \in n .. n + w - 1
  BY RoundedFacts
<1>3. p * u \in n .. n + u - 1
  BY <1>1, RoundedFacts
<1>4. Rounded(n, w) <= p * u
  <2>1. p * u \in Nat
    OBVIOUS
  <2>2. Rounded(p * u, w) = p * u
    BY MultiplesAgree
  <2> DEFINE b == p * u
  <2>3. b \in Nat /\ n <= b
    BY <1>3, <2>1
  <2> HIDE DEF b
  <2>4. Rounded(n, w) <= Rounded(b, w)
    BY <2>3, RoundedOrder
  <2> QED
    BY <2>2, <2>4 DEF b
<1> DEFINE r == Rounded(n, w)
<1> HIDE DEF r
<1>5. r \in Nat /\ p * u \in r .. r + u - 1
  BY <1>2, <1>3, <1>4 DEF r
<1>6. Rounded(r, u) = p * u
  BY <1>5, RoundedIs
<1> QED
  BY <1>1, <1>4, <1>6 DEF r
-----------------------------------------------------------------------------
(* A load.                                                                   *)

LEMMA Units ==
  /\ WordCells \in Nat \ {0} /\ SectorCells \in Nat \ {0} /\ BufSectors \in Nat \ {0}
  /\ NumSectors \in Nat \ {0} /\ Base \in Nat /\ SectorCells % WordCells = 0
  /\ Start \in Nat /\ Versions \subseteq Seq(Bytes) /\ Sizes \subseteq Nat
BY LoadAssumption DEF LoadAssumption, Start

\* Whole words and whole sectors.
LEMMA WordsUp ==
  ASSUME NEW n \in Nat
  PROVE  /\ Rounded(n, WordCells) \in Nat /\ Rounded(n, WordCells) >= n
         /\ Rounded(n, WordCells) <= Rounded(n, SectorCells)
         /\ \E q \in Nat : Rounded(n, SectorCells) = q * SectorCells
         /\ \E q \in Nat : Rounded(n, WordCells) = q * WordCells
<1>1. WordCells \in Nat \ {0} /\ SectorCells \in Nat \ {0} /\ SectorCells % WordCells = 0
  BY Units
<1>2. Rounded(n, WordCells) \in n .. n + WordCells - 1
  BY <1>1, RoundedFacts
<1>3. Rounded(n, WordCells) <= Rounded(n, SectorCells)
  BY <1>1, RoundedTwice
<1>4. \E q \in Nat : Rounded(n, SectorCells) = q * SectorCells
  BY <1>1, RoundedFacts
<1>5. \E q \in Nat : Rounded(n, WordCells) = q * WordCells
  BY <1>1, RoundedFacts
<1>6. Rounded(n, WordCells) \in Nat /\ Rounded(n, WordCells) >= n
  BY <1>1, <1>2
<1> QED
  BY <1>3, <1>4, <1>5, <1>6

LEMMA SectorsAreWords ==
  ASSUME NEW m \in Nat
  PROVE  Rounded(m * SectorCells, WordCells) = m * SectorCells
<1>1. WordCells \in Nat \ {0} /\ SectorCells \in Nat \ {0} /\ SectorCells % WordCells = 0
  BY Units
<1> QED
  BY <1>1, MultiplesAgree

Whole == BufSectors * SectorCells
Moved == asked - size
Origin == IF dest = "flash" THEN Start ELSE 0
OnBoundary == \E m \in Nat : Moved = m * SectorCells

\* The first n bytes of the file are where they are to go.
Brought(n) ==
  \A i \in 1 .. n : file[i] = IF dest = "flash" THEN cells[Start + i - 1] ELSE ram[i]

Types ==
  /\ file \in Versions /\ pos \in 0 .. Len(file) /\ (stage = "idle" => pos = 0)
  /\ asked \in Sizes \cup {0} /\ size \in Int /\ good \in BOOLEAN
  /\ stage \in {"idle", "turn", "erase", "write"} /\ dest \in {"flash", "ram", "memory"}
  /\ ram \in Seq(Bytes \cup {FF})

\* Between two turns: the next one begins on a sector and with the byte of the file
\* that belongs there, or there is none.
Turning ==
  stage = "turn" /\ dest # "memory" =>
    /\ addr = Origin + Moved
    /\ (OnBoundary /\ pos = Moved) \/ pos = Len(file) \/ (size <= 0 /\ (good => pos = asked))
    /\ good =>
         /\ pos <= asked /\ Moved = Rounded(pos, WordCells) /\ br = Moved
         /\ Brought(pos) /\ (dest = "ram" => Len(ram) = Moved)

Direct ==
  stage = "turn" /\ dest = "memory" => size = asked /\ br = 0 /\ (good => pos = 0)

\* What a turn that has read n bytes goes on with.
Piece(n) ==
  /\ n \in 1 .. Len(file) - Moved /\ n <= size
  /\ buf = Filled(SubSeq(file, Moved + 1, Moved + n))
  /\ (n = Whole /\ pos = Moved + n) \/ n = size \/ pos = Len(file)
  /\ good => pos = Moved + n /\ br = Moved + Len(buf)

\* While the sectors of a turn are erased, and when they are.
Changing ==
  stage \in {"erase", "write"} =>
    /\ dest = "flash" /\ addr = Start + Moved /\ OnBoundary /\ size > 0
    /\ \E n \in Nat : Piece(n)
    /\ good => Brought(Moved)
    /\ stage = "erase" =>
         /\ sec \in Nat /\ sec >= addr \div SectorCells
         /\ \A c \in Cells : c >= addr /\ c < sec * SectorCells => cells[c] = FF
    /\ stage = "write" =>
         \A c \in Cells : c >= addr /\ c < addr + Len(buf) => cells[c] = FF

LoadInv == Types /\ Turning /\ Direct /\ Changing /\ LoadedWhole

\* What is filled up to words.
LEMMA FilledFacts ==
  ASSUME NEW s \in Seq(Bytes)
  PROVE  /\ Filled(s) \in Seq(Bytes \cup {FF})
         /\ Len(Filled(s)) = Rounded(Len(s), WordCells)
         /\ \A i \in 1 .. Len(s) : Filled(s)[i] = s[i]
<1> DEFINE r == Rounded(Len(s), WordCells)
           t == [i \in 1 .. r - Len(s) |-> FF]
           B == Bytes \cup {FF}
<1>1. r \in Int /\ r >= Len(s)
  <2>1. Len(s) \in Nat
    OBVIOUS
  <2>2. Rounded(Len(s), WordCells) \in Nat /\ Rounded(Len(s), WordCells) >= Len(s)
    BY <2>1, WordsUp
  <2> QED
    BY <2>2
<1>2. s \in Seq(B) /\ Len(s) \in Nat
  OBVIOUS
<1>3. t \in Seq(B) /\ Len(t) = r - Len(s)
  <2>1. t \in [1 .. r - Len(s) -> B] /\ r - Len(s) \in Nat
    BY <1>1, <1>2
  <2> HIDE DEF t
  <2> QED
    BY <2>1
<1> HIDE DEF t, r
<1>4. /\ s \o t \in Seq(B) /\ Len(s \o t) = Len(s) + Len(t)
      /\ \A i \in 1 .. Len(s) + Len(t) : (s \o t)[i] = IF i <= Len(s) THEN s[i] ELSE t[i - Len(s)]
  <2> HIDE DEF B
  <2> QED
    BY <1>2, <1>3, ConcatProperties
<1>5. Filled(s) = s \o t
  BY DEF Filled, t, r
<1> QED
  BY <1>1, <1>2, <1>3, <1>4, <1>5 DEF r

\* Parts of a file.
LEMMA PartOfFile ==
  ASSUME NEW f \in Seq(Bytes), NEW a \in Nat, NEW n \in Nat, a + n <= Len(f)
  PROVE  /\ SubSeq(f, a + 1, a + n) \in Seq(Bytes)
         /\ Len(SubSeq(f, a + 1, a + n)) = n
         /\ \A i \in 1 .. n : SubSeq(f, a + 1, a + n)[i] = f[a + i]
         /\ \A k \in 1 .. n : SubSeq(SubSeq(f, a + 1, a + n), 1, k) = SubSeq(f, a + 1, a + k)
<1>1. \A i \in a + 1 .. a + n : f[i] \in Bytes
  OBVIOUS
<1>2. /\ SubSeq(f, a + 1, a + n) \in Seq(Bytes)
      /\ Len(SubSeq(f, a + 1, a + n)) = IF a + 1 <= a + n THEN a + n - (a + 1) + 1 ELSE 0
      /\ \A i \in 1 .. a + n - (a + 1) + 1 : SubSeq(f, a + 1, a + n)[i] = f[a + 1 + i - 1]
  BY <1>1, SubSeqProperties
<1>3. ASSUME NEW k \in 1 .. n
      PROVE  SubSeq(SubSeq(f, a + 1, a + n), 1, k) = SubSeq(f, a + 1, a + k)
  <2>1. /\ a + 1 \in 1 .. Len(f) /\ a + n \in 1 .. Len(f)
        /\ 1 \in 1 .. (a + n) - (a + 1) + 1 /\ k \in 1 .. (a + n) - (a + 1) + 1
    OBVIOUS
  <2>2. SubSeq(SubSeq(f, a + 1, a + n), 1, k) = SubSeq(f, (a + 1) + 1 - 1, (a + 1) + k - 1)
    BY <2>1, SubSeqOfSubSeq
  <2> QED
    BY <2>2
<1> QED
  BY <1>2, <1>3

LEMMA FileIs ==
  ASSUME Types
  PROVE  /\ file \in Seq(Bytes) /\ Len(file) \in Nat /\ asked \in Nat /\ pos \in Nat
         /\ Moved \in Int /\ Taken \in Nat /\ Whole \in Nat \ {0}
<1>1. file \in Seq(Bytes) /\ asked \in Nat
  BY Units DEF Types
<1>2. Len(file) \in Nat /\ pos \in Nat /\ size \in Int
  BY <1>1 DEF Types
<1>3. Whole \in Nat \ {0}
  BY Units DEF Whole
<1> QED
  BY <1>1, <1>2, <1>3 DEF Moved, Taken, Least

\* Quotients, and those of multiples.
LEMMA Divided ==
  ASSUME NEW u \in Nat \ {0}, NEW a \in Nat
  PROVE  a \div u \in Nat /\ (a \div u) * u <= a
<1> DEFINE q == a \div u
           t == a % u
<1>1. q \in Int /\ t \in 0 .. u - 1 /\ a = q * u + t
  BY SMT
<1>2. q >= 0
  BY SMT
<1> HIDE DEF q, t
<1>3. q \in Nat /\ q * u <= a
  <2> DEFINE p == q * u
  <2>1. p \in Int /\ a = p + t
    BY <1>1
  <2>2. p <= a
    BY <1>1, <2>1
  <2> QED
    BY <1>1, <1>2, <2>2
<1> QED
  BY <1>3 DEF q

LEMMA Quotient ==
  ASSUME NEW n \in Nat \ {0}, NEW k \in Nat
  PROVE  (k * n) \div n = k
<1> DEFINE q == (k * n) \div n
           t == (k * n) % n
<1>1. q \in Int /\ t \in 0 .. n - 1 /\ k * n = q * n + t
  BY SMT
<1> HIDE DEF q, t
<1>2. q * n <= k * n /\ k * n < (q + 1) * n
  <2>1. (q + 1) * n = q * n + n
    BY <1>1
  <2> QED
    BY <1>1, <2>1
<1>3. q <= k /\ k < q + 1
  BY <1>1, <1>2, Factors
<1> QED
  BY <1>1, <1>3 DEF q

\* The count behind a piece of n bytes, which begins on a sector.
LEMMA MovesOn ==
  ASSUME Types, OnBoundary, NEW n \in 1 .. Len(file) - Moved, n <= size,
         NEW g \in BOOLEAN, NEW p \in 0 .. Len(file),
         g => p = Moved + n,
         (n = Whole /\ p = Moved + n) \/ n = size \/ p = Len(file)
  PROVE  LET b == Rounded(n, WordCells) IN
         /\ Moved \in Nat /\ b \in Nat /\ b >= n
         /\ \/ (\E m \in Nat : Moved + b = m * SectorCells) /\ p = Moved + b
            \/ p = Len(file)
            \/ size - b <= 0 /\ (g => p = asked)
         /\ g => p <= asked /\ Moved + b = Rounded(p, WordCells)
<1> DEFINE b == Rounded(n, WordCells)
<1>1. PICK m \in Nat : Moved = m * SectorCells
  BY DEF OnBoundary
<1>2. Moved \in Nat /\ asked \in Nat /\ size \in Int /\ Len(file) \in Nat /\ n \in Nat
  <2>1. m * SectorCells \in Nat
    BY Units
  <2> QED
    BY <1>1, <2>1, FileIs DEF Types
<1>3. b \in Nat /\ b >= n
  BY <1>2, WordsUp
<1>4. Rounded(Moved + n, WordCells) = Moved + b
  <2>1. Rounded(Moved, WordCells) = Moved
    BY <1>1, SectorsAreWords
  <2>2. PICK k \in Nat : Moved = k * WordCells
    BY <1>2, <2>1, WordsUp
  <2> QED
    BY <1>2, <2>2, Units, RoundedBehind
<1>5. n = Whole => b = n /\ (m + BufSectors) * SectorCells = Moved + n
  <2>1. Rounded(BufSectors * SectorCells, WordCells) = BufSectors * SectorCells
    BY Units, SectorsAreWords
  <2>2. (m + BufSectors) * SectorCells = m * SectorCells + BufSectors * SectorCells
    BY Units
  <2> QED
    BY <1>1, <2>1, <2>2 DEF Whole
<1>6. n = Whole => \E k \in Nat : Moved + b = k * SectorCells
  <2>1. m + BufSectors \in Nat
    BY Units
  <2> QED
    BY <1>5, <2>1
<1>7. g => p <= asked /\ Moved + b = Rounded(p, WordCells)
  BY <1>2, <1>4 DEF Moved
<1>8. n = size => size - b <= 0 /\ (g => p = asked)
  BY <1>2, <1>3 DEF Moved
<1> HIDE DEF b
<1>9. \/ (\E k \in Nat : Moved + b = k * SectorCells) /\ p = Moved + b
      \/ p = Len(file)
      \/ size - b <= 0 /\ (g => p = asked)
  BY <1>5, <1>6, <1>8
<1> QED
  BY <1>2, <1>3, <1>7, <1>9 DEF b

\* What a turn reads.
LEMMA ReadsOn ==
  ASSUME LoadInv, LoadTurn
  PROVE  /\ OnBoundary /\ pos = Moved /\ addr = Origin + Moved /\ dest # "memory"
         /\ \E n \in 1 .. Len(file) - Moved :
              /\ n <= size /\ buf' = Filled(SubSeq(file, Moved + 1, Moved + n))
              /\ (n = Whole /\ pos' = Moved + n) \/ n = size \/ pos' = Len(file)
              /\ pos' \in 0 .. Len(file) /\ good' \in BOOLEAN
              /\ good' => good /\ pos' = Moved + n
<1>1. stage = "turn" /\ size > 0 /\ dest # "memory"
  BY DEF LoadTurn
<1>2. PICK n \in 1 .. Len(Wholly(Chunk)) :
        /\ FileRead(SubSeq(Wholly(Chunk), 1, n))
        /\ buf' = Filled(SubSeq(Wholly(Chunk), 1, n))
  BY DEF LoadTurn
<1>3. /\ file \in Seq(Bytes) /\ Len(file) \in Nat /\ pos \in 0 .. Len(file) /\ asked \in Nat
      /\ Whole \in Nat \ {0} /\ size \in Int /\ good \in BOOLEAN
  BY FileIs DEF LoadInv, Types
<1> DEFINE c == Chunk
           e == Least(pos + c, Len(file))
           l == e - pos
<1>4. c \in Nat /\ c >= 1 /\ c <= size /\ (c = size \/ c = Whole)
  BY <1>1, <1>3 DEF Chunk, Least, Whole
<1> HIDE DEF c
<1>5. e \in Nat /\ l \in Nat /\ l <= c /\ pos + l = e /\ e <= Len(file) /\ (l = c \/ pos + l = Len(file))
  BY <1>3, <1>4 DEF Least
<1>6. Wholly(Chunk) = SubSeq(file, pos + 1, pos + l)
  BY <1>5 DEF Wholly, c
<1> HIDE DEF e, l
<1>7. /\ Wholly(Chunk) \in Seq(Bytes) /\ Len(Wholly(Chunk)) = l
      /\ \A k \in 1 .. l : SubSeq(Wholly(Chunk), 1, k) = SubSeq(file, pos + 1, pos + k)
  <2> DEFINE w == SubSeq(file, pos + 1, pos + l)
  <2>1. file \in Seq(Bytes) /\ pos \in Nat /\ l \in Nat /\ pos + l <= Len(file)
    BY <1>3, <1>5
  <2>2. /\ w \in Seq(Bytes) /\ Len(w) = l
        /\ \A k \in 1 .. l : SubSeq(w, 1, k) = SubSeq(file, pos + 1, pos + k)
    BY <2>1, PartOfFile
  <2> HIDE DEF w
  <2> QED
    BY <1>6, <2>2 DEF w
<1>8. n \in 1 .. l
  BY <1>2, <1>7
<1> DEFINE s == SubSeq(file, pos + 1, pos + n)
<1>9. FileRead(s) /\ buf' = Filled(s)
  BY <1>2, <1>7, <1>8
<1>10. s \in Seq(Bytes) /\ Len(s) = n
  <2>1. pos \in Nat /\ n \in Nat /\ pos + n <= Len(file)
    BY <1>3, <1>5, <1>8
  <2>2. /\ SubSeq(file, pos + 1, pos + n) \in Seq(Bytes)
        /\ Len(SubSeq(file, pos + 1, pos + n)) = n
    BY <1>3, <2>1, PartOfFile
  <2> QED
    BY <2>2
<1> HIDE DEF s
<1>11. s # <<>>
  <2>1. Len(s) # 0
    BY <1>8, <1>10
  <2> QED
    BY <2>1
<1>12. \/ s = Wholly(Chunk) /\ pos' = pos + Len(s) /\ good' = good
       \/ pos' = Len(file) /\ good' = FALSE
  BY <1>9, <1>11 DEF FileRead
<1>13. OnBoundary /\ pos = Moved /\ addr = Origin + Moved
  BY <1>1, <1>3, <1>5, <1>8 DEF LoadInv, Turning
<1>14. /\ (n = Whole /\ pos' = pos + n) \/ n = size \/ pos' = Len(file)
       /\ pos' \in 0 .. Len(file) /\ good' \in BOOLEAN
       /\ good' => good /\ pos' = pos + n
  <2>1. CASE s = Wholly(Chunk) /\ pos' = pos + Len(s) /\ good' = good
    <3>1. n = l /\ pos' = pos + n
      BY <1>7, <1>10, <2>1
    <3>2. n = Whole \/ n = size \/ pos' = Len(file)
      BY <1>4, <1>5, <3>1
    <3>3. pos' \in 0 .. Len(file)
      BY <1>3, <1>5, <3>1
    <3>4. good' \in BOOLEAN /\ (good' => good)
      BY <1>3, <2>1
    <3>5. (n = Whole /\ pos' = pos + n) \/ n = size \/ pos' = Len(file)
      BY <3>1, <3>2
    <3>6. pos' = pos + n
      BY <3>1
    <3> QED
      BY <3>3, <3>4, <3>5, <3>6, Zenon
  <2>2. CASE pos' = Len(file) /\ good' = FALSE
    <3>1. pos' \in 0 .. Len(file)
      BY <1>3, <2>2
    <3> QED
      BY <2>2, <3>1, Zenon
  <2> QED
    BY <1>12, <2>1, <2>2
<1>15. n \in 1 .. Len(file) - pos /\ n <= size
  BY <1>3, <1>4, <1>5, <1>8
<1> QED
  BY <1>1, <1>9, <1>13, <1>14, <1>15 DEF s

\* Where the sectors of a piece are, and that they are the file's.
LEMMA PiecePlace ==
  ASSUME Types, OnBoundary, addr = Start + Moved, size > 0, NEW n \in Nat, Piece(n)
  PROVE  /\ Moved \in Nat /\ n \in Nat /\ n >= 1 /\ addr \in Nat
         /\ (addr \div SectorCells) \in Nat /\ (addr \div SectorCells) * SectorCells = addr
         /\ buf \in Seq(Bytes \cup {FF}) /\ Len(buf) = Rounded(n, WordCells)
         /\ \A i \in 1 .. n : buf[i] = file[Moved + i]
         /\ ToErase \in Nat /\ (ToErase \div SectorCells) \in Nat
         /\ (ToErase \div SectorCells) * SectorCells = ToErase
         /\ Len(buf) \in Nat /\ Len(buf) <= ToErase
         /\ Moved + n <= Taken
         /\ Start + Moved + ToErase <= Start + Rounded(Taken, SectorCells)
         /\ Start + Rounded(Taken, SectorCells) <= NumSectors * SectorCells
<1>1. PICK m \in Nat : Moved = m * SectorCells
  BY DEF OnBoundary
<1>2. Moved \in Nat /\ asked \in Nat /\ size \in Int /\ Len(file) \in Nat /\ file \in Seq(Bytes)
  <2>1. m * SectorCells \in Nat
    BY Units
  <2> QED
    BY <1>1, <2>1, FileIs DEF Types
<1>3. n >= 1 /\ n <= size /\ n <= Len(file) - Moved
  BY <1>2 DEF Piece
<1>4. addr \in Nat
  BY <1>2, Units
<1>5. (addr \div SectorCells) = Base + m /\ Base + m \in Nat
  <2>1. addr = (Base + m) * SectorCells
    <3>1. (Base + m) * SectorCells = Base * SectorCells + m * SectorCells
      BY Units
    <3> QED
      BY <1>1, <3>1 DEF Start
  <2>2. Base + m \in Nat
    BY Units
  <2> QED
    BY <2>1, <2>2, Units, Quotient
<1>6. (addr \div SectorCells) * SectorCells = addr
  <2>1. (Base + m) * SectorCells = Base * SectorCells + m * SectorCells
    BY Units
  <2> QED
    BY <1>1, <1>5, <2>1 DEF Start
<1>7. /\ SubSeq(file, Moved + 1, Moved + n) \in Seq(Bytes)
      /\ Len(SubSeq(file, Moved + 1, Moved + n)) = n
      /\ \A i \in 1 .. n : SubSeq(file, Moved + 1, Moved + n)[i] = file[Moved + i]
  <2>1. Moved + n <= Len(file)
    BY <1>2, <1>3
  <2> QED
    BY <1>2, <2>1, PartOfFile
<1> DEFINE s == SubSeq(file, Moved + 1, Moved + n)
<1>8. buf = Filled(s)
  BY DEF Piece
<1> HIDE DEF s
<1>9. /\ buf \in Seq(Bytes \cup {FF}) /\ Len(buf) = Rounded(n, WordCells)
      /\ \A i \in 1 .. n : buf[i] = s[i]
  <2>1. s \in Seq(Bytes) /\ Len(s) = n
    BY <1>7 DEF s
  <2> QED
    BY <1>8, <2>1, FilledFacts
<1>10. \A i \in 1 .. n : buf[i] = file[Moved + i]
  BY <1>7, <1>9 DEF s
<1>11. /\ Rounded(n, WordCells) \in Nat /\ Rounded(n, WordCells) <= Rounded(n, SectorCells)
       /\ \E q \in Nat : Rounded(n, SectorCells) = q * SectorCells
  BY WordsUp
<1>12. ToErase = Rounded(n, SectorCells)
  <2>1. Rounded(Rounded(n, WordCells), SectorCells) = Rounded(n, SectorCells)
    BY Units, RoundedTwice
  <2> QED
    BY <1>9, <2>1 DEF ToErase
<1>13. PICK q \in Nat : ToErase = q * SectorCells
  BY <1>11, <1>12
<1>14. (ToErase \div SectorCells) = q
  BY <1>13, Units, Quotient
<1>15. ToErase \in Nat
  <2>1. q * SectorCells \in Nat
    BY Units
  <2> QED
    BY <1>13, <2>1
<1>16. Moved + n <= Taken /\ Taken \in Nat
  BY <1>2, <1>3, FileIs DEF Taken, Least, Moved
<1>17. Moved + ToErase <= Rounded(Taken, SectorCells)
  <2>1. Rounded(m * SectorCells + n, SectorCells) = m * SectorCells + Rounded(n, SectorCells)
    BY Units, RoundedBehind
  <2>2. Moved + n \in Nat
    BY <1>2
  <2>3. Rounded(Moved + n, SectorCells) <= Rounded(Taken, SectorCells)
    BY <1>16, <2>2, Units, RoundedOrder
  <2> QED
    BY <1>1, <1>12, <2>1, <2>3
<1>18. Start + Rounded(Taken, SectorCells) <= NumSectors * SectorCells
  <2>1. asked \in Sizes
    BY <1>2, <1>3 DEF Types, Moved
  <2> QED
    BY <2>1, FitAssumption DEF FitAssumption, Taken, Types
<1>19. Start + Moved + ToErase <= Start + Rounded(Taken, SectorCells)
  <2>1. Rounded(Taken, SectorCells) \in Nat
    <3>1. \E k \in Nat : Rounded(Taken, SectorCells) = k * SectorCells
      BY <1>16, WordsUp
    <3>2. \A k \in Nat : k * SectorCells \in Nat
      BY Units
    <3> QED
      BY <3>1, <3>2
  <2> QED
    BY <1>2, <1>15, <1>17, <2>1, Units
<1>20. Len(buf) \in Nat /\ Len(buf) <= ToErase
  BY <1>9, <1>11, <1>12
<1> QED
  BY <1>2, <1>3, <1>4, <1>5, <1>6, <1>9, <1>10, <1>13, <1>14, <1>15, <1>16, <1>18, <1>19, <1>20

LEMMA CallKeeps ==
  ASSUME LoadInv, NEW n \in Sizes, NEW where \in {"flash", "ram", "memory"}, LoadCall(n, where)
  PROVE  LoadInv'
<1>1. /\ stage' = "turn" /\ dest' = where /\ size' = n /\ asked' = n /\ br' = 0 /\ ram' = <<>>
      /\ addr' = (IF where = "flash" THEN Start ELSE 0) /\ file' = file
      /\ (pos' = 0 /\ good' = TRUE) \/ (pos' = Len(file) /\ good' = FALSE)
  BY DEF LoadCall
<1>2. file \in Seq(Bytes) /\ Len(file) \in Nat /\ n \in Nat /\ Start \in Nat
  BY FileIs, Units DEF LoadInv
<1>3. pos' \in 0 .. Len(file) /\ good' \in BOOLEAN /\ (good' => pos' = 0)
  <2>1. CASE pos' = 0 /\ good' = TRUE
    BY <1>2, <2>1
  <2>2. CASE pos' = Len(file) /\ good' = FALSE
    <3>1. pos' \in 0 .. Len(file)
      BY <1>2, <2>2
    <3> QED
      BY <2>2, <3>1, Zenon
  <2> QED
    BY <1>1, <2>1, <2>2
<1>4. Types'
  <2>1. ram' \in Seq(Bytes \cup {FF})
    BY <1>1
  <2> QED
    BY <1>1, <1>2, <1>3, <2>1 DEF LoadInv, Types
<1>5. Moved' = 0 /\ addr' = Origin' + Moved' /\ Rounded(0, WordCells) = 0
  <2>1. Moved' = 0
    BY <1>1, <1>2 DEF Moved
  <2>2. addr' = Origin' + 0
    BY <1>1, <1>2 DEF Origin
  <2>3. Rounded(0 * WordCells, WordCells) = 0 * WordCells
    BY Units, RoundedMultiple
  <2>4. 0 * WordCells = 0
    BY Units
  <2> QED
    BY <2>1, <2>2, <2>3, <2>4
<1>6. OnBoundary'
  <2>1. 0 * SectorCells = 0
    BY Units
  <2> QED
    BY <1>5, <2>1 DEF OnBoundary
<1>7. Turning'
  <2>1. (OnBoundary' /\ pos' = Moved') \/ pos' = Len(file')
    BY <1>1, <1>5, <1>6
  <2>2. ASSUME good'
        PROVE  /\ pos' <= asked' /\ Moved' = Rounded(pos', WordCells) /\ br' = Moved'
               /\ Brought(pos)' /\ (dest' = "ram" => Len(ram') = Moved')
    <3>1. pos' = 0
      BY <1>3, <2>2
    <3>2. Brought(pos)'
      BY <3>1 DEF Brought
    <3> QED
      BY <1>1, <1>2, <1>5, <3>1, <3>2
  <2> QED
    BY <1>5, <2>1, <2>2 DEF Turning
<1>8. Direct'
  BY <1>1, <1>3 DEF Direct
<1>9. Changing' /\ LoadedWhole'
  BY <1>1 DEF Changing, LoadedWhole
<1> QED
  BY <1>4, <1>7, <1>8, <1>9 DEF LoadInv

\* A call that has returned.
LEMMA ReturnKeeps ==
  ASSUME LoadInv, stage' = "idle", pos' = 0, size' = 0, UNCHANGED <<file, dest, asked>>,
         good' \in BOOLEAN, ram' \in Seq(Bytes \cup {FF}), LoadedWhole'
  PROVE  LoadInv'
<1>1. Types'
  <2>1. 0 \in 0 .. Len(file)
    BY FileIs DEF LoadInv
  <2> QED
    BY <2>1 DEF LoadInv, Types
<1> QED
  BY <1>1 DEF LoadInv, Turning, Direct, Changing

LEMMA DoneKeeps == LoadInv /\ LoadDone => LoadInv'
<1> SUFFICES ASSUME LoadInv, LoadDone PROVE LoadInv'
  OBVIOUS
<1>1. /\ stage = "turn" /\ stage' = "idle" /\ pos' = 0 /\ size' = 0
      /\ UNCHANGED <<file, cells, ram, dest, br, asked>>
  BY DEF LoadDone, Return, Rest
<1>2. \/ size <= 0 /\ good' = good
      \/ size > 0 /\ dest # "memory" /\ good' = (good /\ pos = Len(file))
  BY DEF LoadDone, FileRead
<1>3. good \in BOOLEAN /\ good' \in BOOLEAN /\ ram \in Seq(Bytes \cup {FF})
  BY <1>2 DEF LoadInv, Types
<1>4. ASSUME good'
      PROVE  /\ br = IF dest = "memory" THEN Taken ELSE Rounded(Taken, WordCells)
             /\ Brought(Taken)
  <2>1. good /\ (size <= 0 \/ (dest # "memory" /\ pos = Len(file)))
    BY <1>2, <1>3, <1>4
  <2>2. pos \in 0 .. Len(file) /\ asked \in Nat /\ Len(file) \in Nat /\ size \in Int
    BY FileIs DEF LoadInv, Types
  <2>3. CASE dest = "memory"
    <3>1. Taken = 0 /\ br = 0
      BY <1>1, <2>1, <2>2, <2>3 DEF LoadInv, Direct, Taken, Least
    <3> QED
      BY <2>3, <3>1 DEF Brought
  <2>4. CASE dest # "memory"
    <3>1. /\ pos <= asked /\ Moved = Rounded(pos, WordCells) /\ br = Moved /\ Brought(pos)
          /\ (OnBoundary /\ pos = Moved) \/ pos = Len(file) \/ pos = asked
      BY <1>1, <2>1, <2>4 DEF LoadInv, Turning
    <3>2. pos = Taken
      BY <2>1, <2>2, <3>1 DEF Taken, Least, Moved
    <3> QED
      BY <2>4, <3>1, <3>2
  <2> QED
    BY <2>3, <2>4
<1>5. LoadedWhole'
  BY <1>1, <1>4 DEF LoadedWhole, Brought, Taken
<1> QED
  BY <1>1, <1>3, <1>5, ReturnKeeps

LEMMA DirectKeeps == LoadInv /\ LoadDirect => LoadInv'
<1> SUFFICES ASSUME LoadInv, LoadDirect PROVE LoadInv'
  OBVIOUS
<1>1. /\ stage = "turn" /\ dest = "memory" /\ stage' = "idle" /\ pos' = 0 /\ size' = 0
      /\ UNCHANGED <<file, cells, dest, asked>>
  BY DEF LoadDirect, Return, Rest
<1>2. PICK n \in 0 .. Len(Wholly(size)) :
        /\ ram' = SubSeq(Wholly(size), 1, n) /\ br' = n
        /\ \/ n = Len(Wholly(size)) /\ good' = good
           \/ ReadFails /\ good' = FALSE
  BY DEF LoadDirect
<1>3. /\ file \in Seq(Bytes) /\ Len(file) \in Nat /\ pos \in 0 .. Len(file) /\ asked \in Nat
      /\ size = asked /\ good \in BOOLEAN /\ (good => pos = 0)
  BY <1>1, FileIs DEF LoadInv, Types, Direct
<1> DEFINE l == Least(pos + size, Len(file)) - pos
<1>4. l \in Nat /\ pos + l <= Len(file) /\ (pos = 0 => l = Taken)
      /\ Least(pos + size, Len(file)) = pos + l
  BY <1>3 DEF Least, Taken
<1> HIDE DEF l
<1>5. Wholly(size) = SubSeq(file, pos + 1, pos + l)
  BY <1>4 DEF Wholly
<1>6. /\ Wholly(size) \in Seq(Bytes) /\ Len(Wholly(size)) = l
      /\ \A i \in 1 .. l : Wholly(size)[i] = file[pos + i]
  <2>1. pos \in Nat
    BY <1>3
  <2>2. /\ SubSeq(file, pos + 1, pos + l) \in Seq(Bytes)
        /\ Len(SubSeq(file, pos + 1, pos + l)) = l
        /\ \A i \in 1 .. l : SubSeq(file, pos + 1, pos + l)[i] = file[pos + i]
    BY <1>3, <1>4, <2>1, PartOfFile
  <2> QED
    BY <1>5, <2>2
<1> DEFINE w == Wholly(size)
<1> HIDE DEF w
<1>7. /\ SubSeq(w, 0 + 1, 0 + n) \in Seq(Bytes) /\ Len(SubSeq(w, 0 + 1, 0 + n)) = n
      /\ \A i \in 1 .. n : SubSeq(w, 0 + 1, 0 + n)[i] = w[0 + i]
  <2>1. w \in Seq(Bytes) /\ 0 \in Nat /\ n \in Nat /\ 0 + n <= Len(w)
    BY <1>2, <1>6 DEF w
  <2> QED
    BY <2>1, PartOfFile
<1>8. ram' \in Seq(Bytes) /\ \A i \in 1 .. n : ram'[i] = file[pos + i]
  <2>1. 0 + 1 = 1 /\ 0 + n = n
    BY <1>2, <1>6
  <2>2. ram' = SubSeq(w, 0 + 1, 0 + n)
    BY <1>2, <2>1 DEF w
  <2>3. \A i \in 1 .. n : w[0 + i] = file[pos + i]
    BY <1>2, <1>6 DEF w
  <2> QED
    BY <1>7, <2>2, <2>3
<1>9. ram' \in Seq(Bytes \cup {FF}) /\ good' \in BOOLEAN
  <2>1. ram' \in Seq(Bytes \cup {FF})
    BY <1>8
  <2>2. good' \in BOOLEAN
    BY <1>2, <1>3
  <2> QED
    BY <2>1, <2>2
<1>10. LoadedWhole'
  <2> SUFFICES ASSUME good'
               PROVE  br' = Taken /\ \A i \in 1 .. Taken : file[i] = ram'[i]
    BY <1>1 DEF LoadedWhole, Taken
  <2>1. n = l /\ pos = 0
    BY <1>2, <1>3, <1>6
  <2> QED
    BY <1>2, <1>4, <1>8, <2>1
<1> QED
  BY <1>1, <1>9, <1>10, ReturnKeeps

LEMMA AroundKeeps == LoadInv /\ (LoadCut \/ UpdateOc \/ NewFile \/ UNCHANGED loadVars) => LoadInv'
<1> SUFFICES ASSUME LoadInv, LoadCut \/ UpdateOc \/ NewFile \/ UNCHANGED loadVars PROVE LoadInv'
  OBVIOUS
<1>1. CASE LoadCut
  <2>1. ram' \in Seq(Bytes \cup {FF})
    BY <1>1 DEF LoadCut
  <2> QED
    BY <1>1, <2>1, ReturnKeeps DEF LoadCut, Rest, LoadedWhole
<1>2. CASE UpdateOc
  BY <1>2 DEF UpdateOc, LoadInv, Types, Turning, Direct, Changing, LoadedWhole
<1>3. CASE NewFile
  <2>1. file' \in Versions /\ 0 \in 0 .. Len(file') /\ pos = 0
    BY <1>3, Units DEF NewFile, LoadInv, Types
  <2> QED
    BY <1>3, <2>1 DEF NewFile, LoadInv, Types, Turning, Direct, Changing, LoadedWhole
<1>4. CASE UNCHANGED loadVars
  BY <1>4 DEF loadVars, LoadInv, Types, Turning, Direct, Changing, LoadedWhole, Moved, Origin,
     OnBoundary, Brought, Piece, Taken
<1> QED
  BY <1>1, <1>2, <1>3, <1>4

LEMMA TurnKeeps == LoadInv /\ LoadTurn => LoadInv'
<1> SUFFICES ASSUME LoadInv, LoadTurn PROVE LoadInv'
  OBVIOUS
<1>1. OnBoundary /\ pos = Moved /\ addr = Origin + Moved /\ dest # "memory"
  BY ReadsOn
<1>2. PICK n \in 1 .. Len(file) - Moved :
        /\ n <= size /\ buf' = Filled(SubSeq(file, Moved + 1, Moved + n))
        /\ (n = Whole /\ pos' = Moved + n) \/ n = size \/ pos' = Len(file)
        /\ pos' \in 0 .. Len(file) /\ good' \in BOOLEAN
        /\ good' => good /\ pos' = Moved + n
  BY ReadsOn
<1>3. /\ stage = "turn" /\ size > 0 /\ br' = br + Len(buf')
      /\ UNCHANGED <<file, cells, dest, asked>>
      /\ \/ dest = "ram" /\ ram' = ram \o buf' /\ Advance(Len(buf'))
         \/ dest = "flash" /\ ram' = ram /\ Same(buf') /\ Advance(Len(buf'))
         \/ /\ dest = "flash" /\ ram' = ram /\ stage' = "erase"
            /\ sec' = addr \div SectorCells /\ UNCHANGED <<addr, size>>
  BY DEF LoadTurn
<1>4. Types /\ file \in Seq(Bytes) /\ Len(file) \in Nat /\ asked \in Nat /\ size \in Int
  BY FileIs DEF LoadInv, Types
<1> DEFINE b == Rounded(n, WordCells)
<1>5. /\ Moved \in Nat /\ b \in Nat /\ b >= n
      /\ \/ (\E m \in Nat : Moved + b = m * SectorCells) /\ pos' = Moved + b
         \/ pos' = Len(file)
         \/ size - b <= 0 /\ (good' => pos' = asked)
      /\ good' => pos' <= asked /\ Moved + b = Rounded(pos', WordCells)
  BY <1>1, <1>2, <1>4, MovesOn
<1> HIDE DEF b
<1>6. /\ buf' \in Seq(Bytes \cup {FF}) /\ Len(buf') = b
      /\ \A i \in 1 .. n : buf'[i] = file[Moved + i]
  <2>1. n \in Nat /\ Moved + n <= Len(file)
    BY <1>2, <1>4, <1>5
  <2> DEFINE t == SubSeq(file, Moved + 1, Moved + n)
  <2>2. t \in Seq(Bytes) /\ Len(t) = n /\ \A i \in 1 .. n : t[i] = file[Moved + i]
    BY <1>4, <1>5, <2>1, PartOfFile
  <2>3. buf' = Filled(t)
    BY <1>2
  <2> HIDE DEF t
  <2>4. /\ Filled(t) \in Seq(Bytes \cup {FF}) /\ Len(Filled(t)) = b
        /\ \A i \in 1 .. n : Filled(t)[i] = t[i]
    BY <2>2, FilledFacts DEF b
  <2> QED
    BY <2>2, <2>3, <2>4
<1>7. good => br = Moved /\ Brought(Moved) /\ (dest = "ram" => Len(ram) = Moved)
  BY <1>1, <1>3 DEF LoadInv, Turning
<1>8. Direct'
  BY <1>1, <1>3 DEF Direct
<1>9. ASSUME Advance(Len(buf')), ram' \in Seq(Bytes \cup {FF}),
             good' => Brought(pos)' /\ (dest = "ram" => Len(ram') = Moved + b)
      PROVE  LoadInv'
  <2>1. stage' = "turn" /\ size' = size - b /\ addr' = addr + b
    BY <1>6, <1>9 DEF Advance, Left
  <2>2. Moved' = Moved + b /\ Origin' = Origin /\ size' \in Int
    BY <1>3, <1>4, <1>5, <2>1 DEF Moved, Origin
  <2>3. Types'
    BY <1>2, <1>3, <1>4, <1>9, <2>1, <2>2 DEF Types
  <2>4. addr' = Origin' + Moved'
    BY <1>1, <1>5, <2>1, <2>2, Units DEF Origin
  <2>5. (OnBoundary' /\ pos' = Moved') \/ pos' = Len(file)' \/ (size' <= 0 /\ (good' => pos' = asked'))
    BY <1>3, <1>5, <2>1, <2>2 DEF OnBoundary
  <2>6. ASSUME good'
        PROVE  /\ pos' <= asked' /\ Moved' = Rounded(pos', WordCells) /\ br' = Moved'
               /\ Brought(pos)' /\ (dest' = "ram" => Len(ram') = Moved')
    <3>1. br = Moved
      BY <1>2, <1>7, <2>6
    <3>2. br' = Moved'
      BY <1>3, <1>6, <2>2, <3>1
    <3> QED
      BY <1>3, <1>5, <1>9, <2>2, <2>6, <3>2
  <2>7. Turning'
    BY <2>4, <2>5, <2>6 DEF Turning
  <2>8. Changing' /\ LoadedWhole'
    BY <2>1 DEF Changing, LoadedWhole
  <2> QED
    BY <1>8, <2>3, <2>7, <2>8 DEF LoadInv
<1>10. CASE dest = "ram" /\ ram' = ram \o buf' /\ Advance(Len(buf'))
  <2>1. /\ ram' \in Seq(Bytes \cup {FF}) /\ Len(ram') = Len(ram) + b
        /\ \A i \in 1 .. Len(ram) + b : ram'[i] = IF i <= Len(ram) THEN ram[i] ELSE buf'[i - Len(ram)]
    <3> DEFINE B == Bytes \cup {FF}
    <3>1. ram \in Seq(B) /\ buf' \in Seq(B)
      BY <1>4, <1>6 DEF Types
    <3> HIDE DEF B
    <3>2. /\ ram \o buf' \in Seq(B) /\ Len(ram \o buf') = Len(ram) + Len(buf')
          /\ \A i \in 1 .. Len(ram) + Len(buf') :
               (ram \o buf')[i] = IF i <= Len(ram) THEN ram[i] ELSE buf'[i - Len(ram)]
      BY <3>1, ConcatProperties
    <3> QED
      BY <1>6, <1>10, <3>2 DEF B
  <2>2. ASSUME good' PROVE Brought(pos)' /\ Len(ram') = Moved + b
    <3>1. Len(ram) = Moved /\ pos' = Moved + n
      BY <1>2, <1>7, <1>10, <2>2
    <3>2. ASSUME NEW i \in 1 .. Moved + n PROVE file[i] = ram'[i]
      <4>1. CASE i <= Moved
        <5>1. file[i] = ram[i]
          BY <1>2, <1>5, <1>7, <1>10, <2>2, <4>1 DEF Brought
        <5>2. i \in 1 .. Len(ram) + b
          BY <1>2, <1>4, <1>5, <3>1, <4>1
        <5> QED
          BY <2>1, <3>1, <4>1, <5>1, <5>2
      <4>2. CASE i > Moved
        <5>1. i - Moved \in 1 .. n /\ i \in 1 .. Len(ram) + b /\ Moved + (i - Moved) = i
          BY <1>2, <1>4, <1>5, <3>1, <4>2
        <5>2. buf'[i - Moved] = file[i]
          BY <1>6, <5>1
        <5>3. ram'[i] = buf'[i - Moved]
          BY <1>5, <2>1, <3>1, <4>2, <5>1
        <5> QED
          BY <5>2, <5>3
      <4> QED
        BY <1>5, <4>1, <4>2
    <3> QED
      BY <1>3, <1>10, <2>1, <3>1, <3>2 DEF Brought
  <2> QED
    BY <1>9, <1>10, <2>1, <2>2
<1>11. CASE dest = "flash" /\ ram' = ram /\ Same(buf') /\ Advance(Len(buf'))
  <2>1. ASSUME good' PROVE Brought(pos)'
    <3>1. pos' = Moved + n /\ addr = Start + Moved
      BY <1>1, <1>2, <1>11, <2>1 DEF Origin
    <3>2. ASSUME NEW i \in 1 .. Moved + n PROVE file[i] = cells[Start + i - 1]
      <4>1. CASE i <= Moved
        BY <1>2, <1>5, <1>7, <1>11, <2>1, <4>1 DEF Brought
      <4>2. CASE i > Moved
        <5>1. /\ i - Moved \in 1 .. n /\ i - Moved \in 1 .. b /\ Moved + (i - Moved) = i
              /\ addr + (i - Moved) - 1 = Start + i - 1
          BY <1>2, <1>4, <1>5, <3>1, <4>2, Units
        <5>2. buf'[i - Moved] = file[i]
          BY <1>6, <5>1
        <5>3. cells[addr + (i - Moved) - 1] = buf'[i - Moved]
          BY <1>6, <1>11, <5>1 DEF Same
        <5> QED
          BY <5>1, <5>2, <5>3
      <4> QED
        BY <1>5, <4>1, <4>2
    <3> QED
      BY <1>3, <1>11, <3>1, <3>2 DEF Brought
  <2> QED
    BY <1>4, <1>9, <1>11, <2>1 DEF Types
<1>12. CASE /\ dest = "flash" /\ ram' = ram /\ stage' = "erase"
            /\ sec' = addr \div SectorCells /\ UNCHANGED <<addr, size>>
  <2>1. Moved' = Moved /\ OnBoundary' /\ addr' = Start + Moved'
    BY <1>1, <1>3, <1>12 DEF Moved, OnBoundary, Origin
  <2>2. Types'
    BY <1>2, <1>3, <1>4, <1>12 DEF Types
  <2>3. Piece(n)'
    <3>1. Len(file)' = Len(file) /\ size' = size
      BY <1>3, <1>12
    <3>2. good' => br' = Moved + Len(buf')
      BY <1>2, <1>3, <1>7
    <3> QED
      BY <1>2, <1>3, <2>1, <3>1, <3>2 DEF Piece
  <2>4. good' => Brought(Moved)'
    BY <1>2, <1>3, <1>7, <1>12, <2>1 DEF Brought
  <2>5. sec' \in Nat /\ sec' >= addr' \div SectorCells /\ sec' * SectorCells <= addr'
    <3>1. addr \in Nat
      BY <1>1, <1>5, Units DEF Origin
    <3>2. addr \div SectorCells \in Nat /\ (addr \div SectorCells) * SectorCells <= addr
      <4>1. SectorCells \in Nat \ {0}
        BY Units
      <4> QED
        BY <3>1, <4>1, Divided, Zenon
    <3> QED
      BY <1>12, <3>2
  <2>6. n \in Nat
    BY <1>2, <1>4, <1>5
  <2>7. Changing'
    <3>1. ASSUME NEW c \in Cells, c >= addr', c < sec' * SectorCells PROVE FALSE
      <4> DEFINE e == sec' * SectorCells
      <4>1. addr' \in Int /\ e \in Int /\ e <= addr' /\ c < e
        BY <1>1, <1>5, <1>12, <2>5, <3>1, Units DEF Origin
      <4>2. c \in Int
        BY Units DEF Cells
      <4> HIDE DEF e
      <4> QED
        BY <3>1, <4>1, <4>2
    <3>2. \E k \in Nat : Piece(k)'
      BY <2>3, <2>6
    <3> QED
      BY <1>3, <1>12, <2>1, <2>4, <2>5, <3>1, <3>2 DEF Changing
  <2>8. Turning' /\ LoadedWhole'
    BY <1>12 DEF Turning, LoadedWhole
  <2> QED
    BY <1>8, <2>2, <2>7, <2>8 DEF LoadInv
<1> QED
  BY <1>3, <1>10, <1>11, <1>12

LEMMA LoadEraseKeeps == LoadInv /\ LoadErase => LoadInv'
<1> SUFFICES ASSUME LoadInv, LoadErase PROVE LoadInv'
  OBVIOUS
<1>1. /\ stage = "erase"
      /\ UNCHANGED <<file, ram, dest, addr, size, br, pos, buf, asked, good>>
  BY DEF LoadErase
<1>2. /\ dest = "flash" /\ addr = Start + Moved /\ OnBoundary /\ size > 0
      /\ (good => Brought(Moved)) /\ sec \in Nat /\ sec >= addr \div SectorCells
      /\ \A c \in Cells : c >= addr /\ c < sec * SectorCells => cells[c] = FF
  BY <1>1 DEF LoadInv, Changing
<1>3. PICK n \in Nat : Piece(n)
  BY <1>1 DEF LoadInv, Changing
<1>4. Types
  BY DEF LoadInv
<1>5. Piece(n)' /\ Moved' = Moved /\ OnBoundary' /\ addr' = Start + Moved'
  BY <1>1, <1>2, <1>3 DEF Piece, Moved, OnBoundary
<1> DEFINE d == addr \div SectorCells
           q == ToErase \div SectorCells
<1>6. /\ Moved \in Nat /\ n >= 1 /\ addr \in Nat /\ d \in Nat /\ d * SectorCells = addr
      /\ q \in Nat /\ q * SectorCells = ToErase /\ Len(buf) \in Nat /\ Len(buf) <= ToErase
      /\ ToErase \in Nat /\ Moved + n <= Taken
      /\ Start + Moved + ToErase <= NumSectors * SectorCells
  <2>1. /\ Start + Moved + ToErase <= Start + Rounded(Taken, SectorCells)
        /\ Start + Rounded(Taken, SectorCells) <= NumSectors * SectorCells
        /\ Moved \in Nat /\ ToErase \in Nat /\ Taken \in Nat
    BY <1>2, <1>3, <1>4, PiecePlace, FileIs
  <2>2. Rounded(Taken, SectorCells) \in Int
    BY <2>1, WordsUp, Units
  <2>3. Start + Moved + ToErase <= NumSectors * SectorCells
    BY <2>1, <2>2, Units
  <2> QED
    BY <1>2, <1>3, <1>4, <2>3, PiecePlace
<1>7. CASE sec < d + q
  <2>1. /\ stage' = "erase" /\ sec' = sec + 1
        /\ cells' = [c \in Cells |-> IF c \in CellsOf(sec) THEN FF ELSE cells[c]]
    BY <1>1, <1>7 DEF LoadErase
  <2>2. /\ sec * SectorCells \in Nat /\ sec * SectorCells >= addr
        /\ (sec + 1) * SectorCells = sec * SectorCells + SectorCells
    <3>1. d * SectorCells <= sec * SectorCells
      BY <1>2, <1>6, Units, Factors
    <3>2. sec * SectorCells \in Nat /\ (sec + 1) * SectorCells = sec * SectorCells + SectorCells
      BY <1>2, Units
    <3> QED
      BY <1>6, <3>1, <3>2
  <2>3. ASSUME NEW c \in Cells, c >= addr', c < sec' * SectorCells PROVE cells'[c] = FF
    <3>1. CASE c \in CellsOf(sec)
      BY <2>1, <3>1
    <3>2. CASE c \notin CellsOf(sec)
      <4>1. c < sec * SectorCells
        BY <2>1, <2>2, <2>3, <3>2, Units DEF CellsOf, Cells
      <4>2. cells[c] = FF
        BY <1>1, <1>2, <2>3, <4>1
      <4> QED
        BY <2>1, <3>2, <4>2
    <3> QED
      BY <3>1, <3>2
  <2>4. good' => Brought(Moved)'
    <3> SUFFICES ASSUME good', NEW i \in 1 .. Moved PROVE file[i] = cells'[Start + i - 1]
      BY <1>1, <1>2, <1>5 DEF Brought
    <3>1. Start + i - 1 \in Cells /\ Start + i - 1 < addr
      BY <1>2, <1>6, Units DEF Cells
    <3>2. Start + i - 1 \notin CellsOf(sec)
      BY <2>2, <3>1, <1>6, Units DEF CellsOf, Cells
    <3>3. file[i] = cells[Start + i - 1]
      BY <1>1, <1>2 DEF Brought
    <3> QED
      BY <2>1, <3>1, <3>2, <3>3
  <2>5. Types'
    BY <1>1, <1>4, <2>1 DEF Types
  <2>6. sec' \in Nat /\ sec' >= addr' \div SectorCells
    BY <1>1, <1>2, <1>6, <2>1
  <2>7. Changing'
    <3>1. \E k \in Nat : Piece(k)'
      BY <1>5
    <3> QED
      BY <1>1, <1>2, <1>5, <2>1, <2>3, <2>4, <2>6, <3>1 DEF Changing
  <2>8. Turning' /\ Direct' /\ LoadedWhole'
    BY <2>1 DEF Turning, Direct, LoadedWhole
  <2> QED
    BY <2>5, <2>7, <2>8 DEF LoadInv
<1>8. CASE ~ (sec < d + q)
  <2>1. stage' = "write" /\ UNCHANGED <<cells, sec>>
    BY <1>1, <1>8 DEF LoadErase
  <2>2. addr + ToErase <= sec * SectorCells
    <3>1. d + q <= sec /\ d + q \in Int
      BY <1>2, <1>6, <1>8
    <3>2. (d + q) * SectorCells <= sec * SectorCells
      <4> HIDE DEF d, q
      <4> QED
        BY <1>2, <3>1, Units, Factors
    <3>3. (d + q) * SectorCells = d * SectorCells + q * SectorCells
      <4> HIDE DEF d, q
      <4> QED
        BY <1>6, Units
    <3> QED
      BY <1>6, <3>2, <3>3
  <2>3. ASSUME NEW c \in Cells, c >= addr', c < addr' + Len(buf') PROVE cells'[c] = FF
    <3>1. c < sec * SectorCells
      <4>1. sec * SectorCells \in Int
        BY <1>2, Units
      <4> QED
        BY <1>1, <1>6, <2>2, <2>3, <4>1, Units DEF Cells
    <3> QED
      BY <1>1, <1>2, <2>1, <2>3, <3>1
  <2>4. good' => Brought(Moved)'
    BY <1>1, <1>2, <1>5, <2>1 DEF Brought
  <2>5. Types'
    BY <1>1, <1>4, <2>1 DEF Types
  <2>6. Changing'
    <3>1. \E k \in Nat : Piece(k)'
      BY <1>5
    <3> QED
      BY <1>1, <1>2, <1>5, <2>1, <2>3, <2>4, <3>1 DEF Changing
  <2>7. Turning' /\ Direct' /\ LoadedWhole'
    BY <2>1 DEF Turning, Direct, LoadedWhole
  <2> QED
    BY <2>5, <2>6, <2>7 DEF LoadInv
<1> QED
  BY <1>7, <1>8

LEMMA LoadWriteKeeps == LoadInv /\ LoadWrite => LoadInv'
<1> SUFFICES ASSUME LoadInv, LoadWrite PROVE LoadInv'
  OBVIOUS
<1>1. /\ stage = "write" /\ cells' = Written(Len(buf)) /\ Advance(Len(buf))
      /\ UNCHANGED <<file, ram, dest, br, pos, buf, sec, asked, good>>
  BY DEF LoadWrite
<1>2. /\ dest = "flash" /\ addr = Start + Moved /\ OnBoundary /\ size > 0
      /\ (good => Brought(Moved))
      /\ \A c \in Cells : c >= addr /\ c < addr + Len(buf) => cells[c] = FF
  BY <1>1 DEF LoadInv, Changing
<1>3. PICK n \in Nat : Piece(n)
  BY <1>1 DEF LoadInv, Changing
<1>4. Types /\ asked \in Nat /\ size \in Int /\ good \in BOOLEAN /\ pos \in 0 .. Len(file)
  BY FileIs DEF LoadInv, Types
<1> DEFINE b == Rounded(n, WordCells)
<1>5. /\ Moved \in Nat /\ n >= 1 /\ addr \in Nat /\ Len(buf) = b
      /\ \A i \in 1 .. n : buf[i] = file[Moved + i]
      /\ addr + b <= NumSectors * SectorCells
  <2>1. /\ Start + Moved + ToErase <= Start + Rounded(Taken, SectorCells)
        /\ Start + Rounded(Taken, SectorCells) <= NumSectors * SectorCells
        /\ Moved \in Nat /\ ToErase \in Nat /\ Taken \in Nat /\ Len(buf) \in Nat
        /\ Len(buf) <= ToErase /\ Len(buf) = b
    BY <1>2, <1>3, <1>4, PiecePlace, FileIs
  <2> HIDE DEF b
  <2>2. Rounded(Taken, SectorCells) \in Int
    BY <2>1, WordsUp, Units
  <2>3. addr + b <= NumSectors * SectorCells
    BY <1>2, <2>1, <2>2, Units
  <2> QED
    BY <1>2, <1>3, <1>4, <2>1, <2>3, PiecePlace
<1>6. /\ n \in 1 .. Len(file) - Moved /\ n <= size
      /\ (n = Whole /\ pos = Moved + n) \/ n = size \/ pos = Len(file)
      /\ good => pos = Moved + n /\ br = Moved + Len(buf)
  BY <1>3 DEF Piece
<1>7. /\ Moved \in Nat /\ b \in Nat /\ b >= n
      /\ \/ (\E m \in Nat : Moved + b = m * SectorCells) /\ pos = Moved + b
         \/ pos = Len(file)
         \/ size - b <= 0 /\ (good => pos = asked)
      /\ good => pos <= asked /\ Moved + b = Rounded(pos, WordCells)
  BY <1>2, <1>4, <1>6, MovesOn
<1> HIDE DEF b
<1>8. stage' = "turn" /\ size' = size - b /\ addr' = addr + b
  BY <1>1, <1>5 DEF Advance, Left
<1>9. Moved' = Moved + b /\ size' \in Int /\ addr' = Origin' + Moved'
  <2>1. Moved' = Moved + b /\ size' \in Int
    BY <1>1, <1>4, <1>7, <1>8 DEF Moved
  <2> QED
    BY <1>1, <1>2, <1>7, <1>8, <2>1, Units DEF Origin
<1>10. Types'
  BY <1>1, <1>4, <1>8, <1>9 DEF Types
<1>11. ASSUME good PROVE Brought(pos)'
  <2> SUFFICES ASSUME NEW i \in 1 .. Moved + n PROVE file[i] = cells'[Start + i - 1]
    BY <1>1, <1>2, <1>6, <1>11 DEF Brought
  <2> DEFINE c == Start + i - 1
  <2>1. c \in Cells /\ Start \in Nat
    BY <1>2, <1>5, <1>7, Units DEF Cells
  <2>2. cells' = [x \in Cells |-> IF x \in addr .. addr + b - 1
                                  THEN Over(cells[x], buf[x - addr + 1]) ELSE cells[x]]
    BY <1>1, <1>5 DEF Written
  <2>3. CASE i <= Moved
    <3>1. c \notin addr .. addr + b - 1
      BY <1>2, <1>5, <1>7, <2>1, <2>3
    <3>2. file[i] = cells[c]
      BY <1>2, <1>7, <1>11, <2>3 DEF Brought
    <3> QED
      BY <2>1, <2>2, <3>1, <3>2
  <2>4. CASE i > Moved
    <3>1. /\ c \in addr .. addr + b - 1 /\ c - addr + 1 = i - Moved /\ i - Moved \in 1 .. n
          /\ Moved + (i - Moved) = i
      BY <1>2, <1>5, <1>7, <2>1, <2>4
    <3>2. cells[c] = FF
      BY <1>2, <1>5, <1>7, <2>1, <3>1
    <3>3. cells'[c] = buf[i - Moved]
      BY <2>1, <2>2, <3>1, <3>2 DEF Over
    <3> QED
      BY <1>5, <3>1, <3>3
  <2> QED
    BY <1>7, <2>3, <2>4
<1>12. Turning'
  <2>1. (OnBoundary' /\ pos' = Moved') \/ pos' = Len(file)' \/ (size' <= 0 /\ (good' => pos' = asked'))
    BY <1>1, <1>7, <1>8, <1>9 DEF OnBoundary
  <2>2. ASSUME good'
        PROVE  /\ pos' <= asked' /\ Moved' = Rounded(pos', WordCells) /\ br' = Moved'
               /\ Brought(pos)' /\ (dest' = "ram" => Len(ram') = Moved')
    <3>1. good
      BY <1>1, <2>2
    <3>2. br' = Moved'
      BY <1>1, <1>5, <1>6, <1>9, <3>1
    <3>3. dest' # "ram"
      BY <1>1, <1>2
    <3> QED
      BY <1>1, <1>7, <1>9, <1>11, <3>1, <3>2, <3>3
  <2> QED
    BY <1>9, <2>1, <2>2 DEF Turning
<1>13. Direct' /\ Changing' /\ LoadedWhole'
  BY <1>1, <1>2, <1>8 DEF Direct, Changing, LoadedWhole
<1> QED
  BY <1>10, <1>12, <1>13 DEF LoadInv

LEMMA LoadNextKeeps == LoadInv /\ [LoadNext]_loadVars => LoadInv'
BY CallKeeps, DoneKeeps, TurnKeeps, DirectKeeps, LoadEraseKeeps, LoadWriteKeeps, AroundKeeps
   DEF LoadNext, LoadStep

LEMMA LoadInitially == LoadInit => LoadInv
<1> SUFFICES ASSUME LoadInit PROVE LoadInv
  OBVIOUS
<1>1. Types
  <2>1. file \in Versions /\ Len(file) \in Nat
    BY Units DEF LoadInit
  <2>2. ram \in Seq(Bytes \cup {FF})
    BY DEF LoadInit
  <2>3. good \in BOOLEAN
    BY DEF LoadInit
  <2> QED
    BY <2>1, <2>2, <2>3 DEF LoadInit, Types
<1> QED
  BY <1>1 DEF LoadInit, LoadInv, Turning, Direct, Changing, LoadedWhole

LEMMA LoadInvariant == LoadSpec => []LoadInv
BY LoadInitially, LoadNextKeeps, PTL DEF LoadSpec

(* A load without a failure has brought the whole file, for every size of    *)
(* file, buffer, sector and flash, and whatever the flash held before.       *)
THEOREM LoadIsWhole == LoadSpec => []LoadedWhole
<1>1. LoadInv => LoadedWhole
  BY DEF LoadInv
<1> QED
  BY <1>1, LoadInvariant, PTL

(* load_file erases and writes only sectors the file needs, though it erases *)
(* whole sectors and rounds what it has read up to words.                    *)
THEOREM LoadStaysInside == LoadSpec => OnlyItsSectors
<1> DEFINE Outside == Cells \ (Start .. Start + Rounded(Taken, SectorCells) - 1)
<1>1. ASSUME LoadInv, LoadStep, NEW c \in Outside PROVE cells'[c] = cells[c]
  <2>1. CASE LoadDone \/ LoadTurn \/ LoadDirect
    BY <2>1 DEF LoadDone, LoadTurn, LoadDirect
  <2>2. CASE LoadErase \/ LoadWrite
    <3>1. /\ dest = "flash" /\ addr = Start + Moved /\ OnBoundary /\ size > 0
          /\ stage = "erase" => sec \in Nat /\ sec >= addr \div SectorCells
      BY <1>1, <2>2 DEF LoadErase, LoadWrite, LoadInv, Changing
    <3>2. PICK n \in Nat : Piece(n)
      BY <1>1, <2>2 DEF LoadErase, LoadWrite, LoadInv, Changing
    <3> DEFINE d == addr \div SectorCells
               q == ToErase \div SectorCells
               r == Rounded(Taken, SectorCells)
    <3>3. /\ Moved \in Nat /\ addr \in Nat /\ d \in Nat /\ d * SectorCells = addr
          /\ q \in Nat /\ q * SectorCells = ToErase /\ ToErase \in Nat
          /\ Len(buf) \in Nat /\ Len(buf) <= ToErase /\ Start + Moved + ToErase <= Start + r
      BY <1>1, <3>1, <3>2, PiecePlace DEF LoadInv
    <3>4. r \in Int /\ Taken \in Nat
      <4>1. Taken \in Nat
        BY <1>1, FileIs DEF LoadInv
      <4>2. \E k \in Nat : r = k * SectorCells
        BY <4>1, WordsUp
      <4> QED
        BY <4>1, <4>2, Units
    <3> HIDE DEF d, q, r
    <3>5. c \in Cells /\ c \in Int /\ (c < addr \/ c >= addr + ToErase)
      <4>1. c \in Cells /\ c \notin Start .. Start + r - 1 /\ c \in Int
        BY <1>1, Units DEF r, Cells
      <4> QED
        BY <3>1, <3>3, <3>4, <4>1, Units
    <3>6. CASE LoadErase
      <4>1. ASSUME sec < d + q PROVE c \notin CellsOf(sec)
        <5>1. sec \in Nat /\ sec >= d
          BY <3>1, <3>6 DEF LoadErase, d
        <5>2. d * SectorCells <= sec * SectorCells
          BY <3>3, <5>1, Units, Factors
        <5>3. (sec + 1) * SectorCells <= (d + q) * SectorCells
          BY <3>3, <4>1, <5>1, Units, Factors
        <5>4. /\ (sec + 1) * SectorCells = sec * SectorCells + SectorCells
              /\ (d + q) * SectorCells = d * SectorCells + q * SectorCells
              /\ sec * SectorCells \in Nat
          BY <3>3, <5>1, Units
        <5> QED
          BY <3>3, <3>5, <5>2, <5>3, <5>4, Units DEF CellsOf
      <4> QED
        BY <3>5, <3>6, <4>1 DEF LoadErase, d, q
    <3>7. CASE LoadWrite
      <4>1. c \notin addr .. addr + Len(buf) - 1
        BY <3>3, <3>5
      <4> QED
        BY <3>5, <3>7, <4>1 DEF LoadWrite, Written
    <3> QED
      BY <2>2, <3>6, <3>7
  <2> QED
    BY <1>1, <2>1, <2>2 DEF LoadStep
<1>2. LoadInv /\ [LoadNext]_loadVars =>
        [LoadStep => \A c \in Outside : cells'[c] = cells[c]]_loadVars
  BY <1>1
<1> QED
  BY <1>2, LoadInvariant, PTL DEF LoadSpec, OnlyItsSectors
=============================================================================
