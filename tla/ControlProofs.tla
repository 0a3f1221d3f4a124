--------------------------- MODULE ControlProofs ----------------------------
(***************************************************************************)
(* The protocol for every set of strings, every size of the table and of   *)
(* the chunks and every peer: the bound on a PUT and what its OK means     *)
(* (IInv and OkSettled are inductive), the connects of a lease, the one    *)
(* file object, and the order of what a GET sends (GetInv).                *)
(*                                                                         *)
(* Behind them, nettool against it: what stands on a connection is the     *)
(* stream of nettool's command, however it is cut (NetInv and Lines are    *)
(* inductive), hence a put with its OK is stored (StoreInv), what was      *)
(* verified is on the card (SumInv), and a get fetches the whole file or   *)
(* nothing (FetchInv).                                                     *)
(***************************************************************************)
EXTENDS NetTool, DataLemmas

\* Least picks the least element.
LEMMA LeastIsIn ==
  ASSUME NEW S, S \subseteq Nat, S # {}
  PROVE  Least(S) \in S /\ \A j \in S : Least(S) <= j
BY LeastElement DEF Least

\* add_defer_func's search finds a free slot whenever there is one.
LEMMA FirstFreeIsFree ==
  ASSUME NEW tbl, FreeSlots(tbl) # {}
  PROVE  FirstFree(tbl) \in FreeSlots(tbl)
BY LeastIsIn, FreeSlots(tbl) \subseteq Nat DEF FirstFree, FreeSlots, Slots

\* add_defer_func writes one slot that was free, or none.
LEMMA AddDeferSlot ==
  ASSUME NEW tbl, NEW entry
  PROVE  \/ FreeSlots(tbl) = {} /\ AddDefer(tbl, entry) = tbl
         \/ \E i \in Slots : tbl[i] = Free /\ AddDefer(tbl, entry) = [tbl EXCEPT ![i] = entry]
BY FirstFreeIsFree DEF AddDefer, FreeSlots

\* What SkipControls returns is a string that does not begin with a control byte.
LEMMA SkipControlsType ==
  ASSUME NEW s \in Strings
  PROVE  /\ SkipControls(s) \in Strings
         /\ SkipControls(s) # <<>> => SkipControls(s)[1] \notin Controls
<1>1. CASE TextAt(s) = {}
  BY <1>1 DEF SkipControls, Strings
<1>2. CASE TextAt(s) # {}
  <2>1. /\ Least(TextAt(s)) \in 1 .. Len(s)
        /\ s[Least(TextAt(s))] \notin Controls
    BY <1>2, LeastIsIn, TextAt(s) \subseteq Nat DEF TextAt
  <2> DEFINE m == Least(TextAt(s))
  <2>2. /\ SubSeq(s, m, Len(s)) \in Seq(Items)
        /\ SubSeq(s, m, Len(s))[1] = s[m]
    BY <2>1 DEF Strings
  <2> QED  BY <1>2, <2>1, <2>2 DEF SkipControls, Strings
<1> QED  BY <1>1, <1>2

\* control_read_string returns strings, and a string it reports as complete is not
\* empty.
LEMMA ReadStringType ==
  ASSUME NEW buf \in Strings, NEW s \in Strings, NEW r, r = ReadString(buf, s)
  PROVE  /\ r.done \in BOOLEAN /\ r.text \in Strings /\ r.rest \in Strings
         /\ r.done => Len(r.text) >= 1
<1> DEFINE t == IF buf = <<>> THEN SkipControls(s) ELSE s
           n == IF ControlsAt(t) = {} THEN Len(t) + 1 ELSE Least(ControlsAt(t))
<1>1. t \in Strings /\ (buf = <<>> /\ t # <<>> => t[1] \notin Controls)
  BY SkipControlsType
<1> HIDE DEF t
<1>a. Len(t) \in Nat /\ ControlsAt(t) \subseteq 1 .. Len(t)
  BY <1>1 DEF ControlsAt, Strings
<1>b. ControlsAt(t) # {} => Least(ControlsAt(t)) \in ControlsAt(t)
  BY <1>a, LeastIsIn
<1>2. Len(t) \in Nat /\ n \in 1 .. Len(t) + 1
  BY <1>a, <1>b
<1>3. n <= Len(t) => t[n] \in Controls
  BY <1>a, <1>b DEF ControlsAt
<1> DEFINE d == n <= Len(t)
<1>c. d \in BOOLEAN /\ (d => n <= Len(t))
  OBVIOUS
<1>4. r = [done |-> d,
           text |-> buf \o SubSeq(t, 1, n - 1),
           rest |-> SkipControls(SubSeq(t, n, Len(t)))]
  BY DEF ReadString, t
<1> HIDE DEF n, d
<1>5. SubSeq(t, 1, n - 1) \in Seq(Items) /\ Len(SubSeq(t, 1, n - 1)) = n - 1
  BY <1>1, <1>2 DEF Strings
<1>6. SubSeq(t, n, Len(t)) \in Seq(Items)
  BY <1>1, <1>2 DEF Strings
<1>7. r.text \in Strings /\ Len(r.text) = Len(buf) + n - 1
  BY <1>2, <1>4, <1>5, ConcatProperties DEF Strings
<1>8. r.rest \in Strings
  <2>1. SkipControls(SubSeq(t, n, Len(t))) \in Strings
    BY <1>6, SkipControlsType DEF Strings
  <2> QED  BY <1>4, <2>1
<1>9. r.done => Len(r.text) >= 1
  <2>1. CASE buf = <<>>
    <3>1. n <= Len(t) => n >= 2
      <4>1. t = <<>> => Len(t) = 0
        OBVIOUS
      <4> QED  BY <1>1, <1>2, <1>3, <2>1, <4>1
    <3>2. r.done => n <= Len(t)
      BY <1>4, <1>c
    <3>3. buf \in Seq(Items) /\ Len(buf) = 0
      BY <2>1 DEF Strings
    <3> QED  BY <1>2, <1>7, <3>1, <3>2, <3>3
  <2>2. CASE buf # <<>>
    <3>1. Len(buf) \in Nat /\ Len(buf) # 0
      BY <2>2, EmptySeq DEF Strings
    <3> QED  BY <1>2, <1>7, <3>1
  <2> QED  BY <2>1, <2>2
<1>10. r.done \in BOOLEAN
  <2>1. r.done = d
    BY <1>4
  <2> QED  BY <1>c, <2>1
<1> QED  BY <1>7, <1>8, <1>9, <1>10

\* What a read of the string at ptr yields in a reachable state.
LEMMA ScanType ==
  ASSUME TypeOK
  PROVE  /\ Scan.done \in BOOLEAN /\ Scan.text \in Strings /\ Scan.rest \in Strings
         /\ Scan.done => Len(Scan.text) >= 1
  BY ReadStringType DEF TypeOK, Scan

\* add_defer_func keeps the table a table of entries.
LEMMA PostType ==
  ASSUME TypeOK, NEW entry \in Entry, Post(entry)
  PROVE  deffuncs' \in [Slots -> Entry \cup {Free}]
  BY AddDeferSlot DEF TypeOK, Post

LEMMA EntryTypes == Connect \in Entry /\ CloseSoon \in Entry /\ CloseLater \in Entry
  BY DEF Connect, CloseSoon, CloseLater, Entry

\* A checksum is a checksum whatever is read, and the replies are replies.
LEMMA ReplyTypes ==
  /\ \A data \in Strings : Chunk(data) \in Replies
  /\ \A read : Sum(read) \in Replies
  /\ Plain("OK") \in Replies /\ Plain("list") \in Replies
<1>1. \A read : Checksum(read) \in [0 .. WordSize - 1 -> SUBSET Items]
  BY DEF Checksum
<1>2. <<>> \in Strings
  BY DEF Strings
<1> QED  BY <1>1, <1>2 DEF Chunk, Sum, Plain, Replies

\* WifiSendTCP appends one reply or none, and leaves the connection as it is.
LEMMA SendType ==
  ASSUME TypeOK, NEW n \in Nat, NEW reply \in Replies, SendOk(n, reply) \/ SendFails(n)
  PROVE  sending' \in Nat /\ out' \in Seq(Replies) /\ conn' = conn
<1>1. CASE SendOk(n, reply)
  BY <1>1, AppendProperties DEF TypeOK, SendOk
<1>2. CASE SendFails(n)
  BY <1>2 DEF TypeOK, SendFails
<1> QED  BY <1>1, <1>2

\* The files survive a close of any handle; a close that fails leaves the file open.
LEMMA FileCloseType ==
  ASSUME TypeOK, NEW h \in Handles, FileClose(h)
  PROVE  /\ handle' \in {Closed, h} /\ (~Faults => handle' = Closed)
         /\ disk' \in [Names -> Strings \cup {Missing}]
         /\ h.mode # "write" => UNCHANGED disk
<1>1. disk \in [Names -> Strings \cup {Missing}]
  BY DEF TypeOK
<1>2. Saved(h) \in [Names -> Strings \cup {Missing}]
  BY <1>1 DEF Saved, Handles, Closed
<1>3. h.mode # "write" => Saved(h) = disk
  BY DEF Saved
<1> QED  BY <1>1, <1>2, <1>3 DEF FileClose

\* What comes through is the beginning of what was asked for, and all of it without faults.
LEMMA TransferredType ==
  ASSUME NEW data \in Seq(Items), NEW part \in Transferred(data)
  PROVE  /\ part \in Seq(Items) /\ Len(part) \in Nat /\ Len(part) <= Len(data)
         /\ part = SubSeq(data, 1, Len(part))
         /\ ~Faults => part = data
<1>1. Len(data) \in Nat
  BY LenProperties
<1>2. CASE part = data
  <2>1. SubSeq(data, 1, Len(data)) = data
    BY SubSeqFull
  <2> QED  BY <1>1, <1>2, <2>1
<1>3. CASE Faults /\ part \in Prefixes(data)
  <2>1. PICK k \in 0 .. Len(data) : part = SubSeq(data, 1, k)
    BY <1>3 DEF Prefixes
  <2>2. part \in Seq(Items) /\ Len(part) = k
    <3>1. k \in Nat /\ k <= Len(data)
      BY <1>1
    <3> QED  BY <2>1, <3>1
  <2> QED  BY <1>1, <1>3, <2>1, <2>2
<1> QED  BY <1>2, <1>3 DEF Transferred

\* What FileRead is asked for, but the handle has no more: the next piece of the file.
Piece(h, n) == IF Len(h.data) <= n THEN h.data ELSE SubSeq(h.data, 1, n)

\* A chunk is the beginning of what the handle has left, and all of a piece of it
\* without faults.
LEMMA ChunkType ==
  ASSUME NEW h \in Handles, NEW chunk \in Chunks(h, ChunkSize)
  PROVE  /\ chunk \in Strings /\ SubSeq(h.data, Len(chunk) + 1, Len(h.data)) \in Strings
         /\ Len(chunk) \in Nat /\ Len(chunk) <= Len(h.data)
         /\ chunk = SubSeq(h.data, 1, Len(chunk))
         /\ h.mode # "read" => chunk = <<>>
         /\ ~Faults /\ h.mode = "read" => chunk = Piece(h, ChunkSize)
<1> DEFINE d == h.data
<1>1. d \in Seq(Items)
  <2>1. CASE h = Closed
    BY <2>1, EmptySeq DEF Closed
  <2>2. CASE h # Closed
    BY <2>2 DEF Handles, Strings
  <2> QED  BY <2>1, <2>2
<1>2. ChunkSize \in Nat \ {0} /\ Len(d) \in Nat
  BY <1>1, ControlAssumption, LenProperties
<1>3. CASE h.mode # "read"
  <2>1. <<>> \in Seq(Items) /\ Len(<<>>) = 0
    BY EmptySeq
  <2>2. chunk \in Transferred(<<>>)
    BY <1>3 DEF Chunks
  <2>3. chunk \in Seq(Items) /\ Len(chunk) \in Nat /\ Len(chunk) <= 0
    <3>1. Len(chunk) \in Nat /\ Len(chunk) <= Len(<<>>) /\ chunk \in Seq(Items)
      BY <2>1, <2>2, TransferredType
    <3> QED  BY <2>1, <3>1
  <2>4. chunk = <<>>
    BY <2>3, EmptySeq
  <2>5. SubSeq(d, 1, 0) = <<>> /\ SubSeq(d, 0 + 1, Len(d)) \in Seq(Items)
    BY <1>1, <1>2
  <2> QED  BY <1>2, <1>3, <2>1, <2>4, <2>5 DEF Strings
<1>4. CASE h.mode = "read"
  <2> DEFINE p == Piece(h, ChunkSize)
  <2>1. chunk \in Transferred(p)
    BY <1>4 DEF Chunks, Piece
  <2>2. PICK m \in 0 .. Len(d) : p = SubSeq(d, 1, m)
    <3>1. CASE Len(d) <= ChunkSize
      <4>1. p = SubSeq(d, 1, Len(d)) /\ Len(d) \in 0 .. Len(d)
        BY <1>1, <1>2, <3>1, SubSeqFull DEF Piece
      <4> QED  BY <4>1
    <3>2. CASE ~(Len(d) <= ChunkSize)
      <4>1. p = SubSeq(d, 1, ChunkSize) /\ ChunkSize \in 0 .. Len(d)
        BY <1>2, <3>2 DEF Piece
      <4> QED  BY <4>1
    <3> QED  BY <3>1, <3>2
  <2> HIDE DEF p, d
  <2>3. p \in Seq(Items) /\ Len(p) = m
    BY <1>1, <1>2, <2>2
  <2>4. /\ chunk \in Seq(Items) /\ Len(chunk) \in Nat /\ Len(chunk) <= m
        /\ chunk = SubSeq(p, 1, Len(chunk)) /\ (~Faults => chunk = p)
    BY <2>1, <2>3, TransferredType
  <2>5. ASSUME NEW k \in Nat, k <= m PROVE SubSeq(p, 1, k) = SubSeq(d, 1, k)
    BY <1>1, <1>2, <2>2, <2>5
  <2>6. chunk = SubSeq(d, 1, Len(chunk)) /\ Len(chunk) <= Len(d)
    BY <1>2, <2>4, <2>5
  <2>7. SubSeq(d, Len(chunk) + 1, Len(d)) \in Seq(Items)
    BY <1>1, <1>2, <2>4
  <2> QED  BY <1>4, <2>4, <2>6, <2>7 DEF Strings, p, d
<1> QED  BY <1>3, <1>4

LEMMA InitIInv == Init => IInv
<1> SUFFICES ASSUME Init PROVE IInv
  OBVIOUS
<1>1. <<>> \in Strings /\ <<>> \in Seq(Replies)
  BY DEF Strings
<1>2. TypeOK
  BY <1>1, ControlAssumption, MaxDeferredAssumption
  DEF Init, TypeOK, EmptyTable, Outside, Handles
<1> QED  BY <1>2 DEF Init, IInv, HeaderUncounted, CommandKnown, PutBounded, Closed

\* A reset leaves a state like the first, with the card as it was.
LEMMA RestartStep == ASSUME IInv, Restart PROVE IInv'
<1>1. <<>> \in Strings /\ <<>> \in Seq(Replies)
  BY DEF Strings
<1>2. TypeOK'
  BY <1>1, MaxDeferredAssumption DEF IInv, Restart, TypeOK, EmptyTable, Outside, Handles
<1> QED  BY <1>2 DEF Restart, IInv, HeaderUncounted, CommandKnown, PutBounded, Closed

\* A handle that is not open for writing.
ReadOn(h) == h \in Handles /\ h.mode # "write"

\* What an app or a VERIFY has of a file when it closes it.
LEMMA ReadingOn ==
  ASSUME TypeOK, NEW name \in Strings, NEW h \in ReadHandles(name), NEW k \in 0 .. Len(h.data)
  PROVE  /\ ReadOn(h) /\ ReadOn(Advance(h, k))
         /\ h.data \in Strings
         /\ h.mode = "closed" => h.data = <<>>
         /\ h.mode # "closed" => name \in Names /\ disk[name] # Missing /\ h.data = disk[name]
<1>1. CASE h = Closed
  <2>1. h.data = <<>> /\ <<>> \in Seq(Items)
    BY <1>1, EmptySeq DEF Closed
  <2>2. k = 0
    BY <2>1
  <2>3. SubSeq(<<>>, 0 + 1, Len(<<>>)) = <<>>
    OBVIOUS
  <2>4. Advance(h, k) = Closed
    BY <1>1, <2>2, <2>3 DEF Advance, Closed
  <2> QED  BY <1>1, <2>1, <2>4 DEF ReadOn, Handles, Closed, Strings
<1>2. CASE h # Closed
  <2> DEFINE d == disk[name]
             rest == SubSeq(d, k + 1, Len(d))
  <2>1. /\ h = [mode |-> "read", name |-> name, data |-> d]
        /\ name \in Names /\ d # Missing
    BY <1>2 DEF ReadHandles
  <2>2. d \in Seq(Items)
    BY <2>1 DEF TypeOK, Strings
  <2>3. k \in 0 .. Len(d) /\ Len(d) \in Nat
    BY <2>1, <2>2, LenProperties
  <2> HIDE DEF d
  <2>4. rest \in Seq(Items)
    BY <2>2, <2>3
  <2>5. Advance(h, k) = [h EXCEPT !.data = rest]
    BY <2>1 DEF Advance
  <2> HIDE DEF rest
  <2>6. Advance(h, k) = [mode |-> "read", name |-> name, data |-> rest]
    BY <2>1, <2>5
  <2> QED  BY <2>1, <2>2, <2>4, <2>6 DEF ReadOn, Handles, Strings, d
<1> QED  BY <1>1, <1>2

LEMMA AppLoadReads ==
  ASSUME TypeOK, MainAppLoad
  PROVE  \E h : ReadOn(h) /\ FileClose(h)
<1>1. PICK name \in Names : \E h \in ReadHandles(name) : \E k \in 0 .. Len(h.data) :
        FileClose(Advance(h, k))
  BY DEF MainAppLoad
<1>2. PICK h \in ReadHandles(name) : \E k \in 0 .. Len(h.data) : FileClose(Advance(h, k))
  BY <1>1
<1>3. PICK k \in 0 .. Len(h.data) : FileClose(Advance(h, k))
  BY <1>2
<1>4. name \in Strings
  BY ControlAssumption
<1>5. ReadOn(Advance(h, k))
  BY <1>4, ReadingOn
<1> QED  BY <1>3, <1>5

\* get_file_checksum: what was read is the beginning of the file, the rest is closed.
LEMMA VerifyReads ==
  ASSUME TypeOK, RecvHashVerify
  PROVE  \E h \in ReadHandles(filename) : \E read \in Transferred(h.data) :
           /\ SendOk(sending, Sum(read)) \/ SendFails(sending)
           /\ FileClose(Advance(h, Len(read))) /\ ReadOn(Advance(h, Len(read)))
<1>1. PICK h \in ReadHandles(filename) : \E read \in Transferred(h.data) :
        /\ SendOk(sending, Sum(read)) \/ SendFails(sending)
        /\ FileClose(Advance(h, Len(read)))
  BY DEF RecvHashVerify
<1>2. PICK read \in Transferred(h.data) :
        /\ SendOk(sending, Sum(read)) \/ SendFails(sending)
        /\ FileClose(Advance(h, Len(read)))
  BY <1>1
<1>3. filename \in Strings
  BY DEF TypeOK
<1>4. h.data \in Seq(Items)
  <2>1. 0 \in 0 .. Len(h.data)
    <3>1. CASE h = Closed
      BY <3>1, EmptySeq DEF Closed
    <3>2. CASE h # Closed
      <4>1. h.data = disk[filename] /\ disk[filename] \in Seq(Items)
        BY <3>2 DEF ReadHandles, TypeOK, Strings
      <4> QED  BY <4>1
    <3> QED  BY <3>1, <3>2
  <2> QED  BY <1>3, <2>1, ReadingOn DEF Strings
<1>5. Len(read) \in 0 .. Len(h.data)
  BY <1>4, TransferredType
<1>6. ReadOn(Advance(h, Len(read)))
  BY <1>3, <1>5, ReadingOn
<1> QED  BY <1>2, <1>6

LEMMA MainLoopStep == ASSUME IInv, MainLoop PROVE IInv'
<1> USE MaxDeferredAssumption
    DEF IInv, TypeOK, HeaderUncounted, CommandKnown, PutBounded, Outside, AfterWalk, Slots
<1>1. CASE MainBegin
  BY <1>1 DEF MainBegin, parser, stack, input, store
<1>2. CASE SlotSkip
  BY <1>2 DEF SlotSkip, parser, stack, input, store
<1>3. CASE SlotConnect
  <2>1. deffuncs' \in [Slots -> Entry \cup {Free}]
    BY <1>3 DEF SlotConnect, Due, Entry
  <2> QED  BY <1>3, <2>1 DEF SlotConnect, parser, input, store
<1>4. CASE SlotClose
  BY <1>4 DEF SlotClose, input, store
<1>5. CASE MainReturn
  BY <1>5 DEF MainReturn, parser, stack, input, store
<1>6. CASE MainAppLoad
  <2>1. PICK h : ReadOn(h) /\ FileClose(h)
    BY <1>6, AppLoadReads DEF IInv
  <2>2. handle' \in Handles /\ UNCHANGED disk /\ handle'.mode # "write"
    BY <2>1, FileCloseType DEF ReadOn, Handles, Closed
  <2> QED  BY <1>6, <2>2 DEF MainAppLoad, parser, stack, input
<1>7. CASE MainReset
  BY <1>7, RestartStep DEF MainReset
<1> QED  BY <1>1, <1>2, <1>3, <1>4, <1>5, <1>6, <1>7 DEF MainLoop

LEMMA EntryDueStep == ASSUME IInv, NEW i \in Slots, EntryDue(i) PROVE IInv'
<1>1. deffuncs' \in [Slots -> Entry \cup {Free}]
  BY DEF EntryDue, IInv, TypeOK, Entry
<1> QED
  BY <1>1 DEF EntryDue, IInv, TypeOK, HeaderUncounted, CommandKnown, PutBounded, parser, stack,
              input, store

\* The next chunk of a GET: the file object moves on or is closed, one reply may go.
LEMMA SendFileChunkType ==
  ASSUME TypeOK, NEW h \in Handles, NEW n \in Nat, SendFileChunk(h, n)
  PROVE  /\ sending' \in Nat /\ out' \in Seq(Replies) /\ conn' = conn
         /\ deffuncs' \in [Slots -> Entry \cup {Free}]
         /\ disk' \in [Names -> Strings \cup {Missing}]
         /\ handle' \in Handles
<1>1. PICK chunk \in Chunks(h, ChunkSize) :
        IF chunk = <<>>
        THEN /\ FileClose(h) /\ Post(CloseSoon)
             /\ sending' = n /\ UNCHANGED <<conn, out>>
        ELSE /\ handle' = Advance(h, Len(chunk))
             /\ UNCHANGED disk
             /\ \/ SendOk(n, Chunk(chunk)) /\ UNCHANGED deffuncs
                \/ SendFails(n) /\ Post(CloseSoon)
  BY DEF SendFileChunk
<1>2. CASE chunk = <<>>
  BY <1>1, <1>2, FileCloseType, PostType, EntryTypes DEF TypeOK, Handles
<1>3. CASE chunk # <<>>
  <2>1. Chunk(chunk) \in Replies
    BY ChunkType, ReplyTypes
  <2>2. sending' \in Nat /\ out' \in Seq(Replies) /\ conn' = conn
    BY <1>1, <1>3, <2>1, SendType
  <2>3. deffuncs' \in [Slots -> Entry \cup {Free}]
    BY <1>1, <1>3, PostType, EntryTypes DEF TypeOK
  <2>4. h # Closed
    BY <1>3, ChunkType DEF Closed
  <2>5. handle' \in Handles
    <3> DEFINE rest == SubSeq(h.data, Len(chunk) + 1, Len(h.data))
    <3>1. handle' = [h EXCEPT !.data = rest]
      BY <1>1, <1>3 DEF Advance
    <3>2. rest \in Strings
      BY ChunkType
    <3> HIDE DEF rest
    <3> QED
      BY <2>4, <3>1, <3>2 DEF Handles
  <2>6. disk' \in [Names -> Strings \cup {Missing}]
    BY <1>1, <1>3 DEF TypeOK
  <2> QED  BY <2>2, <2>3, <2>5, <2>6
<1> QED  BY <1>2, <1>3

LEMMA StackStepKeeps ==
  ASSUME IInv, GotIp \/ TcpConnected \/ TcpFailed \/ TcpDisconnected \/ TcpSent
  PROVE  IInv'
<1> USE DEF IInv, TypeOK, HeaderUncounted, CommandKnown, PutBounded
<1>1. CASE GotIp
  BY <1>1, PostType, EntryTypes DEF GotIp, stack, input, store
<1>2. CASE TcpConnected
  BY <1>2, EmptySeq DEF TcpConnected, input, store, Strings
<1>3. CASE TcpFailed
  BY <1>3 DEF TcpFailed, parser, input, store
<1>4. CASE TcpDisconnected
  <2>1. /\ disk' \in [Names -> Strings \cup {Missing}]
        /\ handle' \in Handles
    BY <1>4, FileCloseType DEF TcpDisconnected, store, Handles
  <2> QED  BY <1>4, <2>1 DEF TcpDisconnected, input
<1>5. CASE TcpSent
  <2>1. /\ sending' \in Nat /\ out' \in Seq(Replies) /\ conn' = conn
        /\ deffuncs' \in [Slots -> Entry \cup {Free}]
        /\ disk' \in [Names -> Strings \cup {Missing}]
        /\ handle' \in Handles
        /\ handle' = handle \/ command = "GET"
    <3>1. sending - 1 \in Nat
      BY <1>5 DEF TcpSent
    <3>2. CASE command = "GET" /\ SendFileChunk(handle, sending - 1)
      BY <3>1, <3>2, SendFileChunkType
    <3>3. CASE command \in {"LIST", "VERIFY"} /\ Post(CloseSoon)
               /\ sending' = sending - 1 /\ UNCHANGED <<conn, out, store>>
      BY <3>1, <3>3, PostType, EntryTypes DEF store
    <3>4. CASE sending' = sending - 1 /\ UNCHANGED <<conn, out, store, deffuncs>>
      BY <3>1, <3>4 DEF store
    <3> QED  BY <1>5, <3>2, <3>3, <3>4 DEF TcpSent
  <2> QED  BY <1>5, <2>1 DEF TcpSent, parser, input
<1> QED  BY <1>1, <1>2, <1>3, <1>4, <1>5

\* The device takes any string.
LEMMA TakesString == ASSUME IInv, NEW s \in Strings, TcpRecv(s) PROVE IInv'
  BY DEF TcpRecv, IInv, TypeOK, HeaderUncounted, CommandKnown, PutBounded, parser, stack, store

\* Reading the header counts nothing and touches no file.
LEMMA RecvHeaderStep ==
  ASSUME IInv,
         \/ RecvPartial \/ RecvCommand \/ RecvUnknownCommand
         \/ RecvField \/ RecvUnknownField \/ RecvValue
  PROVE  IInv'
<1> USE DEF IInv, TypeOK, HeaderUncounted, CommandKnown, PutBounded
<1>1. /\ Scan.text \in Strings /\ Scan.rest \in Strings
      /\ Scan.done => Len(Scan.text) >= 1
  BY ScanType
<1>2. <<>> \in Strings
  BY EmptySeq DEF Strings
<1>3. CASE RecvPartial
  BY <1>1, <1>2, <1>3 DEF RecvPartial, Continue, stack, store
<1>4. CASE RecvCommand
  BY <1>1, <1>2, <1>4 DEF RecvCommand, Continue, stack, store
<1>5. CASE RecvUnknownCommand
  BY <1>1, <1>2, <1>5, PostType, EntryTypes DEF RecvUnknownCommand, GiveUp, Continue, stack, store
<1>6. CASE RecvField
  BY <1>1, <1>2, <1>6 DEF RecvField, Continue, stack, store
<1>7. CASE RecvUnknownField
  BY <1>1, <1>2, <1>7, PostType, EntryTypes DEF RecvUnknownField, GiveUp, Continue, stack, store
<1>8. CASE RecvValue
  <2>1. Scan.text[1] \in Items
    BY <1>1, <1>8 DEF RecvValue, Strings
  <2>2. Numeral[Scan.text[1]] \in Nat
    BY <2>1, ControlAssumption
  <2>3. filesize' \in Nat /\ bytesin' = 0
    BY <1>8, <2>2 DEF RecvValue
  <2> QED  BY <1>1, <1>2, <1>8, <2>3 DEF RecvValue, Continue, stack, store
<1> QED  BY <1>3, <1>4, <1>5, <1>6, <1>7, <1>8

\* "#" begins the transfer with nothing counted and, for a PUT, an empty file.
LEMMA RecvHashStep ==
  ASSUME IInv,
         RecvHashPut \/ RecvHashGet \/ RecvHashList \/ RecvHashVerify \/ RecvHashReboot
  PROVE  IInv'
<1> USE DEF IInv, TypeOK, HeaderUncounted, CommandKnown, PutBounded
<1>1. Scan.rest \in Strings /\ <<>> \in Strings
  BY ScanType, EmptySeq DEF Strings
<1>2. Scan.text \in Strings
  BY ScanType
<1>3. ReadHandles(filename) \subseteq Handles
  BY DEF ReadHandles, Handles
<1>4. CASE RecvHashPut
  <2>1. /\ disk' \in [Names -> Strings \cup {Missing}]
        /\ handle' \in Handles
        /\ handle'.mode = "write" => Len(handle'.data) = 0
    BY <1>1, <1>4, EmptySeq DEF RecvHashPut, OpenForWriting, Handles, Closed
  <2> QED  BY <1>1, <1>2, <1>4, <2>1 DEF RecvHashPut, Hash, HeaderDone, Continue, stack
<1>5. CASE RecvHashGet
  <2>1. PICK h \in ReadHandles(filename) : SendFileChunk(h, sending)
    BY <1>5 DEF RecvHashGet
  <2>2. /\ sending' \in Nat /\ out' \in Seq(Replies) /\ conn' = conn
        /\ deffuncs' \in [Slots -> Entry \cup {Free}]
        /\ disk' \in [Names -> Strings \cup {Missing}]
        /\ handle' \in Handles
    BY <1>3, <2>1, SendFileChunkType
  <2> QED  BY <1>1, <1>2, <1>5, <2>2 DEF RecvHashGet, Hash, HeaderDone, Continue
<1>6. CASE RecvHashList
  <2>1. sending' \in Nat /\ out' \in Seq(Replies) /\ conn' = conn
    BY <1>6, ReplyTypes, SendType DEF RecvHashList
  <2>2. deffuncs' \in [Slots -> Entry \cup {Free}]
    BY <1>6, PostType, EntryTypes DEF RecvHashList
  <2> QED  BY <1>1, <1>2, <1>6, <2>1, <2>2 DEF RecvHashList, Hash, HeaderDone, Continue, store
<1>7. CASE RecvHashVerify
  <2>1. sending' \in Nat /\ out' \in Seq(Replies) /\ conn' = conn
    BY <1>7, ReplyTypes, SendType DEF RecvHashVerify
  <2>2. handle' \in Handles /\ handle'.mode # "write" /\ UNCHANGED disk
    <3>1. PICK h : FileClose(h) /\ ReadOn(h)
      BY <1>7, VerifyReads
    <3> QED  BY <3>1, FileCloseType DEF ReadOn, Handles, Closed
  <2> QED  BY <1>1, <1>2, <1>7, <2>1, <2>2 DEF RecvHashVerify, Hash, HeaderDone, Continue
<1>8. CASE RecvHashReboot
  BY <1>8, RestartStep DEF RecvHashReboot
<1> QED  BY <1>4, <1>5, <1>6, <1>7, <1>8

\* The clip keeps the count at or below filesize, and the file at or below the count.
LEMMA RecvPutStep == ASSUME IInv, RecvPutData PROVE IInv'
<1> USE DEF IInv, TypeOK
<1> DEFINE n == Accepted(Len(rx))
<1>1. rx \in Seq(Items) /\ Len(rx) \in Nat
  BY LenProperties DEF Strings
<1>2. n \in 0 .. Len(rx) /\ bytesin + n <= filesize
  BY <1>1 DEF Accepted, PutBounded
<1>3. bytesin' = bytesin + n
  BY DEF RecvPutData
<1>4. SubSeq(rx, 1, n) \in Seq(Items) /\ Len(SubSeq(rx, 1, n)) = n
  BY <1>1, <1>2
<1>5. IF n > 0 THEN FileWrite(SubSeq(rx, 1, n)) ELSE UNCHANGED store
  BY DEF RecvPutData
<1>6. command = "PUT" /\ state = "COMMAND" /\ state' = state /\ command' = command
  BY DEF RecvPutData
<1> HIDE DEF n
<1>7. /\ handle' \in Handles
      /\ handle'.mode = "write" => Len(handle'.data) <= bytesin'
      /\ disk' = disk
  <2>1. CASE handle' = handle /\ disk' = disk
    BY <1>2, <1>3, <1>6, <2>1 DEF PutBounded, Handles, Closed, Strings
  <2>2. CASE /\ handle.mode = "write"
             /\ \E taken \in Transferred(SubSeq(rx, 1, n)) :
                  handle' = [handle EXCEPT !.data = @ \o taken]
             /\ disk' = disk
    <3>0. PICK taken \in Transferred(SubSeq(rx, 1, n)) :
            handle' = [handle EXCEPT !.data = @ \o taken]
      BY <2>2
    <3>a. taken \in Seq(Items) /\ Len(taken) \in Nat /\ Len(taken) <= n
      <4> DEFINE w == SubSeq(rx, 1, n)
      <4>1. w \in Seq(Items) /\ Len(w) = n
        BY <1>4
      <4>2. taken \in Transferred(w)
        OBVIOUS
      <4> HIDE DEF w
      <4> QED  BY <4>1, <4>2, TransferredType
    <3>1. handle \in [mode : {"read", "write"}, name : Names, data : Strings]
      BY <2>2 DEF Handles, Closed
    <3>2. handle.data \in Seq(Items) /\ Len(handle.data) \in Nat /\ Len(handle.data) <= bytesin
      BY <1>6, <2>2, <3>1, LenProperties DEF PutBounded, Strings
    <3>3. /\ handle.data \o taken \in Seq(Items)
          /\ Len(handle.data \o taken) = Len(handle.data) + Len(taken)
      BY <3>a, <3>2, ConcatProperties
    <3>4. handle' \in [mode : {"read", "write"}, name : Names, data : Strings]
      BY <3>0, <3>1, <3>3 DEF Strings
    <3>5. handle'.data = handle.data \o taken
      BY <3>0, <3>1
    <3>6. n \in Nat /\ bytesin \in Nat
      BY <1>1, <1>2
    <3>7. Len(handle'.data) <= bytesin'
      BY <1>3, <3>2, <3>3, <3>5, <3>6, <3>a
    <3> QED  BY <2>2, <3>4, <3>7 DEF Handles
  <2> QED  BY <1>5, <2>1, <2>2 DEF FileWrite, store
<1>8. /\ sending' \in Nat /\ out' \in Seq(Replies) /\ conn' = conn
      /\ deffuncs' \in [Slots -> Entry \cup {Free}]
  <2>1. CASE UNCHANGED <<stack, deffuncs>>
    BY <2>1 DEF stack
  <2>2. CASE /\ SendOk(sending, Plain("OK")) \/ SendFails(sending)
             /\ Post(CloseLater)
    BY <2>2, ReplyTypes, SendType, PostType, EntryTypes
  <2> QED  BY <2>1, <2>2 DEF RecvPutData
<1> QED
  BY <1>2, <1>3, <1>6, <1>7, <1>8, EmptySeq
  DEF RecvPutData, Continue, HeaderUncounted, CommandKnown, PutBounded, Strings

LEMMA RecvStepKeeps == ASSUME IInv, RecvStep PROVE IInv'
<1>1. CASE RecvPutUnaligned \/ RecvIgnored \/ RecvIdle
  BY <1>1, PostType, EntryTypes, EmptySeq
  DEF RecvPutUnaligned, RecvIgnored, RecvIdle, GiveUp, Continue, IInv, TypeOK, HeaderUncounted,
      CommandKnown, PutBounded, Strings, parser, stack, store
<1> QED  BY <1>1, RecvHeaderStep, RecvHashStep, RecvPutStep DEF RecvStep

LEMMA StutterKeeps == ASSUME IInv, UNCHANGED vars PROVE IInv'
  BY DEF IInv, TypeOK, HeaderUncounted, CommandKnown, PutBounded, vars, parser, stack, input, store

\* The inductive invariant of the control protocol.
THEOREM ControlInvariant == Spec => []IInv
<1>1. IInv /\ [Next]_vars => IInv'
  BY MainLoopStep, EntryDueStep, StackStepKeeps, TakesString, RecvStepKeeps, StutterKeeps, ControlAssumption
  DEF Next, Device
<1> QED  BY <1>1, InitIInv, PTL DEF Spec

\* A PUT never takes more bytes than its filesize announced, and the file never grows
\* beyond what was counted, whatever segments the peer sends and whatever fails.
THEOREM PutIsBounded == Spec => []PutBounded
<1>1. IInv => PutBounded
  BY DEF IInv
<1> QED  BY <1>1, ControlInvariant, PTL
-----------------------------------------------------------------------------
(* What the OK of a PUT means *)

\* The step sends no OK: every OK behind it was there before.
NoNewOk == \A i \in DOMAIN out' : out'[i].kind = "OK" => i \in DOMAIN out /\ out'[i] = out[i]

\* The step leaves the data of the file that is being written as it is.
DataKept == handle.mode = "write" /\ handle'.mode = "write" => handle'.data = handle.data

\* An OK is only said in a transfer, and nothing of the transfer is left to count.
OkSettled ==
  \A i \in DOMAIN out :
    out[i].kind = "OK" =>
      /\ state \in {"IDLE", "COMMAND"}
      /\ state = "COMMAND" /\ command = "PUT" => bytesin = filesize

LEMMA OtherReplies ==
  ASSUME TypeOK, NEW n \in Nat, NEW reply \in Replies, reply.kind # "OK",
         SendOk(n, reply) \/ SendFails(n)
  PROVE  NoNewOk
<1>1. CASE SendOk(n, reply)
  <2>1. /\ out \in Seq(Replies)
        /\ out' = Append(out, reply)
    BY <1>1 DEF SendOk, TypeOK
  <2>2. /\ DOMAIN out' = 1 .. Len(out) + 1
        /\ out'[Len(out) + 1] = reply
        /\ \A i \in 1 .. Len(out) : out'[i] = out[i]
    BY <2>1
  <2> QED  BY <2>1, <2>2 DEF NoNewOk
<1>2. CASE SendFails(n)
  BY <1>2 DEF SendFails, NoNewOk
<1> QED  BY <1>1, <1>2

\* A chunk is no OK, and a file that is being written is never read on: it is closed, or
\* left as it is.
LEMMA ChunkSaysNoOk ==
  ASSUME TypeOK, NEW h \in Handles, NEW n \in Nat, SendFileChunk(h, n)
  PROVE  NoNewOk /\ (h.mode = "write" => handle' \in {Closed, h})
<1>1. PICK chunk \in Chunks(h, ChunkSize) :
        IF chunk = <<>>
        THEN FileClose(h) /\ UNCHANGED <<conn, out>>
        ELSE SendOk(n, Chunk(chunk)) \/ SendFails(n)
  BY DEF SendFileChunk
<1>2. h.mode = "write" => chunk = <<>>
  BY ChunkType
<1>3. CASE chunk = <<>>
  BY <1>1, <1>3 DEF FileClose, Closed, NoNewOk
<1>4. CASE chunk # <<>>
  <2>1. Chunk(chunk) \in Replies /\ Chunk(chunk).kind # "OK"
    BY ChunkType, ReplyTypes DEF Chunk
  <2> QED  BY <1>1, <1>2, <1>4, <2>1, OtherReplies
<1> QED  BY <1>3, <1>4

\* A reset forgets the replies.
LEMMA RestartForgets == Restart => NoNewOk /\ DataKept /\ OkSettled'
  BY DEF Restart, NoNewOk, DataKept, OkSettled, Closed

\* What only data of a PUT can do, no other step does.
OnlyPut == OkSettled' /\ NoNewOk /\ DataKept

\* A step that sends nothing, and leaves the transfer and its file as they are.
LEMMA QuietStep ==
  ASSUME OkSettled, UNCHANGED <<out, handle>>,
         UNCHANGED <<state, command, bytesin, filesize>> \/ state' = "IDLE"
  PROVE  OnlyPut
  BY DEF OkSettled, NoNewOk, DataKept, OnlyPut

LEMMA MainLoopSaysNoOk == ASSUME IInv, OkSettled, MainLoop PROVE OnlyPut
<1>1. CASE MainBegin \/ SlotSkip \/ SlotConnect \/ SlotClose \/ MainReturn
  BY <1>1, QuietStep DEF MainBegin, SlotSkip, SlotConnect, SlotClose, MainReturn, parser, stack, store
<1>2. CASE MainAppLoad
  <2>1. handle'.mode # "write"
    <3>1. PICK h : ReadOn(h) /\ FileClose(h)
      BY <1>2, AppLoadReads DEF IInv
    <3> QED  BY <3>1 DEF ReadOn, FileClose, Closed
  <2> QED  BY <1>2, <2>1 DEF MainAppLoad, parser, stack, OkSettled, NoNewOk, DataKept, OnlyPut
<1>3. CASE MainReset
  BY <1>3, RestartForgets DEF MainReset, OnlyPut
<1> QED  BY <1>1, <1>2, <1>3 DEF MainLoop

LEMMA StackSaysNoOk ==
  ASSUME IInv, OkSettled, GotIp \/ TcpConnected \/ TcpFailed \/ TcpDisconnected \/ TcpSent
  PROVE  OnlyPut
<1>1. CASE GotIp \/ TcpFailed
  BY <1>1, QuietStep DEF GotIp, TcpFailed, parser, stack, store
<1>2. CASE TcpConnected
  BY <1>2 DEF TcpConnected, store, OkSettled, NoNewOk, DataKept, OnlyPut
<1>3. CASE TcpDisconnected
  BY <1>3 DEF TcpDisconnected, FileClose, Closed, store, OkSettled, NoNewOk, DataKept, OnlyPut
<1>4. CASE TcpSent
  <2>1. NoNewOk /\ DataKept
    <3>1. sending - 1 \in Nat /\ handle \in Handles
      BY <1>4 DEF TcpSent, IInv, TypeOK
    <3>2. CASE SendFileChunk(handle, sending - 1)
      BY <3>1, <3>2, ChunkSaysNoOk DEF IInv, DataKept, Closed
    <3>3. CASE UNCHANGED <<conn, out, store>>
      BY <3>3 DEF store, NoNewOk, DataKept
    <3> QED  BY <1>4, <3>2, <3>3 DEF TcpSent
  <2>2. OkSettled'
    BY <1>4, <2>1 DEF TcpSent, parser, OkSettled, NoNewOk
  <2> QED  BY <2>1, <2>2 DEF OnlyPut
<1> QED  BY <1>1, <1>2, <1>3, <1>4

\* While a header is read there is no OK to be kept to.
LEMMA HeaderSaysNoOk ==
  ASSUME IInv, OkSettled,
         \/ RecvPartial \/ RecvCommand \/ RecvUnknownCommand
         \/ RecvField \/ RecvUnknownField \/ RecvValue
  PROVE  OnlyPut
<1>1. state \in {"INIT", "FIELD", "VALUE"} /\ UNCHANGED <<out, handle>>
  BY DEF RecvPartial, RecvCommand, RecvUnknownCommand, RecvField, RecvUnknownField, RecvValue,
         stack, store
<1> QED  BY <1>1 DEF OkSettled, NoNewOk, DataKept, OnlyPut

LEMMA HashSaysNoOk ==
  ASSUME IInv, OkSettled,
         RecvHashPut \/ RecvHashGet \/ RecvHashList \/ RecvHashVerify \/ RecvHashReboot
  PROVE  /\ OkSettled' /\ NoNewOk
         /\ (\E i \in DOMAIN out : out[i].kind = "OK") => DataKept
<1>1. state = "FIELD"
  BY DEF RecvHashPut, RecvHashGet, RecvHashList, RecvHashVerify, RecvHashReboot, Hash
<1>2. ~ \E i \in DOMAIN out : out[i].kind = "OK"
  BY <1>1 DEF OkSettled
<1>3. NoNewOk
  <2>1. CASE RecvHashPut
    BY <2>1 DEF RecvHashPut, stack, NoNewOk
  <2>2. CASE RecvHashGet
    <3>1. PICK h \in ReadHandles(filename) : SendFileChunk(h, sending)
      BY <2>2 DEF RecvHashGet
    <3>2. h \in Handles
      BY DEF ReadHandles, Handles, IInv, TypeOK
    <3> QED  BY <3>1, <3>2, ChunkSaysNoOk DEF IInv, TypeOK
  <2>3. CASE RecvHashList
    BY <2>3, OtherReplies, ReplyTypes DEF RecvHashList, Plain, IInv, TypeOK
  <2>4. CASE RecvHashVerify
    <3>1. PICK read : SendOk(sending, Sum(read)) \/ SendFails(sending)
      BY <2>4 DEF RecvHashVerify
    <3> QED  BY <3>1, OtherReplies, ReplyTypes DEF Sum, IInv, TypeOK
  <2>5. CASE RecvHashReboot
    BY <2>5, RestartForgets DEF RecvHashReboot
  <2> QED  BY <2>1, <2>2, <2>3, <2>4, <2>5
<1>4. OkSettled'
  BY <1>2, <1>3 DEF OkSettled, NoNewOk
<1> QED  BY <1>2, <1>3, <1>4

\* The data of a PUT: behind an OK nothing is taken, and an OK comes with the last.
LEMMA PutSays ==
  ASSUME IInv, OkSettled, RecvPutData
  PROVE  /\ OkSettled'
         /\ (\E i \in DOMAIN out : out[i].kind = "OK") => DataKept
         /\ UNCHANGED out \/ (bytesin' = filesize' /\ Post(CloseLater))
<1> DEFINE n == Accepted(Len(rx))
<1>1. /\ state = "COMMAND" /\ command = "PUT"
      /\ UNCHANGED <<state, command, filesize>>
      /\ IF n > 0 THEN FileWrite(SubSeq(rx, 1, n)) ELSE UNCHANGED store
      /\ bytesin' = bytesin + n
      /\ IF Complete(n)
         THEN (SendOk(sending, Plain("OK")) \/ SendFails(sending)) /\ Post(CloseLater)
         ELSE UNCHANGED <<stack, deffuncs>>
  BY DEF RecvPutData
<1>2. /\ Len(rx) \in Nat /\ bytesin \in Nat /\ filesize \in Nat
      /\ bytesin <= filesize
  BY LenProperties DEF IInv, TypeOK, Strings, PutBounded
<1>3. n \in Nat /\ bytesin + n <= filesize
  BY <1>2 DEF Accepted
<1>4. (\E i \in DOMAIN out : out[i].kind = "OK") => n = 0 /\ bytesin = filesize
  BY <1>1, <1>2, <1>3 DEF OkSettled
<1> HIDE DEF n
<1>5. (\E i \in DOMAIN out : out[i].kind = "OK") => DataKept /\ bytesin' = filesize'
  BY <1>1, <1>2, <1>4 DEF DataKept, store
<1>6. Complete(n) => bytesin' = filesize'
  BY <1>1, <1>2, <1>3 DEF Complete
<1>7. UNCHANGED out \/ (bytesin' = filesize' /\ Post(CloseLater))
  BY <1>1, <1>6 DEF stack
<1>8. OkSettled'
  BY <1>1, <1>5, <1>7 DEF OkSettled
<1> QED  BY <1>5, <1>7, <1>8

LEMMA RestSaysNoOk ==
  ASSUME OkSettled,
         \/ RecvPutUnaligned \/ RecvIgnored \/ RecvIdle
         \/ \E i \in Slots : EntryDue(i)
         \/ \E s \in Segments : TcpRecv(s)
         \/ UNCHANGED vars
  PROVE  OnlyPut
<1>1. UNCHANGED <<out, handle, state, command, bytesin, filesize>>
  BY DEF RecvPutUnaligned, RecvIgnored, RecvIdle, EntryDue, TcpRecv, parser, stack, store, vars
<1> QED  BY <1>1, QuietStep

\* All steps together.
LEMMA OkStep ==
  ASSUME IInv, OkSettled, [Next]_vars
  PROVE  /\ OkSettled'
         /\ (\E i \in DOMAIN out : out[i].kind = "OK") => DataKept
         /\ NoNewOk \/ (bytesin' = filesize' /\ UNCHANGED filesize /\ Post(CloseLater))
<1>1. CASE OnlyPut
  BY <1>1 DEF OnlyPut
<1>2. CASE RecvHashPut \/ RecvHashGet \/ RecvHashList \/ RecvHashVerify \/ RecvHashReboot
  BY <1>2, HashSaysNoOk
<1>3. CASE RecvPutData
  <2>1. UNCHANGED out => NoNewOk
    BY DEF NoNewOk
  <2>2. UNCHANGED filesize
    BY <1>3 DEF RecvPutData
  <2> QED  BY <1>3, <2>1, <2>2, PutSays
<1> QED
  BY <1>1, <1>2, <1>3, MainLoopSaysNoOk, StackSaysNoOk, HeaderSaysNoOk, RestSaysNoOk
  DEF Next, Device, RecvStep

LEMMA OkIsSettled == Spec => [](IInv /\ OkSettled)
<1>1. Init => OkSettled
  BY DEF Init, OkSettled
<1>2. IInv /\ OkSettled /\ [Next]_vars => OkSettled'
  BY OkStep
<1> QED  BY <1>1, <1>2, ControlInvariant, PTL DEF Spec

\* Once a PUT was answered OK, no further segment of its connection, no callback and
\* no deferred function changes what is in the file, as long as it is open.
THEOREM AckFreezesFile == Spec => AckedFrozen
<1>1. ASSUME IInv, OkSettled, [Next]_vars
      PROVE  \A i \in DOMAIN out :
               out[i].kind = "OK" /\ handle.mode = "write" /\ handle'.mode = "write"
                 => handle'.data = handle.data
  BY <1>1, OkStep DEF DataKept
<1> QED  BY <1>1, OkIsSettled, PTL DEF Spec, AckedFrozen

\* An OK is said when all that was announced has been counted, together with the
\* request for a close unless no slot is free.
THEOREM OkIsComplete == Spec => OkWhenComplete
<1>1. ASSUME IInv, OkSettled, [Next]_vars
      PROVE  (\E i \in DOMAIN out' : i > Len(out) /\ out'[i].kind = "OK") =>
               /\ bytesin' = filesize
               /\ FreeSlots(deffuncs) # {} =>
                    \E i \in FreeSlots(deffuncs) : deffuncs'[i] = CloseLater
  <2>1. NoNewOk => ~ \E i \in DOMAIN out' : i > Len(out) /\ out'[i].kind = "OK"
    <3>1. DOMAIN out = 1 .. Len(out) /\ Len(out) \in Nat
      BY <1>1 DEF IInv, TypeOK
    <3> QED  BY <3>1 DEF NoNewOk
  <2>2. Post(CloseLater) /\ FreeSlots(deffuncs) # {} =>
          \E i \in FreeSlots(deffuncs) : deffuncs'[i] = CloseLater
    BY <1>1, FirstFreeIsFree DEF Post, AddDefer, FreeSlots, IInv, TypeOK
  <2>3. NoNewOk \/ (bytesin' = filesize' /\ UNCHANGED filesize /\ Post(CloseLater))
    BY <1>1, OkStep
  <2> QED  BY <2>1, <2>2, <2>3
<1> QED  BY <1>1, OkIsSettled, PTL DEF Spec, OkWhenComplete
-----------------------------------------------------------------------------
(* The connect of a lease *)

\* Only a lease puts a connect into the table.
LeaseFirst ==
  \A i \in Slots : deffuncs[i] # Free /\ deffuncs[i].func = "connect" => leases >= 1

\* No connect is taken out of its slot, and none comes without a lease.
ConnectsKept ==
  \A i \in Slots :
    /\ deffuncs[i] # Free /\ deffuncs[i].func = "connect"
         => deffuncs'[i] # Free /\ deffuncs'[i].func = "connect"
    /\ deffuncs'[i] # Free /\ deffuncs'[i].func = "connect" /\ leases' = leases
         => deffuncs[i] # Free /\ deffuncs[i].func = "connect"

LEMMA PostKeepsConnects ==
  ASSUME TypeOK, NEW entry \in {CloseSoon, CloseLater}, Post(entry)
  PROVE  ConnectsKept
<1>1. entry.func = "close" /\ entry # Free
  <2>1. entry \in Entry
    BY EntryTypes
  <2> QED  BY <2>1, ControlFree DEF CloseSoon, CloseLater
<1>2. CASE deffuncs' = deffuncs
  BY <1>2 DEF ConnectsKept
<1>3. CASE \E i \in Slots : deffuncs[i] = Free /\ deffuncs' = [deffuncs EXCEPT ![i] = entry]
  BY <1>1, <1>3 DEF ConnectsKept, TypeOK
<1> QED  BY <1>2, <1>3, AddDeferSlot DEF Post

LEMMA ConnectStep ==
  ASSUME IInv, [Next]_vars
  PROVE  \/ ConnectsKept /\ leases' = leases
         \/ GotIp
         \/ Restart
<1> USE DEF IInv
<1>1. CASE deffuncs' = deffuncs /\ leases' = leases
  BY <1>1 DEF ConnectsKept
<1>2. CASE SlotConnect
  <2>1. pass \in Slots /\ deffuncs[pass] \in Entry /\ deffuncs[pass] # Free
    BY <1>2 DEF SlotConnect, Due, TypeOK
  <2>2. deffuncs' = [deffuncs EXCEPT ![pass].due = FALSE] /\ leases' = leases
    BY <1>2 DEF SlotConnect
  <2>3. [deffuncs[pass] EXCEPT !.due = FALSE] \in Entry
    BY <2>1 DEF Entry
  <2>4. /\ deffuncs'[pass] \in Entry /\ deffuncs'[pass].func = deffuncs[pass].func
        /\ \A i \in Slots : i # pass => deffuncs'[i] = deffuncs[i]
    BY <2>1, <2>2, <2>3 DEF TypeOK, Entry
  <2> QED  BY <2>1, <2>2, <2>4, ControlFree DEF ConnectsKept
<1>3. ASSUME NEW i \in Slots, EntryDue(i) PROVE ConnectsKept /\ leases' = leases
  <2>1. deffuncs[i] \in Entry /\ deffuncs[i] # Free
    BY <1>3 DEF EntryDue, TypeOK
  <2>2. deffuncs' = [deffuncs EXCEPT ![i].due = TRUE] /\ leases' = leases
    BY <1>3 DEF EntryDue
  <2>3. /\ deffuncs'[i] \in Entry /\ deffuncs'[i].func = deffuncs[i].func
        /\ \A k \in Slots : k # i => deffuncs'[k] = deffuncs[k]
    BY <2>1, <2>2 DEF TypeOK, Entry
  <2> QED  BY <2>1, <2>2, <2>3, ControlFree DEF ConnectsKept
<1>4. CASE SlotClose
  BY <1>4 DEF SlotClose, TypeOK, ConnectsKept
<1>5. ASSUME leases' = leases, Post(CloseSoon) \/ Post(CloseLater) PROVE ConnectsKept
  BY <1>5, PostKeepsConnects
<1>6. CASE MainLoop
  BY <1>1, <1>2, <1>4, <1>6 DEF MainLoop, MainBegin, SlotSkip, MainReturn, MainAppLoad, MainReset
<1>7. CASE TcpConnected \/ TcpFailed \/ TcpDisconnected
  BY <1>1, <1>7 DEF TcpConnected, TcpFailed, TcpDisconnected
<1>8. ASSUME NEW h, NEW n, SendFileChunk(h, n)
      PROVE  deffuncs' = deffuncs \/ Post(CloseSoon)
  BY <1>8 DEF SendFileChunk
<1>9. CASE TcpSent
  BY <1>1, <1>5, <1>8, <1>9 DEF TcpSent
<1>10. CASE RecvStep
  <2>1. CASE RecvHashGet
    BY <2>1, <1>1, <1>5, <1>8 DEF RecvHashGet, HeaderDone
  <2>2. CASE RecvHashList
    BY <2>2, <1>1, <1>5 DEF RecvHashList, HeaderDone
  <2>3. CASE RecvPutData
    BY <2>3, <1>1, <1>5 DEF RecvPutData
  <2>4. CASE RecvPartial \/ RecvCommand \/ RecvUnknownCommand \/ RecvField \/ RecvUnknownField
             \/ RecvValue
    BY <2>4, <1>1, <1>5 DEF RecvPartial, RecvCommand, RecvUnknownCommand, RecvField,
                            RecvUnknownField, RecvValue, GiveUp
  <2>5. CASE RecvHashPut \/ RecvHashVerify
    BY <2>5, <1>1 DEF RecvHashPut, RecvHashVerify, HeaderDone
  <2>6. CASE RecvPutUnaligned \/ RecvIgnored \/ RecvIdle
    BY <2>6, <1>1, <1>5 DEF RecvPutUnaligned, RecvIgnored, RecvIdle, GiveUp
  <2>7. CASE RecvHashReboot
    BY <2>7 DEF RecvHashReboot
  <2> QED  BY <1>10, <2>1, <2>2, <2>3, <2>4, <2>5, <2>6, <2>7 DEF RecvStep
<1>11. CASE (\E s \in Segments : TcpRecv(s)) \/ UNCHANGED vars
  BY <1>1, <1>11 DEF TcpRecv, vars
<1> QED  BY <1>3, <1>6, <1>7, <1>9, <1>10, <1>11 DEF Next, Device

\* A further lease posts its connect into a free slot, or drops it.
LEMMA LeaseKeepsConnects ==
  ASSUME IInv, GotIp
  PROVE  /\ \A i \in Slots : deffuncs[i] # Free => deffuncs'[i] = deffuncs[i]
         /\ leases' >= 1
<1>1. leases' >= 1
  BY DEF GotIp, IInv, TypeOK
<1>2. deffuncs' = AddDefer(deffuncs, Connect)
  BY DEF GotIp, Post
<1> QED  BY <1>1, <1>2, AddDeferSlot DEF IInv, TypeOK

\* No close, no full table and no further lease takes the periodic connect of a lease
\* out of the table: only a reset does, which forgets the leases.
THEOREM ConnectIsKept == Spec => ConnectStays
<1>1. Init => LeaseFirst
  BY DEF Init, EmptyTable, LeaseFirst
<1>2. IInv /\ LeaseFirst /\ [Next]_vars => LeaseFirst'
  <2> SUFFICES ASSUME IInv, LeaseFirst, [Next]_vars PROVE LeaseFirst'
    OBVIOUS
  <2>1. CASE ConnectsKept /\ leases' = leases
    BY <2>1 DEF ConnectsKept, LeaseFirst
  <2>2. CASE GotIp
    BY <2>2, LeaseKeepsConnects DEF LeaseFirst
  <2>3. CASE Restart
    BY <2>3 DEF Restart, EmptyTable, LeaseFirst
  <2> QED  BY <2>1, <2>2, <2>3, ConnectStep
<1>3. ASSUME IInv, LeaseFirst, [Next]_vars
      PROVE  \A i \in Slots :
               deffuncs[i] # Free /\ deffuncs[i].func = "connect" /\ leases' >= leases
                 => deffuncs'[i] # Free /\ deffuncs'[i].func = "connect"
  <2> SUFFICES ASSUME NEW i \in Slots,
                      deffuncs[i] # Free, deffuncs[i].func = "connect", leases' >= leases
               PROVE  deffuncs'[i] # Free /\ deffuncs'[i].func = "connect"
    OBVIOUS
  <2>1. CASE ConnectsKept
    BY <1>3, <2>1 DEF ConnectsKept
  <2>2. CASE GotIp
    BY <1>3, <2>2, LeaseKeepsConnects
  <2>3. CASE Restart
    <3>1. leases >= 1 /\ leases \in Nat
      BY <1>3 DEF LeaseFirst, IInv, TypeOK
    <3>2. leases' = 0
      BY <2>3 DEF Restart
    <3> QED  BY <3>1, <3>2
  <2> QED  BY <1>3, <2>1, <2>2, <2>3, ConnectStep
<1> QED  BY <1>1, <1>2, <1>3, ControlInvariant, PTL DEF Spec, ConnectStays
-----------------------------------------------------------------------------
(* The one file object *)

\* While a header is read no file is open, and only a connection brings data.
HandleInv ==
  /\ HandleOwned
  /\ state \in {"INIT", "FIELD", "VALUE"} => handle.mode = "closed"
  /\ Receiving => conn \in {"open", "closing"}

LEMMA OwnedByMainLoop == ASSUME ~Faults, HandleInv, MainLoop PROVE HandleInv'
<1> USE DEF HandleInv, HandleOwned, Receiving
<1>1. CASE MainBegin \/ SlotSkip \/ SlotClose \/ MainReturn
  BY <1>1 DEF MainBegin, SlotSkip, SlotClose, MainReturn, parser, stack, input, store
<1>2. CASE SlotConnect
  BY <1>2 DEF SlotConnect, parser, input, store
<1>3. CASE MainAppLoad
  BY <1>3 DEF MainAppLoad, FileClose, parser, stack, input, Closed
<1>4. CASE MainReset
  BY <1>4 DEF MainReset, Restart, Closed
<1> QED  BY <1>1, <1>2, <1>3, <1>4 DEF MainLoop

LEMMA OwnedByStack ==
  ASSUME ~Errors, ~Faults, IInv, HandleInv,
         GotIp \/ TcpConnected \/ TcpFailed \/ TcpDisconnected \/ TcpSent
  PROVE  HandleInv'
<1> USE DEF HandleInv, HandleOwned, Receiving, Quiet
<1>1. CASE GotIp
  BY <1>1 DEF GotIp, stack, input, store
<1>2. CASE TcpConnected
  BY <1>2 DEF TcpConnected, input, store
<1>3. CASE TcpFailed
  BY <1>3 DEF TcpFailed, parser, input, store
<1>4. CASE TcpDisconnected
  <2>1. handle'.mode = "closed"
    BY <1>4 DEF TcpDisconnected, FileClose, Closed, store
  <2> QED  BY <1>4, <2>1 DEF TcpDisconnected, input
<1>5. CASE TcpSent
  <2>1. /\ conn' = conn /\ rx' = rx /\ rx = <<>>
        /\ UNCHANGED <<state, command>>
    <3>1. \A n \in Nat : SendFileChunk(handle, n) => conn' = conn
      BY SendFileChunkType DEF IInv, TypeOK
    <3>2. sending - 1 \in Nat
      BY <1>5 DEF TcpSent, IInv, TypeOK
    <3> QED  BY <1>5, <3>1, <3>2 DEF TcpSent, parser, input
  <2>2. handle'.mode = handle.mode \/ handle'.mode = "closed" \/ command = "GET"
    BY <1>5 DEF TcpSent, store
  <2>3. CASE command # "GET"
    BY <2>1, <2>2, <2>3
  <2>4. CASE command = "GET" /\ SendFileChunk(handle, sending - 1)
    <3>1. conn \in {"open", "closing"}
      BY <1>5 DEF TcpSent
    <3>2. handle.mode = "closed" => handle'.mode = "closed"
      <4>1. SUFFICES ASSUME handle.mode = "closed" PROVE handle'.mode = "closed"
        OBVIOUS
      <4>2. \A chunk \in Chunks(handle, ChunkSize) : chunk = <<>>
        BY <4>1, ChunkType DEF IInv, TypeOK
      <4> QED  BY <2>4, <4>2 DEF SendFileChunk, FileClose, Closed
    <3> QED  BY <2>1, <2>4, <3>1, <3>2
  <2> QED  BY <1>5, <2>3, <2>4 DEF TcpSent
<1> QED  BY <1>1, <1>2, <1>3, <1>4, <1>5

LEMMA OwnedByRecv ==
  ASSUME ~Faults, IInv, HandleInv, RecvStep
  PROVE  HandleInv'
<1> USE DEF HandleInv, HandleOwned
<1>0. Receiving /\ conn \in {"open", "closing"}
  BY DEF RecvStep, RecvPartial, RecvCommand, RecvUnknownCommand, RecvField, RecvUnknownField,
         RecvValue, RecvHashPut, RecvHashGet, RecvHashList, RecvHashVerify, RecvHashReboot, Hash,
         RecvPutData, RecvPutUnaligned, RecvIgnored, RecvIdle
<1>1. CASE RecvPartial \/ RecvCommand \/ RecvUnknownCommand
           \/ RecvField \/ RecvUnknownField \/ RecvValue
  <2>1. handle.mode = "closed" /\ UNCHANGED <<handle, conn>>
    BY <1>1 DEF RecvPartial, RecvCommand, RecvUnknownCommand, RecvField, RecvUnknownField,
                RecvValue, stack, store
  <2> QED  BY <1>0, <2>1
<1>2. CASE RecvHashPut
  BY <1>0, <1>2 DEF RecvHashPut, Hash, HeaderDone, stack
<1>3. CASE RecvHashGet
  <2>1. PICK h \in ReadHandles(filename) : SendFileChunk(h, sending)
    BY <1>3 DEF RecvHashGet
  <2>2. h \in Handles /\ sending \in Nat
    BY DEF ReadHandles, Handles, IInv, TypeOK
  <2>3. conn' = conn
    BY <2>1, <2>2, SendFileChunkType DEF IInv
  <2> QED  BY <1>0, <1>3, <2>3 DEF RecvHashGet, Hash, HeaderDone
<1>4. CASE RecvHashList \/ RecvHashVerify
  <2>1. UNCHANGED conn /\ state' = "COMMAND"
    BY <1>4 DEF RecvHashList, RecvHashVerify, SendOk, SendFails, HeaderDone
  <2>2. handle'.mode = "closed"
    BY <1>4 DEF RecvHashList, RecvHashVerify, FileClose, Hash, store, Closed
  <2> QED  BY <1>0, <2>1, <2>2
<1>5. CASE RecvHashReboot
  BY <1>5 DEF RecvHashReboot, Restart, Closed, Receiving
<1>6. CASE RecvPutData
  <2>1. UNCHANGED <<conn, state, command>>
    BY <1>6 DEF RecvPutData, SendOk, SendFails, stack
  <2> QED  BY <1>0, <1>6, <2>1 DEF RecvPutData
<1>7. CASE RecvPutUnaligned \/ RecvIgnored \/ RecvIdle
  BY <1>0, <1>7 DEF RecvPutUnaligned, RecvIgnored, RecvIdle, parser, stack, store
<1> QED  BY <1>1, <1>2, <1>3, <1>4, <1>5, <1>6, <1>7 DEF RecvStep

\* Where neither connections nor the card fail, no transfer leaves its file open: the file
\* object is only taken while the connection of a PUT or a GET has not been reported
\* closed, whatever header was given up on and whichever close came first.
THEOREM FileObjectOwned == ~Errors /\ ~Faults => (Spec => []HandleOwned)
<1> SUFFICES ASSUME ~Errors, ~Faults PROVE Spec => []HandleOwned
  OBVIOUS
<1>1. Init => HandleInv
  BY DEF Init, HandleInv, HandleOwned, Receiving, Closed
<1>2. IInv /\ HandleInv /\ [Next]_vars => HandleInv'
  <2> SUFFICES ASSUME IInv, HandleInv, [Next]_vars PROVE HandleInv'
    OBVIOUS
  <2>1. CASE (\E i \in Slots : EntryDue(i)) \/ UNCHANGED vars
    BY <2>1 DEF EntryDue, vars, parser, stack, input, store, HandleInv, HandleOwned, Receiving
  <2>2. CASE \E s \in Segments : TcpRecv(s)
    BY <2>2 DEF TcpRecv, parser, stack, store, HandleInv, HandleOwned, Receiving
  <2> QED
    BY <2>1, <2>2, OwnedByMainLoop, OwnedByStack, OwnedByRecv DEF Next, Device
<1>3. HandleInv => HandleOwned
  BY DEF HandleInv
<1> QED  BY <1>1, <1>2, <1>3, ControlInvariant, PTL DEF Spec
-----------------------------------------------------------------------------
(* The file a GET sends                                                      *)

\* A header has no reply before it; a chunk in flight is followed by what is left of
\* the file, which nobody writes meanwhile.
HeaderSilent == state \in {"INIT", "FIELD", "VALUE"} => out = <<>> /\ sending = 0

Getting == state = "COMMAND" /\ command = "GET" /\ conn = "open"

InStep ==
  Getting =>
    /\ handle.mode # "write"
    /\ sending = 1 /\ handle.mode = "read" =>
         filename \in Names /\ Received \o handle.data = disk[filename]

GetInv == HeaderSilent /\ InStep /\ GetInOrder

\* What replies bring.
DataOf(replies) == [i \in 1 .. Len(replies) |-> replies[i].data]

LEMMA DataAppend ==
  ASSUME NEW o \in Seq(Replies)
  PROVE  /\ FlattenSeq(DataOf(o)) \in Strings
         /\ \A r \in Replies :
              FlattenSeq(DataOf(Append(o, r))) = FlattenSeq(DataOf(o)) \o r.data
<1> DEFINE n == Len(o)
           s == DataOf(o)
<1>1. n \in Nat /\ \A i \in 1 .. n : o[i].data \in Seq(Items)
  <2>1. \A i \in 1 .. n : o[i] \in Replies
    BY ElementOfSeq
  <2> QED
    BY <2>1, LenProperties DEF Replies, Strings
<1>2. s \in Seq(Seq(Items)) /\ Len(s) = n /\ \A i \in 1 .. n : s[i] = o[i].data
  BY <1>1 DEF DataOf
<1>3. ASSUME NEW r \in Replies
      PROVE  r.data \in Seq(Items) /\ DataOf(Append(o, r)) = Append(s, r.data)
  <2> DEFINE t == Append(o, r)
             u == Append(s, r.data)
  <2>1. r.data \in Seq(Items)
    BY DEF Replies, Strings
  <2>2. Len(t) = n + 1 /\ t[n + 1] = r /\ \A i \in 1 .. n : t[i] = o[i]
    BY AppendProperties
  <2>3. /\ u \in Seq(Seq(Items)) /\ Len(u) = n + 1
        /\ u[n + 1] = r.data /\ \A i \in 1 .. n : u[i] = s[i]
    <3> HIDE DEF s, n
    <3> QED
      BY <1>2, <2>1, AppendProperties
  <2> HIDE DEF t, u
  <2>4. \A i \in 1 .. n + 1 : t[i].data = u[i]
    <3> HIDE DEF s, n
    <3>1. \A i \in 1 .. n + 1 : i \in 1 .. n \/ i = n + 1
      BY <1>1
    <3> QED
      BY <1>2, <2>2, <2>3, <3>1
  <2>5. u = [i \in 1 .. n + 1 |-> u[i]]
    BY <2>3
  <2>6. DataOf(t) = [i \in 1 .. n + 1 |-> t[i].data]
    BY <2>2 DEF DataOf
  <2>7. DataOf(t) = u
    BY <2>4, <2>5, <2>6
  <2> QED
    BY <2>1, <2>7 DEF t, u
<1> HIDE DEF s
<1>4. FlattenSeq(s) \in Seq(Items)
  <2>1. <<>> \in Seq(Items)
    BY EmptySeq
  <2> QED
    BY <1>2, <2>1, FlattenAppend
<1>5. \A r \in Replies : FlattenSeq(Append(s, r.data)) = FlattenSeq(s) \o r.data
  BY <1>2, <1>3, FlattenAppend
<1> QED
  BY <1>3, <1>4, <1>5 DEF s, Strings

\* A chunk and what is left are what there was.
LEMMA ChunkSplits ==
  ASSUME NEW h \in Handles, NEW chunk \in Chunks(h, ChunkSize), chunk # <<>>
  PROVE  /\ h.mode = "read" /\ Advance(h, Len(chunk)).mode = "read"
         /\ Advance(h, Len(chunk)).data \in Strings /\ chunk \in Strings
         /\ chunk \o Advance(h, Len(chunk)).data = h.data
<1> DEFINE d == h.data
           rest == SubSeq(d, Len(chunk) + 1, Len(d))
<1>1. h.mode = "read" /\ h # Closed
  BY ChunkType DEF Closed
<1>2. d \in Seq(Items)
  BY <1>1 DEF Handles, Strings
<1>3. Advance(h, Len(chunk)).mode = "read" /\ Advance(h, Len(chunk)).data = rest
  BY <1>1 DEF Advance, Handles
<1>4. /\ chunk \in Strings /\ rest \in Strings
      /\ Len(chunk) \in Nat /\ Len(chunk) <= Len(d) /\ chunk = SubSeq(d, 1, Len(chunk))
  BY ChunkType
<1> HIDE DEF d
<1>5. Len(d) \in Nat
  BY <1>2, LenProperties
<1>6. chunk \o rest = d
  <2> DEFINE n == Len(chunk)
  <2>1. 1 \in 1 .. Len(d) + 1 /\ n \in 1 - 1 .. Len(d) /\ Len(d) \in n .. Len(d)
    BY <1>4, <1>5
  <2> HIDE DEF n
  <2>2. SubSeq(d, 1, n) \o SubSeq(d, n + 1, Len(d)) = SubSeq(d, 1, Len(d))
    BY <1>2, <2>1, ConcatAdjacentSubSeq
  <2>3. SubSeq(d, 1, Len(d)) = d
    BY <1>2, SubSeqFull
  <2>4. chunk = SubSeq(d, 1, n)
    BY <1>4 DEF n
  <2>5. rest = SubSeq(d, n + 1, Len(d))
    BY DEF n
  <2> QED
    BY <2>2, <2>3, <2>4, <2>5
<1> QED
  BY <1>1, <1>3, <1>4, <1>6 DEF d

LEMMA PrefixOfWhole ==
  ASSUME NEW a \in Seq(Items), NEW b \in Seq(Items)
  PROVE  IsPrefix(a, a \o b)
<1> DEFINE w == a \o b
<1>1. a \in Seq(Items) /\ b \in Seq(Items)
  OBVIOUS
<1>2. /\ w \in Seq(Items) /\ Len(a) \in Nat /\ Len(b) \in Nat /\ Len(w) = Len(a) + Len(b)
      /\ \A j \in 1 .. Len(a) : w[j] = a[j]
  <2>1. /\ w \in Seq(Items) /\ Len(w) = Len(a) + Len(b)
        /\ \A i \in 1 .. Len(a) + Len(b) : w[i] = IF i <= Len(a) THEN a[i] ELSE b[i - Len(a)]
    BY ConcatProperties
  <2>2. Len(a) \in Nat /\ Len(b) \in Nat
    BY <1>1, LenProperties
  <2>3. \A j \in 1 .. Len(a) : j \in 1 .. Len(a) + Len(b) /\ j <= Len(a)
    BY <2>2
  <2> QED
    BY <2>1, <2>2, <2>3
<1> DEFINE n == Len(a)
           u == SubSeq(a, 1, n)
           v == SubSeq(w, 1, n)
<1>3. n \in Nat /\ n <= Len(w) /\ \A j \in 1 .. n : a[j] \in Items /\ w[j] \in Items
  BY <1>1, <1>2, ElementOfSeq
<1>4. u = a
  BY <1>1, SubSeqFull
<1>5. v \in Seq(Items) /\ Len(v) = n /\ \A j \in 1 .. n : v[j] = a[j]
  <2> HIDE DEF n
  <2>1. /\ v \in Seq(Items) /\ Len(v) = (IF 1 <= n THEN n - 1 + 1 ELSE 0)
        /\ \A i \in 1 .. n - 1 + 1 : v[i] = w[1 + i - 1]
    BY <1>3, SubSeqProperties
  <2>2. n - 1 + 1 = n /\ \A i \in 1 .. n : 1 + i - 1 = i
    BY <1>3
  <2>3. \A j \in 1 .. n : w[j] = a[j]
    BY <1>2 DEF n
  <2> QED
    BY <1>3, <2>1, <2>2, <2>3
<1>6. v = a
  <2> HIDE DEF v
  <2> QED
    BY <1>1, <1>5, SeqEqual
<1> QED
  BY <1>3, <1>4, <1>6 DEF IsPrefix

\* What send_file_chunk keeps of a GET: the next chunk is sent behind the others, or
\* nothing more is, and the file stays as it is.
Follows(h) == h.mode = "read" => filename \in Names /\ Received \o h.data = disk[filename]
Begins == out # <<>> => filename \in Names /\ IsPrefix(Received, disk[filename])

LEMMA ChunkFollows ==
  ASSUME TypeOK, NEW h \in Handles, h.mode # "write", SendFileChunk(h, 0), UNCHANGED filename,
         Follows(h), Begins
  PROVE  /\ sending' <= 1 /\ handle'.mode # "write" /\ Begins'
         /\ sending' = 1 => Follows(handle)'
<1>1. PICK chunk \in Chunks(h, ChunkSize) :
        IF chunk = <<>>
        THEN /\ FileClose(h) /\ Post(CloseSoon)
             /\ sending' = 0 /\ UNCHANGED <<conn, out>>
        ELSE /\ handle' = Advance(h, Len(chunk))
             /\ UNCHANGED disk
             /\ \/ SendOk(0, Chunk(chunk)) /\ UNCHANGED deffuncs
                \/ SendFails(0) /\ Post(CloseSoon)
  BY DEF SendFileChunk
<1>2. UNCHANGED disk
  BY <1>1, FileCloseType
<1>3. UNCHANGED out => Begins'
  BY <1>2 DEF Begins, Received
<1>4. CASE chunk = <<>>
  BY <1>1, <1>3, <1>4 DEF FileClose, Closed
<1>5. CASE chunk # <<>> /\ SendFails(0)
  <2>1. handle'.mode = "read" /\ UNCHANGED out /\ sending' = 0
    BY <1>1, <1>5, ChunkSplits DEF SendFails
  <2> QED
    BY <1>3, <2>1
<1>6. CASE chunk # <<>> /\ SendOk(0, Chunk(chunk))
  <2> DEFINE r == Chunk(chunk)
             rest == Advance(h, Len(chunk)).data
             before == Received
  <2>1. /\ h.mode = "read" /\ handle'.mode = "read" /\ handle'.data = rest
        /\ rest \in Strings /\ chunk \in Strings /\ chunk \o rest = h.data
    BY <1>1, <1>6, ChunkSplits
  <2>2. r \in Replies /\ r.data = chunk
    BY <2>1, ReplyTypes DEF Chunk
  <2>3. out' = Append(out, r) /\ sending' = 1 /\ out \in Seq(Replies)
    BY <1>6 DEF SendOk, TypeOK
  <2>4. before \in Strings /\ Received' = before \o chunk
    <3>1. Received = FlattenSeq(DataOf(out)) /\ Received' = FlattenSeq(DataOf(out'))
      BY DEF Received, DataOf
    <3> HIDE DEF r
    <3> QED
      BY <2>2, <2>3, <3>1, DataAppend
  <2>5. filename \in Names /\ before \o h.data = disk[filename]
    BY <2>1 DEF Follows
  <2> HIDE DEF before, rest
  <2>6. (before \o chunk) \o rest = disk[filename] /\ before \o chunk \in Strings
    <3>1. before \in Seq(Items) /\ chunk \in Seq(Items) /\ rest \in Seq(Items)
      BY <2>1, <2>4 DEF Strings
    <3>2. (before \o chunk) \o rest = before \o (chunk \o rest) /\ before \o chunk \in Seq(Items)
      BY <3>1, ConcatAssociative, ConcatProperties
    <3> QED
      BY <2>1, <2>5, <3>2 DEF Strings
  <2>7. IsPrefix(before \o chunk, disk[filename])
    <3> DEFINE z == before \o chunk
    <3>1. z \in Seq(Items) /\ rest \in Seq(Items)
      BY <2>1, <2>6 DEF Strings
    <3> HIDE DEF z
    <3>2. IsPrefix(z, z \o rest)
      BY <3>1, PrefixOfWhole
    <3> QED
      BY <2>6, <3>2 DEF z
  <2>8. Begins'
    BY <1>2, <2>4, <2>5, <2>7 DEF Begins
  <2>9. Follows(handle)'
    BY <1>2, <2>1, <2>4, <2>5, <2>6 DEF Follows
  <2> QED
    BY <2>1, <2>3, <2>8, <2>9
<1> QED
  BY <1>1, <1>4, <1>5, <1>6

\* Steps without a word to the peer, that leave the transfer as it is or end it.
LEMMA GetLeftAlone ==
  ASSUME GetInv, UNCHANGED <<out, disk, filename>>, UNCHANGED sending,
         UNCHANGED <<state, command, conn, handle>> \/ state' = "IDLE"
  PROVE  GetInv'
<1>1. Received' = Received
  BY DEF Received
<1> QED
  BY <1>1 DEF GetInv, HeaderSilent, InStep, GetInOrder, Getting

LEMMA GetByMainLoop == ASSUME IInv, GetInv, MainLoop PROVE GetInv'
<1>1. CASE MainBegin \/ SlotSkip \/ SlotClose \/ MainReturn
  BY <1>1, GetLeftAlone DEF MainBegin, SlotSkip, SlotClose, MainReturn, parser, stack, store
<1>2. CASE MainAppLoad
  <2>1. PICK h : ReadOn(h) /\ FileClose(h)
    BY <1>2, AppLoadReads DEF IInv
  <2>2. UNCHANGED disk
    BY <2>1, FileCloseType DEF ReadOn, IInv
  <2>3. state' = "IDLE" /\ UNCHANGED <<out, sending, filename>>
    BY <1>2 DEF MainAppLoad, parser, stack
  <2> QED
    BY <2>2, <2>3, GetLeftAlone
<1>3. CASE SlotConnect
  <2>1. UNCHANGED <<state, command, out, sending, disk, filename, handle>>
        /\ (conn' = conn \/ state = "IDLE")
    BY <1>3 DEF SlotConnect, parser, store
  <2> QED
    BY <2>1, GetLeftAlone
<1>4. CASE MainReset
  BY <1>4 DEF MainReset, Restart, GetInv, HeaderSilent, InStep, GetInOrder, Getting
<1> QED
  BY <1>1, <1>2, <1>3, <1>4 DEF MainLoop

LEMMA GetByStack ==
  ASSUME IInv, GetInv, GotIp \/ TcpConnected \/ TcpFailed \/ TcpDisconnected \/ TcpSent
  PROVE  GetInv'
<1>1. CASE GotIp
  BY <1>1, GetLeftAlone DEF GotIp, stack, store
<1>2. CASE TcpConnected
  BY <1>2 DEF TcpConnected, GetInv, HeaderSilent, InStep, GetInOrder, Getting
<1>3. CASE TcpFailed
  BY <1>3 DEF TcpFailed, parser, GetInv, HeaderSilent, InStep, GetInOrder, Getting
<1>4. CASE TcpDisconnected
  BY <1>4 DEF TcpDisconnected, GetInv, HeaderSilent, InStep, GetInOrder, Getting
<1>5. CASE TcpSent
  <2>1. /\ UNCHANGED <<state, command, filename>> /\ sending # 0
        /\ handle \in Handles /\ sending - 1 \in Nat /\ TypeOK /\ sending \in Nat
    BY <1>5 DEF TcpSent, parser, IInv, TypeOK
  <2>2. HeaderSilent'
    BY <2>1 DEF GetInv, HeaderSilent
  <2>3. conn' = conn
    BY <1>5, <2>1, SendFileChunkType DEF TcpSent
  <2>4. CASE Getting
    <3>1. sending = 1 /\ sending - 1 = 0
      BY <2>1, <2>4 DEF GetInv, GetInOrder, Getting
    <3>2. SendFileChunk(handle, 0)
      BY <1>5, <2>4, <3>1 DEF TcpSent, Getting
    <3>3. Follows(handle) /\ Begins /\ handle.mode # "write"
      BY <2>4, <3>1 DEF GetInv, InStep, GetInOrder, Follows, Begins, Getting
    <3>4. /\ sending' <= 1 /\ handle'.mode # "write" /\ Begins'
          /\ sending' = 1 => Follows(handle)'
      BY <2>1, <3>2, <3>3, ChunkFollows
    <3> QED
      BY <2>2, <3>4 DEF GetInv, InStep, GetInOrder, Follows, Begins, Getting
  <2>5. CASE ~ Getting
    <3>1. ~ Getting'
      BY <2>1, <2>3, <2>5 DEF Getting
    <3> QED
      BY <2>2, <3>1 DEF GetInv, InStep, GetInOrder, Getting
  <2> QED
    BY <2>4, <2>5
<1> QED
  BY <1>1, <1>2, <1>3, <1>4, <1>5

LEMMA GetByRecv == ASSUME IInv, GetInv, RecvStep PROVE GetInv'
<1>1. CASE \/ RecvPartial \/ RecvCommand \/ RecvUnknownCommand
           \/ RecvField \/ RecvUnknownField \/ RecvValue
  <2>1. state \in {"INIT", "FIELD", "VALUE"} /\ UNCHANGED <<out, sending>>
        /\ state' # "COMMAND"
    BY <1>1 DEF RecvPartial, RecvCommand, RecvUnknownCommand, RecvField, RecvUnknownField,
                RecvValue, stack
  <2>2. out' = <<>> /\ sending' = 0
    BY <2>1 DEF GetInv, HeaderSilent
  <2> QED
    BY <2>1, <2>2 DEF GetInv, HeaderSilent, InStep, GetInOrder, Getting
<1>2. CASE RecvHashPut \/ RecvHashList \/ RecvHashVerify
  <2>1. state' = "COMMAND" /\ command' # "GET"
    BY <1>2 DEF RecvHashPut, RecvHashList, RecvHashVerify, Hash, HeaderDone
  <2> QED
    BY <2>1 DEF GetInv, HeaderSilent, InStep, GetInOrder, Getting
<1>3. CASE RecvHashGet
  <2>1. PICK h \in ReadHandles(filename) : SendFileChunk(h, sending)
    BY <1>3 DEF RecvHashGet
  <2>2. /\ state = "FIELD" /\ state' = "COMMAND" /\ UNCHANGED filename /\ TypeOK
    BY <1>3 DEF RecvHashGet, Hash, HeaderDone, IInv
  <2>3. out = <<>> /\ sending = 0
    BY <2>2 DEF GetInv, HeaderSilent
  <2>4. /\ h \in Handles /\ h.mode # "write"
        /\ h.mode = "read" => filename \in Names /\ h.data = disk[filename] /\ h.data \in Seq(Items)
    BY <2>2 DEF ReadHandles, Handles, TypeOK, Closed, Strings
  <2>5. Received = <<>>
    BY <2>3, FlattenEmpty DEF Received
  <2>6. Follows(h) /\ Begins
    BY <2>3, <2>4, <2>5, ConcatEmptySeq DEF Follows, Begins
  <2>7. /\ sending' <= 1 /\ handle'.mode # "write" /\ Begins'
        /\ sending' = 1 => Follows(handle)'
    BY <2>1, <2>2, <2>3, <2>4, <2>6, ChunkFollows
  <2> QED
    BY <2>2, <2>7 DEF GetInv, HeaderSilent, InStep, GetInOrder, Follows, Begins
<1>4. CASE RecvHashReboot
  BY <1>4 DEF RecvHashReboot, Restart, GetInv, HeaderSilent, InStep, GetInOrder, Getting
<1>5. CASE RecvPutData
  BY <1>5 DEF RecvPutData, GetInv, HeaderSilent, InStep, GetInOrder, Getting
<1>6. CASE RecvPutUnaligned \/ RecvIgnored \/ RecvIdle
  BY <1>6, GetLeftAlone DEF RecvPutUnaligned, RecvIgnored, RecvIdle, parser, stack, store
<1> QED
  BY <1>1, <1>2, <1>3, <1>4, <1>5, <1>6 DEF RecvStep

\* What a GET has sent is the beginning of its file, whatever is cut short, for every
\* file and every size of the chunks: each next chunk is read behind the one that was
\* sent before it, and after a chunk that could not be sent there is none.
THEOREM GetSendsInOrder == Spec => []GetInOrder
<1>1. Init => GetInv
  BY DEF Init, GetInv, HeaderSilent, InStep, GetInOrder, Getting
<1>2. IInv /\ GetInv /\ [Next]_vars => GetInv'
  <2> SUFFICES ASSUME IInv, GetInv, [Next]_vars PROVE GetInv'
    OBVIOUS
  <2>1. CASE (\E i \in Slots : EntryDue(i)) \/ (\E s \in Segments : TcpRecv(s)) \/ UNCHANGED vars
    BY <2>1, GetLeftAlone DEF EntryDue, TcpRecv, vars, parser, stack, store
  <2> QED
    BY <2>1, GetByMainLoop, GetByStack, GetByRecv DEF Next, Device
<1>3. GetInv => GetInOrder
  BY DEF GetInv
<1> QED
  BY <1>1, <1>2, <1>3, ControlInvariant, PTL DEF Spec
-----------------------------------------------------------------------------
(* nettool: what stands on a connection *)

\* As long as control bytes are in front of x, or of what follows x and a run g of
\* control bytes, u is x, g and d.
Before(buf, u, x, g, d) ==
  \/ buf = <<x>> /\ u = g \o d
  \/ buf = <<>> /\ \E h \in Seq(Controls) : u = h \o (<<x>> \o (g \o d))

\* The end of a line.
NL == <<"nl">>

\* A string that does not begin with a control byte.
Clean(s) == s = <<>> \/ s[1] \notin Controls

\* The device has a connection on which bytes may come and go.
Present == conn \in {"open", "closing"}

\* What sendfile is still to send of the file of a put.
Unsent == IF phase = "data" THEN Padded ELSE <<>>

\* What is still to come on the connection behind the segment that is being read.
Ahead == wire \o Unsent

\* The first three words of a header for command c, with the bytes g and d behind them.
Opening(c, u, g, d) ==
  \/ state = "INIT" /\ command = "none"
     /\ Before(netbuf, u, c, NL, <<"filename">> \o (NL \o (<<Name>> \o (g \o d))))
  \/ state = "FIELD" /\ command = c /\ Before(netbuf, u, "filename", NL, <<Name>> \o (g \o d))
  \/ state = "VALUE" /\ command = c /\ field = "filename" /\ Before(netbuf, u, Name, g, d)

\* The size of a put.
Sizing(u, g, d) ==
  /\ command = "PUT" /\ filename = <<Name>>
  /\ \/ state = "FIELD" /\ Before(netbuf, u, "filesize", NL, <<Size>> \o (g \o d))
     \/ state = "VALUE" /\ field = "filesize" /\ Before(netbuf, u, Size, g, d)

\* The end of the header.
Ending(c, u, d) ==
  /\ state = "FIELD" /\ command = c /\ filename = <<Name>>
  /\ Before(netbuf, u, "#", NL, d)

\* The control bytes that fill up a header.
Gap(words) == NL \o Fill(2 * Len(words) + 2, "nl")

\* The control bytes that fill up the header of a get or a verify.
AskGap(c) == Gap(<<c, "filename", Name>>)

\* Those of the header of a put.
PutGap == Gap(<<"PUT", "filename", Name, "filesize", Size>>)

\* The line that ends a header, and what follows it.
HashLine(d) == <<"#">> \o (NL \o d)

\* The stream of a put: the device has read its header and the file up to some place, and
\* the rest of them is still to come; or it reads no more.
PutStream ==
  /\ command \in {"none", "PUT"}
  /\ \/ state = "IDLE"
     \/ Opening("PUT", rx \o Ahead, NL, <<"filesize">> \o (NL \o (<<Size>> \o (PutGap \o HashLine(Padded)))))
     \/ Sizing(rx \o Ahead, PutGap, HashLine(Padded))
     \/ Ending("PUT", rx \o Ahead, Padded) /\ filesize = Len(File)
     \/ /\ state = "COMMAND" /\ command = "PUT" /\ filename = <<Name>> /\ filesize = Len(File)

\* The stream of a get or a verify, likewise; there is nothing behind its header.
AskStream(c) ==
  /\ command \in {"none", c}
  /\ \/ state = "IDLE"
     \/ Opening(c, rx \o Ahead, AskGap(c), HashLine(<<>>))
     \/ Ending(c, rx \o Ahead, <<>>)
     \/ state = "COMMAND" /\ command = c /\ filename = <<Name>> /\ rx = <<>> /\ wire = <<>>

\* The phases in which nettool has a connection on which it has sent nothing yet.
FreshPhases == {"get", "list", "reboot", "put", "verify"}

\* The connection is waiting for accept, or nothing has been sent on it yet.
Fresh == queue = "live" \/ (live /\ phase \in FreshPhases)

\* Nothing has come on a connection and nothing has been sent on it.
Untouched ==
  /\ wire = <<>> /\ rx = <<>> /\ out = <<>> /\ sending = 0 /\ command = "none"
  /\ state = "IDLE" \/ (state = "INIT" /\ netbuf = <<>>)

\* nettool has closed the connection that the device still has.
Left == ~live /\ queue = "none"

\* The device's connection is the first one of a put.
PutLine == Present /\ cmd = "put" /\ ((live /\ phase \in {"data", "ok"}) \/ (Left /\ phase = "accept2"))

\* It is the second one of a put.
VerifyLine == Present /\ cmd = "put" /\ ((live /\ phase = "sum") \/ (Left /\ phase = "done"))

\* It is the one of a get.
GetLine == Present /\ cmd = "get" /\ ((live /\ phase = "reading") \/ (Left /\ phase = "done"))

\* The types of nettool's variables that the proofs need.
NetType ==
  /\ cmd \in Cmds /\ wire \in Strings /\ inbox \in Seq(Replies)
  /\ queue \in {"none", "live", "dead"} /\ live \in BOOLEAN
  /\ phase \in {"accept", "accept2", "data", "ok", "sum", "reading", "sleep", "done", "failed"}
       \cup FreshPhases

\* Each command has its own phases.
PhaseFits ==
  /\ phase \in {"get", "list", "reboot", "put"} => cmd = phase
  /\ phase \in {"data", "ok", "accept2", "verify", "sum"} => cmd = "put"
  /\ phase = "reading" => cmd \in {"get", "list"}
  /\ phase = "sleep" => cmd = "reboot"

\* nettool's view of the connection and the device's: an accepted connection is live only
\* while the device has it, one at a time waits for accept, and nothing has come on one
\* that nettool has not written to.
LinkInv ==
  /\ conn = "closing" => state = "IDLE"
  /\ ~Present => queue # "live" /\ ~live /\ wire = <<>> /\ rx = <<>>
  /\ queue # "none" => ~live
  /\ queue = "dead" => ~Present
  /\ live => phase \notin {"accept", "accept2", "done", "failed"}
  /\ Present /\ ~live /\ queue = "none" => phase \in {"accept2", "done"}
  /\ Present /\ Fresh => Untouched

\* The inductive invariant of nettool, the network and the device.
NetInv == IInv /\ NetType /\ PhaseFits /\ LinkInv

-----------------------------------------------------------------------------
(* Reading a stream *)

\* Control bytes are passed over, and nothing else is.
LEMMA SkipsToText ==
  ASSUME NEW h \in Seq(Controls), NEW m \in Seq(Items), m # <<>>, m[1] \notin Controls
  PROVE  SkipControls(h \o m) = m
<1> DEFINE w == h \o m
           k == Len(h)
           T == TextAt(w)
<1>1. h \in Seq(Items)
  BY ControlAssumption, SeqMonotonic
<1>2. /\ w \in Seq(Items) /\ k \in Nat /\ Len(w) \in Nat /\ k + 1 <= Len(w)
      /\ \A j \in 1 .. k : w[j] \in Controls
      /\ w[k + 1] \notin Controls
  <2>1. /\ w \in Seq(Items) /\ k \in Nat /\ Len(m) \in Nat /\ Len(w) = k + Len(m)
        /\ \A j \in 1 .. k : w[j] = h[j]
        /\ \A j \in 1 .. Len(m) : w[k + j] = m[j]
    BY <1>1, Behind
  <2>2. Len(m) >= 1 /\ 1 \in 1 .. Len(m)
    BY <2>1, EmptySeq
  <2>3. \A j \in 1 .. k : h[j] \in Controls
    BY ElementOfSeq
  <2> HIDE DEF w, k
  <2>4. w[k + 1] = m[1] /\ k + 1 <= Len(w) /\ Len(w) \in Nat
    BY <2>1, <2>2
  <2>5. \A j \in 1 .. k : w[j] \in Controls
    BY <2>1, <2>3 DEF k
  <2> QED
    BY <2>1, <2>4, <2>5
<1> HIDE DEF w, k
<1>3. k + 1 \in T /\ T \subseteq Nat /\ \A j \in T : ~(j \in 1 .. k)
  BY <1>2 DEF TextAt
<1>4. Least(T) \in T /\ Least(T) <= k + 1
  <2> HIDE DEF T
  <2> QED
    BY <1>3, LeastIsIn
<1>5. Least(T) = k + 1
  <2>1. Least(T) \in 1 .. Len(w)
    BY <1>4 DEF TextAt
  <2>2. ~(Least(T) \in 1 .. k) /\ Least(T) <= k + 1
    BY <1>3, <1>4
  <2> HIDE DEF T
  <2> QED
    BY <1>2, <2>1, <2>2
<1>6. SkipControls(w) = SubSeq(w, k + 1, Len(w))
  BY <1>3, <1>5 DEF SkipControls
<1> QED
  BY <1>1, <1>6, BackOf DEF w, k

\* Of control bytes h and what follows them, wherever a segment r ends: what is left
\* behind the control bytes that the segment begins with.
SkipEnds(r, rest, h, e) ==
  \/ SkipControls(r) = <<>>
     /\ \E h2 \in Seq(Controls) : rest = h2 \o e /\ (h # <<>> => Len(h2) < Len(h))
  \/ SkipControls(r) # <<>> /\ SkipControls(r) \o rest = e

\* control_skip_spaces at the beginning of a segment passes over the control bytes that
\* have come, and leaves what follows them, whether or not some are still to come.
LEMMA SkipsAhead ==
  ASSUME NEW r \in Seq(Items), NEW rest \in Seq(Items), NEW h \in Seq(Controls), NEW e \in Seq(Items),
         r # <<>>, SameString(r, rest, h, e), Clean(e)
  PROVE  SkipEnds(r, rest, h, e)
<1>1. h \in Seq(Items) /\ Len(h) \in Nat /\ Len(r) \in Nat
  BY ControlAssumption, SeqMonotonic, LenProperties
<1>2. CASE Len(r) <= Len(h)
  <2>1. PICK m \in Seq(Items) : h = r \o m /\ rest = m \o e /\ Len(h) = Len(r) + Len(m)
    <3>1. h \in Seq(Items)
      BY <1>1
    <3>2. Between(Items, r, rest, h, e)
      BY <1>2, <3>1, TwoCuts
    <3> QED
      BY <3>2 DEF Between
  <2>2. /\ Len(m) \in Nat /\ (\A j \in 1 .. Len(r) : h[j] = r[j])
        /\ \A j \in 1 .. Len(m) : h[Len(r) + j] = m[j]
    BY <2>1, Behind
  <2>3. \A j \in 1 .. Len(h) : h[j] \in Controls
    BY ElementOfSeq
  <2>4. \A j \in 1 .. Len(r) : r[j] \in Controls
    <3>1. \A j \in 1 .. Len(r) : j \in 1 .. Len(h)
      BY <1>1, <1>2
    <3> QED
      BY <2>2, <2>3, <3>1
  <2>5. \A j \in 1 .. Len(m) : m[j] \in Controls
    <3>1. \A j \in 1 .. Len(m) : Len(r) + j \in 1 .. Len(h)
      BY <1>1, <2>1, <2>2
    <3> QED
      BY <2>2, <2>3, <3>1
  <2>6. m \in Seq(Controls)
    BY <2>1, <2>5, SeqOver
  <2>7. SkipControls(r) = <<>>
    BY <2>4 DEF SkipControls, TextAt
  <2>8. Len(m) < Len(h)
    <3>1. Len(r) # 0
      BY EmptySeq
    <3> QED
      BY <1>1, <2>1, <2>2, <3>1
  <2> QED
    BY <2>1, <2>6, <2>7, <2>8 DEF SkipEnds
<1>3. CASE ~(Len(r) <= Len(h))
  <2>1. Len(h) <= Len(r)
    BY <1>1, <1>3
  <2>2. PICK m \in Seq(Items) : r = h \o m /\ e = m \o rest /\ Len(r) = Len(h) + Len(m)
    <3>1. h \in Seq(Items) /\ SameString(h, e, r, rest)
      BY <1>1 DEF SameString
    <3>2. Between(Items, h, e, r, rest)
      BY <2>1, <3>1, TwoCuts
    <3> QED
      BY <3>2 DEF Between
  <2>3. m # <<>>
    <3>1. m = <<>> => Len(m) = 0
      BY EmptySeq
    <3> QED
      BY <1>1, <1>3, <2>2, <3>1
  <2>4. m[1] = e[1] /\ e # <<>>
    BY <2>2, <2>3, FirstOf
  <2>5. m[1] \notin Controls
    BY <2>4 DEF Clean
  <2>6. SkipControls(r) = m
    BY <2>2, <2>3, <2>5, SkipsToText
  <2> QED
    BY <2>2, <2>3, <2>6 DEF SkipEnds
<1> QED
  BY <1>2, <1>3

\* What control_read_string returns: buf with a behind it is its string, complete when t2
\* is there to end it, and the rest of t2 is what it has not read.
Pieces(r, buf, a, t2) ==
  (r.done <=> t2 # <<>>) /\ r.text = buf \o a /\ r.rest = SkipControls(t2)

\* control_read_string passes over control bytes only in front of a string.
Trimmed(buf, s) == IF buf = <<>> THEN SkipControls(s) ELSE s

\* control_read_string takes what stands before the first control byte, and passes over
\* the control bytes behind it.
LEMMA ReadPieces ==
  ASSUME NEW buf \in Seq(Items), NEW s \in Seq(Items), NEW a \in Seq(Items), NEW t2 \in Seq(Items),
         \A j \in 1 .. Len(a) : a[j] \notin Controls,
         t2 # <<>> => t2[1] \in Controls,
         NEW t, t = Trimmed(buf, s), t = a \o t2,
         NEW r, r = ReadString(buf, s)
  PROVE  Pieces(r, buf, a, t2)
<1> DEFINE n == IF ControlsAt(t) = {} THEN Len(t) + 1 ELSE Least(ControlsAt(t))
           d == n <= Len(t)
           k == Len(a)
           text == buf \o SubSeq(t, 1, n - 1)
           tail == SkipControls(SubSeq(t, n, Len(t)))
<1>1. /\ k \in Nat /\ Len(t2) \in Nat /\ Len(t) = k + Len(t2)
      /\ \A j \in 1 .. k : t[j] \notin Controls
      /\ \A j \in 1 .. Len(t2) : t[k + j] = t2[j]
  <2>1. /\ k \in Nat /\ Len(t2) \in Nat /\ Len(t) = k + Len(t2)
        /\ \A j \in 1 .. k : t[j] = a[j]
        /\ \A j \in 1 .. Len(t2) : t[k + j] = t2[j]
    BY Behind
  <2> HIDE DEF k
  <2> QED
    BY <2>1 DEF k
<1>2. SubSeq(t, k + 1, Len(t)) = t2 /\ SubSeq(t, 1, k) = a
  <2>1. SubSeq(a \o t2, k + 1, Len(a \o t2)) = t2 /\ SubSeq(a \o t2, 1, k) = a
    BY BackOf
  <2> QED
    BY <2>1
<1>3. r = [done |-> d, text |-> text, rest |-> tail]
  BY DEF ReadString, Trimmed
<1> HIDE DEF text, tail
<1> DEFINE C == ControlsAt(t)
<1> HIDE DEF k
<1>4. t2 # <<>> => k + 1 \in C /\ Len(t2) >= 1
  <2> SUFFICES ASSUME t2 # <<>> PROVE k + 1 \in C /\ Len(t2) >= 1
    OBVIOUS
  <2>1. Len(t2) >= 1 /\ 1 \in 1 .. Len(t2)
    BY <1>1, EmptySeq
  <2>2. t[k + 1] \in Controls
    BY <1>1, <2>1
  <2>3. k + 1 \in 1 .. Len(t)
    BY <1>1, <2>1
  <2> QED
    BY <2>1, <2>2, <2>3 DEF ControlsAt
<1>5. C \subseteq Nat /\ \A j \in C : j \in 1 .. Len(t) /\ ~(j \in 1 .. k)
  BY <1>1 DEF ControlsAt
<1>6. t2 = <<>> => C = {} /\ Len(t) = k
  <2> SUFFICES ASSUME t2 = <<>> PROVE C = {} /\ Len(t) = k
    OBVIOUS
  <2>1. Len(t2) = 0
    BY EmptySeq
  <2>2. Len(t) = k
    BY <1>1, <2>1
  <2> QED
    BY <1>5, <2>2
<1>7. n = k + 1
  <2>1. CASE t2 = <<>>
    BY <1>6, <2>1
  <2>2. CASE t2 # <<>>
    <3> DEFINE l == Least(C)
    <3>1. k + 1 \in C /\ C # {}
      BY <1>4, <2>2
    <3> HIDE DEF C
    <3>2. l \in C /\ l <= k + 1
      BY <1>5, <3>1, LeastIsIn
    <3>3. l \in 1 .. Len(t) /\ ~(l \in 1 .. k)
      BY <1>5, <3>2
    <3> HIDE DEF l
    <3>4. l = k + 1
      BY <1>1, <3>2, <3>3
    <3>5. n = l
      BY <3>1 DEF C, l
    <3> QED
      BY <3>4, <3>5
  <2> QED
    BY <2>1, <2>2
<1> HIDE DEF n
<1>8. d <=> t2 # <<>>
  BY <1>1, <1>4, <1>6, <1>7
<1>9. n - 1 = k
  BY <1>1, <1>7
<1>10. r.done = d /\ r.text = text /\ r.rest = tail
  <2> HIDE DEF d
  <2> QED
    BY <1>3
<1>11. text = buf \o a /\ tail = SkipControls(t2)
  BY <1>2, <1>7, <1>9 DEF text, tail
<1> QED
  <2> HIDE DEF d
  <2> QED
    BY <1>8, <1>10, <1>11 DEF Pieces

\* What reading a word x yields, of which a segment brings any part.
WordRead(sc, rest, x, g, d) ==
  \/ ~sc.done /\ sc.rest = <<>> /\ Before(sc.text, rest, x, g, d)
  \/ /\ sc.done /\ sc.text = <<x>>
     /\ \E h \in Seq(Controls) : Len(h) < Len(g) /\ sc.rest \o rest = h \o d

\* The bytes that end a word: those of g and what is behind them.
LEMMA WordEnds ==
  ASSUME NEW buf \in Seq(Items), NEW s \in Seq(Items), NEW a \in Seq(Items), NEW t2 \in Seq(Items),
         NEW rest \in Seq(Items), NEW x \in Items \ Controls, NEW g \in Seq(Controls), g # <<>>,
         NEW d \in Seq(Items), Clean(d), buf \o a = <<x>>, a = <<>> \/ a = <<x>>,
         NEW t, t = Trimmed(buf, s), t = a \o t2,
         SameString(t2, rest, g, d)
  PROVE  WordRead(ReadString(buf, s), rest, x, g, d)
<1> DEFINE r == ReadString(buf, s)
<1>1. \A j \in 1 .. Len(a) : a[j] \notin Controls
  BY EmptySeq
<1>2. t2 \o rest = g \o d /\ g \in Seq(Items)
  BY ControlAssumption, SeqMonotonic DEF SameString
<1>3. t2 # <<>> => t2[1] \in Controls
  <2> SUFFICES ASSUME t2 # <<>> PROVE t2[1] \in Controls
    OBVIOUS
  <2>1. (t2 \o rest)[1] = t2[1] /\ (g \o d)[1] = g[1]
    BY <1>2, FirstOf
  <2>2. 1 \in 1 .. Len(g)
    BY <1>2, EmptySeq
  <2>3. g[1] \in Controls
    BY <2>2, ElementOfSeq
  <2> QED
    BY <1>2, <2>1, <2>3
<1>4. (r.done <=> t2 # <<>>) /\ r.text = <<x>> /\ r.rest = SkipControls(t2)
  <2>1. r = ReadString(buf, s)
    OBVIOUS
  <2> HIDE DEF r
  <2>2. Pieces(r, buf, a, t2)
    BY <1>1, <1>3, <2>1, ReadPieces
  <2> QED
    BY <2>2 DEF Pieces
<1> HIDE DEF r
<1>5. CASE t2 = <<>>
  <2>1. rest = g \o d
    BY <1>2, <1>5, ConcatEmptySeq
  <2>2. SkipControls(t2) = <<>>
    BY <1>5, EmptySeq DEF SkipControls, TextAt
  <2> QED
    BY <1>4, <1>5, <2>1, <2>2 DEF WordRead, Before, r
<1>6. CASE t2 # <<>>
  <2>1. SkipEnds(t2, rest, g, d)
    BY <1>6, SkipsAhead
  <2>2. \E h \in Seq(Controls) : Len(h) < Len(g) /\ r.rest \o rest = h \o d
    <3>1. ASSUME SkipControls(t2) = <<>>, NEW h2 \in Seq(Controls), rest = h2 \o d, Len(h2) < Len(g)
          PROVE  \E h \in Seq(Controls) : Len(h) < Len(g) /\ r.rest \o rest = h \o d
      <4>1. r.rest \o rest = h2 \o d
        BY <1>4, <3>1, ConcatEmptySeq
      <4> QED
        BY <3>1, <4>1
    <3>2. ASSUME SkipControls(t2) \o rest = d
          PROVE  \E h \in Seq(Controls) : Len(h) < Len(g) /\ r.rest \o rest = h \o d
      <4>1. <<>> \in Seq(Controls) /\ Len(<<>>) = 0
        BY EmptySeq
      <4>2. r.rest \o rest = <<>> \o d
        BY <1>4, <3>2, ConcatEmptySeq
      <4>3. Len(g) \in Nat /\ Len(g) # 0
        BY <1>2, EmptySeq
      <4>4. Len(<<>>) < Len(g)
        BY <4>1, <4>3
      <4> QED
        BY <4>1, <4>2, <4>4
    <3> QED
      BY <2>1, <3>1, <3>2 DEF SkipEnds
  <2> QED
    BY <1>4, <1>6, <2>2 DEF WordRead, r
<1> QED
  BY <1>5, <1>6

\* control_read_string reads the word x however the stream is cut: it has a part of it, or
\* the word is complete and stands in front of what is still to be read.
LEMMA ReadsWord ==
  ASSUME NEW buf \in Seq(Items), NEW r \in Seq(Items), NEW rest \in Seq(Items), r # <<>>,
         NEW x \in Items \ Controls, NEW g \in Seq(Controls), g # <<>>,
         NEW d \in Seq(Items), Clean(d), Before(buf, r \o rest, x, g, d)
  PROVE  WordRead(ReadString(buf, r), rest, x, g, d)
<1> DEFINE t == Trimmed(buf, r)
           none == <<>>
           e == <<x>> \o (g \o d)
<1>1. /\ none \in Seq(Items) /\ <<x>> \in Seq(Items) /\ g \in Seq(Items)
      /\ none \o <<x>> = <<x>> /\ <<x>> \o none = <<x>> /\ none \o r = r
      /\ none = <<>> /\ Len(<<x>>) = 1 /\ <<x>> # <<>>
  BY ControlAssumption, SeqMonotonic, EmptySeq, ConcatEmptySeq
<1>2. CASE buf = <<x>> /\ r \o rest = g \o d
  <2>1. t = r
    BY <1>1, <1>2 DEF Trimmed
  <2>2. SameString(r, rest, g, d)
    BY <1>2 DEF SameString
  <2>3. t = none \o r /\ buf \o none = <<x>>
    BY <1>1, <1>2, <2>1
  <2> HIDE DEF t, none
  <2>4. t = Trimmed(buf, r)
    BY DEF t
  <2> QED
    BY <1>1, <2>2, <2>3, <2>4, WordEnds
<1>3. ASSUME buf = <<>>, NEW h \in Seq(Controls), r \o rest = h \o e
      PROVE  WordRead(ReadString(buf, r), rest, x, g, d)
  <2>1. e \in Seq(Items) /\ Clean(e) /\ g \o d \in Seq(Items)
    <3>1. g \o d \in Seq(Items)
      BY <1>1, ConcatProperties
    <3>2. e \in Seq(Items) /\ e[1] = x
      BY <3>1, ItemFirst
    <3> QED
      BY <3>1, <3>2 DEF Clean
  <2>2. SameString(r, rest, h, e)
    BY <1>3 DEF SameString
  <2> HIDE DEF e
  <2>3. SkipEnds(r, rest, h, e)
    BY <2>1, <2>2, SkipsAhead
  <2>4. t = SkipControls(r)
    BY <1>3 DEF Trimmed
  <2>5. CASE t = <<>>
    <3> DEFINE s == ReadString(buf, r)
    <3>1. PICK h2 \in Seq(Controls) : rest = h2 \o e
      BY <2>3, <2>4, <2>5 DEF SkipEnds
    <3>2. none # <<>> => none[1] \in Controls
      BY <1>1
    <3>3. \A j \in 1 .. Len(none) : none[j] \notin Controls
      BY <1>1, EmptySeq
    <3>4. t = none \o none /\ none \o none = none /\ t = Trimmed(buf, r) /\ s = ReadString(buf, r)
      BY <1>1, <2>5, ConcatEmptySeq
    <3>5. buf = none
      BY <1>1, <1>3
    <3> HIDE DEF t, s, none
    <3>6. Pieces(s, buf, none, none)
      BY <1>1, <3>2, <3>3, <3>4, ReadPieces
    <3>7. ~s.done /\ s.text = <<>> /\ s.rest = SkipControls(none)
      BY <1>1, <3>4, <3>5, <3>6 DEF Pieces
    <3>8. SkipControls(none) = <<>>
      BY <1>1, EmptySeq DEF SkipControls, TextAt
    <3>9. Before(<<>>, rest, x, g, d)
      BY <3>1 DEF Before, e
    <3> QED
      BY <3>7, <3>8, <3>9 DEF WordRead, s
  <2>6. CASE t # <<>>
    <3>1. t \o rest = e /\ t \in Seq(Items)
      BY <2>3, <2>4, <2>6, SkipControlsType DEF SkipEnds, Strings
    <3>2. SameString(<<x>>, g \o d, t, rest)
      BY <3>1 DEF SameString, e
    <3>3. Len(<<x>>) <= Len(t)
      BY <1>1, <2>6, <3>1, EmptySeq
    <3>4. Between(Items, <<x>>, g \o d, t, rest)
      BY <1>1, <2>1, <3>1, <3>2, <3>3, TwoCuts
    <3>5. PICK m \in Seq(Items) : t = <<x>> \o m /\ g \o d = m \o rest
      BY <3>4 DEF Between
    <3>6. SameString(m, rest, g, d)
      BY <3>5 DEF SameString
    <3>7. buf \o <<x>> = <<x>> /\ t = Trimmed(buf, r)
      BY <1>1, <1>3
    <3> DEFINE a == <<x>>
    <3>8. a \in Seq(Items) /\ buf \o a = <<x>> /\ a = <<x>> /\ t = a \o m
      BY <1>1, <3>5, <3>7
    <3> HIDE DEF a, t
    <3> QED
      BY <3>6, <3>7, <3>8, WordEnds
  <2> QED
    BY <2>5, <2>6
<1> QED
  BY <1>2, <1>3 DEF Before

\* What fills up a header or the last word of a file is a string of one item.
LEMMA FillType ==
  ASSUME NEW S, NEW item \in S, NEW len \in Nat
  PROVE  Fill(len, item) \in Seq(S)
<1> DEFINE n == CHOOSE m \in 0 .. WordSize - 1 : (len + m) % WordSize = 0
<1>1. n \in 0 .. WordSize - 1
  BY ControlAssumption, FillsUp
<1> HIDE DEF n
<1>2. n \in Nat /\ [i \in 1 .. n |-> item] \in [1 .. n -> S]
  BY <1>1, ControlAssumption
<1>3. [i \in 1 .. n |-> item] \in Seq(S)
  BY <1>2, SeqDef
<1> QED
  BY <1>3 DEF Fill, n

\* The gap in front of "#" is not empty, and consists of control bytes.
LEMMA GapType ==
  ASSUME NEW words \in Seq(Items)
  PROVE  Gap(words) \in Seq(Controls) /\ Gap(words) # <<>>
<1>1. "nl" \in Controls /\ Len(words) \in Nat /\ 2 * Len(words) + 2 \in Nat
  BY NetToolAssumption, LenProperties
<1>2. Fill(2 * Len(words) + 2, "nl") \in Seq(Controls)
  BY <1>1, FillType
<1> DEFINE f == Fill(2 * Len(words) + 2, "nl")
<1> HIDE DEF f
<1>3. <<"nl">> \o f \in Seq(Controls) /\ <<"nl">> \o f # <<>>
  BY <1>1, <1>2, ItemFirst DEF f
<1> QED
  BY <1>3 DEF Gap, NL, f

\* What sendfile sends is a string, and begins as the file does.
LEMMA PaddedType == Padded \in Seq(Items) /\ (Clean(File) /\ File # <<>> => Clean(Padded))
<1>1. File \in Seq(Items) /\ Zero \in Items
  BY NetToolAssumption, ControlAssumption DEF Strings
<1>2. Len(File) \in Nat
  BY <1>1, LenProperties
<1> DEFINE f == Fill(Len(File), Zero)
<1>3. f \in Seq(Items)
  BY <1>1, <1>2, FillType
<1> HIDE DEF f
<1>4. File \o f \in Seq(Items)
  BY <1>1, <1>3, ConcatProperties
<1>5. File # <<>> => (File \o f)[1] = File[1]
  BY <1>1, <1>3, FirstOf
<1> QED
  BY <1>4, <1>5 DEF Padded, Clean, f

\* An empty file is not filled up.
LEMMA NothingToFill == Fill(0, Zero) = <<>>
<1> DEFINE n == CHOOSE m \in 0 .. WordSize - 1 : (0 + m) % WordSize = 0
<1>1. WordSize \in Nat \ {0}
  BY ControlAssumption
<1>2. \E k \in 0 .. WordSize - 1 : (0 + k) % WordSize = 0
  BY <1>1, FillsUp
<1>3. n \in 0 .. WordSize - 1 /\ (0 + n) % WordSize = 0
  BY <1>2
<1> HIDE DEF n
<1>4. n = 0
  BY <1>1, <1>3, SMT
<1>5. [i \in 1 .. n |-> Zero] = <<>>
  BY <1>4
<1> QED
  BY <1>5 DEF Fill, n

\* What sendfile sends begins with a control byte only when the file does.
LEMMA PaddedClean == Clean(File) => Clean(Padded)
<1>1. File = <<>> => Padded = <<>>
  BY NothingToFill, EmptySeq, ConcatEmptySeq DEF Padded
<1> QED
  BY <1>1, PaddedType DEF Clean

\* The lines of a header, one for each word.
LinesOf(ws) == FlattenSeq([i \in 1 .. Len(ws) |-> Line(ws[i])])

\* A word more is a line more.
LEMMA LinesAppend ==
  ASSUME NEW ws \in Seq(Items), NEW w \in Items
  PROVE  /\ LinesOf(ws) \in Seq(Items)
         /\ LinesOf(Append(ws, w)) = LinesOf(ws) \o Line(w)
<1> DEFINE n == Len(ws)
           s == [i \in 1 .. n |-> Line(ws[i])]
           t == Append(ws, w)
           u == Append(s, Line(w))
<1>1. n \in Nat /\ \A i \in 1 .. n : ws[i] \in Items
  BY ElementOfSeq, LenProperties
<1>2. "nl" \in Items
  BY NetToolAssumption, ControlAssumption
<1>3. \A x \in Items : Line(x) \in Seq(Items)
  BY <1>2 DEF Line
<1>4. s \in Seq(Seq(Items)) /\ Len(s) = n /\ \A i \in 1 .. n : s[i] = Line(ws[i])
  <2>1. \A i \in 1 .. n : Line(ws[i]) \in Seq(Items)
    BY <1>1, <1>3
  <2> QED
    BY <1>1, <2>1
<1>5. Len(t) = n + 1 /\ t[n + 1] = w /\ \A i \in 1 .. n : t[i] = ws[i]
  BY AppendProperties
<1>6. /\ u \in Seq(Seq(Items)) /\ Len(u) = n + 1
      /\ u[n + 1] = Line(w) /\ \A i \in 1 .. n : u[i] = s[i]
  <2> HIDE DEF s, n
  <2>1. Line(w) \in Seq(Items)
    BY <1>3
  <2> QED
    BY <1>4, <2>1, AppendProperties
<1> HIDE DEF t, u, s
<1>7. \A i \in 1 .. n + 1 : Line(t[i]) = u[i]
  <2> HIDE DEF n
  <2>1. \A i \in 1 .. n + 1 : i \in 1 .. n \/ i = n + 1
    BY <1>1
  <2> QED
    BY <1>4, <1>5, <1>6, <2>1
<1>8. u = [i \in 1 .. n + 1 |-> u[i]]
  BY <1>6
<1>9. LinesOf(t) = FlattenSeq([i \in 1 .. n + 1 |-> Line(t[i])])
  BY <1>5 DEF LinesOf
<1>10. LinesOf(t) = FlattenSeq(u)
  BY <1>7, <1>8, <1>9
<1>11. LinesOf(ws) = FlattenSeq(s)
  BY DEF LinesOf, s
<1>12. Line(w) \in Seq(Items)
  BY <1>3
<1>13. FlattenSeq(s) \in Seq(Items) /\ FlattenSeq(u) = FlattenSeq(s) \o Line(w)
  BY <1>4, <1>12, FlattenAppend DEF u
<1> QED
  BY <1>10, <1>11, <1>13 DEF t

\* Without words there are no lines.
LEMMA NoLines == LinesOf(<<>>) = <<>>
<1>1. [i \in 1 .. Len(<<>>) |-> Line(<<>>[i])] = <<>>
  OBVIOUS
<1> QED
  BY <1>1, FlattenEmpty DEF LinesOf

\* A line ends with one control byte.
LEMMA LineFeed == NL \in Seq(Controls) /\ NL \in Seq(Items) /\ NL # <<>> /\ Len(NL) = 1
<1>1. "nl" \in Items /\ "nl" \in Controls
  BY NetToolAssumption, ControlAssumption
<1> QED
  BY <1>1 DEF NL

\* A line is its word and the line feed.
LEMMA LineIs ==
  ASSUME NEW w \in Items
  PROVE  Line(w) = <<w>> \o NL /\ Line(w) \in Seq(Items) /\ Len(Line(w)) = 2
<1>1. "nl" \in Items
  BY NetToolAssumption, ControlAssumption
<1> DEFINE n == "nl"
<1>2. n \in Items /\ Line(w) = <<w, n>> /\ NL = <<n>>
  BY <1>1 DEF Line, NL
<1> HIDE DEF n
<1> QED
  BY <1>2

\* The lines of v are those of ws and that of w, whatever string s follows them.
Pushes(v, ws, w, s) ==
  /\ LinesOf(v) \o s = LinesOf(ws) \o (<<w>> \o (NL \o s))
  /\ <<w>> \o (NL \o s) \in Seq(Items)
  /\ Len(LinesOf(v)) = Len(LinesOf(ws)) + 2
  /\ LinesOf(v) \in Seq(Items)

\* buildheader puts the line of the last word behind the others.
LEMMA LinesPush ==
  ASSUME NEW ws \in Seq(Items), NEW w \in Items, NEW s \in Seq(Items), NEW v, v = Append(ws, w)
  PROVE  Pushes(v, ws, w, s)
<1> DEFINE l == LinesOf(ws)
           k == Line(w)
           o == <<w>>
           m == LinesOf(v)
<1>1. o \in Seq(Items)
  OBVIOUS
<1>2. l \in Seq(Items) /\ m = l \o k
  BY LinesAppend
<1>3. NL \in Seq(Items) /\ k = o \o NL /\ k \in Seq(Items) /\ Len(k) = 2
  BY LineFeed, LineIs
<1> HIDE DEF l, k, o, m
<1>4. Regroup(l, k, s) /\ Regroup(o, NL, s) /\ NL \o s \in Seq(Items)
  BY <1>1, <1>2, <1>3, Regroups
<1>5. o \o (NL \o s) \in Seq(Items) /\ l \o k \in Seq(Items) /\ Len(l \o k) = Len(l) + Len(k)
  BY <1>1, <1>2, <1>3, <1>4, ConcatProperties
<1>6. m \o s = l \o (o \o (NL \o s))
  BY <1>2, <1>3, <1>4 DEF Regroup
<1>7. m \in Seq(Items) /\ Len(m) = Len(l) + 2
  BY <1>2, <1>3, <1>5
<1> QED
  BY <1>5, <1>6, <1>7 DEF l, o, m, Pushes

\* "#" and its line feed, and what follows them, do not begin with a control byte.
LEMMA HashType ==
  ASSUME NEW d \in Seq(Items)
  PROVE  HashLine(d) \in Seq(Items) /\ Clean(HashLine(d)) /\ Line("#") \o d = HashLine(d)
<1> DEFINE x == "#"
           o == <<x>>
<1>1. x \in Items /\ x \notin Controls
  BY NetToolAssumption
<1>2. HashLine(d) = o \o (NL \o d)
  BY DEF HashLine
<1> HIDE DEF x
<1>3. NL \in Seq(Items) /\ Line(x) = o \o NL /\ o \in Seq(Items)
  BY <1>1, LineFeed, LineIs
<1>4. Regroup(o, NL, d) /\ NL \o d \in Seq(Items)
  BY <1>3, Regroups
<1>5. Line(x) \o d = o \o (NL \o d)
  BY <1>3, <1>4 DEF Regroup
<1>6. o \o (NL \o d) \in Seq(Items) /\ (o \o (NL \o d))[1] = x
  BY <1>1, <1>4, ItemFirst
<1> QED
  BY <1>1, <1>2, <1>5, <1>6 DEF Clean, x

\* A header and what follows it: its lines, and the gap in front of "#".
Ends(v, ws, w, d) ==
  /\ Header(v) \o d = LinesOf(ws) \o (<<w>> \o (Gap(v) \o HashLine(d)))
  /\ Header(v) \in Seq(Items)

\* buildheader's header, with its last line taken apart.
LEMMA HeaderEnds ==
  ASSUME NEW ws \in Seq(Items), NEW w \in Items, NEW d \in Seq(Items),
         Len(LinesOf(ws)) = 2 * Len(ws), NEW v, v = Append(ws, w)
  PROVE  Ends(v, ws, w, d)
<1> DEFINE l == LinesOf(v)
           n == 2 * Len(v) + 2
           f == Fill(n, "nl")
           h == Line("#")
           z == HashLine(d)
<1>1. v \in Seq(Items) /\ Len(v) = Len(ws) + 1 /\ Len(ws) \in Nat
  BY AppendProperties, LenProperties
<1>2. "nl" \in Items /\ "#" \in Items
  BY NetToolAssumption, ControlAssumption
<1>3. h \in Seq(Items) /\ z \in Seq(Items) /\ h \o d = z
  BY <1>2, HashType, LineIs
<1>4. NL \in Seq(Items)
  BY LineFeed
<1> HIDE DEF h, z
<1>5. n \in Nat
  BY <1>1
<1>6. Header(v) = (l \o Fill(Len(l) + 2, "nl")) \o h
  BY DEF Header, LinesOf, h
<1>7. Len(l) + 2 = n
  <2>1. <<>> \in Seq(Items)
    BY EmptySeq
  <2>2. Len(LinesOf(v)) = Len(LinesOf(ws)) + 2
    BY <2>1, LinesPush DEF Pushes
  <2> QED
    BY <1>1, <2>2
<1>8. l \in Seq(Items)
  BY <1>1, LinesAppend
<1>9. f \in Seq(Items)
  <2> HIDE DEF n
  <2> QED
    BY <1>2, <1>5, FillType
<1>10. Gap(v) = NL \o f
  BY DEF Gap
<1>11. Header(v) = (l \o f) \o h
  BY <1>6, <1>7
<1> HIDE DEF f, n, l
<1>12. f \o z \in Seq(Items) /\ l \o f \in Seq(Items)
  BY <1>3, <1>8, <1>9, ConcatProperties
<1>13. (l \o f) \o h \in Seq(Items)
  BY <1>3, <1>12, ConcatProperties
<1>14. Regroup(l \o f, h, d)
  <2> DEFINE a == l \o f
  <2>1. a \in Seq(Items) /\ h \in Seq(Items)
    BY <1>3, <1>12
  <2> HIDE DEF a
  <2>2. Regroup(a, h, d)
    BY <2>1, Regroups
  <2> QED
    BY <2>2 DEF a
<1>15. Regroup(l, f, z) /\ Regroup(NL, f, z)
  BY <1>3, <1>4, <1>8, <1>9, Regroups
<1>16. l \o (f \o z) = LinesOf(ws) \o (<<w>> \o (NL \o (f \o z)))
  <2> DEFINE y == f \o z
  <2> HIDE DEF y
  <2>1. y \in Seq(Items)
    BY <1>12 DEF y
  <2>2. Pushes(v, ws, w, y)
    BY <2>1, LinesPush
  <2> QED
    BY <2>2 DEF y, l, Pushes
<1>17. Header(v) \o d = l \o (f \o z)
  BY <1>3, <1>11, <1>14, <1>15 DEF Regroup
<1>18. NL \o (f \o z) = Gap(v) \o z
  BY <1>10, <1>15 DEF Regroup
<1>19. Header(v) \o d = LinesOf(ws) \o (<<w>> \o (Gap(v) \o z))
  BY <1>16, <1>17, <1>18
<1> QED
  BY <1>11, <1>13, <1>19 DEF z, Ends

\* The first two lines of a header, whatever follows them.
TwoLines(w2, a, b) ==
  \A s \in Seq(Items) : LinesOf(w2) \o s = <<a>> \o (NL \o (<<b>> \o (NL \o s)))

\* buildheader's first two lines, word by word.
LEMMA ReadsTwo ==
  ASSUME NEW a \in Items, NEW b \in Items
  PROVE  /\ <<a, b>> \in Seq(Items) /\ Len(<<a, b>>) = 2
         /\ Len(LinesOf(<<a, b>>)) = 4 /\ TwoLines(<<a, b>>, a, b)
<1> DEFINE e == <<>>
           w1 == <<a>>
           w2 == <<a, b>>
<1>1. e \in Seq(Items) /\ w1 \in Seq(Items) /\ w2 \in Seq(Items) /\ Len(w2) = 2
  OBVIOUS
<1>2. w1 = Append(e, a) /\ w2 = Append(w1, b)
  OBVIOUS
<1>3. LinesOf(e) = <<>> /\ Len(LinesOf(e)) = 0
  BY NoLines, EmptySeq
<1> HIDE DEF e, w1, w2
<1>4. ASSUME NEW s \in Seq(Items)
      PROVE  /\ LinesOf(w2) \o s = <<a>> \o (NL \o (<<b>> \o (NL \o s)))
             /\ Len(LinesOf(w2)) = 4
  <2> DEFINE y == <<b>> \o (NL \o s)
             z == <<a>> \o (NL \o y)
  <2>0. Pushes(w2, w1, b, s)
    BY <1>1, <1>2, <1>4, LinesPush
  <2>1. y \in Seq(Items) /\ LinesOf(w2) \o s = LinesOf(w1) \o y /\ Len(LinesOf(w2)) = Len(LinesOf(w1)) + 2
    BY <2>0 DEF Pushes
  <2> HIDE DEF y
  <2>a. Pushes(w1, e, a, y)
    BY <1>1, <1>2, <2>1, LinesPush
  <2>2. z \in Seq(Items) /\ LinesOf(w1) \o y = LinesOf(e) \o z /\ Len(LinesOf(w1)) = Len(LinesOf(e)) + 2
    BY <2>a DEF Pushes
  <2> HIDE DEF z
  <2>3. LinesOf(w2) \o s = <<>> \o z
    BY <1>3, <2>1, <2>2
  <2>4. <<>> \o z = z
    BY <2>2, ConcatEmptySeq
  <2>5. LinesOf(w2) \o s = z
    BY <2>3, <2>4
  <2>6. Len(LinesOf(w2)) = 4
    BY <1>3, <2>1, <2>2
  <2> QED
    BY <2>5, <2>6 DEF y, z
<1>5. Len(LinesOf(w2)) = 4
  BY <1>1, <1>4
<1>6. TwoLines(w2, a, b)
  BY <1>4 DEF TwoLines
<1> QED
  BY <1>1, <1>5, <1>6 DEF w2

\* A header of three words and what follows it, word by word.
Three(v, a, b, c, d) ==
  /\ Header(v) \o d = <<a>> \o (NL \o (<<b>> \o (NL \o (<<c>> \o (Gap(v) \o HashLine(d))))))
  /\ Header(v) \in Seq(Items) /\ v \in Seq(Items)

\* The header of a get, a list or a verify, word by word.
LEMMA ThreeWords ==
  ASSUME NEW a \in Items, NEW b \in Items, NEW c \in Items, NEW d \in Seq(Items),
         NEW v, v = <<a, b, c>>
  PROVE  Three(v, a, b, c, d)
<1> DEFINE w2 == <<a, b>>
           y == <<c>> \o (Gap(v) \o HashLine(d))
<1>1. w2 \in Seq(Items) /\ Len(LinesOf(w2)) = 4 /\ TwoLines(w2, a, b) /\ Len(w2) = 2
  BY ReadsTwo
<1>2. v = Append(w2, c) /\ v \in Seq(Items)
  OBVIOUS
<1>3. Gap(v) \in Seq(Items) /\ HashLine(d) \in Seq(Items)
  BY <1>2, GapType, HashType, ControlAssumption, SeqMonotonic
<1> HIDE DEF w2
<1>4. Header(v) \o d = LinesOf(w2) \o y /\ Header(v) \in Seq(Items)
  <2>1. Len(LinesOf(w2)) = 2 * Len(w2)
    BY <1>1
  <2>2. Ends(v, w2, c, d)
    BY <1>1, <1>2, <2>1, HeaderEnds
  <2> QED
    BY <2>2 DEF Ends, y
<1>5. y \in Seq(Items)
  <2> DEFINE x == Gap(v) \o HashLine(d)
  <2>1. x \in Seq(Items)
    BY <1>3, ConcatProperties
  <2> HIDE DEF x
  <2>2. <<c>> \o x \in Seq(Items)
    BY <2>1, ItemFirst
  <2> QED
    BY <2>2 DEF x
<1> HIDE DEF y
<1>6. LinesOf(w2) \o y = <<a>> \o (NL \o (<<b>> \o (NL \o y)))
  BY <1>1, <1>5 DEF TwoLines
<1> QED
  BY <1>2, <1>4, <1>6 DEF y, Three

\* A header of five words and what follows it, word by word.
Five(v, a, b, c, p, q, d) ==
  /\ Header(v) \o d =
       <<a>> \o (NL \o (<<b>> \o (NL \o (<<c>> \o (NL \o (<<p>> \o (NL \o (<<q>> \o (Gap(v) \o HashLine(d))))))))))
  /\ Header(v) \in Seq(Items) /\ v \in Seq(Items)

\* The header of a put, word by word.
LEMMA FiveWords ==
  ASSUME NEW a \in Items, NEW b \in Items, NEW c \in Items, NEW p \in Items, NEW q \in Items,
         NEW d \in Seq(Items), NEW v, v = <<a, b, c, p, q>>
  PROVE  Five(v, a, b, c, p, q, d)
<1> DEFINE w2 == <<a, b>>
           w3 == <<a, b, c>>
           w4 == <<a, b, c, p>>
           y == <<q>> \o (Gap(v) \o HashLine(d))
           y4 == <<p>> \o (NL \o y)
           y3 == <<c>> \o (NL \o y4)
<1>1. w2 \in Seq(Items) /\ Len(LinesOf(w2)) = 4 /\ TwoLines(w2, a, b) /\ Len(w2) = 2
  BY ReadsTwo
<1>2. w3 = Append(w2, c) /\ w3 \in Seq(Items)
  OBVIOUS
<1>3. w4 = Append(w3, p) /\ w4 \in Seq(Items) /\ Len(w4) = 4
  OBVIOUS
<1>4. v = Append(w4, q) /\ v \in Seq(Items)
  OBVIOUS
<1>5. Gap(v) \in Seq(Items) /\ HashLine(d) \in Seq(Items)
  BY <1>4, GapType, HashType, ControlAssumption, SeqMonotonic
<1> HIDE DEF w2, w3, w4
<1>6. y \in Seq(Items)
  <2> DEFINE x == Gap(v) \o HashLine(d)
  <2>1. x \in Seq(Items)
    BY <1>5, ConcatProperties
  <2> HIDE DEF x
  <2>2. <<q>> \o x \in Seq(Items)
    BY <2>1, ItemFirst
  <2> QED
    BY <2>2 DEF x
<1> HIDE DEF y
<1>a. Pushes(w4, w3, p, y)
  BY <1>2, <1>3, <1>6, LinesPush
<1>7. y4 \in Seq(Items) /\ LinesOf(w4) \o y = LinesOf(w3) \o y4 /\ Len(LinesOf(w4)) = Len(LinesOf(w3)) + 2
  BY <1>a DEF Pushes
<1> HIDE DEF y4
<1>b. Pushes(w3, w2, c, y4)
  BY <1>1, <1>2, <1>7, LinesPush
<1>8. y3 \in Seq(Items) /\ LinesOf(w3) \o y4 = LinesOf(w2) \o y3 /\ Len(LinesOf(w3)) = Len(LinesOf(w2)) + 2
  BY <1>b DEF Pushes
<1> HIDE DEF y3
<1>9. Header(v) \o d = LinesOf(w4) \o y /\ Header(v) \in Seq(Items)
  <2>1. Len(LinesOf(w4)) = 2 * Len(w4)
    BY <1>1, <1>3, <1>7, <1>8
  <2>2. Ends(v, w4, q, d)
    BY <1>3, <1>4, <2>1, HeaderEnds
  <2> QED
    BY <2>2 DEF y, Ends
<1>10. LinesOf(w2) \o y3 = <<a>> \o (NL \o (<<b>> \o (NL \o y3)))
  BY <1>1, <1>8 DEF TwoLines
<1>11. Header(v) \o d = <<a>> \o (NL \o (<<b>> \o (NL \o y3)))
  BY <1>7, <1>8, <1>9, <1>10
<1> QED
  BY <1>4, <1>9, <1>11 DEF y, y3, y4, Five

\* The bytes of the header of a get, a list or a verify, with d behind them.
AskBytes(c, d) ==
  <<c>> \o (NL \o (<<"filename">> \o (NL \o (<<Name>> \o (AskGap(c) \o HashLine(d))))))

\* The bytes of the header of a put, with d behind them.
PutBytes(d) ==
  <<"PUT">> \o (NL \o (<<"filename">> \o (NL \o (<<Name>> \o (NL \o (<<"filesize">> \o (NL \o
    (<<Size>> \o (PutGap \o HashLine(d))))))))))

\* What buildheader makes for each command.
LEMMA Headers ==
  ASSUME NEW d \in Seq(Items)
  PROVE  /\ \A c \in Commands : /\ Header(<<c, "filename", Name>>) \o d = AskBytes(c, d)
                                /\ Header(<<c, "filename", Name>>) \in Seq(Items)
                                /\ <<c, "filename", Name>> \in Seq(Items)
         /\ Header(<<"PUT", "filename", Name, "filesize", Size>>) \o d = PutBytes(d)
         /\ Header(<<"PUT", "filename", Name, "filesize", Size>>) \in Seq(Items)
         /\ <<"PUT", "filename", Name, "filesize", Size>> \in Seq(Items)
<1>1. /\ \A c \in Commands : c \in Items
      /\ "filename" \in Items /\ "filesize" \in Items
      /\ Name \in Items /\ Size \in Items /\ "PUT" \in Items
  BY NetToolAssumption DEF Commands, Fields
<1>2. ASSUME NEW c \in Commands PROVE Three(<<c, "filename", Name>>, c, "filename", Name, d)
  BY <1>1, <1>2, ThreeWords
<1>3. Five(<<"PUT", "filename", Name, "filesize", Size>>, "PUT", "filename", Name, "filesize", Size, d)
  BY <1>1, FiveWords
<1> QED
  BY <1>2, <1>3 DEF Three, Five, AskBytes, AskGap, PutBytes, PutGap

-----------------------------------------------------------------------------
(* The connection *)

\* Deliver hands over the front of the wire.
LEMMA Delivered ==
  ASSUME wire \in Strings, NEW n \in 1 .. NetbufSize, Deliver(n)
  PROVE  /\ TcpRecv(rx') /\ rx' \in Strings /\ wire' \in Strings /\ rx' # <<>>
         /\ rx' \o wire' = wire /\ wire # <<>>
         /\ UNCHANGED <<client, queue, live, inbox, fin, clobbered>>
<1>1. n \in Nat \ {0} /\ wire \in Seq(Items) /\ Len(wire) \in Nat
  BY LenProperties, ControlAssumption DEF Strings
<1>2. n \in 1 .. Len(wire)
  BY <1>1 DEF Deliver
<1> DEFINE a == SubSeq(wire, 1, n)
           b == SubSeq(wire, n + 1, Len(wire))
<1>3. TcpRecv(a) /\ wire' = b /\ UNCHANGED <<client, queue, live, inbox, fin, clobbered>>
  BY DEF Deliver
<1>4. a \in Seq(Items) /\ b \in Seq(Items) /\ a \o b = wire /\ a # <<>>
  BY <1>1, <1>2, CutOff
<1>5. rx' = a
  BY <1>3 DEF TcpRecv
<1> HIDE DEF a, b
<1>6. wire # <<>>
  <2>1. wire = <<>> => Len(wire) = 0
    BY EmptySeq
  <2> QED
    BY <1>1, <1>2, <2>1
<1> QED
  BY <1>3, <1>4, <1>5, <1>6 DEF Strings

\* nettool's steps leave the device alone.
LEMMA ClientLeaves == Client => UNCHANGED <<vars, cmd, clobbered>>
  BY DEF Client, Accept, Send, ReadOk, ReadSum, ReadMore, ReadEnd, Slept

\* Every read of the stream is one of the receive callback.
LEMMA RecvReceives == RecvStep => Receiving
  BY DEF RecvStep, RecvPartial, RecvCommand, RecvUnknownCommand, RecvField, RecvUnknownField,
         RecvValue, RecvHashPut, RecvHashGet, RecvHashList, RecvHashVerify, RecvHashReboot, Hash,
         RecvPutData, RecvPutUnaligned, RecvIgnored, RecvIdle

\* The steps of the device leave nettool alone, and are those of Control.
LEMMA DeviceLeaves ==
  ASSUME DeviceStep
  PROVE  Device /\ UNCHANGED client /\ ((Follow /\ ~TcpConnected) \/ Connected)
<1>0. ASSUME TcpConnected, Follow, Device, conn' # "open" \/ conn # "connecting" PROVE FALSE
  BY <1>0 DEF TcpConnected
<1>1. CASE Alone(MainBegin) \/ Alone(MainReturn)
  BY <1>1 DEF Alone, Device, MainLoop, MainBegin, MainReturn, TcpConnected, stack
<1>2. CASE Alone(Walk)
  BY <1>2 DEF Alone, Walk, Device, MainLoop, SlotSkip, SlotConnect, SlotClose, TcpConnected, Quiet,
              Slots, Outside, stack
<1>3. CASE \E i \in Slots : Alone(EntryDue(i))
  BY <1>3 DEF Alone, Device, EntryDue, TcpConnected, stack
<1>4. CASE Alone(GotIp) \/ Alone(TcpFailed) \/ Alone(TcpSent)
  BY <1>4 DEF Alone, Device, GotIp, TcpFailed, TcpSent, TcpConnected, stack
<1>5. CASE Receive
  BY <1>5, RecvReceives DEF Receive, Device, Receiving, TcpConnected, Quiet
<1>6. CASE (MainAppLoad \/ MainReset) /\ Follow /\ Clobbers /\ UNCHANGED client
  BY <1>6 DEF Device, MainLoop, MainAppLoad, MainReset, Restart, TcpConnected, stack
<1>7. CASE Connected
  BY <1>7 DEF Connected, Device
<1>8. CASE Disconnected
  <2>1. conn # "none" /\ conn' = "none"
    BY <1>8 DEF Disconnected, TcpDisconnected
  <2> QED
    BY <1>8, <2>1 DEF Disconnected, Device, Follow, TcpConnected
<1> QED
  BY <1>1, <1>2, <1>3, <1>4, <1>5, <1>6, <1>7, <1>8 DEF DeviceStep

\* A read of the stream keeps the connection, unless the device resets.
LEMMA RecvLink ==
  ASSUME IInv, RecvStep
  PROVE  Restart \/ (UNCHANGED conn /\ (state = "IDLE" => state' = "IDLE"))
<1>1. CASE RecvPartial \/ RecvCommand \/ RecvUnknownCommand
           \/ RecvField \/ RecvUnknownField \/ RecvValue
  BY <1>1 DEF RecvPartial, RecvCommand, RecvUnknownCommand, RecvField, RecvUnknownField,
              RecvValue, stack
<1>2. CASE RecvHashPut
  BY <1>2 DEF RecvHashPut, Hash, stack
<1>3. CASE RecvHashGet
  <2>1. PICK h \in ReadHandles(filename) : SendFileChunk(h, sending)
    BY <1>3 DEF RecvHashGet
  <2>2. h \in Handles /\ sending \in Nat
    BY DEF ReadHandles, Handles, IInv, TypeOK
  <2>3. conn' = conn
    BY <2>1, <2>2, SendFileChunkType DEF IInv
  <2> QED
    BY <1>3, <2>3 DEF RecvHashGet, Hash
<1>4. CASE RecvHashList \/ RecvHashVerify
  BY <1>4 DEF RecvHashList, RecvHashVerify, SendOk, SendFails, Hash
<1>5. CASE RecvHashReboot
  BY <1>5 DEF RecvHashReboot
<1>6. CASE RecvPutData
  BY <1>6 DEF RecvPutData, SendOk, SendFails, stack
<1>7. CASE RecvPutUnaligned \/ RecvIgnored \/ RecvIdle
  BY <1>7 DEF RecvPutUnaligned, RecvIgnored, RecvIdle, parser, stack
<1> QED
  BY <1>1, <1>2, <1>3, <1>4, <1>5, <1>6, <1>7 DEF RecvStep

\* The sent callback leaves the connection and the stream alone.
LEMMA SentLink ==
  ASSUME IInv, TcpSent
  PROVE  UNCHANGED <<conn, parser, rx>> /\ sending > 0 /\ sending # 0
<1>1. \A n \in Nat : SendFileChunk(handle, n) => conn' = conn
  BY SendFileChunkType DEF IInv, TypeOK
<1>2. sending - 1 \in Nat /\ sending > 0 /\ sending # 0
  BY DEF TcpSent, IInv, TypeOK
<1> QED
  BY <1>1, <1>2 DEF TcpSent, parser, input

\* What a step of the device does to its connection, and what it leaves as it is
\* before a request has come.
Linked ==
  /\ conn' = "closing" => state' = "IDLE"
  /\ \/ conn' = conn
     \/ conn' = "none" /\ rx' = <<>>
     \/ conn = "none" /\ conn' = "connecting" /\ rx' = rx
     \/ conn = "open" /\ conn' = "closing"
  /\ rx = <<>> => rx' = <<>>
  /\ rx = <<>> /\ sending = 0 /\ out = <<>> /\ command = "none" /\ conn' # "none" =>
       /\ sending' = 0 /\ out' = <<>> /\ command' = "none"
       /\ state' = "IDLE" \/ UNCHANGED <<state, netbuf>>

\* What the device does to its connection: it opens one from none, closes an open one only
\* when it has gone to IDLE, and does nothing on one on which nothing has come.
LEMMA DeviceLink ==
  ASSUME IInv, conn = "closing" => state = "IDLE", Device, ~TcpConnected
  PROVE  Linked
<1> USE DEF Linked
<1>1. CASE MainBegin \/ MainReturn \/ MainAppLoad \/ SlotSkip
  BY <1>1 DEF MainBegin, MainReturn, MainAppLoad, SlotSkip, parser, stack, input
<1>2. CASE SlotConnect
  BY <1>2 DEF SlotConnect, parser, input
<1>3. CASE SlotClose
  BY <1>3 DEF SlotClose, input
<1>4. CASE MainReset
  BY <1>4 DEF MainReset, Restart
<1>5. CASE \E i \in Slots : EntryDue(i)
  BY <1>5 DEF EntryDue, parser, stack, input
<1>6. CASE GotIp \/ TcpFailed \/ TcpDisconnected
  BY <1>6 DEF GotIp, TcpFailed, TcpDisconnected, parser, stack, input, Quiet
<1>7. CASE TcpSent
  BY <1>7, SentLink DEF parser
<1>8. CASE RecvStep
  <2>1. rx # <<>>
    BY <1>8, RecvReceives DEF Receiving
  <2>2. CASE Restart
    BY <2>1, <2>2 DEF Restart
  <2>3. CASE UNCHANGED conn /\ (state = "IDLE" => state' = "IDLE")
    BY <2>1, <2>3
  <2> QED
    BY <1>8, <2>2, <2>3, RecvLink
<1> QED
  BY <1>1, <1>2, <1>3, <1>4, <1>5, <1>6, <1>7, <1>8 DEF Device, MainLoop

\* Nothing is connected at first.
LEMMA NetInitInv == NetInit => NetInv
<1> SUFFICES ASSUME NetInit PROVE NetInv
  OBVIOUS
<1>1. IInv
  BY InitIInv DEF NetInit
<1>2. <<>> \in Strings /\ <<>> \in Seq(Replies)
  BY EmptySeq DEF Strings
<1>3. NetType /\ PhaseFits
  BY <1>2, NetToolAssumption DEF NetInit, NetType, PhaseFits
<1>4. LinkInv
  BY DEF NetInit, Init, LinkInv, Present
<1> QED
  BY <1>1, <1>3, <1>4 DEF NetInv

\* What nettool sends.
LEMMA SentBytes ==
  /\ Padded \in Seq(Items)
  /\ Header(<<"GET", "filename", Name>>) \in Seq(Items)
  /\ Header(<<"LIST", "filename", Name>>) \in Seq(Items)
  /\ Header(<<"VERIFY", "filename", Name>>) \in Seq(Items)
  /\ Header(<<"PUT", "filename", Name, "filesize", Size>>) \in Seq(Items)
  /\ Line("REBOOT") \o Line("mode") \o Line(Mode) \o Line("#") \o <<Zero>> \in Seq(Items)
<1>1. <<>> \in Seq(Items) /\ {"GET", "LIST", "VERIFY"} \subseteq Commands
  BY EmptySeq DEF Commands
<1>2. /\ Header(<<"GET", "filename", Name>>) \in Seq(Items)
      /\ Header(<<"LIST", "filename", Name>>) \in Seq(Items)
      /\ Header(<<"VERIFY", "filename", Name>>) \in Seq(Items)
      /\ Header(<<"PUT", "filename", Name, "filesize", Size>>) \in Seq(Items)
  BY <1>1, Headers
<1>3. /\ Line("REBOOT") \in Seq(Items) /\ Line("mode") \in Seq(Items) /\ Line(Mode) \in Seq(Items)
      /\ Line("#") \in Seq(Items) /\ <<Zero>> \in Seq(Items)
  <2>1. /\ "REBOOT" \in Items /\ "mode" \in Items /\ Mode \in Items /\ "#" \in Items /\ Zero \in Items
    BY NetToolAssumption, ControlAssumption DEF Commands, Fields
  <2>2. <<Zero>> \in Seq(Items)
    BY <2>1
  <2> QED
    BY <2>1, <2>2, LineIs
<1>4. \A a, b \in Seq(Items) : a \o b \in Seq(Items)
  BY ConcatProperties
<1>5. Line("REBOOT") \o Line("mode") \in Seq(Items)
  BY <1>3, <1>4
<1>6. Line("REBOOT") \o Line("mode") \o Line(Mode) \in Seq(Items)
  BY <1>3, <1>4, <1>5
<1>7. Line("REBOOT") \o Line("mode") \o Line(Mode) \o Line("#") \in Seq(Items)
  BY <1>3, <1>4, <1>6
<1>8. Line("REBOOT") \o Line("mode") \o Line(Mode) \o Line("#") \o <<Zero>> \in Seq(Items)
  BY <1>3, <1>4, <1>7
<1> QED
  BY <1>2, <1>8, PaddedType

\* The phases in which nettool has no connection.
Idle == {"accept", "accept2", "done", "failed"}

\* send leaves the device alone and puts its bytes behind what is on the wire, or fails.
LEMMA SendKeeps ==
  ASSUME NetInv, NEW before, NEW after, NEW bytes \in Seq(Items), Send(before, bytes, after),
         before \notin Idle, after \notin Idle \cup FreshPhases
  PROVE  /\ LinkInv' /\ wire' \in Strings /\ (phase' = after \/ phase' = "failed")
         /\ UNCHANGED <<vars, cmd, queue, live, inbox>>
<1>1. /\ phase = before /\ (phase' = after \/ (~live /\ phase' = "failed"))
      /\ wire' = IF live /\ conn = "open" THEN wire \o bytes ELSE wire
      /\ UNCHANGED <<vars, cmd, queue, live, inbox>>
  BY DEF Send
<1>2. UNCHANGED <<parser, conn, sending, out, rx>>
  BY <1>1 DEF vars, stack, input
<1>3. wire' \in Strings
  <2>1. wire \in Seq(Items)
    BY DEF NetInv, NetType, Strings
  <2>2. wire \o bytes \in Seq(Items)
    BY <2>1, ConcatProperties
  <2> QED
    BY <1>1, <2>1, <2>2 DEF Strings
<1>4. LinkInv'
  <2>1. CASE live
    BY <1>1, <1>2, <2>1 DEF NetInv, LinkInv, Present, Fresh, Idle, parser
  <2>2. CASE ~live
    BY <1>1, <1>2, <2>2 DEF NetInv, LinkInv, Present, Fresh, Idle, Untouched, FreshPhases, parser
  <2> QED
    BY <2>1, <2>2
<1> QED
  BY <1>1, <1>3, <1>4

\* accept takes the connection that waits for it.
LEMMA AcceptKeeps ==
  ASSUME NetInv, Accept("accept", cmd) \/ Accept("accept2", "verify")
  PROVE  NetInv'
<1>1. UNCHANGED <<vars, cmd, wire>>
  BY DEF Accept
<1>2. IInv'
  BY <1>1, StutterKeeps DEF NetInv
<1>3. UNCHANGED <<parser, conn, sending, out, rx>>
  BY <1>1 DEF vars, stack, input
<1>4. /\ live' = (queue = "live") /\ queue' = "none" /\ inbox' = <<>> /\ queue # "none"
      /\ (phase = "accept" /\ phase' = cmd) \/ (phase = "accept2" /\ phase' = "verify")
  BY DEF Accept
<1>5. cmd \in {"put", "get", "list", "reboot"}
  BY NetToolAssumption DEF NetInv, NetType
<1>6. NetType'
  BY <1>1, <1>4, <1>5, EmptySeq DEF NetInv, NetType, FreshPhases
<1>7. PhaseFits'
  BY <1>1, <1>4, <1>5 DEF NetInv, PhaseFits
<1>8. LinkInv'
  <2>1. UNCHANGED <<Present, Untouched>>
    BY <1>1, <1>3 DEF Present, Untouched, parser
  <2>2. phase' \in FreshPhases
    BY <1>4, <1>5 DEF FreshPhases
  <2>3. /\ (conn = "closing" => state = "IDLE")
        /\ ~Present => queue # "live" /\ ~live /\ wire = <<>> /\ rx = <<>>
        /\ queue = "dead" => ~Present
        /\ Present /\ queue = "live" => Untouched
        /\ queue \in {"none", "live", "dead"}
    BY DEF NetInv, LinkInv, Fresh, NetType
  <2>4. (conn' = "closing" => state' = "IDLE") /\ UNCHANGED <<wire, rx>>
    BY <1>1, <1>3, <2>3 DEF parser
  <2>5. phase' \notin {"accept", "accept2", "done", "failed"}
    BY <2>2 DEF FreshPhases
  <2>6. live' => queue = "live"
    BY <1>4
  <2>7. Present' /\ ~live' /\ queue' = "none" => FALSE
    BY <1>4, <2>1, <2>3
  <2>8. Present' /\ Fresh' => Untouched'
    BY <1>4, <2>1, <2>3, <2>6 DEF Fresh
  <2>9. ~Present' => queue' # "live" /\ ~live' /\ wire' = <<>> /\ rx' = <<>>
    BY <1>4, <2>1, <2>3, <2>4
  <2> QED
    BY <1>4, <2>4, <2>5, <2>7, <2>8, <2>9 DEF LinkInv
<1> QED
  BY <1>2, <1>6, <1>7, <1>8 DEF NetInv

\* recv, sleep and close keep nettool's view of the connection.
LEMMA ReadKeeps ==
  ASSUME NetInv, ReadOk \/ ReadSum \/ ReadMore \/ ReadEnd \/ Slept
  PROVE  NetInv'
<1>1. UNCHANGED <<vars, cmd, queue, wire>>
  BY DEF ReadOk, ReadSum, ReadMore, ReadEnd, Slept
<1>2. IInv'
  BY <1>1, StutterKeeps DEF NetInv
<1>3. UNCHANGED <<parser, conn, sending, out, rx>>
  BY <1>1 DEF vars, stack, input
<1>4. CASE ReadMore
  <2>1. /\ UNCHANGED <<phase, live>> /\ inbox' = Tail(inbox) /\ inbox # <<>>
    BY <1>4 DEF ReadMore
  <2>2. inbox' \in Seq(Replies)
    BY <2>1, HeadTailProperties DEF NetInv, NetType
  <2> QED
    BY <1>1, <1>2, <1>3, <2>1, <2>2
    DEF NetInv, NetType, PhaseFits, LinkInv, Present, Fresh, Untouched, parser
<1>5. CASE ReadOk \/ ReadSum \/ ReadEnd \/ Slept
  <2>1. /\ live' = FALSE /\ inbox' = <<>>
        /\ (phase = "ok" /\ phase' = "accept2") \/ phase' = "done"
    BY <1>5 DEF ReadOk, ReadSum, ReadEnd, Slept, CloseSocket
  <2>2. inbox' \in Seq(Replies)
    BY <2>1, EmptySeq
  <2> QED
    BY <1>1, <1>2, <1>3, <2>1, <2>2
    DEF NetInv, NetType, PhaseFits, LinkInv, Present, Fresh, Untouched, parser, FreshPhases
<1> QED
  BY <1>4, <1>5

\* Every send of nettool keeps the invariant.
LEMMA SendsKeep ==
  ASSUME NetInv,
         \/ Send("get", Header(<<"GET", "filename", Name>>), "reading")
         \/ Send("list", Header(<<"LIST", "filename", Name>>), "reading")
         \/ Send("reboot", Line("REBOOT") \o Line("mode") \o Line(Mode) \o Line("#") \o <<Zero>>, "sleep")
         \/ Send("put", Header(<<"PUT", "filename", Name, "filesize", Size>>), "data")
         \/ Send("data", Padded, "ok")
         \/ Send("verify", Header(<<"VERIFY", "filename", Name>>), "sum")
  PROVE  NetInv'
<1> DEFINE Goes(before, after) ==
             /\ LinkInv' /\ wire' \in Strings /\ (phase' = after \/ phase' = "failed") /\ phase = before
             /\ UNCHANGED <<vars, cmd, queue, live, inbox>>
<1>1. \/ Goes("get", "reading") \/ Goes("list", "reading") \/ Goes("reboot", "sleep")
      \/ Goes("put", "data") \/ Goes("data", "ok") \/ Goes("verify", "sum")
  <2>1. ASSUME NEW before \in {"get", "list", "reboot", "put", "data", "verify"},
               NEW after \in {"reading", "sleep", "data", "ok", "sum"}, NEW bytes \in Seq(Items),
               Send(before, bytes, after)
        PROVE  Goes(before, after)
    <3>1. before \notin Idle /\ after \notin Idle \cup FreshPhases
      BY <2>1 DEF Idle, FreshPhases
    <3> QED
      BY <2>1, <3>1, SendKeeps DEF Send
  <2> HIDE DEF Goes
  <2> QED
    BY <2>1, SentBytes
<1>2. IInv'
  BY <1>1, StutterKeeps DEF NetInv
<1>3. NetType'
  BY <1>1 DEF NetInv, NetType
<1>4. PhaseFits'
  BY <1>1 DEF NetInv, PhaseFits
<1> QED
  BY <1>1, <1>2, <1>3, <1>4 DEF NetInv

\* Every step of nettool keeps the invariant.
LEMMA ClientKeeps == ASSUME NetInv, Client PROVE NetInv'
  BY AcceptKeeps, SendsKeep, ReadKeeps DEF Client

\* The replies that come with a step.
NewReplies == SubSeq(out', Len(out) + 1, Len(out'))

\* What comes with a step of the device is a sequence of replies.
LEMMA NewRepliesType ==
  ASSUME TypeOK, TypeOK'
  PROVE  NewReplies \in Seq(Replies)
<1>1. out \in Seq(Replies) /\ out' \in Seq(Replies)
  BY DEF TypeOK
<1>2. Len(out) \in Nat /\ Len(out') \in Nat
  BY <1>1, LenProperties
<1>3. \A i \in Len(out) + 1 .. Len(out') : out'[i] \in Replies
  BY <1>1, <1>2, ElementOfSeq
<1> QED
  BY <1>1, <1>2, <1>3, SubSeqProperties DEF NewReplies

\* The device's steps keep its invariant, as in Control.
LEMMA DeviceIInv == ASSUME IInv, Device PROVE IInv'
  BY MainLoopStep, EntryDueStep, StackStepKeeps, RecvStepKeeps DEF Device

\* What the device does to its connection, nettool learns: the network follows it.
LEMMA FollowKeeps ==
  ASSUME NetInv, Device, ~TcpConnected, Follow, UNCHANGED client
  PROVE  NetInv'
<1>1. IInv'
  BY DeviceIInv DEF NetInv
<1>2. UNCHANGED <<cmd, phase>>
  BY DEF client
<1>3. NewReplies \in Seq(Replies)
  BY <1>1, NewRepliesType DEF NetInv, IInv
<1>4. Linked
  BY DeviceLink DEF NetInv, LinkInv
<1>5. CASE conn # "none" /\ conn' = "none"
  <2>1. /\ wire' = <<>> /\ live' = FALSE /\ inbox' = inbox
        /\ queue' = IF queue = "live" THEN "dead" ELSE queue
    BY <1>5 DEF Follow, Down
  <2>2. <<>> \in Strings
    BY EmptySeq DEF Strings
  <2>3. NetType' /\ PhaseFits'
    BY <1>2, <2>1, <2>2 DEF NetInv, NetType, PhaseFits
  <2>4. ~Present'
    BY <1>5 DEF Present
  <2>5. rx' = <<>>
    BY <1>4, <1>5 DEF Linked
  <2>6. LinkInv'
    BY <1>5, <2>1, <2>4, <2>5 DEF NetInv, NetType, LinkInv
  <2> QED
    BY <1>1, <2>3, <2>6 DEF NetInv
<1>6. CASE ~(conn # "none" /\ conn' = "none")
  <2>1. /\ inbox' = (IF live THEN inbox \o NewReplies ELSE inbox)
        /\ UNCHANGED <<queue, live, wire, fin>>
    BY <1>6 DEF Follow, Replied, NewReplies
  <2>2. inbox' \in Seq(Replies)
    <3>1. inbox \in Seq(Replies)
      BY DEF NetInv, NetType
    <3>2. inbox \o NewReplies \in Seq(Replies)
      BY <1>3, <3>1, ConcatProperties
    <3> QED
      BY <2>1, <3>1, <3>2
  <2>3. NetType' /\ PhaseFits'
    BY <1>2, <2>1, <2>2 DEF NetInv, NetType, PhaseFits
  <2>4. Present' => Present
    BY <1>4, <1>6 DEF Linked, Present
  <2>5. ~Present => rx = <<>> /\ rx' = <<>>
    BY <1>4 DEF NetInv, LinkInv, Linked
  <2>6. Present /\ ~Present' => FALSE
    BY <1>4, <1>6 DEF Linked, Present
  <2>7. ASSUME Present', Fresh' PROVE Untouched'
    <3>1. Untouched
      BY <1>2, <2>1, <2>4, <2>7 DEF NetInv, LinkInv, Fresh
    <3>2. conn' # "none"
      BY <2>7 DEF Present
    <3>3. /\ rx' = <<>> /\ sending' = 0 /\ out' = <<>> /\ command' = "none"
          /\ state' = "IDLE" \/ UNCHANGED <<state, netbuf>>
      BY <1>4, <3>1, <3>2 DEF Linked, Untouched
    <3> QED
      BY <2>1, <3>1, <3>3 DEF Untouched
  <2>8. conn' = "closing" => state' = "IDLE"
    BY <1>4 DEF Linked
  <2>9. LinkInv'
    <3>1. ~Present' => queue' # "live" /\ ~live' /\ wire' = <<>> /\ rx' = <<>>
      BY <2>1, <2>5, <2>6 DEF NetInv, LinkInv
    <3>2. /\ queue' # "none" => ~live'
          /\ queue' = "dead" => ~Present'
          /\ live' => phase' \notin {"accept", "accept2", "done", "failed"}
          /\ Present' /\ ~live' /\ queue' = "none" => phase' \in {"accept2", "done"}
      BY <1>2, <2>1, <2>4 DEF NetInv, LinkInv
    <3> QED
      BY <2>7, <2>8, <3>1, <3>2 DEF LinkInv
  <2> QED
    BY <1>1, <2>3, <2>9 DEF NetInv
<1> QED
  BY <1>5, <1>6

\* A connection of the device waits for accept, and nothing has come on it.
LEMMA ConnectedKeeps == ASSUME NetInv, Connected PROVE NetInv'
<1>1. IInv'
  BY DeviceIInv DEF NetInv, Connected, Device
<1>2. /\ conn = "connecting" /\ conn' = "open" /\ sending' = 0 /\ out' = <<>> /\ rx = <<>> /\ rx' = rx
      /\ state' = "INIT" /\ command' = "none" /\ netbuf' = <<>>
      /\ queue = "none" /\ queue' = "live" /\ wire' = <<>>
      /\ UNCHANGED <<cmd, phase, live, inbox>>
  BY DEF Connected, TcpConnected, Quiet, input, client
<1>3. ~Present /\ Present'
  BY <1>2 DEF Present
<1>4. <<>> \in Strings
  BY EmptySeq DEF Strings
<1>5. NetType' /\ PhaseFits'
  BY <1>2, <1>4 DEF NetInv, NetType, PhaseFits
<1>6. ~live
  BY <1>3 DEF NetInv, LinkInv
<1>7. Untouched'
  BY <1>2 DEF Untouched
<1>8. LinkInv'
  BY <1>2, <1>3, <1>6, <1>7 DEF NetInv, LinkInv
<1> QED
  BY <1>1, <1>5, <1>8 DEF NetInv

\* A delivery takes from the wire what the device gets.
LEMMA DeliverKeeps ==
  ASSUME NetInv, NEW n \in 1 .. NetbufSize, Deliver(n)
  PROVE  NetInv'
<1>1. /\ TcpRecv(rx') /\ rx' \in Strings /\ wire' \in Strings /\ wire # <<>>
      /\ UNCHANGED <<client, queue, live, inbox, fin, clobbered>>
  BY Delivered DEF NetInv, NetType
<1>2. IInv'
  BY <1>1, TakesString DEF NetInv
<1>3. UNCHANGED <<cmd, phase, queue, live, inbox>>
  BY <1>1 DEF client
<1>4. UNCHANGED <<parser, stack>> /\ conn \in {"open", "closing"}
  BY <1>1 DEF TcpRecv
<1>5. NetType' /\ PhaseFits'
  BY <1>1, <1>3 DEF NetInv, NetType, PhaseFits
<1>6. Present /\ Present' /\ ~Fresh /\ UNCHANGED Fresh
  <2>1. Present /\ Present' /\ UNCHANGED Fresh
    BY <1>3, <1>4 DEF Present, stack, Fresh
  <2>2. ~Untouched
    BY <1>1 DEF Untouched
  <2> QED
    BY <2>1, <2>2 DEF NetInv, LinkInv
<1>7. LinkInv'
  BY <1>3, <1>4, <1>6 DEF NetInv, LinkInv, parser, stack
<1> QED
  BY <1>2, <1>5, <1>7 DEF NetInv

\* Every step of nettool, the network or the device keeps the invariant.
LEMMA NetInvStep == ASSUME NetInv, [NetNext]_netvars PROVE NetInv'
<1>1. CASE UNCHANGED netvars
  <2>1. IInv'
    BY <1>1, StutterKeeps DEF netvars, NetInv
  <2> QED
    BY <1>1, <2>1 DEF netvars, vars, client, link, parser, stack, input, NetInv, NetType, PhaseFits,
                      LinkInv, Present, Fresh, Untouched
<1>2. CASE DeviceStep
  BY <1>2, DeviceLeaves, FollowKeeps, ConnectedKeeps
<1> QED
  BY <1>1, <1>2, ClientKeeps, DeliverKeeps DEF NetNext

\* The invariant of nettool, the network and the device holds in every state, for every
\* way to cut the stream and every order of their steps.
LEMMA NetInvAlways == NetSpec => []NetInv
BY NetInitInv, NetInvStep, PTL DEF NetSpec

-----------------------------------------------------------------------------
(* What the device reads *)

\* One iteration of the receive callback in a header has read only a part of the word x.
Partly(a, x, g, d) ==
  /\ UNCHANGED <<state, field, command, filename, filesize, bytesin>>
  /\ Before(netbuf', rx' \o a, x, g, d)

\* Nothing but control bytes, fewer than those of g, stands in front of d.
AfterGap(rest, g, d) == \E h \in Seq(Controls) : Len(h) < Len(g) /\ rest = h \o d

\* One iteration of the receive callback in a header has read the word x.
Wholly(a, x, g, d) == Scan.done /\ Scan.text = <<x>> /\ AfterGap(Scan.rest \o a, g, d)

\* One iteration of the receive callback in a header reads a part of the next word, or all
\* of it, wherever the segment ends.
LEMMA WordStep ==
  ASSUME TypeOK, RecvStep, state \in {"INIT", "FIELD", "VALUE"},
         NEW a \in Seq(Items), NEW x \in Items \ Controls, NEW g \in Seq(Controls), g # <<>>,
         NEW d \in Seq(Items), Clean(d), Before(netbuf, rx \o a, x, g, d)
  PROVE  Partly(a, x, g, d) \/ Wholly(a, x, g, d)
<1>1. netbuf \in Seq(Items) /\ rx \in Seq(Items) /\ rx # <<>>
  BY RecvReceives DEF TypeOK, Strings, Receiving
<1> DEFINE sc == ReadString(netbuf, rx)
<1>2. WordRead(sc, a, x, g, d)
  <2> HIDE DEF sc
  <2>1. WordRead(ReadString(netbuf, rx), a, x, g, d)
    BY <1>1, ReadsWord
  <2> QED
    BY <2>1 DEF sc
<1>3. Scan = sc
  BY DEF Scan
<1> HIDE DEF sc
<1>4. CASE ~Scan.done
  <2>1. Scan.rest = <<>> /\ Before(Scan.text, a, x, g, d)
    BY <1>2, <1>3, <1>4 DEF WordRead
  <2>2. RecvPartial
    BY <1>4 DEF RecvStep, RecvCommand, RecvUnknownCommand, RecvField, RecvUnknownField, RecvValue,
                RecvHashPut, RecvHashGet, RecvHashList, RecvHashVerify, RecvHashReboot, Hash,
                RecvPutData, RecvPutUnaligned, RecvIgnored, RecvIdle
  <2>3. /\ UNCHANGED <<state, field, command, filename, filesize, bytesin>>
        /\ netbuf' = Scan.text /\ rx' = Scan.rest
    BY <2>2 DEF RecvPartial, Continue
  <2>4. <<>> \o a = a
    BY ConcatEmptySeq
  <2> QED
    BY <2>1, <2>3, <2>4 DEF Partly
<1>5. CASE Scan.done
  BY <1>2, <1>3, <1>5 DEF WordRead, Wholly, AfterGap
<1> QED
  BY <1>4, <1>5

\* After a complete word there are only control bytes in front of the next one.
LEMMA WordBegins ==
  ASSUME NEW g, NEW u, NEW x, NEW g2, NEW d2, AfterGap(u, g, <<x>> \o (g2 \o d2))
  PROVE  Before(<<>>, u, x, g2, d2)
BY DEF AfterGap, Before

\* The file name is complete after the step.
Named(c, g, d, a) ==
  /\ state' = "FIELD" /\ command' = c /\ filename' = <<Name>> /\ netbuf' = <<>>
  /\ AfterGap(rx' \o a, g, d)

\* The same after a step, when the device is still in the first three words.
Opens(c, g, d, a) ==
  \/ state' = "INIT" /\ command' = "none"
     /\ Before(netbuf', rx' \o a, c, NL, <<"filename">> \o (NL \o (<<Name>> \o (g \o d))))
  \/ state' = "FIELD" /\ command' = c /\ Before(netbuf', rx' \o a, "filename", NL, <<Name>> \o (g \o d))
  \/ state' = "VALUE" /\ command' = c /\ field' = "filename" /\ Before(netbuf', rx' \o a, Name, g, d)

\* The words of a header are no control bytes.
LEMMA HeaderStrings ==
  ASSUME NEW g \in Seq(Controls), NEW d \in Seq(Items)
  PROVE  /\ <<Name>> \o (g \o d) \in Seq(Items) /\ Clean(<<Name>> \o (g \o d))
         /\ <<"filename">> \o (NL \o (<<Name>> \o (g \o d))) \in Seq(Items)
         /\ Clean(<<"filename">> \o (NL \o (<<Name>> \o (g \o d))))
         /\ Name \in Items \ Controls /\ "filename" \in Items \ Controls
         /\ "filesize" \in Items \ Controls /\ Size \in Items \ Controls /\ "#" \in Items \ Controls
         /\ \A c \in Commands : c \in Items \ Controls
<1>1. /\ Name \in Items \ Controls /\ "filename" \in Items \ Controls
      /\ "filesize" \in Items \ Controls /\ Size \in Items \ Controls /\ "#" \in Items \ Controls
      /\ \A c \in Commands : c \in Items \ Controls
  BY NetToolAssumption DEF Fields
<1>2. ASSUME NEW x \in Items \ Controls, NEW h \in Seq(Controls), NEW e \in Seq(Items)
      PROVE  <<x>> \o (h \o e) \in Seq(Items) /\ Clean(<<x>> \o (h \o e))
  <2>1. h \in Seq(Items)
    BY ControlAssumption, SeqMonotonic
  <2>2. h \o e \in Seq(Items)
    BY <2>1, ConcatProperties
  <2> DEFINE y == h \o e
             z == <<x>> \o y
  <2> HIDE DEF y
  <2>3. z \in Seq(Items) /\ z[1] = x
    BY <2>2, ItemFirst DEF y
  <2> HIDE DEF z
  <2>4. Clean(z)
    BY <2>3 DEF Clean
  <2> QED
    BY <2>3, <2>4 DEF y, z
<1>3. <<Name>> \o (g \o d) \in Seq(Items) /\ Clean(<<Name>> \o (g \o d))
  BY <1>1, <1>2
<1> DEFINE e == <<Name>> \o (g \o d)
           f == "filename"
<1>4. e \in Seq(Items) /\ f \in Items \ Controls
  BY <1>1, <1>3
<1> HIDE DEF e, f
<1>5. <<f>> \o (NL \o e) \in Seq(Items) /\ Clean(<<f>> \o (NL \o e))
  BY <1>2, <1>4, LineFeed
<1> QED
  BY <1>1, <1>3, <1>5 DEF e, f

\* The device reads the command, "filename" and the name as they were sent.
LEMMA OpeningStep ==
  ASSUME TypeOK, RecvStep, NEW c \in Commands, NEW a \in Seq(Items), NEW g \in Seq(Controls), g # <<>>,
         NEW d \in Seq(Items), Clean(d), Opening(c, rx \o a, g, d)
  PROVE  Opens(c, g, d, a) \/ Named(c, g, d, a)
<1> DEFINE f == "filename"
           e == <<Name>> \o (g \o d)
           b == <<f>> \o (NL \o e)
<1>1. /\ e \in Seq(Items) /\ Clean(e) /\ b \in Seq(Items) /\ Clean(b)
      /\ Name \in Items \ Controls /\ f \in Items \ Controls /\ c \in Items \ Controls
  BY HeaderStrings
<1>2. \/ state = "INIT" /\ command = "none" /\ Before(netbuf, rx \o a, c, NL, b)
      \/ state = "FIELD" /\ command = c /\ Before(netbuf, rx \o a, f, NL, e)
      \/ state = "VALUE" /\ command = c /\ field = f /\ Before(netbuf, rx \o a, Name, g, d)
  BY DEF Opening
<1>3. ASSUME \/ state' = "INIT" /\ command' = "none" /\ Before(netbuf', rx' \o a, c, NL, b)
             \/ state' = "FIELD" /\ command' = c /\ Before(netbuf', rx' \o a, f, NL, e)
             \/ state' = "VALUE" /\ command' = c /\ field' = f /\ Before(netbuf', rx' \o a, Name, g, d)
      PROVE  Opens(c, g, d, a)
  BY <1>3 DEF Opens
<1>4. f \in Fields /\ f # "#"
  BY DEF Fields
<1> HIDE DEF b, f, e
<1>5. CASE state = "INIT" /\ command = "none" /\ Before(netbuf, rx \o a, c, NL, b)
  <2>1. Partly(a, c, NL, b) \/ Wholly(a, c, NL, b)
    BY <1>1, <1>5, LineFeed, WordStep
  <2>2. CASE Partly(a, c, NL, b)
    BY <1>3, <1>5, <2>2 DEF Partly
  <2>3. CASE Wholly(a, c, NL, b)
    <3>1. Scan.done /\ Scan.text = <<c>>
      BY <2>3 DEF Wholly
    <3>2. RecvCommand
      BY <1>5, <3>1 DEF RecvStep, RecvPartial, RecvUnknownCommand, RecvField, RecvUnknownField, RecvValue,
                RecvHashPut, RecvHashGet, RecvHashList, RecvHashVerify, RecvHashReboot, Hash,
                RecvPutData, RecvPutUnaligned, RecvIgnored, RecvIdle
    <3>3. state' = "FIELD" /\ command' = c /\ netbuf' = <<>> /\ rx' = Scan.rest
      BY <3>1, <3>2 DEF RecvCommand, Continue
    <3>4. AfterGap(Scan.rest \o a, NL, <<f>> \o (NL \o e))
      BY <2>3 DEF Wholly, b
    <3>5. Before(<<>>, Scan.rest \o a, f, NL, e)
      BY <3>4, WordBegins
    <3> QED
      BY <1>3, <3>3, <3>5
  <2> QED
    BY <2>1, <2>2, <2>3
<1>6. CASE state = "FIELD" /\ command = c /\ Before(netbuf, rx \o a, f, NL, e)
  <2>1. Partly(a, f, NL, e) \/ Wholly(a, f, NL, e)
    BY <1>1, <1>6, LineFeed, WordStep
  <2>2. CASE Partly(a, f, NL, e)
    BY <1>3, <1>6, <2>2 DEF Partly
  <2>3. CASE Wholly(a, f, NL, e)
    <3>1. Scan.done /\ Scan.text = <<f>>
      BY <2>3 DEF Wholly
    <3>2. Scan.text # <<"#">>
      BY <1>4, <3>1
    <3>3. RecvField
      BY <1>4, <1>6, <3>1, <3>2 DEF RecvStep, RecvPartial, RecvCommand, RecvUnknownCommand, RecvUnknownField,
                RecvValue, RecvHashPut, RecvHashGet, RecvHashList, RecvHashVerify, RecvHashReboot, Hash,
                RecvPutData, RecvPutUnaligned, RecvIgnored, RecvIdle
    <3>4. state' = "VALUE" /\ command' = c /\ field' = f /\ netbuf' = <<>> /\ rx' = Scan.rest
      BY <1>6, <3>1, <3>3 DEF RecvField, Continue
    <3>5. AfterGap(Scan.rest \o a, NL, <<Name>> \o (g \o d))
      BY <2>3 DEF Wholly, e
    <3>6. Before(<<>>, Scan.rest \o a, Name, g, d)
      BY <3>5, WordBegins
    <3> QED
      BY <1>3, <3>4, <3>6
  <2> QED
    BY <2>1, <2>2, <2>3
<1>7. CASE state = "VALUE" /\ command = c /\ field = f /\ Before(netbuf, rx \o a, Name, g, d)
  <2>1. Partly(a, Name, g, d) \/ Wholly(a, Name, g, d)
    BY <1>1, <1>7, WordStep
  <2>2. CASE Partly(a, Name, g, d)
    BY <1>3, <1>7, <2>2 DEF Partly
  <2>3. CASE Wholly(a, Name, g, d)
    <3>1. Scan.done /\ Scan.text = <<Name>> /\ AfterGap(Scan.rest \o a, g, d)
      BY <2>3 DEF Wholly
    <3>2. RecvValue
      BY <1>7, <3>1 DEF RecvStep, RecvPartial, RecvCommand, RecvUnknownCommand, RecvField, RecvUnknownField,
                RecvHashPut, RecvHashGet, RecvHashList, RecvHashVerify, RecvHashReboot, Hash,
                RecvPutData, RecvPutUnaligned, RecvIgnored, RecvIdle
    <3>3. field = "filename"
      BY <1>7 DEF f
    <3>4. state' = "FIELD" /\ command' = c /\ filename' = <<Name>> /\ netbuf' = <<>> /\ rx' = Scan.rest
      BY <1>7, <3>1, <3>2, <3>3 DEF RecvValue, Continue
    <3> QED
      BY <3>1, <3>4 DEF Named
  <2> QED
    BY <2>1, <2>2, <2>3
<1> QED
  BY <1>2, <1>5, <1>6, <1>7

\* The same after a step, when the device is still in the size of a put.
Sizes(g, d, a) ==
  /\ command' = "PUT" /\ filename' = <<Name>>
  /\ \/ state' = "FIELD" /\ Before(netbuf', rx' \o a, "filesize", NL, <<Size>> \o (g \o d))
     \/ state' = "VALUE" /\ field' = "filesize" /\ Before(netbuf', rx' \o a, Size, g, d)

\* The size of a put is complete after the step, and is the one of the file.
Sized(g, d, a) ==
  /\ state' = "FIELD" /\ command' = "PUT" /\ filename' = <<Name>> /\ filesize' = Len(File)
  /\ netbuf' = <<>> /\ AfterGap(rx' \o a, g, d)

\* The device reads the size of the file as it was sent.
LEMMA SizingStep ==
  ASSUME TypeOK, RecvStep, NEW a \in Seq(Items), NEW g \in Seq(Controls), g # <<>>,
         NEW d \in Seq(Items), Clean(d), Sizing(rx \o a, g, d)
  PROVE  Sizes(g, d, a) \/ Sized(g, d, a)
<1> DEFINE f == "filesize"
           e == <<Size>> \o (g \o d)
<1>1. f \in Items \ Controls /\ Size \in Items \ Controls
  BY NetToolAssumption DEF Fields
<1>2. e \in Seq(Items) /\ Clean(e)
  <2>1. g \in Seq(Items)
    BY ControlAssumption, SeqMonotonic
  <2> DEFINE y == g \o d
  <2>2. y \in Seq(Items)
    BY <2>1, ConcatProperties
  <2> HIDE DEF y
  <2> DEFINE z == <<Size>> \o y
  <2>3. z \in Seq(Items) /\ z[1] = Size
    BY <1>1, <2>2, ItemFirst
  <2> HIDE DEF z
  <2>4. Clean(z)
    BY <1>1, <2>3 DEF Clean
  <2> QED
    BY <2>3, <2>4 DEF y, z
<1>3. /\ command = "PUT" /\ filename = <<Name>>
      /\ \/ state = "FIELD" /\ Before(netbuf, rx \o a, f, NL, e)
         \/ state = "VALUE" /\ field = f /\ Before(netbuf, rx \o a, Size, g, d)
  BY DEF Sizing
<1>4. ASSUME command' = "PUT" /\ filename' = <<Name>>,
             \/ state' = "FIELD" /\ Before(netbuf', rx' \o a, f, NL, e)
             \/ state' = "VALUE" /\ field' = f /\ Before(netbuf', rx' \o a, Size, g, d)
      PROVE  Sizes(g, d, a)
  BY <1>4 DEF Sizes
<1>5. f \in Fields /\ f # "#"
  BY DEF Fields
<1> HIDE DEF f, e
<1>6. CASE state = "FIELD" /\ Before(netbuf, rx \o a, f, NL, e)
  <2>1. Partly(a, f, NL, e) \/ Wholly(a, f, NL, e)
    BY <1>1, <1>2, <1>6, LineFeed, WordStep
  <2>2. CASE Partly(a, f, NL, e)
    BY <1>3, <1>4, <1>6, <2>2 DEF Partly
  <2>3. CASE Wholly(a, f, NL, e)
    <3>1. Scan.done /\ Scan.text = <<f>>
      BY <2>3 DEF Wholly
    <3>2. Scan.text # <<"#">>
      BY <1>5, <3>1
    <3>3. RecvField
      BY <1>5, <1>6, <3>1, <3>2 DEF RecvStep, RecvPartial, RecvCommand, RecvUnknownCommand, RecvUnknownField,
                RecvValue, RecvHashPut, RecvHashGet, RecvHashList, RecvHashVerify, RecvHashReboot, Hash,
                RecvPutData, RecvPutUnaligned, RecvIgnored, RecvIdle
    <3>4. /\ state' = "VALUE" /\ command' = "PUT" /\ filename' = <<Name>> /\ field' = f
          /\ netbuf' = <<>> /\ rx' = Scan.rest
      BY <1>3, <1>6, <3>1, <3>3 DEF RecvField, Continue
    <3>5. AfterGap(Scan.rest \o a, NL, <<Size>> \o (g \o d))
      BY <2>3 DEF Wholly, e
    <3>6. Before(<<>>, Scan.rest \o a, Size, g, d)
      BY <3>5, WordBegins
    <3> QED
      BY <1>4, <3>4, <3>6
  <2> QED
    BY <2>1, <2>2, <2>3
<1>7. CASE state = "VALUE" /\ field = f /\ Before(netbuf, rx \o a, Size, g, d)
  <2>1. Partly(a, Size, g, d) \/ Wholly(a, Size, g, d)
    BY <1>1, <1>7, WordStep
  <2>2. CASE Partly(a, Size, g, d)
    BY <1>3, <1>4, <1>7, <2>2 DEF Partly
  <2>3. CASE Wholly(a, Size, g, d)
    <3>1. Scan.done /\ Scan.text = <<Size>> /\ AfterGap(Scan.rest \o a, g, d)
      BY <2>3 DEF Wholly
    <3>2. RecvValue
      BY <1>7, <3>1 DEF RecvStep, RecvPartial, RecvCommand, RecvUnknownCommand, RecvField, RecvUnknownField,
                RecvHashPut, RecvHashGet, RecvHashList, RecvHashVerify, RecvHashReboot, Hash,
                RecvPutData, RecvPutUnaligned, RecvIgnored, RecvIdle
    <3>3. field = "filesize" /\ field # "filename"
      BY <1>7 DEF f
    <3>4. Numeral[Size] = Len(File) /\ Scan.text[1] = Size
      BY <3>1, NetToolAssumption
    <3>5. filesize' = Numeral[Scan.text[1]]
      BY <3>2, <3>3 DEF RecvValue
    <3>6. /\ state' = "FIELD" /\ command' = "PUT" /\ filename' = <<Name>>
          /\ netbuf' = <<>> /\ rx' = Scan.rest
      BY <1>3, <1>7, <3>2, <3>3 DEF RecvValue, Continue
    <3> QED
      BY <3>1, <3>4, <3>5, <3>6 DEF Sized
  <2> QED
    BY <2>1, <2>2, <2>3
<1> QED
  BY <1>3, <1>6, <1>7

\* The same after a step, when "#" is not complete.
Closes(c, d, a) ==
  /\ state' = "FIELD" /\ command' = c /\ filename' = <<Name>> /\ filesize' = filesize
  /\ Before(netbuf', rx' \o a, "#", NL, d)

\* Behind "#" and its line feed stands what follows the header, to the byte, unless that
\* begins with a control byte.
LEMMA EndingStep ==
  ASSUME TypeOK, RecvStep, NEW c \in Commands, NEW a \in Seq(Items), NEW d \in Seq(Items), Clean(d),
         Ending(c, rx \o a, d)
  PROVE  \/ Closes(c, d, a)
         \/ Hash(c) /\ filename = <<Name>> /\ Scan.rest \o a = d
            /\ (RecvHashPut \/ RecvHashGet \/ RecvHashList \/ RecvHashVerify \/ RecvHashReboot)
<1> DEFINE f == "#"
<1>1. f \in Items \ Controls /\ f \notin Fields
  BY NetToolAssumption DEF Fields
<1>2. state = "FIELD" /\ command = c /\ filename = <<Name>> /\ Before(netbuf, rx \o a, f, NL, d)
  BY DEF Ending
<1>3. Receiving
  BY RecvReceives
<1> HIDE DEF f
<1>4. Partly(a, f, NL, d) \/ Wholly(a, f, NL, d)
  BY <1>1, <1>2, LineFeed, WordStep
<1>5. CASE Partly(a, f, NL, d)
  BY <1>2, <1>5 DEF Partly, Closes, f
<1>6. CASE Wholly(a, f, NL, d)
  <2>1. Scan.done /\ Scan.text = <<f>> /\ AfterGap(Scan.rest \o a, NL, d)
    BY <1>6 DEF Wholly
  <2>2. \A x \in Fields : Scan.text # <<x>>
    BY <1>1, <2>1
  <2>3. Hash(c) /\ Scan.text = <<"#">>
    BY <1>2, <1>3, <2>1 DEF Hash, f
  <2>4. PICK h \in Seq(Controls) : Len(h) < Len(NL) /\ Scan.rest \o a = h \o d
    BY <2>1 DEF AfterGap
  <2>5. h = <<>>
    <3>1. Len(h) \in Nat /\ Len(NL) = 1
      BY LenProperties, LineFeed
    <3>2. Len(h) = 0
      BY <2>4, <3>1
    <3> QED
      BY <3>2, EmptySeq
  <2>6. Scan.rest \o a = d
    BY <2>4, <2>5, ConcatEmptySeq
  <2>7. RecvHashPut \/ RecvHashGet \/ RecvHashList \/ RecvHashVerify \/ RecvHashReboot
    BY <1>2, <2>1, <2>2, <2>3 DEF RecvStep, RecvPartial, RecvCommand, RecvUnknownCommand, RecvField, RecvUnknownField,
                RecvValue, RecvPutData, RecvPutUnaligned, RecvIgnored, RecvIdle
  <2> QED
    BY <1>2, <2>3, <2>6, <2>7
<1> QED
  BY <1>4, <1>5, <1>6

\* The gaps of all headers consist of control bytes.
LEMMA GapsType ==
  /\ PutGap \in Seq(Controls) /\ PutGap # <<>>
  /\ \A c \in Commands : AskGap(c) \in Seq(Controls) /\ AskGap(c) # <<>>
<1>1. <<>> \in Seq(Items)
  BY EmptySeq
<1>2. /\ <<"PUT", "filename", Name, "filesize", Size>> \in Seq(Items)
      /\ \A c \in Commands : <<c, "filename", Name>> \in Seq(Items)
  BY <1>1, Headers
<1> QED
  BY <1>2, GapType DEF PutGap, AskGap

\* However the stream is cut, the device reads the header of a put, and when it opens the
\* file, exactly the file and what fills up its last word is still to come.
LEMMA PutStreamStep ==
  ASSUME TypeOK, RecvStep, PutStream, Clean(File), Ahead \in Seq(Items), UNCHANGED Ahead
  PROVE  PutStream' /\ (RecvHashPut => rx' \o Ahead' = Padded /\ filename = <<Name>> /\ filesize = Len(File))
<1> DEFINE a == Ahead
           p == HashLine(Padded)
           s == <<Size>> \o (PutGap \o p)
           f == <<"filesize">> \o (NL \o s)
           c == "PUT"
<1>1. p \in Seq(Items) /\ Clean(p) /\ Padded \in Seq(Items) /\ Clean(Padded)
  BY PaddedType, PaddedClean, HashType
<1>2. PutGap \in Seq(Controls) /\ PutGap # <<>> /\ NL \in Seq(Controls) /\ NL # <<>>
  BY GapsType, LineFeed
<1>3. f \in Seq(Items) /\ Clean(f)
  <2>1. "filesize" \in Items \ Controls /\ Size \in Items \ Controls
    BY NetToolAssumption DEF Fields
  <2>2. ASSUME NEW x \in Items \ Controls, NEW h \in Seq(Controls), NEW e \in Seq(Items)
        PROVE  <<x>> \o (h \o e) \in Seq(Items) /\ Clean(<<x>> \o (h \o e))
    <3>1. h \in Seq(Items)
      BY ControlAssumption, SeqMonotonic
    <3> DEFINE y == h \o e
    <3>2. y \in Seq(Items)
      BY <3>1, ConcatProperties
    <3> HIDE DEF y
    <3> DEFINE z == <<x>> \o y
    <3>3. z \in Seq(Items) /\ z[1] = x
      BY <3>2, ItemFirst
    <3> HIDE DEF z
    <3>4. Clean(z)
      BY <3>3 DEF Clean
    <3> QED
      BY <3>3, <3>4 DEF y, z
  <2> HIDE DEF p
  <2>3. s \in Seq(Items)
    BY <1>1, <1>2, <2>1, <2>2
  <2> HIDE DEF s
  <2> QED
    BY <1>2, <2>1, <2>2, <2>3
<1>4. c \in Commands /\ Receiving
  BY RecvReceives DEF Commands
<1>5. /\ command \in {"none", "PUT"}
      /\ \/ state = "IDLE"
         \/ Opening(c, rx \o a, NL, f)
         \/ Sizing(rx \o a, PutGap, p)
         \/ Ending(c, rx \o a, Padded) /\ filesize = Len(File)
         \/ state = "COMMAND" /\ command = "PUT" /\ filename = <<Name>> /\ filesize = Len(File)
  BY DEF PutStream
<1>6. /\ a' = a
      /\ Opens(c, NL, f, a) => PutStream'
      /\ Sizes(PutGap, p, a) => PutStream'
      /\ Closes(c, Padded, a) /\ filesize = Len(File) => PutStream'
      /\ state' = "IDLE" /\ command' = command => PutStream'
      /\ state' = "COMMAND" /\ command' = "PUT" /\ filename' = <<Name>> /\ filesize' = Len(File) => PutStream'
  <2>1. a' = a
    OBVIOUS
  <2>2. Opens(c, NL, f, a) => PutStream'
    BY <2>1 DEF Opens, PutStream, Opening
  <2>3. Sizes(PutGap, p, a) => PutStream'
    BY <2>1 DEF Sizes, PutStream, Sizing
  <2>4. Closes(c, Padded, a) /\ filesize = Len(File) => PutStream'
    BY <2>1 DEF Closes, PutStream, Ending
  <2>5. state' = "IDLE" /\ command' = command => PutStream'
    BY <1>5 DEF PutStream
  <2>6. state' = "COMMAND" /\ command' = "PUT" /\ filename' = <<Name>> /\ filesize' = Len(File) => PutStream'
    BY DEF PutStream
  <2> QED
    BY <2>1, <2>2, <2>3, <2>4, <2>5, <2>6
<1> HIDE DEF p, f, c
<1>7. CASE state = "IDLE"
  <2>1. RecvIdle
    BY <1>7 DEF RecvStep, RecvPartial, RecvCommand, RecvUnknownCommand, RecvField, RecvUnknownField,
                RecvValue, RecvHashPut, RecvHashGet, RecvHashList, RecvHashVerify, RecvHashReboot, Hash,
                RecvPutData, RecvPutUnaligned, RecvIgnored
  <2>2. state' = "IDLE" /\ command' = command /\ ~RecvHashPut
    BY <1>7, <2>1 DEF RecvIdle, parser, RecvHashPut, Hash
  <2> QED
    BY <1>6, <2>2
<1>8. CASE Opening(c, rx \o a, NL, f)
  <2>1. Opens(c, NL, f, a) \/ Named(c, NL, f, a)
    BY <1>2, <1>3, <1>4, <1>8, OpeningStep DEF a
  <2>2. ~RecvHashPut
    BY <2>1 DEF Opens, Named, RecvHashPut, HeaderDone
  <2>3. CASE Named(c, NL, f, a)
    <3>1. /\ state' = "FIELD" /\ command' = c /\ filename' = <<Name>> /\ netbuf' = <<>>
          /\ AfterGap(rx' \o a, NL, f)
      BY <2>3 DEF Named
    <3>2. Before(<<>>, rx' \o a, "filesize", NL, s)
      BY <3>1, WordBegins DEF f
    <3>3. Sizes(PutGap, p, a)
      BY <3>1, <3>2 DEF Sizes, c
    <3> QED
      BY <1>6, <2>2, <3>3
  <2> QED
    BY <1>6, <2>1, <2>2, <2>3
<1>9. CASE Sizing(rx \o a, PutGap, p)
  <2>1. Sizes(PutGap, p, a) \/ Sized(PutGap, p, a)
    BY <1>1, <1>2, <1>9, SizingStep DEF a
  <2>2. ~RecvHashPut
    BY <2>1 DEF Sizes, Sized, RecvHashPut, HeaderDone
  <2>3. CASE Sized(PutGap, p, a)
    <3>1. /\ state' = "FIELD" /\ command' = "PUT" /\ filename' = <<Name>> /\ filesize' = Len(File)
          /\ netbuf' = <<>> /\ AfterGap(rx' \o a, PutGap, p)
      BY <2>3 DEF Sized
    <3>2. Before(<<>>, rx' \o a, "#", NL, Padded)
      BY <3>1, WordBegins DEF p, HashLine
    <3>3. PutStream'
      BY <1>6, <3>1, <3>2 DEF PutStream, Ending
    <3> QED
      BY <2>2, <3>3
  <2> QED
    BY <1>6, <2>1, <2>2, <2>3
<1>10. CASE Ending(c, rx \o a, Padded) /\ filesize = Len(File)
  <2>1. \/ Closes(c, Padded, a)
        \/ Hash(c) /\ filename = <<Name>> /\ Scan.rest \o a = Padded
            /\ (RecvHashPut \/ RecvHashGet \/ RecvHashList \/ RecvHashVerify \/ RecvHashReboot)
    BY <1>1, <1>4, <1>10, EndingStep DEF a
  <2>2. CASE Closes(c, Padded, a)
    <3>1. ~RecvHashPut
      BY <2>2 DEF Closes, RecvHashPut, HeaderDone
    <3> QED
      BY <1>6, <1>10, <2>2, <3>1
  <2>3. CASE /\ Hash(c) /\ filename = <<Name>> /\ Scan.rest \o a = Padded
             /\ (RecvHashPut \/ RecvHashGet \/ RecvHashList \/ RecvHashVerify \/ RecvHashReboot)
    <3>1. RecvHashPut /\ command = "PUT"
      BY <2>3 DEF c, Hash, RecvHashGet, RecvHashList, RecvHashVerify, RecvHashReboot
    <3>2. state' = "COMMAND" /\ UNCHANGED <<command, filename, filesize>> /\ rx' = Scan.rest
      BY <3>1 DEF RecvHashPut, HeaderDone, Continue
    <3> QED
      BY <1>6, <1>10, <2>3, <3>1, <3>2
  <2> QED
    BY <2>1, <2>2, <2>3
<1>11. CASE state = "COMMAND" /\ command = "PUT" /\ filename = <<Name>> /\ filesize = Len(File)
  <2>1. RecvPutData \/ RecvPutUnaligned
    BY <1>11 DEF RecvStep, RecvPartial, RecvCommand, RecvUnknownCommand, RecvField, RecvUnknownField,
                RecvValue, RecvHashPut, RecvHashGet, RecvHashList, RecvHashVerify, RecvHashReboot, Hash,
                RecvIgnored, RecvIdle
  <2>2. UNCHANGED <<state, command, filename, filesize>> /\ ~RecvHashPut
    BY <1>11, <2>1 DEF RecvPutData, RecvPutUnaligned, parser, RecvHashPut, Hash
  <2> QED
    BY <1>6, <1>11, <2>2
<1> QED
  BY <1>5, <1>7, <1>8, <1>9, <1>10, <1>11

\* However the stream is cut, the device reads the header of a get or a verify, and
\* nothing comes behind it.
LEMMA AskStreamStep ==
  ASSUME TypeOK, RecvStep, NEW c \in {"GET", "VERIFY"}, AskStream(c), Ahead \in Seq(Items), UNCHANGED Ahead,
         Ahead = wire, wire' = wire
  PROVE  AskStream(c)'
<1> DEFINE a == Ahead
           d == HashLine(<<>>)
           g == AskGap(c)
<1>1. d \in Seq(Items) /\ Clean(d) /\ <<>> \in Seq(Items) /\ Clean(<<>>)
  BY EmptySeq, HashType DEF Clean
<1>2. c \in Commands /\ Receiving /\ rx # <<>>
  BY RecvReceives DEF Commands, Receiving
<1>3. g \in Seq(Controls) /\ g # <<>>
  BY <1>2, GapsType
<1>4. /\ command \in {"none", c}
      /\ \/ state = "IDLE"
         \/ Opening(c, rx \o a, g, d)
         \/ Ending(c, rx \o a, <<>>)
  BY <1>2 DEF AskStream
<1>5. /\ Opens(c, g, d, a) => AskStream(c)'
      /\ Closes(c, <<>>, a) => AskStream(c)'
      /\ state' = "IDLE" /\ command' = command => AskStream(c)'
      /\ state' = "COMMAND" /\ command' = c /\ filename' = <<Name>> /\ rx' = <<>> /\ wire = <<>> => AskStream(c)'
  <2>1. a' = a
    OBVIOUS
  <2>2. Opens(c, g, d, a) => AskStream(c)'
    BY <2>1 DEF Opens, AskStream, Opening
  <2>3. Closes(c, <<>>, a) => AskStream(c)'
    BY <2>1 DEF Closes, AskStream, Ending
  <2>4. state' = "IDLE" /\ command' = command => AskStream(c)'
    BY <1>4 DEF AskStream
  <2>5. state' = "COMMAND" /\ command' = c /\ filename' = <<Name>> /\ rx' = <<>> /\ wire = <<>> => AskStream(c)'
    BY DEF AskStream
  <2> QED
    BY <2>2, <2>3, <2>4, <2>5
<1> HIDE DEF d, g
<1>6. CASE state = "IDLE"
  <2>1. RecvIdle
    BY <1>6 DEF RecvStep, RecvPartial, RecvCommand, RecvUnknownCommand, RecvField, RecvUnknownField,
                RecvValue, RecvHashPut, RecvHashGet, RecvHashList, RecvHashVerify, RecvHashReboot, Hash,
                RecvPutData, RecvPutUnaligned, RecvIgnored
  <2> QED
    BY <1>5, <1>6, <2>1 DEF RecvIdle, parser
<1>7. CASE Opening(c, rx \o a, g, d)
  <2>1. Opens(c, g, d, a) \/ Named(c, g, d, a)
    BY <1>1, <1>2, <1>3, <1>7, OpeningStep DEF a
  <2>2. CASE Named(c, g, d, a)
    <3>1. /\ state' = "FIELD" /\ command' = c /\ filename' = <<Name>> /\ netbuf' = <<>>
          /\ AfterGap(rx' \o a, g, d)
      BY <2>2 DEF Named
    <3>2. Before(<<>>, rx' \o a, "#", NL, <<>>)
      BY <3>1, WordBegins DEF d, HashLine
    <3>3. AskStream(c)'
      BY <3>1, <3>2 DEF AskStream, Ending
    <3> QED
      BY <3>3
  <2> QED
    BY <1>5, <2>1, <2>2
<1>8. CASE Ending(c, rx \o a, <<>>)
  <2>1. \/ Closes(c, <<>>, a)
        \/ Hash(c) /\ filename = <<Name>> /\ Scan.rest \o a = <<>>
            /\ (RecvHashPut \/ RecvHashGet \/ RecvHashList \/ RecvHashVerify \/ RecvHashReboot)
    BY <1>1, <1>2, <1>8, EndingStep DEF a
  <2>2. CASE /\ Hash(c) /\ filename = <<Name>> /\ Scan.rest \o a = <<>>
             /\ (RecvHashPut \/ RecvHashGet \/ RecvHashList \/ RecvHashVerify \/ RecvHashReboot)
    <3>1. (RecvHashGet \/ RecvHashVerify) /\ command = c
      BY <2>2 DEF Hash, RecvHashPut, RecvHashList, RecvHashReboot
    <3>2. state' = "COMMAND" /\ command' = command /\ filename' = <<Name>> /\ rx' = <<>>
      BY <2>2, <3>1 DEF RecvHashGet, RecvHashVerify, HeaderDone, Continue
    <3>3. Scan.rest \in Seq(Items)
      BY ScanType DEF Strings
    <3>4. a = <<>>
      BY <2>2, <3>3, ConcatSimplifications!concIsEmpty
    <3> QED
      BY <1>5, <3>1, <3>2, <3>4
  <2> QED
    BY <1>5, <2>1, <2>2
<1> QED
  BY <1>4, <1>6, <1>7, <1>8

-----------------------------------------------------------------------------
(* The lines of a connection *)

\* What is to come on a connection is a string.
LEMMA AheadType ==
  ASSUME NetInv
  PROVE  /\ Ahead \in Seq(Items) /\ Unsent \in Seq(Items) /\ wire \in Seq(Items) /\ rx \in Seq(Items)
         /\ phase # "data" => Ahead = wire
<1>1. Unsent \in Seq(Items) /\ wire \in Seq(Items) /\ rx \in Seq(Items)
  BY PaddedType, EmptySeq DEF Unsent, NetInv, NetType, Strings, IInv, TypeOK
<1>2. Ahead \in Seq(Items)
  BY <1>1, ConcatProperties DEF Ahead
<1>3. phase # "data" => Ahead = wire
  BY <1>1, ConcatEmptySeq DEF Ahead, Unsent
<1> QED
  BY <1>1, <1>2, <1>3

\* A string that begins with the word that is being read.
LEMMA WordInFront ==
  ASSUME NEW x \in Items, NEW g \in Seq(Items), NEW d \in Seq(Items), NEW u, u = <<x>> \o (g \o d)
  PROVE  Before(<<>>, u, x, g, d)
<1> DEFINE y == g \o d
<1>1. y \in Seq(Items)
  BY ConcatProperties
<1> HIDE DEF y
<1> DEFINE z == <<x>> \o y
<1>2. z \in Seq(Items)
  BY <1>1, ItemFirst
<1>3. u = z
  BY DEF y
<1> HIDE DEF z
<1>4. u = <<>> \o z /\ <<>> \in Seq(Controls)
  BY <1>2, <1>3, ConcatEmptySeq, EmptySeq
<1> QED
  BY <1>4 DEF Before, z, y

\* Before anything has come, the device reads the first word.
LEMMA OpensRead ==
  ASSUME NEW c \in Commands, NEW g \in Seq(Controls), NEW d \in Seq(Items), NEW u,
         u = <<c>> \o (NL \o (<<"filename">> \o (NL \o (<<Name>> \o (g \o d))))),
         state = "INIT", netbuf = <<>>, command = "none"
  PROVE  Opening(c, u, g, d)
<1> DEFINE b == <<"filename">> \o (NL \o (<<Name>> \o (g \o d)))
<1>1. b \in Seq(Items) /\ c \in Items
  BY HeaderStrings
<1>2. u = <<c>> \o (NL \o b)
  OBVIOUS
<1> HIDE DEF b
<1>3. Before(<<>>, u, c, NL, b)
  BY <1>1, <1>2, LineFeed, WordInFront
<1> QED
  BY <1>3 DEF Opening, b

\* A header of a get or a verify is sent on a connection on which nothing has come yet.
LEMMA AskBegins ==
  ASSUME NetInv, NEW c \in {"GET", "VERIFY"}, Untouched, conn = "open", UNCHANGED vars,
         phase' # "data", NEW bytes, bytes = Header(<<c, "filename", Name>>), wire' = wire \o bytes
  PROVE  AskStream(c)'
<1>1. UNCHANGED <<parser, rx>>
  BY DEF vars, input
<1>2. <<>> \in Seq(Items) /\ c \in Commands
  BY EmptySeq DEF Commands
<1>3. bytes \in Seq(Items) /\ bytes \o <<>> = AskBytes(c, <<>>)
  BY <1>2, Headers
<1>4. rx' \o Ahead' = bytes \o <<>>
  <2>1. wire' = bytes /\ rx' = <<>>
    BY <1>1, <1>3, ConcatEmptySeq DEF Untouched
  <2>2. Ahead' = bytes
    BY <1>3, <2>1, ConcatEmptySeq DEF Ahead, Unsent
  <2> QED
    BY <1>3, <2>1, <2>2, ConcatEmptySeq
<1>5. state = "IDLE" \/ (state = "INIT" /\ netbuf = <<>>)
  BY DEF Untouched
<1>6. command = "none"
  BY DEF Untouched
<1>7. AskGap(c) \in Seq(Controls) /\ HashLine(<<>>) \in Seq(Items)
  BY <1>2, GapsType, HashType
<1>8. CASE state = "INIT" /\ netbuf = <<>>
  <2>1. Opening(c, rx' \o Ahead', AskGap(c), HashLine(<<>>))
    BY <1>2, <1>3, <1>4, <1>6, <1>7, <1>8, OpensRead DEF AskBytes
  <2>2. Opening(c, rx \o Ahead, AskGap(c), HashLine(<<>>))'
    BY <1>1, <2>1 DEF Opening, parser
  <2> QED
    BY <1>1, <1>6, <2>2 DEF AskStream, parser
<1> QED
  BY <1>1, <1>5, <1>6, <1>8 DEF AskStream, parser

\* The header of a put is sent on such a connection, with the file to follow.
LEMMA PutBegins ==
  ASSUME NetInv, Untouched, conn = "open", UNCHANGED vars, phase' = "data",
         NEW bytes, bytes = Header(<<"PUT", "filename", Name, "filesize", Size>>), wire' = wire \o bytes
  PROVE  PutStream'
<1>1. UNCHANGED <<parser, rx>>
  BY DEF vars, input
<1>2. Padded \in Seq(Items)
  BY PaddedType
<1>3. bytes \in Seq(Items) /\ bytes \o Padded = PutBytes(Padded)
  BY <1>2, Headers
<1>4. rx' \o Ahead' = bytes \o Padded
  <2>1. wire' = bytes /\ rx' = <<>>
    BY <1>1, <1>3, ConcatEmptySeq DEF Untouched
  <2>2. Ahead' = bytes \o Padded
    BY <2>1 DEF Ahead, Unsent
  <2>3. bytes \o Padded \in Seq(Items)
    BY <1>2, <1>3, ConcatProperties
  <2> QED
    BY <2>1, <2>2, <2>3, ConcatEmptySeq
<1>5. (state = "IDLE" \/ (state = "INIT" /\ netbuf = <<>>)) /\ command = "none"
  BY DEF Untouched
<1>6. CASE state = "INIT" /\ netbuf = <<>>
  <2> DEFINE p == HashLine(Padded)
             s == <<Size>> \o (PutGap \o p)
             f == <<"filesize">> \o (NL \o s)
             c == "PUT"
  <2>1. f \in Seq(Items)
    <3>1. p \in Seq(Items) /\ PutGap \in Seq(Items) /\ NL \in Seq(Items)
      BY <1>2, HashType, GapsType, LineFeed, ControlAssumption, SeqMonotonic
    <3>2. Size \in Items /\ "filesize" \in Items
      BY NetToolAssumption DEF Fields
    <3>3. ASSUME NEW x \in Items, NEW h \in Seq(Items), NEW e \in Seq(Items)
          PROVE  <<x>> \o (h \o e) \in Seq(Items)
      <4> DEFINE y == h \o e
      <4>1. y \in Seq(Items)
        BY ConcatProperties
      <4> HIDE DEF y
      <4>2. <<x>> \o y \in Seq(Items)
        BY <4>1, ItemFirst
      <4> QED
        BY <4>2 DEF y
    <3> HIDE DEF p
    <3>4. s \in Seq(Items)
      BY <3>1, <3>2, <3>3
    <3> HIDE DEF s
    <3> QED
      BY <3>1, <3>2, <3>3, <3>4
  <2>2. bytes \o Padded = <<c>> \o (NL \o (<<"filename">> \o (NL \o (<<Name>> \o (NL \o f)))))
    BY <1>3 DEF PutBytes
  <2>3. c \in Commands
    BY DEF Commands
  <2> HIDE DEF f, c
  <2>4. Opening(c, rx' \o Ahead', NL, f)
    BY <1>4, <1>5, <1>6, <2>1, <2>2, <2>3, LineFeed, OpensRead
  <2>5. Opening("PUT", rx \o Ahead, NL, <<"filesize">> \o (NL \o (<<Size>> \o (PutGap \o HashLine(Padded)))))'
    BY <1>1, <2>4 DEF Opening, parser, c, f
  <2> QED
    BY <1>1, <1>5, <2>5 DEF PutStream, parser
<1> QED
  BY <1>1, <1>5, <1>6 DEF PutStream, parser

\* The step keeps what has come and what is to come of the stream, and goes on with it or
\* gives it up.
SameText ==
  /\ UNCHANGED <<field, command, filename, filesize, netbuf>>
  /\ state' = state \/ state' = "IDLE"
  /\ rx' \o Ahead' = rx \o Ahead

\* Such a step keeps what the stream of the connection is.
LEMMA LineKept ==
  ASSUME SameText
  PROVE  /\ PutStream => PutStream'
         /\ \A c \in {"GET", "VERIFY"} : 
              AskStream(c) /\ (state = "COMMAND" => UNCHANGED <<rx, wire>>) => AskStream(c)'
<1>1. CASE state' = "IDLE"
  BY <1>1 DEF SameText, PutStream, AskStream
<1>2. CASE state' = state
  <2>1. PutStream => PutStream'
    BY <1>2 DEF SameText, PutStream, Opening, Sizing, Ending
  <2>2. ASSUME NEW c \in {"GET", "VERIFY"}, AskStream(c), state = "COMMAND" => UNCHANGED <<rx, wire>>
        PROVE  AskStream(c)'
    BY <1>2, <2>2 DEF SameText, AskStream, Opening, Ending
  <2> QED
    BY <2>1, <2>2
<1> QED
  BY <1>1, <1>2 DEF SameText

\* What comes to the device on a connection of a put or a get is the stream of nettool's
\* command.
Lines ==
  /\ PutLine => PutStream
  /\ VerifyLine => AskStream("VERIFY")
  /\ GetLine => AskStream("GET")

\* nettool's steps send the stream of its command, and nothing else.
LEMMA LinesClient == ASSUME NetInv, Lines, Client PROVE Lines'
<1>1. UNCHANGED <<vars, cmd>>
  BY ClientLeaves
<1>2. UNCHANGED <<parser, conn, rx>>
  BY <1>1 DEF vars, stack, input
<1>3. UNCHANGED Present
  BY <1>2 DEF Present
<1>4. ASSUME ~PutLine', ~VerifyLine', ~GetLine' PROVE Lines'
  BY <1>4 DEF Lines
<1>5. /\ Present /\ ~live /\ queue = "none" => phase \in {"accept2", "done"}
      /\ queue # "none" => ~live
      /\ Present /\ Fresh => Untouched
      /\ conn = "closing" => state = "IDLE"
  BY DEF NetInv, LinkInv
<1>6. CASE Accept("accept", cmd) \/ Accept("accept2", "verify")
  <2>1. phase' \in FreshPhases
    BY <1>6, NetToolAssumption DEF Accept, NetInv, NetType, FreshPhases
  <2> QED
    BY <1>4, <2>1 DEF PutLine, VerifyLine, GetLine, FreshPhases
<1>7. CASE \/ Send("list", Header(<<"LIST", "filename", Name>>), "reading")
           \/ Send("reboot", Line("REBOOT") \o Line("mode") \o Line(Mode) \o Line("#") \o <<Zero>>, "sleep")
           \/ Slept
  <2>1. cmd \notin {"put", "get"} 
    BY <1>7 DEF Send, Slept, NetInv, PhaseFits
  <2> QED
    BY <1>1, <1>4, <2>1 DEF PutLine, VerifyLine, GetLine
<1>8. CASE Send("get", Header(<<"GET", "filename", Name>>), "reading")
  <2>1. /\ phase = "get" /\ phase' \in {"reading", "failed"} /\ UNCHANGED <<queue, live>>
        /\ wire' = IF live /\ conn = "open" THEN wire \o Header(<<"GET", "filename", Name>>) ELSE wire
    BY <1>8 DEF Send
  <2>2. ~PutLine' /\ ~VerifyLine'
    BY <2>1 DEF PutLine, VerifyLine
  <2>3. ASSUME GetLine' PROVE AskStream("GET")'
    <3>1. live /\ Present
      BY <1>3, <2>1, <2>3 DEF GetLine
    <3>2. Untouched
      BY <1>5, <2>1, <3>1 DEF Fresh, FreshPhases
    <3>3. CASE conn = "open"
      <4>1. wire' = wire \o Header(<<"GET", "filename", Name>>) /\ phase' # "data"
        BY <2>1, <3>1, <3>3
      <4> QED
        BY <1>1, <3>2, <3>3, <4>1, AskBegins
    <3>4. CASE conn = "closing"
      BY <1>2, <1>5, <3>2, <3>4 DEF AskStream, Untouched, parser
    <3> QED
      BY <3>1, <3>3, <3>4 DEF Present
  <2> QED
    BY <2>2, <2>3 DEF Lines
<1>9. CASE Send("verify", Header(<<"VERIFY", "filename", Name>>), "sum")
  <2>1. /\ phase = "verify" /\ phase' \in {"sum", "failed"} /\ UNCHANGED <<queue, live>>
        /\ wire' = IF live /\ conn = "open" THEN wire \o Header(<<"VERIFY", "filename", Name>>) ELSE wire
    BY <1>9 DEF Send
  <2>2. ~PutLine' /\ ~GetLine'
    BY <2>1 DEF PutLine, GetLine
  <2>3. ASSUME VerifyLine' PROVE AskStream("VERIFY")'
    <3>1. live /\ Present
      BY <1>3, <2>1, <2>3 DEF VerifyLine
    <3>2. Untouched
      BY <1>5, <2>1, <3>1 DEF Fresh, FreshPhases
    <3>3. CASE conn = "open"
      <4>1. wire' = wire \o Header(<<"VERIFY", "filename", Name>>) /\ phase' # "data"
        BY <2>1, <3>1, <3>3
      <4> QED
        BY <1>1, <3>2, <3>3, <4>1, AskBegins
    <3>4. CASE conn = "closing"
      BY <1>2, <1>5, <3>2, <3>4 DEF AskStream, Untouched, parser
    <3> QED
      BY <3>1, <3>3, <3>4 DEF Present
  <2> QED
    BY <2>2, <2>3 DEF Lines
<1>10. CASE Send("put", Header(<<"PUT", "filename", Name, "filesize", Size>>), "data")
  <2>1. /\ phase = "put" /\ phase' \in {"data", "failed"} /\ UNCHANGED <<queue, live>>
        /\ wire' = IF live /\ conn = "open" THEN wire \o Header(<<"PUT", "filename", Name, "filesize", Size>>)
                                            ELSE wire
    BY <1>10 DEF Send
  <2>2. ~VerifyLine' /\ ~GetLine'
    BY <2>1 DEF VerifyLine, GetLine
  <2>3. ASSUME PutLine' PROVE PutStream'
    <3>1. live /\ Present /\ phase' = "data"
      BY <1>3, <2>1, <2>3 DEF PutLine
    <3>2. Untouched
      BY <1>5, <2>1, <3>1 DEF Fresh, FreshPhases
    <3>3. CASE conn = "open"
      <4>1. wire' = wire \o Header(<<"PUT", "filename", Name, "filesize", Size>>)
        BY <2>1, <3>1, <3>3
      <4> QED
        BY <1>1, <3>1, <3>2, <3>3, <4>1, PutBegins
    <3>4. CASE conn = "closing"
      BY <1>2, <1>5, <3>2, <3>4 DEF PutStream, Untouched, parser
    <3> QED
      BY <3>1, <3>3, <3>4 DEF Present
  <2> QED
    BY <2>2, <2>3 DEF Lines
<1>11. CASE Send("data", Padded, "ok")
  <2>1. /\ phase = "data" /\ phase' \in {"ok", "failed"} /\ UNCHANGED <<queue, live>>
        /\ wire' = IF live /\ conn = "open" THEN wire \o Padded ELSE wire
    BY <1>11 DEF Send
  <2>2. ~VerifyLine' /\ ~GetLine'
    BY <2>1 DEF VerifyLine, GetLine
  <2>3. ASSUME PutLine' PROVE PutStream'
    <3>1. live /\ Present /\ phase' = "ok"
      BY <1>3, <2>1, <2>3 DEF PutLine
    <3>2. PutLine /\ PutStream
      BY <1>1, <2>1, <2>3, <3>1 DEF PutLine, Lines
    <3>3. CASE conn = "open"
      <4>1. Ahead = wire \o Padded /\ Ahead \in Seq(Items)
        BY <2>1, AheadType DEF Ahead, Unsent
      <4>2. wire' = wire \o Padded /\ Ahead' = wire' \o <<>>
        BY <2>1, <3>1, <3>3 DEF Ahead, Unsent
      <4>3. Ahead' = Ahead
        BY <4>1, <4>2, ConcatEmptySeq
      <4>4. SameText
        BY <1>2, <4>3 DEF SameText, parser
      <4> QED
        BY <3>2, <4>4, LineKept
    <3>4. CASE conn = "closing"
      BY <1>2, <1>5, <3>2, <3>4 DEF PutStream, parser
    <3> QED
      BY <3>1, <3>3, <3>4 DEF Present
  <2> QED
    BY <2>2, <2>3 DEF Lines
<1>12. CASE ReadOk \/ ReadSum \/ ReadEnd \/ ReadMore
  <2>1. UNCHANGED <<wire, queue>>
    BY <1>12 DEF ReadOk, ReadSum, ReadEnd, ReadMore
  <2>2. \/ ReadOk /\ phase = "ok" /\ phase' = "accept2" /\ ~live'
        \/ ReadSum /\ phase = "sum" /\ phase' = "done" /\ ~live'
        \/ ReadEnd /\ phase = "reading" /\ phase' = "done" /\ ~live'
        \/ ReadMore /\ phase = "reading" /\ UNCHANGED <<phase, live>>
    BY <1>12 DEF ReadOk, ReadSum, ReadEnd, ReadMore, CloseSocket
  <2>3. UNCHANGED Ahead
    BY <2>1, <2>2 DEF Ahead, Unsent
  <2>4. SameText
    BY <1>2, <2>3 DEF SameText, parser
  <2>5. phase = "sum" => cmd = "put"
    BY DEF NetInv, PhaseFits
  <2>6. (PutLine' => PutLine) /\ (VerifyLine' => VerifyLine) /\ (GetLine' => GetLine)
    BY <1>1, <1>3, <1>5, <2>1, <2>2, <2>5 DEF PutLine, VerifyLine, GetLine, Left, NetInv, LinkInv, PhaseFits
  <2> QED
    BY <1>2, <2>1, <2>4, <2>6, LineKept DEF Lines
<1> QED
  BY <1>6, <1>7, <1>8, <1>9, <1>10, <1>11, <1>12 DEF Client

\* Everything that the device does but a read of its stream leaves the stream as it is, or
\* ends the connection.
LEMMA TextKept ==
  ASSUME IInv, Device, ~TcpConnected, ~RecvStep
  PROVE  \/ conn' = "none"
         \/ /\ UNCHANGED <<field, command, filename, filesize, netbuf, rx>>
            /\ state' = state \/ state' = "IDLE"
<1>1. CASE MainBegin \/ MainReturn \/ MainAppLoad \/ SlotSkip
  BY <1>1 DEF MainBegin, MainReturn, MainAppLoad, SlotSkip, parser, input
<1>2. CASE SlotConnect \/ SlotClose
  BY <1>2 DEF SlotConnect, SlotClose, parser, input
<1>3. CASE MainReset
  BY <1>3 DEF MainReset, Restart
<1>4. CASE \E i \in Slots : EntryDue(i)
  BY <1>4 DEF EntryDue, parser, input
<1>5. CASE GotIp \/ TcpFailed \/ TcpDisconnected
  BY <1>5 DEF GotIp, TcpFailed, TcpDisconnected, parser, input
<1>6. CASE TcpSent
  BY <1>6, SentLink DEF parser
<1> QED
  BY <1>1, <1>2, <1>3, <1>4, <1>5, <1>6 DEF Device, MainLoop

\* The device's steps read the stream of the command.
LEMMA LinesFollow ==
  ASSUME NetInv, Lines, cmd = "put" => Clean(File), Device, ~TcpConnected, Follow, UNCHANGED client
  PROVE  Lines'
<1>1. UNCHANGED <<cmd, phase>>
  BY DEF client
<1>2. CASE ~Present'
  BY <1>2 DEF Lines, PutLine, VerifyLine, GetLine
<1>3. CASE Present'
  <2>1. Linked
    BY DeviceLink DEF NetInv, LinkInv
  <2>2. Present /\ conn' # "none"
    BY <1>3, <2>1 DEF Linked, Present
  <2>3. UNCHANGED <<queue, live, wire, fin>>
    BY <2>2 DEF Follow, Replied
  <2>4. (PutLine' => PutLine) /\ (VerifyLine' => VerifyLine) /\ (GetLine' => GetLine)
    BY <1>1, <2>2, <2>3 DEF PutLine, VerifyLine, GetLine, Left
  <2>5. UNCHANGED Ahead /\ Ahead \in Seq(Items) /\ (phase # "data" => Ahead = wire)
    BY <1>1, <2>3, AheadType DEF Ahead, Unsent
  <2>6. phase = "sum" => cmd = "put"
    BY DEF NetInv, PhaseFits
  <2>7. VerifyLine \/ GetLine => phase # "data"
    BY DEF VerifyLine, GetLine
  <2>8. CASE RecvStep
    <3>1. PutLine => PutStream'
      BY <2>5, <2>8, PutStreamStep DEF Lines, NetInv, IInv, PutLine
    <3>2. /\ VerifyLine => AskStream("VERIFY")'
          /\ GetLine => AskStream("GET")'
      BY <2>3, <2>5, <2>7, <2>8, AskStreamStep DEF Lines, NetInv, IInv
    <3> QED
      BY <2>4, <3>1, <3>2 DEF Lines
  <2>9. CASE ~RecvStep
    <3>1. /\ UNCHANGED <<field, command, filename, filesize, netbuf, rx>>
          /\ state' = state \/ state' = "IDLE"
      BY <2>2, <2>9, TextKept DEF NetInv
    <3>2. SameText /\ UNCHANGED <<rx, wire>>
      BY <2>3, <2>5, <3>1 DEF SameText
    <3> QED
      BY <2>4, <3>2, LineKept DEF Lines
  <2> QED
    BY <2>8, <2>9
<1> QED
  BY <1>2, <1>3

\* A delivery moves a part of the stream.
LEMMA LinesDeliver ==
  ASSUME NetInv, Lines, NEW n \in 1 .. NetbufSize, Deliver(n)
  PROVE  Lines'
<1>1. /\ TcpRecv(rx') /\ rx' \in Seq(Items) /\ wire' \in Seq(Items) /\ rx' \o wire' = wire /\ wire # <<>>
      /\ UNCHANGED <<client, queue, live>>
  BY Delivered DEF NetInv, NetType, Strings
<1>2. UNCHANGED <<cmd, phase>>
  BY <1>1 DEF client
<1>3. UNCHANGED <<parser, conn>> /\ rx = <<>>
  BY <1>1 DEF TcpRecv, stack, Quiet
<1>4. rx' \o Ahead' = rx \o Ahead
  <2>1. Unsent \in Seq(Items) /\ UNCHANGED Unsent /\ Ahead \in Seq(Items)
    BY <1>2, AheadType DEF Unsent
  <2>2. rx' \o (wire' \o Unsent) = (rx' \o wire') \o Unsent
    <3>1. \A a, b, c \in Seq(Items) : a \o (b \o c) = (a \o b) \o c
      BY ConcatAssociative
    <3> QED
      BY <1>1, <2>1, <3>1
  <2>3. rx \o Ahead = Ahead
    BY <1>3, <2>1, ConcatEmptySeq
  <2> QED
    BY <1>1, <2>1, <2>2, <2>3 DEF Ahead
<1>5. SameText
  BY <1>3, <1>4 DEF SameText, parser
<1>6. \A c \in {"GET", "VERIFY"} : AskStream(c) => state # "COMMAND" 
  BY <1>1 DEF AskStream, Opening, Ending
<1>7. (PutLine' => PutLine) /\ (VerifyLine' => VerifyLine) /\ (GetLine' => GetLine)
  BY <1>1, <1>2, <1>3 DEF PutLine, VerifyLine, GetLine, Left, Present
<1> QED
  BY <1>5, <1>6, <1>7, LineKept DEF Lines

\* Every step keeps the stream of the command.
LEMMA LinesStep ==
  ASSUME NetInv, Lines, cmd = "put" => Clean(File), [NetNext]_netvars
  PROVE  Lines'
<1>1. CASE UNCHANGED netvars
  <2>1. UNCHANGED <<parser, conn, rx, cmd, phase, queue, live, wire>>
    BY <1>1 DEF netvars, vars, client, link, stack, input
  <2> QED
    BY <2>1 DEF Lines, PutLine, VerifyLine, GetLine, Left, Present, PutStream, AskStream, Opening, Sizing,
                Ending, Ahead, Unsent, parser
<1>2. CASE DeviceStep
  <2>1. CASE Connected
    <3>1. queue' = "live" /\ ~live'
      <4>1. conn = "connecting"
        BY <2>1 DEF Connected, TcpConnected
      <4> QED
        BY <2>1, <4>1 DEF Connected, NetInv, LinkInv, Present
    <3> QED
      BY <3>1 DEF Lines, PutLine, VerifyLine, GetLine, Left
  <2> QED
    BY <1>2, <2>1, DeviceLeaves, LinesFollow
<1> QED
  BY <1>1, <1>2, LinesClient, LinesDeliver DEF NetNext

\* At first there is no stream.
LEMMA LinesInit == NetInit => Lines
  BY DEF NetInit, Init, Lines, PutLine, VerifyLine, GetLine, Present

\* However the bytes of a put, its verify or a get are cut and joined on their way
\* (control_recv is called with any part of them), the device reads the header that
\* buildheader made and the file that sendfile sent: it never takes a byte of one for the
\* other, nor a stream for that of another connection. A file must not begin with a control
\* byte, which control_recv would pass over.
THEOREM LinesAlways == Clean(File) /\ NetSpec => [](NetInv /\ Lines)
<1>1. NetInit => NetInv /\ Lines
  BY NetInitInv, LinesInit
<1>2. NetInv /\ Lines /\ Clean(File) /\ [NetNext]_netvars => (NetInv /\ Lines)'
  BY NetInvStep, LinesStep
<1>3. CASE Clean(File)
  <2>1. NetInv /\ Lines /\ [NetNext]_netvars => (NetInv /\ Lines)'
    BY <1>2, <1>3
  <2> QED
    BY <1>1, <2>1, PTL DEF NetSpec
<1> QED
  BY <1>3

-----------------------------------------------------------------------------
(* The file a put stores *)

\* The file object holds what has come of the file, and a is still to come behind the
\* segment.
Held(a) ==
  /\ handle.mode = "write" /\ handle.name = <<Name>>
  /\ \/ handle.data \o (rx \o a) = Padded /\ bytesin = Len(handle.data) /\ bytesin < Len(File)
     \/ handle.data = File /\ bytesin = Len(File)

\* The same after the step.
Holds(a) ==
  /\ handle'.mode = "write" /\ handle'.name = <<Name>>
  /\ \/ handle'.data \o (rx' \o a) = Padded /\ bytesin' = Len(handle'.data) /\ bytesin' < Len(File)
     \/ handle'.data = File /\ bytesin' = Len(File)

\* Each piece of data goes behind the others, up to the announced size; only the last one
\* is confirmed.
LEMMA DataHeld ==
  ASSUME IInv, ~Faults, RecvPutData, NEW a \in Seq(Items), Held(a), filesize = Len(File)
  PROVE  /\ Holds(a) /\ UNCHANGED disk /\ bytesin' >= bytesin
         /\ UNCHANGED out \/ (handle'.data = File /\ bytesin' = Len(File))
<1> DEFINE k == Len(rx)
           n == Accepted(k)
           f == Fill(Len(File), Zero)
           d == handle.data
<1>1. rx \in Seq(Items) /\ k \in Nat /\ bytesin \in Nat /\ bytesin <= filesize /\ filesize \in Nat
  BY LenProperties DEF IInv, TypeOK, PutBounded, Strings
<1>2. n \in 0 .. k /\ bytesin + n <= filesize /\ (~Complete(n) => n = k /\ bytesin + n < filesize)
      /\ (Complete(n) => bytesin + n = filesize)
  BY <1>1 DEF Accepted, Complete
<1>3. File \in Seq(Items) /\ Len(File) \in Nat /\ f \in Seq(Items) /\ Padded = File \o f
  <2>1. File \in Seq(Items) /\ Zero \in Items
    BY NetToolAssumption, ControlAssumption DEF Strings
  <2>2. Len(File) \in Nat
    BY <2>1, LenProperties
  <2> QED
    BY <2>1, <2>2, FillType DEF Padded
<1>4. handle \in [mode : {"read", "write"}, name : Names, data : Strings] /\ d \in Seq(Items)
  BY DEF IInv, TypeOK, Handles, Held, Closed, Strings
<1>5. /\ bytesin' = bytesin + n /\ rx' = <<>>
      /\ (n > 0 /\ FileWrite(SubSeq(rx, 1, n))) \/ (n = 0 /\ UNCHANGED store)
      /\ Complete(n) \/ UNCHANGED out
  <2>1. n = 0 \/ n > 0
    BY <1>2
  <2> HIDE DEF n
  <2>2. /\ IF n > 0 THEN FileWrite(SubSeq(rx, 1, n)) ELSE UNCHANGED store
        /\ bytesin' = bytesin + n /\ rx' = <<>>
        /\ Complete(n) \/ UNCHANGED stack
    BY DEF RecvPutData, Continue, n
  <2>3. n = 0 => ~(n > 0)
    BY <2>1
  <2> QED
    BY <2>1, <2>2, <2>3 DEF stack
<1>a. bytesin' >= bytesin
  BY <1>1, <1>2, <1>5
<1> HIDE DEF n, f
<1>6. SubSeq(rx, 1, n) \in Seq(Items) /\ (n = 0 => SubSeq(rx, 1, n) = <<>>) /\ (n = k => SubSeq(rx, 1, n) = rx)
  <2>1. \A i \in 1 .. n : rx[i] \in Items
    BY <1>1, <1>2, ElementOfSeq
  <2>2. n = 0 => SubSeq(rx, 1, n) = <<>>
    BY SubSeqEmpty
  <2>3. n = k => SubSeq(rx, 1, n) = rx
    BY <1>1, SubSeqFull
  <2> QED
    BY <1>1, <1>2, <2>1, <2>2, <2>3, SubSeqProperties
<1> DEFINE t == SubSeq(rx, 1, n)
<1>7. handle'.mode = "write" /\ handle'.name = <<Name>> /\ handle'.data = d \o t /\ UNCHANGED disk
  <2> HIDE DEF t
  <2>1. CASE n > 0 /\ FileWrite(t)
    <3>1. handle' = [handle EXCEPT !.data = @ \o t] /\ UNCHANGED disk
      BY <2>1 DEF FileWrite, Transferred, Held
    <3> QED
      BY <1>4, <3>1 DEF Held
  <2>2. CASE n = 0 /\ UNCHANGED store
    <3>1. d \o t = d
      BY <1>4, <1>6, <2>2, ConcatEmptySeq DEF t
    <3> QED
      BY <2>2, <3>1 DEF store, Held
  <2> QED
    BY <1>5, <2>1, <2>2 DEF t
<1>8. CASE d \o (rx \o a) = Padded /\ bytesin = Len(d) /\ bytesin < Len(File)
  <2>1. CASE Complete(n)
    <3>1. SameString(d, rx \o a, File, f)
      BY <1>3, <1>8 DEF SameString
    <3>2. Len(d) + n = Len(File) /\ bytesin' = Len(File)
      BY <1>2, <1>5, <1>8, <2>1
    <3> HIDE DEF d
    <3>3. d \o SubSeq(rx, 1, n) = File
      BY <1>1, <1>2, <1>3, <1>4, <3>1, <3>2, LastTaken DEF k
    <3> QED
      BY <1>a, <1>7, <3>2, <3>3 DEF Holds
  <2>2. CASE ~Complete(n)
    <3>1. n = k /\ t = rx /\ bytesin + n < filesize
      BY <1>2, <1>6, <2>2
    <3>2. d \o (rx \o a) = (d \o rx) \o a /\ d \o rx \in Seq(Items) /\ Len(d \o rx) = Len(d) + k
      <4>1. Regroup(d, rx, a)
        BY <1>1, <1>4, Regroups
      <4>2. d \o rx \in Seq(Items) /\ Len(d \o rx) = Len(d) + k
        BY <1>1, <1>4, ConcatProperties
      <4> QED
        BY <4>1, <4>2 DEF Regroup
    <3>3. <<>> \o a = a
      BY ConcatEmptySeq
    <3>4. bytesin' = Len(d \o rx) /\ bytesin' < Len(File)
      BY <1>5, <1>8, <3>1, <3>2
    <3> HIDE DEF d, t, k
    <3> QED
      BY <1>a, <1>5, <1>7, <1>8, <2>2, <3>1, <3>2, <3>3, <3>4 DEF Holds
  <2> QED
    BY <2>1, <2>2
<1>9. CASE d = File /\ bytesin = Len(File)
  <2>1. n = 0
    BY <1>1, <1>2, <1>9
  <2>2. d \o t = d
    BY <1>4, <1>6, <2>1, ConcatEmptySeq DEF t
  <2>3. bytesin' = Len(File)
    BY <1>3, <1>5, <1>9, <2>1
  <2> HIDE DEF d, t
  <2> QED
    BY <1>a, <1>7, <1>9, <2>2, <2>3 DEF Holds
<1> QED
  BY <1>8, <1>9 DEF Held

\* The file object belongs to the transfer in a session of nettool, too.
LEMMA HandleKept ==
  ASSUME ~Errors, ~Faults, NetInv, HandleInv, [NetNext]_netvars
  PROVE  HandleInv'
<1>1. CASE UNCHANGED vars
  BY <1>1 DEF vars, parser, stack, input, store, HandleInv, HandleOwned, Receiving
<1>2. CASE Device
  <2>1. CASE \E i \in Slots : EntryDue(i)
    BY <2>1 DEF EntryDue, parser, stack, input, store, HandleInv, HandleOwned, Receiving
  <2> QED
    BY <1>2, <2>1, OwnedByMainLoop, OwnedByStack, OwnedByRecv DEF Device, NetInv
<1>3. ASSUME NEW n \in 1 .. NetbufSize, Deliver(n) PROVE HandleInv'
  <2>1. TcpRecv(rx')
    BY <1>3, Delivered DEF NetInv, NetType
  <2> QED
    BY <2>1 DEF TcpRecv, parser, stack, store, HandleInv, HandleOwned, Receiving
<1> QED
  BY <1>1, <1>2, <1>3, DeviceLeaves, ClientLeaves DEF NetNext, netvars

\* On a connection of a put nettool sends a put or a verify, on that of a get a get.
LEMMA WhoseLine ==
  ASSUME NetInv, Present, ~Untouched
  PROVE  (cmd = "put" => PutLine \/ VerifyLine) /\ (cmd = "get" => GetLine)
<1>1. queue # "live" /\ queue # "dead" /\ ~(live /\ phase \in FreshPhases)
  BY DEF NetInv, LinkInv, Fresh
<1>2. queue = "none"
  BY <1>1 DEF NetInv, NetType
<1>3. CASE live
  <2>1. phase \in {"data", "ok", "sum", "reading", "sleep"}
    BY <1>1, <1>3 DEF NetInv, NetType, LinkInv
  <2> QED
    BY <1>3, <2>1 DEF PutLine, VerifyLine, GetLine, NetInv, PhaseFits
<1>4. CASE ~live
  BY <1>2, <1>4 DEF PutLine, VerifyLine, GetLine, Left, NetInv, LinkInv, PhaseFits
<1> QED
  BY <1>3, <1>4

\* The file object is closed when a put's first connection is over.
LEMMA ClosedElse ==
  ASSUME NetInv, Lines, HandleInv, cmd = "put", ~PutLine
  PROVE  handle.mode = "closed"
<1> SUFFICES ASSUME handle.mode # "closed" PROVE FALSE
  OBVIOUS
<1>1. command \in {"PUT", "GET"} /\ Present
  BY DEF HandleInv, HandleOwned, Present
<1>2. ~Untouched
  BY <1>1 DEF Untouched
<1>3. AskStream("VERIFY")
  BY <1>1, <1>2, WhoseLine DEF Lines
<1> QED
  BY <1>1, <1>3 DEF AskStream

\* What nettool has, and has not, been told in each of its phases.
Session ==
  /\ phase \in {"accept", "put", "verify", "get"} => inbox = <<>>
  /\ phase \in {"accept", "put", "data", "ok"} => ~acked
  /\ phase \in {"accept", "put", "data", "ok", "accept2", "verify", "sum"} => chk2 = Checksum(<<>>)
  /\ phase \in {"accept", "get"} => fetched = <<>>
  /\ acked => cmd = "put"
  /\ queue = "live" \/ live => ~fin

\* nettool's steps keep it.
LEMMA SessionClient == ASSUME NetInv, Session, Client PROVE Session'
<1>1. UNCHANGED <<conn, cmd>>
  BY ClientLeaves DEF vars, stack
<1>2. (live => queue = "none") /\ queue \in {"none", "live", "dead"}
  BY DEF NetInv, LinkInv, NetType
<1>3. CASE Accept("accept", cmd) \/ Accept("accept2", "verify")
  <2>1. cmd \in {"put", "get", "list", "reboot"} /\ (phase = "accept2" => cmd = "put")
    BY NetToolAssumption DEF NetInv, NetType, PhaseFits
  <2>2. /\ inbox' = <<>> /\ UNCHANGED <<acked, chk2, fetched, fin>>
        /\ phase' \in {"put", "get", "list", "reboot", "verify"}
        /\ phase \in {"accept", "accept2"} /\ (phase = "accept2" => phase' = "verify")
        /\ phase' = "verify" => phase = "accept2"
    BY <1>3, <2>1 DEF Accept
  <2>3. queue' = "live" \/ live' => queue = "live"
    BY <1>3 DEF Accept
  <2>4. queue' = "live" \/ live' => ~fin'
    BY <2>2, <2>3 DEF Session
  <2>5. phase' \in {"accept", "put", "data", "ok"} => ~acked'
    BY <2>2 DEF Session
  <2>6. acked' => cmd' = "put"
    BY <1>1, <2>2 DEF Session
  <2>7. /\ phase' \in {"accept", "put", "data", "ok", "accept2", "verify", "sum"} => chk2' = Checksum(<<>>)
        /\ phase' \in {"accept", "get"} => fetched' = <<>>
    BY <2>2 DEF Session
  <2> QED
    BY <2>2, <2>4, <2>5, <2>6, <2>7 DEF Session
<1>4. CASE \/ Send("get", Header(<<"GET", "filename", Name>>), "reading")
           \/ Send("list", Header(<<"LIST", "filename", Name>>), "reading")
           \/ Send("reboot", Line("REBOOT") \o Line("mode") \o Line(Mode) \o Line("#") \o <<Zero>>, "sleep")
           \/ Send("put", Header(<<"PUT", "filename", Name, "filesize", Size>>), "data")
           \/ Send("data", Padded, "ok")
           \/ Send("verify", Header(<<"VERIFY", "filename", Name>>), "sum")
  BY <1>1, <1>4 DEF Session, Send
<1>5. CASE ReadMore
  BY <1>1, <1>5 DEF Session, ReadMore
<1>6. CASE ReadOk \/ ReadSum \/ ReadEnd \/ Slept
  <2>1. /\ phase' \in {"accept2", "done"} /\ ~live' /\ queue' = queue /\ fin' = (fin \/ (live /\ conn # "none"))
        /\ phase' = "accept2" => UNCHANGED chk2
        /\ acked' => acked \/ phase = "ok"
    BY <1>6 DEF ReadOk, ReadSum, ReadEnd, Slept, CloseSocket
  <2>2. phase = "ok" => cmd = "put"
    BY DEF NetInv, PhaseFits
  <2>3. phase' = "accept2" => phase = "ok"
    BY <1>6 DEF ReadOk, ReadSum, ReadEnd, Slept
  <2> QED
    BY <1>1, <1>2, <2>1, <2>2, <2>3 DEF Session
<1> QED
  BY <1>3, <1>4, <1>5, <1>6 DEF Client

\* The device's steps keep it.
LEMMA SessionFollow ==
  ASSUME NetInv, Session, Device, ~TcpConnected, Follow, UNCHANGED client
  PROVE  Session'
<1>1. UNCHANGED <<cmd, phase, acked, chk2, fetched>>
  BY DEF client
<1>2. CASE conn # "none" /\ conn' = "none"
  BY <1>1, <1>2 DEF Session, Follow, Down
<1>3. CASE ~(conn # "none" /\ conn' = "none")
  <2>1. /\ inbox' = (IF live THEN inbox \o NewReplies ELSE inbox)
        /\ UNCHANGED <<queue, live, fin>>
    BY <1>3 DEF Follow, Replied, NewReplies
  <2>2. ASSUME phase \in {"accept", "put", "verify", "get"}, live PROVE inbox' = <<>>
    <3>1. Present /\ Untouched
      BY <2>2 DEF NetInv, LinkInv, Fresh, FreshPhases
    <3>2. Linked
      BY DeviceLink DEF NetInv, LinkInv
    <3>3. out = <<>> /\ out' = <<>>
      BY <1>3, <3>1, <3>2 DEF Untouched, Linked, Present
    <3>4. Len(out) = 0 /\ Len(out') = 0
      BY <3>3, EmptySeq
    <3>5. NewReplies = <<>>
      BY <3>4, SubSeqEmpty DEF NewReplies
    <3>6. inbox = <<>> /\ <<>> \in Seq(Replies)
      BY <2>2, EmptySeq DEF Session
    <3> QED
      BY <2>1, <2>2, <3>5, <3>6, ConcatEmptySeq
  <2> QED
    BY <1>1, <2>1, <2>2 DEF Session
<1> QED
  BY <1>2, <1>3

\* Every step keeps it.
LEMMA SessionStep == ASSUME NetInv, Session, [NetNext]_netvars PROVE Session'
<1>1. CASE UNCHANGED netvars
  BY <1>1 DEF netvars, client, link, Session
<1>2. CASE Connected
  <2>1. ~live /\ UNCHANGED <<client, live, inbox>> /\ ~fin'
    BY <1>2 DEF Connected, TcpConnected, NetInv, LinkInv, Present
  <2> QED
    BY <2>1 DEF client, Session
<1>3. ASSUME NEW n \in 1 .. NetbufSize, Deliver(n) PROVE Session'
  BY <1>3 DEF Deliver, client, Session
<1> QED
  BY <1>1, <1>2, <1>3, SessionClient, SessionFollow, DeviceLeaves DEF NetNext

\* nettool has the OK, or will read it next.
Said == acked \/ \E i \in DOMAIN inbox : inbox[i].kind = "OK"

\* The device has the whole file in its file object, and takes no more.
Kept ==
  /\ handle = [mode |-> "write", name |-> <<Name>>, data |-> File]
  /\ command = "PUT" /\ state \in {"IDLE", "COMMAND"}
  /\ state = "COMMAND" => bytesin = filesize

\* Once the device has said OK, it has the file in its file object, until the connection
\* is over and it is on the card.
Confirmed == cmd = "put" /\ Said /\ ~clobbered => IF PutLine THEN Kept ELSE disk[<<Name>>] = File

\* While the data comes, the file object holds what has come of it.
Coming == PutLine /\ state = "COMMAND" /\ ~clobbered => Held(Ahead)

\* The two together; with NetInv, Lines, Session and HandleInv they are inductive.
PutInv == Coming /\ Confirmed

\* nettool's steps keep what the device has of the file.
LEMMA PutClient ==
  ASSUME NetInv, Session, PutInv, Client
  PROVE  PutInv'
<1>1. UNCHANGED <<vars, cmd, clobbered>>
  BY ClientLeaves
<1>2. UNCHANGED <<parser, conn, rx, disk, handle>>
  BY <1>1 DEF vars, stack, input, store
<1>3. UNCHANGED <<Present, Kept>>
  BY <1>2 DEF Present, Kept, parser
<1>4. /\ Present /\ ~live /\ queue = "none" => phase \in {"accept2", "done"}
      /\ queue # "none" => ~live
      /\ Present /\ Fresh => Untouched
      /\ conn = "closing" => state = "IDLE"
  BY DEF NetInv, LinkInv
<1>5. CASE cmd # "put"
  <2>1. ~PutLine' /\ cmd' # "put"
    BY <1>1, <1>5 DEF PutLine
  <2> QED
    BY <2>1 DEF PutInv, Coming, Confirmed
<1>6. CASE cmd = "put"
  <2>1. ASSUME PutLine' <=> PutLine, Said' => Said,
               PutLine /\ state = "COMMAND" => UNCHANGED Ahead
        PROVE  PutInv'
    <3>1. Confirmed'
      BY <1>1, <1>2, <1>3, <2>1 DEF PutInv, Confirmed
    <3>2. Coming'
      BY <1>1, <1>2, <2>1 DEF PutInv, Coming, Held, parser
    <3> QED
      BY <2>1, <3>1, <3>2 DEF PutInv
  <2>2. CASE Accept("accept", cmd) \/ Accept("accept2", "verify")
    <3>1. /\ phase' \in {"put", "verify"} /\ inbox' = <<>> /\ queue # "none" /\ UNCHANGED acked
          /\ phase' = "put" => phase = "accept"
      BY <1>6, <2>2 DEF Accept
    <3>2. ~PutLine' /\ ~PutLine
      BY <1>4, <3>1 DEF PutLine, Left
    <3>3. Said' => Said
      BY <3>1 DEF Said
    <3> QED
      BY <2>1, <3>2, <3>3
  <2>3. CASE Send("put", Header(<<"PUT", "filename", Name, "filesize", Size>>), "data")
    <3>1. /\ phase = "put" /\ phase' \in {"data", "failed"}
          /\ UNCHANGED <<acked, inbox, live, queue>> /\ (phase' = "failed" => ~live)
      BY <2>3 DEF Send
    <3>2. ~acked /\ inbox = <<>>
      BY <3>1 DEF Session
    <3>3. ~Said'
      BY <3>1, <3>2 DEF Said
    <3>4. PutLine' => state # "COMMAND"
      BY <1>3, <1>4, <3>1 DEF PutLine, Left, Fresh, FreshPhases, Untouched
    <3> QED
      BY <1>2, <3>3, <3>4 DEF PutInv, Coming, Confirmed, parser
  <2>4. CASE Send("data", Padded, "ok")
    <3>1. /\ phase = "data" /\ phase' \in {"ok", "failed"} /\ UNCHANGED <<acked, inbox, live, queue>>
          /\ phase' = "failed" => ~live
          /\ wire' = IF live /\ conn = "open" THEN wire \o Padded ELSE wire
      BY <2>4 DEF Send
    <3>2. Said' => Said
      BY <3>1 DEF Said
    <3>3. PutLine' <=> PutLine
      BY <1>1, <1>3, <3>1 DEF PutLine, Left
    <3>4. ASSUME PutLine, state = "COMMAND" PROVE UNCHANGED Ahead
      <4>1. live /\ conn = "open"
        BY <1>4, <3>1, <3>4 DEF PutLine, Left, Present
      <4>2. Ahead = wire \o Padded /\ Ahead \in Seq(Items)
        BY <3>1, AheadType DEF Ahead, Unsent
      <4>3. Ahead' = (wire \o Padded) \o <<>>
        BY <3>1, <4>1 DEF Ahead, Unsent
      <4> QED
        BY <4>2, <4>3, ConcatEmptySeq
    <3> QED
      BY <2>1, <3>2, <3>3, <3>4
  <2>5. CASE ReadOk
    <3>1. /\ phase = "ok" /\ phase' = "accept2" /\ ~live' /\ inbox' = <<>> /\ UNCHANGED <<queue, wire>>
          /\ (inbox # <<>> /\ acked' = (Head(inbox).kind = "OK")) \/ UNCHANGED acked
      BY <2>5 DEF ReadOk, CloseSocket
    <3>2. Said' => Said
      <4>1. Said' => acked'
        BY <3>1 DEF Said
      <4>2. CASE inbox # <<>> /\ acked' = (Head(inbox).kind = "OK")
        <5>1. 1 \in DOMAIN inbox /\ Head(inbox) = inbox[1]
          BY <4>2, EmptySeq DEF NetInv, NetType
        <5>2. acked' => Head(inbox).kind = "OK"
          BY <4>2
        <5>3. Head(inbox).kind = "OK" => Said
          BY <5>1 DEF Said
        <5> QED
          BY <4>1, <5>2, <5>3
      <4>3. CASE acked' = acked
        <5>1. Said' => acked
          BY <4>1, <4>3
        <5> QED
          BY <5>1 DEF Said
      <4> QED
        BY <3>1, <4>2, <4>3
    <3>3. PutLine' <=> PutLine
      BY <1>1, <1>3, <1>4, <1>6, <3>1 DEF PutLine, Left
    <3>4. UNCHANGED Ahead
      BY <3>1 DEF Ahead, Unsent
    <3> QED
      BY <2>1, <3>2, <3>3, <3>4
  <2>6. CASE Send("verify", Header(<<"VERIFY", "filename", Name>>), "sum") \/ ReadSum
    <3>1. /\ phase \in {"verify", "sum"} /\ phase' \in {"sum", "failed", "done"}
          /\ UNCHANGED acked /\ (inbox' = inbox \/ inbox' = <<>>)
      BY <2>6 DEF Send, ReadSum, CloseSocket
    <3>2. ~PutLine /\ ~PutLine'
      BY <3>1 DEF PutLine
    <3>3. Said' => Said
      BY <3>1 DEF Said
    <3> QED
      BY <2>1, <3>2, <3>3
  <2> QED
    BY <1>6, <2>2, <2>3, <2>4, <2>5, <2>6 DEF Client, Send, ReadMore, ReadEnd, Slept, NetInv, PhaseFits
<1> QED
  BY <1>5, <1>6

\* A delivery keeps it.
LEMMA PutDeliver ==
  ASSUME NetInv, PutInv, NEW n \in 1 .. NetbufSize, Deliver(n)
  PROVE  PutInv'
<1>1. /\ TcpRecv(rx') /\ rx' \in Seq(Items) /\ wire' \in Seq(Items) /\ rx' \o wire' = wire
      /\ UNCHANGED <<client, queue, live, inbox, clobbered>>
  BY Delivered DEF NetInv, NetType, Strings
<1>2. UNCHANGED <<cmd, phase, acked>>
  BY <1>1 DEF client
<1>3. UNCHANGED <<parser, conn, disk, handle>> /\ rx = <<>>
  BY <1>1 DEF TcpRecv, stack, Quiet, store
<1>4. rx' \o Ahead' = rx \o Ahead
  <2>1. Unsent \in Seq(Items) /\ UNCHANGED Unsent /\ Ahead \in Seq(Items)
    BY <1>2, AheadType DEF Unsent
  <2>2. Regroup(rx', wire', Unsent)
    BY <1>1, <2>1, Regroups
  <2>3. rx \o Ahead = Ahead
    BY <1>3, <2>1, ConcatEmptySeq
  <2> QED
    BY <1>1, <2>1, <2>2, <2>3 DEF Ahead, Regroup
<1>5. UNCHANGED <<PutLine, Kept, Said>>
  BY <1>1, <1>2, <1>3 DEF PutLine, Left, Present, Kept, Said, parser
<1>7. Coming'
  BY <1>1, <1>3, <1>4, <1>5 DEF PutInv, Coming, Held, parser
<1>8. Confirmed'
  BY <1>1, <1>2, <1>3, <1>5 DEF PutInv, Confirmed
<1> QED
  BY <1>7, <1>8 DEF PutInv

\* A new connection has no part in it.
LEMMA PutConnected == ASSUME NetInv, PutInv, Connected PROVE PutInv'
<1>1. /\ conn = "connecting" /\ UNCHANGED <<cmd, phase, acked, live, inbox, clobbered, disk>>
      /\ queue' = "live"
  BY DEF Connected, TcpConnected, client, store
<1>2. ~Present /\ ~live
  BY <1>1 DEF Present, NetInv, LinkInv
<1>3. ~PutLine /\ ~PutLine' /\ UNCHANGED Said
  BY <1>1, <1>2 DEF PutLine, Left, Said
<1> QED
  BY <1>1, <1>3 DEF PutInv, Coming, Confirmed

\* Only the last piece of data is answered with an OK.
LEMMA OkOnlyByPut ==
  ASSUME IInv, OkSettled, Device
  PROVE  OkSettled' /\ (NoNewOk \/ RecvPutData)
<1>1. CASE OnlyPut
  BY <1>1 DEF OnlyPut
<1>2. CASE RecvHashPut \/ RecvHashGet \/ RecvHashList \/ RecvHashVerify \/ RecvHashReboot
  BY <1>2, HashSaysNoOk
<1>3. CASE RecvPutData
  BY <1>3, PutSays
<1> QED
  BY <1>1, <1>2, <1>3, MainLoopSaysNoOk, StackSaysNoOk, HeaderSaysNoOk, RestSaysNoOk
  DEF Device, RecvStep

\* In a session of nettool an OK is settled as it is in Control.
LEMMA OkNetStep ==
  ASSUME NetInv, OkSettled, [NetNext]_netvars
  PROVE  OkSettled'
<1>1. ASSUME NEW n \in 1 .. NetbufSize, Deliver(n) PROVE OkSettled'
  <2>1. TcpRecv(rx')
    BY <1>1, Delivered DEF NetInv, NetType
  <2> QED
    BY <2>1 DEF TcpRecv, parser, stack, OkSettled
<1>2. UNCHANGED vars => OkSettled'
  BY DEF vars, parser, stack, OkSettled
<1> QED
  BY <1>1, <1>2, DeviceLeaves, ClientLeaves, OkOnlyByPut DEF NetNext, netvars, NetInv

\* The replies of a step reach nettool behind the others.
LEMMA NewBehind ==
  ASSUME TypeOK, TypeOK', inbox \in Seq(Replies), inbox' = inbox \o NewReplies
  PROVE  \A i \in DOMAIN inbox' :
           \/ i \in DOMAIN inbox /\ inbox'[i] = inbox[i]
           \/ \E j \in DOMAIN out' \ DOMAIN out : inbox'[i] = out'[j]
<1>1. NewReplies \in Seq(Replies) /\ out \in Seq(Replies) /\ out' \in Seq(Replies)
  BY NewRepliesType DEF TypeOK
<1> DEFINE k == Len(out)
           n == Len(out')
           r == NewReplies
           m == Len(inbox)
<1>2. k \in Nat /\ n \in Nat /\ m \in Nat /\ Len(r) \in Nat /\ DOMAIN out = 1 .. k /\ DOMAIN out' = 1 .. n
  BY <1>1, LenProperties
<1>3. Len(r) = (IF k + 1 <= n THEN n - (k + 1) + 1 ELSE 0)
      /\ \A j \in 1 .. n - (k + 1) + 1 : r[j] = out'[k + 1 + j - 1]
  <2>1. \A i \in k + 1 .. n : out'[i] \in Replies
    BY <1>1, <1>2, ElementOfSeq
  <2> QED
    BY <1>1, <1>2, <2>1, SubSeqProperties DEF NewReplies
<1> HIDE DEF k, n, r
<1>4. \A j \in 1 .. Len(r) : \E l \in DOMAIN out' \ DOMAIN out : r[j] = out'[l]
  <2> SUFFICES ASSUME NEW j \in 1 .. Len(r) PROVE \E l \in DOMAIN out' \ DOMAIN out : r[j] = out'[l]
    OBVIOUS
  <2>1. r[j] = out'[k + 1 + j - 1] /\ k + 1 + j - 1 \in 1 .. n /\ k + 1 + j - 1 \notin 1 .. k
    BY <1>2, <1>3
  <2> QED
    BY <1>2, <2>1
<1>5. /\ DOMAIN inbox' = 1 .. m + Len(r) /\ DOMAIN inbox = 1 .. m
      /\ \A i \in 1 .. m + Len(r) : inbox'[i] = IF i <= m THEN inbox[i] ELSE r[i - m]
  <2>1. inbox' = inbox \o r
    BY DEF r
  <2>2. r \in Seq(Replies)
    BY <1>1 DEF r
  <2> QED
    BY <2>1, <2>2, ConcatProperties, LenProperties
<1> SUFFICES ASSUME NEW i \in DOMAIN inbox'
             PROVE  \/ i \in DOMAIN inbox /\ inbox'[i] = inbox[i]
                    \/ \E j \in DOMAIN out' \ DOMAIN out : inbox'[i] = out'[j]
  OBVIOUS
<1>6. i \in 1 .. m + Len(r)
  BY <1>5
<1> HIDE DEF m
<1>7. CASE i <= m
  BY <1>2, <1>5, <1>6, <1>7
<1>8. CASE ~(i <= m)
  <2>1. i - m \in 1 .. Len(r)
    BY <1>2, <1>6, <1>8
  <2>2. inbox'[i] = r[i - m]
    BY <1>5, <1>6, <1>8
  <2> QED
    BY <1>4, <2>1, <2>2
<1> QED
  BY <1>7, <1>8

\* A step that confirms nothing brings nettool no OK.
LEMMA RepliesBehind ==
  ASSUME TypeOK, TypeOK', inbox \in Seq(Replies), inbox' = inbox \o NewReplies, NoNewOk
  PROVE  \A i \in DOMAIN inbox' : inbox'[i].kind = "OK" => i \in DOMAIN inbox /\ inbox[i].kind = "OK"
<1>1. \A j \in DOMAIN out' \ DOMAIN out : out'[j].kind # "OK"
  BY DEF NoNewOk
<1> QED
  BY <1>1, NewBehind

\* As long as the connection stays, the device's steps only bring replies.
LEMMA Replying ==
  ASSUME NetInv, Device, ~TcpConnected, Follow, UNCHANGED client, ~(conn # "none" /\ conn' = "none")
  PROVE  /\ UNCHANGED <<cmd, phase, acked, queue, live, wire, Ahead>>
         /\ PutLine' <=> PutLine
         /\ NoNewOk => (Said' => Said)
<1>1. UNCHANGED <<cmd, phase, acked>>
  BY DEF client
<1>2. /\ inbox' = (IF live THEN inbox \o NewReplies ELSE inbox)
      /\ UNCHANGED <<queue, live, wire, fin>>
  BY DEF Follow, Replied, NewReplies
<1>3. UNCHANGED Ahead
  BY <1>1, <1>2 DEF Ahead, Unsent
<1>4. Linked
  BY DeviceLink DEF NetInv, LinkInv
<1>5. Present' <=> Present
  BY <1>4 DEF Linked, Present
<1>6. PutLine' <=> PutLine
  BY <1>1, <1>2, <1>5 DEF PutLine, Left
<1>7. TypeOK /\ TypeOK' /\ inbox \in Seq(Replies)
  BY DeviceIInv DEF NetInv, IInv, NetType
<1>8. ASSUME NoNewOk, Said' PROVE Said
  <2>1. CASE acked'
    BY <1>1, <2>1 DEF Said
  <2>2. CASE \E i \in DOMAIN inbox' : inbox'[i].kind = "OK"
    <3>1. PICK i \in DOMAIN inbox' : inbox'[i].kind = "OK"
      BY <2>2
    <3>2. CASE live
      <4>1. i \in DOMAIN inbox /\ inbox[i].kind = "OK"
        BY <1>2, <1>7, <1>8, <3>1, <3>2, RepliesBehind
      <4> QED
        BY <4>1 DEF Said
    <3>3. CASE ~live
      BY <1>2, <3>1, <3>3 DEF Said
    <3> QED
      BY <3>2, <3>3
  <2> QED
    BY <1>8, <2>1, <2>2 DEF Said
<1> QED
  BY <1>1, <1>2, <1>3, <1>6, <1>8

\* The steps of the device that take the file object from no transfer, and drop no data.
Plainly ==
  /\ \/ MainBegin \/ SlotSkip \/ SlotConnect \/ SlotClose \/ MainReturn \/ GotIp \/ TcpFailed \/ TcpSent
     \/ (TcpDisconnected /\ (conn = "closing" \/ fin)) \/ \E i \in Slots : EntryDue(i)
  /\ UNCHANGED clobbered

\* An app is loaded, or the user resets the device.
ByUser == (MainAppLoad \/ MainReset) /\ clobbered' = (clobbered \/ handle.mode # "closed")

\* The device reads its stream.
ByPeer == RecvStep /\ clobbered' = (clobbered \/ (state = "COMMAND" /\ command = "PUT" /\ ~Aligned))

\* The device's steps are of these kinds, or it connects.
LEMMA DeviceKinds == ASSUME DeviceStep PROVE Connected \/ Plainly \/ ByUser \/ ByPeer
  BY DEF DeviceStep, Alone, Walk, Receive, Disconnected, Clobbers, Plainly, ByUser, ByPeer

\* The connection is over: the file of a put is closed with it, and with all that was
\* written to it.
LEMMA PutEnds ==
  ASSUME ~Errors, ~Faults, NetInv, Lines, HandleInv, PutInv, Plainly \/ ByUser \/ ByPeer,
         conn # "none", conn' = "none", Follow, UNCHANGED client
  PROVE  PutInv'
<1>1. UNCHANGED <<cmd, phase, acked, inbox>>
  BY DEF client, Follow, Down
<1>2. ~PutLine' /\ (Said' <=> Said)
  BY <1>1 DEF PutLine, Present, Said
<1>3. clobbered => clobbered'
  BY DEF Plainly, ByUser, ByPeer
<1>4. Coming'
  BY <1>2 DEF Coming
<1>5. \/ TcpFailed /\ conn = "connecting" /\ UNCHANGED disk
      \/ TcpDisconnected
      \/ MainReset /\ UNCHANGED disk /\ clobbered' = (clobbered \/ handle.mode # "closed")
      \/ RecvStep /\ Restart
  <2>1. MainBegin \/ SlotSkip \/ MainReturn \/ MainAppLoad \/ SlotConnect \/ SlotClose => FALSE
    BY DEF MainBegin, SlotSkip, MainReturn, MainAppLoad, SlotConnect, SlotClose, stack
  <2>2. GotIp \/ (\E i \in Slots : EntryDue(i)) => FALSE
    BY DEF GotIp, EntryDue, stack
  <2>3. TcpSent => FALSE
    BY SentLink DEF NetInv
  <2>4. RecvStep => RecvStep /\ Restart
    BY RecvLink DEF NetInv
  <2>5. TcpFailed => conn = "connecting" /\ UNCHANGED disk
    BY DEF TcpFailed, store
  <2>6. MainReset => UNCHANGED disk
    BY DEF MainReset, Restart
  <2> QED
    BY <2>1, <2>2, <2>3, <2>4, <2>5, <2>6 DEF Plainly, ByUser, ByPeer
<1>6. ASSUME cmd = "put", Said, ~clobbered, ~clobbered' PROVE disk'[<<Name>>] = File
  <2>1. CASE PutLine
    <3>1. Kept /\ Present
      BY <1>6, <2>1 DEF PutInv, Confirmed, PutLine
    <3>2. CASE TcpDisconnected
      <4>1. FileClose(handle)
        BY <3>1, <3>2 DEF TcpDisconnected, Kept
      <4>2. disk' = [disk EXCEPT ![<<Name>>] = File]
        BY <3>1, <4>1 DEF FileClose, Saved, Kept
      <4> QED
        BY <4>2, NetToolAssumption DEF NetInv, IInv, TypeOK
    <3>3. CASE MainReset /\ clobbered' = (clobbered \/ handle.mode # "closed")
      <4>1. handle.mode = "write"
        BY <3>1 DEF Kept
      <4> QED
        BY <1>6, <3>3, <4>1
    <3>4. CASE RecvStep /\ Restart
      <4>1. state' = "IDLE" /\ command' = "none" /\ command = "PUT" /\ state \in {"IDLE", "COMMAND"}
        BY <3>1, <3>4 DEF Restart, Kept
      <4>2. ~RecvIdle /\ ~RecvPutData /\ ~RecvPutUnaligned
        BY <4>1 DEF RecvIdle, RecvPutData, RecvPutUnaligned, parser
      <4> QED
        BY <3>4, <4>1, <4>2 DEF RecvStep, RecvPartial, RecvCommand, RecvUnknownCommand, RecvField, RecvUnknownField,
                RecvValue, RecvHashPut, RecvHashGet, RecvHashList, RecvHashVerify, RecvHashReboot, Hash,
                RecvIgnored
    <3>5. conn # "connecting"
      BY <3>1 DEF Present
    <3> QED
      BY <1>5, <3>2, <3>3, <3>4, <3>5
  <2>2. CASE ~PutLine
    <3>1. disk[<<Name>>] = File
      BY <1>6, <2>2 DEF PutInv, Confirmed
    <3>2. handle.mode = "closed"
      BY <1>6, <2>2, ClosedElse
    <3>3. TcpDisconnected => UNCHANGED disk
      BY <3>2 DEF TcpDisconnected, FileClose, Saved, store
    <3>4. Restart => UNCHANGED disk
      BY DEF Restart
    <3> QED
      BY <1>5, <3>1, <3>3, <3>4
  <2> QED
    BY <2>1, <2>2
<1>7. Confirmed'
  BY <1>1, <1>2, <1>3, <1>6 DEF Confirmed
<1> QED
  BY <1>4, <1>7 DEF PutInv

\* A step that neither takes data nor ends the connection keeps what the device has of the
\* file.
LEMMA PutRests ==
  ASSUME NetInv, PutInv, UNCHANGED <<cmd, Ahead, rx>>, PutLine' <=> PutLine, Said' => Said,
         clobbered => clobbered',
         ~clobbered' =>
            /\ PutLine => /\ UNCHANGED <<handle, filename, filesize, bytesin, command>>
                          /\ state' = state \/ state' = "IDLE"
            /\ cmd = "put" /\ ~PutLine => UNCHANGED disk
  PROVE  PutInv'
<1>1. Coming'
  <2> SUFFICES ASSUME PutLine', state' = "COMMAND", ~clobbered' PROVE Held(Ahead)'
    BY DEF Coming
  <2>1. Held(Ahead)
    BY DEF PutInv, Coming
  <2>2. UNCHANGED <<handle, filename, filesize, bytesin>>
    OBVIOUS
  <2> QED
    BY <2>1, <2>2 DEF Held
<1>2. Confirmed'
  BY DEF PutInv, Confirmed, Kept
<1> QED
  BY <1>1, <1>2 DEF PutInv

\* The main loop's and the stack's steps are such steps.
LEMMA PutQuietly ==
  ASSUME ~Faults, NetInv, Lines, HandleInv, PutInv, Plainly \/ ByUser, Follow, UNCHANGED client,
         ~TcpConnected, ~(conn # "none" /\ conn' = "none")
  PROVE  PutInv'
<1>1. Device
  BY DEF Plainly, ByUser, Device, MainLoop
<1>2. /\ UNCHANGED <<cmd, Ahead>> /\ (PutLine' <=> PutLine)
      /\ NoNewOk => (Said' => Said)
  BY <1>1, Replying
<1>3. clobbered => clobbered'
  BY DEF Plainly, ByUser
<1>4. PutLine => Present /\ PutStream
  BY DEF PutLine, Lines
<1>5. cmd = "put" /\ ~PutLine => handle.mode = "closed"
  BY ClosedElse
<1>6. ASSUME UNCHANGED rx, NoNewOk,
             ~clobbered' =>
               /\ PutLine => /\ UNCHANGED <<handle, filename, filesize, bytesin, command>>
                             /\ state' = state \/ state' = "IDLE"
               /\ cmd = "put" /\ ~PutLine => UNCHANGED disk
      PROVE  PutInv'
  BY <1>2, <1>3, <1>6, PutRests
<1>7. UNCHANGED out => NoNewOk
  BY DEF NoNewOk
<1>8. CASE MainBegin \/ SlotSkip \/ SlotConnect \/ SlotClose \/ MainReturn
           \/ GotIp \/ TcpFailed \/ \E i \in Slots : EntryDue(i)
  <2>1. UNCHANGED <<rx, out, handle, disk, filename, filesize, bytesin, command>> /\ (state' = state \/ state' = "IDLE")
    BY <1>8 DEF MainBegin, SlotSkip, SlotConnect, SlotClose, MainReturn, GotIp, TcpFailed, EntryDue,
                parser, stack, input, store
  <2> QED
    BY <1>6, <1>7, <2>1
<1>9. CASE MainAppLoad /\ clobbered' = (clobbered \/ handle.mode # "closed")
  <2>1. UNCHANGED <<rx, out, disk, filename, filesize, bytesin, command, state>> /\ handle' = Closed
    <3>1. PICK h : ReadOn(h) /\ FileClose(h)
      BY <1>9, AppLoadReads DEF NetInv, IInv
    <3>2. UNCHANGED disk /\ handle' = Closed
      BY <3>1, FileCloseType DEF ReadOn, NetInv, IInv
    <3> QED
      BY <1>9, <3>2 DEF MainAppLoad, parser, stack, input
  <2>2. handle.mode = "closed" => handle' = handle
    BY <2>1 DEF NetInv, IInv, TypeOK, Handles
  <2> QED
    BY <1>6, <1>7, <1>9, <2>1, <2>2
<1>10. CASE MainReset
  <2>1. conn' = "none" /\ Restart /\ rx = <<>>
    BY <1>10 DEF MainReset, Restart, NetInv, LinkInv, Present
  <2>2. ~PutLine /\ UNCHANGED disk /\ NoNewOk
    BY <1>4, <2>1, RestartForgets DEF Restart, Present
  <2>3. UNCHANGED rx
    BY <2>1 DEF Restart
  <2> QED
    BY <1>6, <2>2, <2>3
<1>11. CASE TcpSent
  <2>1. UNCHANGED <<parser, rx>> /\ sending # 0
    BY <1>11, SentLink DEF NetInv
  <2>2. sending - 1 \in Nat /\ handle \in Handles /\ TypeOK
    BY <1>11 DEF TcpSent, NetInv, IInv, TypeOK
  <2>3. NoNewOk
    <3>1. command = "GET" /\ SendFileChunk(handle, sending - 1) => NoNewOk
      BY <2>2, ChunkSaysNoOk
    <3> QED
      BY <1>7, <1>11, <3>1 DEF TcpSent
  <2>4. PutLine => UNCHANGED handle
    <3>1. PutLine => command # "GET"
      BY <1>4 DEF PutStream
    <3> QED
      BY <1>11, <3>1 DEF TcpSent, store
  <2>5. handle.mode = "closed" => UNCHANGED disk
    <3>1. ASSUME SendFileChunk(handle, sending - 1), handle.mode = "closed" PROVE UNCHANGED disk
      <4>1. TypeOK /\ handle.mode # "write"
        BY <2>2, <3>1
      <4> QED
        BY <2>2, <3>1, <4>1, FileCloseType DEF SendFileChunk
    <3> QED
      BY <1>11, <3>1 DEF TcpSent, store
  <2> QED
    BY <1>5, <1>6, <2>1, <2>3, <2>4, <2>5 DEF parser
<1>12. CASE TcpDisconnected
  BY <1>12 DEF TcpDisconnected
<1> QED
  BY <1>8, <1>9, <1>10, <1>11, <1>12 DEF Plainly, ByUser

\* A read of the stream opens the file of the put, or takes its next data, or comes too
\* late.
LEMMA PutReceived ==
  ASSUME ~Faults, Clean(File), NetInv, OkSettled, Lines, HandleInv, PutInv, ByPeer, Follow, UNCHANGED client,
         ~(conn # "none" /\ conn' = "none")
  PROVE  PutInv'
<1>1. Device /\ ~TcpConnected /\ RecvStep /\ Receiving /\ rx # <<>>
  BY RecvReceives DEF ByPeer, Device, TcpConnected, Quiet, Receiving
<1>2. /\ UNCHANGED <<cmd, Ahead>> /\ (PutLine' <=> PutLine)
      /\ NoNewOk => (Said' => Said)
  BY <1>1, Replying
<1>3. clobbered' = (clobbered \/ (state = "COMMAND" /\ command = "PUT" /\ ~Aligned))
  BY DEF ByPeer
<1>4. Present /\ ~Untouched
  BY <1>1 DEF NetInv, LinkInv, Untouched
<1>5. cmd = "put" => PutLine \/ VerifyLine
  BY <1>4, WhoseLine
<1>6. CASE cmd # "put"
  <2>1. ~PutLine /\ ~PutLine' /\ cmd' # "put"
    BY <1>2, <1>6 DEF PutLine
  <2> QED
    BY <1>2, <2>1 DEF PutInv, Coming, Confirmed
<1>7. CASE cmd = "put" /\ ~PutLine
  <2>1. AskStream("VERIFY")
    BY <1>5, <1>7 DEF Lines
  <2>2. command \in {"none", "VERIFY"} /\ (state = "COMMAND" => command = "VERIFY")
    BY <2>1 DEF AskStream, Opening, Ending
  <2>3. ~RecvPutData /\ ~RecvHashPut /\ ~RecvHashGet
    BY <2>2 DEF RecvPutData, RecvHashPut, RecvHashGet, Hash
  <2>4. NoNewOk
    BY <1>1, <2>3, OkOnlyByPut DEF NetInv
  <2>5. UNCHANGED disk
    <3>1. CASE RecvHashVerify
      BY <3>1, VerifyReads, FileCloseType DEF ReadOn, NetInv, IInv
    <3> QED
      BY <1>1, <2>2, <2>3, <3>1 DEF RecvStep, RecvPartial, RecvCommand, RecvUnknownCommand, RecvField,
              RecvUnknownField, RecvValue, RecvHashList, RecvHashReboot, Restart,
              RecvPutUnaligned, RecvIgnored, RecvIdle, store
  <2>6. clobbered => clobbered'
    BY <1>3
  <2> QED
    BY <1>2, <1>7, <2>4, <2>5, <2>6 DEF PutInv, Coming, Confirmed
<1>8. CASE cmd = "put" /\ PutLine
  <2>1. PutStream
    BY <1>8 DEF Lines
  <2>2. Ahead \in Seq(Items) /\ UNCHANGED Ahead
    BY <1>2, AheadType
  <2>3. PutStream' /\ (RecvHashPut => rx' \o Ahead' = Padded /\ filename = <<Name>> /\ filesize = Len(File))
    BY <1>1, <2>1, <2>2, PutStreamStep DEF NetInv, IInv
  <2>4. command \in {"none", "PUT"} /\ (state = "COMMAND" => command = "PUT" /\ filesize = Len(File))
    BY <2>1 DEF PutStream, Opening, Sizing, Ending
  <2>5. CASE RecvPutData
    <3>1. /\ state = "COMMAND" /\ command = "PUT" /\ Aligned
          /\ UNCHANGED <<state, command, filesize>> /\ rx' = <<>>
      BY <2>5 DEF RecvPutData, Continue
    <3>2. clobbered' <=> clobbered
      BY <1>3, <3>1
    <3>3. CASE clobbered
      BY <1>2, <3>2, <3>3 DEF PutInv, Coming, Confirmed
    <3>4. CASE ~clobbered
      <4>1. Held(Ahead) /\ filesize = Len(File)
        BY <1>8, <2>4, <3>1, <3>4 DEF PutInv, Coming
      <4>2. /\ Holds(Ahead) /\ bytesin' >= bytesin
            /\ UNCHANGED out \/ (handle'.data = File /\ bytesin' = Len(File))
        BY <2>2, <2>5, <4>1, DataHeld DEF NetInv
      <4>3. Coming'
        BY <2>2, <4>2 DEF Coming, Held, Holds
      <4>4. ASSUME Said' PROVE handle'.data = File /\ bytesin' = Len(File)
        <5>1. CASE Said
          <6>1. bytesin = Len(File)
            BY <1>8, <3>1, <3>4, <4>1, <5>1 DEF PutInv, Confirmed, Kept
          <6>2. bytesin \in Nat /\ bytesin' \in Nat
            BY <1>1, DeviceIInv DEF NetInv, IInv, TypeOK
          <6>3. ~(bytesin' < Len(File))
            BY <4>2, <6>1, <6>2
          <6> QED
            BY <4>2, <6>3 DEF Holds
        <5>2. CASE ~Said
          <6>1. ~NoNewOk
            BY <1>2, <4>4, <5>2
          <6>2. ~UNCHANGED out
            BY <6>1 DEF NoNewOk
          <6> QED
            BY <4>2, <6>2
        <5> QED
          BY <5>1, <5>2
      <4>5. ASSUME Said' PROVE Kept'
        <5>1. handle'.mode = "write" /\ handle'.name = <<Name>> /\ handle'.data = File
          BY <4>2, <4>4, <4>5 DEF Holds
        <5>2. handle' \in Handles
          BY <1>1, DeviceIInv DEF NetInv, IInv, TypeOK
        <5>3. handle' = [mode |-> "write", name |-> <<Name>>, data |-> File]
          BY <5>1, <5>2 DEF Handles, Closed
        <5> QED
          BY <3>1, <4>1, <4>4, <4>5, <5>3 DEF Kept
      <4>6. Confirmed'
        BY <1>2, <1>8, <4>5 DEF Confirmed
      <4> QED
        BY <1>2, <4>3, <4>6 DEF PutInv
    <3> QED
      BY <3>3, <3>4
  <2>6. CASE ~RecvPutData
    <3>1. NoNewOk /\ (Said' => Said)
      BY <1>1, <1>2, <2>6, OkOnlyByPut DEF NetInv
    <3>2. CASE RecvPutUnaligned
      <4>1. clobbered'
        BY <1>3, <3>2 DEF RecvPutUnaligned
      <4> QED
        BY <1>2, <4>1 DEF PutInv, Coming, Confirmed
    <3>3. CASE RecvIdle
      <4>1. UNCHANGED <<parser, store>> /\ state = "IDLE" /\ (~clobbered' => ~clobbered)
        BY <1>3, <3>3 DEF RecvIdle, GiveUp
      <4>2. Coming'
        BY <4>1 DEF Coming, parser
      <4>3. Confirmed'
        BY <1>2, <1>8, <3>1, <4>1 DEF PutInv, Confirmed, Kept, parser, store
      <4> QED
        BY <1>2, <4>2, <4>3 DEF PutInv
    <3>4. CASE RecvHashPut
      <4>1. /\ state = "FIELD" /\ command = "PUT" /\ OpenForWriting(filename)
            /\ UNCHANGED <<bytesin, filesize>>
        BY <3>4 DEF RecvHashPut, Hash, HeaderDone
      <4>2. (clobbered' <=> clobbered) /\ (Said /\ ~clobbered => FALSE)
        BY <1>3, <1>8, <4>1 DEF PutInv, Confirmed, Kept
      <4>3. handle' = [mode |-> "write", name |-> <<Name>>, data |-> <<>>] 
        BY <2>3, <3>4, <4>1, NetToolAssumption DEF OpenForWriting
      <4>4. bytesin = 0 /\ Len(File) \in Nat /\ rx' \in Seq(Items)
        <5>1. bytesin = 0
          BY <4>1 DEF NetInv, IInv, HeaderUncounted
        <5>2. Len(File) \in Nat
          BY NetToolAssumption, LenProperties DEF Strings
        <5>3. rx' \in Seq(Items)
          BY <1>1, DeviceIInv DEF NetInv, IInv, TypeOK, Strings
        <5> QED
          BY <5>1, <5>2, <5>3
      <4>5. <<>> \o (rx' \o Ahead') = Padded /\ Len(<<>>) = 0
        <5>1. rx' \o Ahead' = Padded
          BY <2>3, <3>4
        <5> QED
          BY <5>1, PaddedType, ConcatEmptySeq, EmptySeq
      <4>6. Held(Ahead)'
        <5>1. handle'.mode = "write" /\ handle'.name = <<Name>> /\ handle'.data = <<>>
          BY <4>3
        <5>2. bytesin' = 0
          BY <4>1, <4>4
        <5>3. CASE Len(File) = 0
          <6>1. File = <<>>
            BY <5>3, NetToolAssumption, EmptySeq DEF Strings
          <6> QED
            BY <5>1, <5>2, <5>3, <6>1 DEF Held
        <5>4. CASE Len(File) # 0
          <6>1. bytesin' < Len(File)
            BY <4>4, <5>2, <5>4
          <6> QED
            BY <4>5, <5>1, <5>2, <6>1 DEF Held
        <5> QED
          BY <5>3, <5>4
      <4> QED
        BY <1>2, <3>1, <4>2, <4>6 DEF PutInv, Coming, Confirmed
    <3>5. CASE RecvPartial \/ RecvCommand \/ RecvUnknownCommand \/ RecvField \/ RecvUnknownField \/ RecvValue
      <4>1. state \in {"INIT", "FIELD", "VALUE"} /\ state' # "COMMAND"
        BY <3>5 DEF RecvPartial, RecvCommand, RecvUnknownCommand, RecvField, RecvUnknownField, RecvValue
      <4>2. ~(Said' /\ ~clobbered')
        BY <1>3, <1>8, <3>1, <4>1 DEF PutInv, Confirmed, Kept
      <4> QED
        BY <1>2, <4>1, <4>2 DEF PutInv, Coming, Confirmed
    <3>6. ~RecvHashGet /\ ~RecvHashList /\ ~RecvHashVerify /\ ~RecvHashReboot /\ ~RecvIgnored
      BY <2>4 DEF RecvHashGet, RecvHashList, RecvHashVerify, RecvHashReboot, RecvIgnored, Hash
    <3> QED
      BY <1>1, <2>6, <3>2, <3>3, <3>4, <3>5, <3>6 DEF RecvStep
  <2> QED
    BY <2>5, <2>6
<1> QED
  BY <1>6, <1>7, <1>8

\* The inductive invariant behind OkMeansStored.
StoreInv == NetInv /\ OkSettled /\ Session /\ Lines /\ HandleInv /\ PutInv

\* Every step keeps it.
LEMMA StoreStep ==
  ASSUME ~Errors, ~Faults, Clean(File), StoreInv, [NetNext]_netvars
  PROVE  StoreInv'
<1> USE DEF StoreInv
<1>1. NetInv' /\ OkSettled' /\ Session' /\ Lines' /\ HandleInv'
  BY NetInvStep, OkNetStep, LinesStep, HandleKept, SessionStep
<1>2. PutInv'
  <2>1. CASE UNCHANGED netvars
    <3>1. UNCHANGED <<parser, conn, rx, disk, handle, cmd, phase, acked, queue, live, inbox, wire, clobbered>>
      BY <2>1 DEF netvars, vars, client, link, stack, input, store
    <3>2. UNCHANGED <<PutLine, Said, Kept, Ahead>>
      BY <3>1 DEF PutLine, Left, Present, Said, Kept, Ahead, Unsent, parser
    <3> QED
      BY <3>1, <3>2 DEF PutInv, Coming, Confirmed, Held, parser
  <2>2. CASE DeviceStep
    <3>1. Connected \/ Plainly \/ ByUser \/ ByPeer
      BY <2>2, DeviceKinds
    <3>2. Connected \/ (Follow /\ UNCHANGED client /\ ~TcpConnected)
      BY <2>2, DeviceLeaves
    <3> QED
      BY <3>1, <3>2, PutConnected, PutEnds, PutQuietly, PutReceived
  <2> QED
    BY <2>1, <2>2, PutClient, PutDeliver DEF NetNext
<1> QED
  BY <1>1, <1>2

\* Nothing is confirmed at first.
LEMMA StoreInit == NetInit => StoreInv
<1> SUFFICES ASSUME NetInit PROVE StoreInv
  OBVIOUS
<1>1. NetInv /\ Lines
  BY NetInitInv, LinesInit
<1>2. HandleInv
  BY DEF NetInit, Init, HandleInv, HandleOwned, Receiving, Closed
<1>3. OkSettled
  BY DEF NetInit, Init, OkSettled
<1>4. ~PutLine /\ ~Said
  BY DEF NetInit, Init, PutLine, Present, Said
<1>5. PutInv /\ Session
  BY <1>4 DEF PutInv, Coming, Confirmed, Session, NetInit
<1> QED
  BY <1>1, <1>2, <1>3, <1>5 DEF StoreInv

\* When sendfile has received the OK, the device has the whole file of the put and nothing
\* else, on the card or in the file object that control_close closes: for every file that
\* does not begin with a control byte, every way in which the stream is cut, and every
\* leftover close or connect in the table. Without it, an app or a reset has taken the
\* file object, or a segment was dropped at an odd address. Connections and the card must
\* not fail: a connection that fails leaves its file object open, and the result of a write
\* is not looked at before the OK.
THEOREM OkIsStored == ~Errors /\ ~Faults /\ Clean(File) => (NetSpec => []OkMeansStored)
<1> SUFFICES ASSUME ~Errors, ~Faults, Clean(File) PROVE NetSpec => []OkMeansStored
  OBVIOUS
<1>1. StoreInv /\ [NetNext]_netvars => StoreInv'
  BY StoreStep
<1>2. StoreInv => OkMeansStored
  <2> SUFFICES ASSUME StoreInv, acked, ~clobbered PROVE Stored
    BY DEF OkMeansStored
  <2>1. cmd = "put"
    BY DEF StoreInv, Session
  <2> QED
    BY <2>1 DEF StoreInv, PutInv, Confirmed, Said, Kept, Stored
<1> QED
  BY <1>1, <1>2, StoreInit, PTL DEF NetSpec

-----------------------------------------------------------------------------
(* The checksum of a put *)

\* A checksum that is not the one of nothing is that of what a read of the card brings
\* from the beginning of the file, and nobody writes there.
Tells(sum) ==
  sum # Checksum(<<>>) =>
    /\ disk[<<Name>>] # Missing /\ handle.mode # "write"
    /\ \E read \in Transferred(disk[<<Name>>]) : sum = Checksum(read)

\* The same after the step.
TellsNext(sum) ==
  sum # Checksum(<<>>) =>
    /\ disk'[<<Name>>] # Missing /\ handle'.mode # "write"
    /\ \E read \in Transferred(disk'[<<Name>>]) : sum = Checksum(read)

\* The checksums that nettool reads, or has read, are such.
SumInv ==
  /\ phase = "sum" => \A i \in DOMAIN inbox : Tells(inbox[i].sum)
  /\ phase = "done" /\ cmd = "put" => Tells(chk2)

\* Only a PUT opens a file for writing.
LEMMA OnlyPutWrites ==
  ASSUME TypeOK, Device, handle.mode # "write", ~RecvHashPut
  PROVE  UNCHANGED disk /\ handle'.mode # "write"
<1>a. ASSUME NEW h \in Handles, h.mode # "write", FileClose(h)
      PROVE  UNCHANGED disk /\ handle'.mode # "write"
  BY <1>a, FileCloseType DEF Closed
<1>1. ASSUME NEW h \in Handles, h.mode # "write", NEW n, SendFileChunk(h, n)
      PROVE  UNCHANGED disk /\ handle'.mode # "write"
  <2>1. PICK chunk \in Chunks(h, ChunkSize) :
          IF chunk = <<>> THEN FileClose(h) ELSE handle' = Advance(h, Len(chunk)) /\ UNCHANGED disk
    BY <1>1 DEF SendFileChunk
  <2>2. CASE chunk = <<>>
    BY <1>1, <2>1, <2>2, FileCloseType DEF Closed
  <2>3. CASE chunk # <<>>
    <3>1. handle'.mode = h.mode
      BY <1>1, <2>1, <2>3 DEF Advance, Handles, Closed
    <3> QED
      BY <1>1, <2>1, <2>3, <3>1
  <2> QED
    BY <2>2, <2>3
<1>2. CASE MainLoop
  <2>1. CASE MainAppLoad
    BY <2>1, <1>a, AppLoadReads DEF ReadOn
  <2> QED
    BY <1>2, <2>1 DEF MainLoop, MainBegin, SlotSkip, SlotConnect, SlotClose, MainReturn, MainReset,
                      Restart, store, Closed
<1>3. CASE GotIp \/ TcpConnected \/ TcpFailed \/ TcpDisconnected \/ \E i \in Slots : EntryDue(i)
  <2>1. handle \in Handles
    BY DEF TypeOK
  <2>2. CASE TcpDisconnected
    BY <2>1, <2>2, <1>a DEF TcpDisconnected, store
  <2> QED
    BY <1>3, <2>2 DEF GotIp, TcpConnected, TcpFailed, EntryDue, store, Closed
<1>4. CASE TcpSent
  <2>1. handle \in Handles
    BY DEF TypeOK
  <2>2. UNCHANGED store \/ SendFileChunk(handle, sending - 1)
    BY <1>4 DEF TcpSent
  <2> QED
    BY <1>1, <2>1, <2>2 DEF store
<1>5. CASE RecvHashGet
  <2>1. PICK h \in ReadHandles(filename) : SendFileChunk(h, sending)
    BY <1>5 DEF RecvHashGet
  <2>2. h \in Handles /\ h.mode # "write"
    BY DEF ReadHandles, Handles, Closed, TypeOK
  <2> QED
    BY <1>1, <2>1, <2>2
<1>6. CASE RecvHashVerify \/ RecvHashList \/ RecvHashReboot
  <2>1. CASE RecvHashVerify
    BY <2>1, <1>a, VerifyReads DEF ReadOn
  <2> QED
    BY <1>6, <2>1 DEF RecvHashList, RecvHashReboot, Restart, store, Closed
<1>7. CASE RecvPutData
  <2>1. UNCHANGED store \/ \E data : FileWrite(data)
    BY <1>7 DEF RecvPutData
  <2> QED
    BY <2>1 DEF FileWrite, store
<1>8. CASE \/ RecvPartial \/ RecvCommand \/ RecvUnknownCommand \/ RecvField \/ RecvUnknownField \/ RecvValue
           \/ RecvPutUnaligned \/ RecvIgnored \/ RecvIdle
  BY <1>8 DEF RecvPartial, RecvCommand, RecvUnknownCommand, RecvField, RecvUnknownField, RecvValue,
              RecvPutUnaligned, RecvIgnored, RecvIdle, store
<1> QED
  BY <1>2, <1>3, <1>4, <1>5, <1>6, <1>7, <1>8 DEF Device, RecvStep

\* After the OK of a put, the device does nothing but answer the VERIFY.
LEMMA Answers ==
  ASSUME NetInv, Lines, cmd = "put", phase \in {"sum", "done"},
         Device, ~TcpConnected, Follow, UNCHANGED client
  PROVE  /\ ~RecvHashPut
         /\ \/ conn' = "none"
            \/ UNCHANGED out
            \/ RecvHashVerify /\ filename = <<Name>>
<1>1. ASSUME Present, ~Untouched PROVE AskStream("VERIFY")
  BY <1>1, WhoseLine DEF PutLine, Lines
<1>a. ASSUME RecvStep PROVE Present /\ AskStream("VERIFY") /\ command \in {"none", "VERIFY"}
  <2>1. Present /\ ~Untouched
    BY <1>a, RecvReceives DEF Receiving, NetInv, LinkInv, Untouched
  <2> QED
    BY <1>1, <2>1 DEF AskStream
<1>b. ~RecvHashPut
  BY <1>a DEF RecvStep, RecvHashPut, Hash
<1>2. CASE RecvStep
  <2>1. Present
    BY <1>2, <1>a
  <2>2. AskStream("VERIFY") /\ command \in {"none", "VERIFY"}
    BY <1>2, <1>a
  <2>3. CASE RecvHashVerify
    <3>1. conn' = conn /\ conn # "none" /\ filename' = filename /\ state' = "COMMAND"
      BY <2>1, <2>3 DEF RecvHashVerify, SendOk, SendFails, HeaderDone, Present
    <3>2. UNCHANGED <<wire, phase>>
      BY <3>1 DEF Follow, Replied, client
    <3>3. Ahead \in Seq(Items) /\ Ahead = wire /\ UNCHANGED Ahead
      BY <3>2, AheadType DEF Ahead, Unsent
    <3>4. AskStream("VERIFY")'
      BY <1>2, <2>2, <3>2, <3>3, AskStreamStep DEF NetInv, IInv
    <3>5. filename = <<Name>>
      BY <3>1, <3>4 DEF AskStream, Opening, Ending
    <3> QED
      BY <1>b, <2>3, <3>5
  <2>4. CASE ~RecvHashVerify
    <3>1. ~RecvHashPut /\ ~RecvHashGet /\ ~RecvHashList /\ ~RecvHashReboot /\ ~RecvPutData
      BY <2>2 DEF RecvHashPut, RecvHashGet, RecvHashList, RecvHashReboot, RecvPutData, Hash
    <3> QED
      BY <1>2, <2>4, <3>1 DEF RecvStep, RecvPartial, RecvCommand, RecvUnknownCommand, RecvField, RecvUnknownField,
         RecvValue, RecvPutUnaligned, RecvIgnored, RecvIdle, stack
  <2> QED
    BY <2>3, <2>4
<1>3. CASE TcpSent
  <2>1. Present /\ ~Untouched
    BY <1>3, SentLink DEF TcpSent, Present, Untouched, NetInv
  <2>2. command \in {"none", "VERIFY"}
    BY <1>1, <2>1 DEF AskStream
  <2> QED
    BY <1>3, <1>b, <2>2 DEF TcpSent
<1>4. CASE MainLoop
  BY <1>4, <1>b DEF MainLoop, MainBegin, SlotSkip, SlotConnect, SlotClose, MainReturn, MainAppLoad, MainReset,
              Restart, stack
<1>5. CASE GotIp \/ TcpFailed \/ TcpDisconnected \/ \E i \in Slots : EntryDue(i)
  BY <1>5, <1>b DEF GotIp, TcpFailed, TcpDisconnected, EntryDue, stack
<1> QED
  BY <1>2, <1>3, <1>4, <1>5 DEF Device

\* nettool's steps keep what its checksums tell.
LEMMA SumClient == ASSUME NetInv, Session, SumInv, Client PROVE SumInv'
<1>1. UNCHANGED <<disk, handle, cmd>>
  BY ClientLeaves DEF vars, store
<1>2. \A sum : Tells(sum) => Tells(sum)'
  BY <1>1 DEF Tells
<1>3. CASE Send("verify", Header(<<"VERIFY", "filename", Name>>), "sum")
  <2>1. inbox' = <<>> /\ phase' \in {"sum", "failed"}
    BY <1>3 DEF Send, Session
  <2> QED
    BY <2>1 DEF SumInv
<1>4. CASE ReadSum
  <2>1. phase = "sum" /\ phase' = "done"
    BY <1>4 DEF ReadSum
  <2>2. CASE inbox # <<>> /\ chk2' = Head(inbox).sum
    <3>1. 1 \in DOMAIN inbox /\ Head(inbox) = inbox[1]
      BY <2>2, EmptySeq DEF NetInv, NetType
    <3>2. Tells(chk2')
      BY <2>1, <2>2, <3>1 DEF SumInv
    <3> QED
      BY <1>1, <2>1, <3>2 DEF SumInv, Tells
  <2>3. CASE chk2' = Checksum(<<>>)
    BY <2>1, <2>3 DEF SumInv, Tells
  <2> QED
    BY <1>4, <2>2, <2>3 DEF ReadSum
<1>5. CASE ReadEnd \/ Slept
  BY <1>1, <1>5 DEF ReadEnd, Slept, SumInv, NetInv, PhaseFits
<1>6. CASE Accept("accept", cmd) \/ Accept("accept2", "verify") \/ ReadMore \/ ReadOk
  <2>1. cmd \in {"put", "get", "list", "reboot"}
    BY NetToolAssumption DEF NetInv, NetType
  <2>2. phase' \notin {"sum", "done"}
    BY <1>6, <2>1 DEF Accept, ReadMore, ReadOk
  <2> QED
    BY <2>2 DEF SumInv
<1>7. CASE \/ Send("get", Header(<<"GET", "filename", Name>>), "reading")
           \/ Send("list", Header(<<"LIST", "filename", Name>>), "reading")
           \/ Send("reboot", Line("REBOOT") \o Line("mode") \o Line(Mode) \o Line("#") \o <<Zero>>, "sleep")
           \/ Send("put", Header(<<"PUT", "filename", Name, "filesize", Size>>), "data")
           \/ Send("data", Padded, "ok")
  BY <1>7 DEF Send, SumInv
<1> QED
  BY <1>3, <1>4, <1>5, <1>6, <1>7 DEF Client

\* The device's steps keep it.
LEMMA SumFollow ==
  ASSUME NetInv, Lines, SumInv, Device, ~TcpConnected, Follow, UNCHANGED client
  PROVE  SumInv'
<1>1. UNCHANGED <<cmd, phase, chk2>>
  BY DEF client
<1>2. phase = "sum" => cmd = "put"
  BY DEF NetInv, PhaseFits
<1> SUFFICES ASSUME cmd = "put", phase \in {"sum", "done"} PROVE SumInv'
  BY <1>1, <1>2 DEF SumInv
<1>3. /\ ~RecvHashPut
      /\ conn' = "none" \/ UNCHANGED out \/ (RecvHashVerify /\ filename = <<Name>>)
  BY Answers
<1>4. handle.mode # "write" => UNCHANGED disk /\ handle'.mode # "write"
  BY <1>3, OnlyPutWrites DEF NetInv, IInv
<1>5. \A sum : Tells(sum) => TellsNext(sum)
  BY <1>4 DEF Tells, TellsNext
<1>6. phase = "done" => TellsNext(chk2)
  BY <1>5 DEF SumInv
<1>7. ASSUME phase = "sum" PROVE \A i \in DOMAIN inbox' : TellsNext(inbox'[i].sum)
  <2>1. CASE inbox' = inbox
    BY <1>5, <1>7, <2>1 DEF SumInv
  <2>2. CASE inbox' # inbox
    <3>1. inbox' = inbox \o NewReplies /\ ~(conn # "none" /\ conn' = "none")
      BY <2>2 DEF Follow, Down, Replied, NewReplies
    <3>2. TypeOK /\ TypeOK' /\ inbox \in Seq(Replies)
      BY DeviceIInv DEF NetInv, IInv, NetType
    <3>3. \A j \in DOMAIN out' \ DOMAIN out : TellsNext(out'[j].sum)
      <4>1. CASE conn' = "none"
        <5>1. conn = "none" /\ ~live
          BY <3>1, <4>1 DEF NetInv, LinkInv, Present
        <5>2. inbox' = inbox
          BY <3>1, <5>1 DEF Follow, Replied
        <5> QED
          BY <2>2, <5>2
      <4>2. CASE UNCHANGED out
        BY <4>2
      <4>3. CASE RecvHashVerify /\ filename = <<Name>>
        <5>1. PICK h \in ReadHandles(filename) : \E read \in Transferred(h.data) :
                /\ SendOk(sending, Sum(read)) \/ SendFails(sending)
                /\ FileClose(Advance(h, Len(read))) /\ ReadOn(Advance(h, Len(read)))
          BY <3>2, <4>3, VerifyReads
        <5>2. PICK read \in Transferred(h.data) :
                /\ SendOk(sending, Sum(read)) \/ SendFails(sending)
                /\ FileClose(Advance(h, Len(read))) /\ ReadOn(Advance(h, Len(read)))
          BY <5>1
        <5>3. TellsNext(Checksum(read))
          <6>1. handle'.mode # "write" /\ UNCHANGED disk
            BY <3>2, <5>2, FileCloseType DEF ReadOn, Closed
          <6>2. CASE h = Closed
            <7>1. h.data = <<>> /\ <<>> \in Seq(Items) /\ Len(<<>>) = 0
              BY <6>2, EmptySeq DEF Closed
            <7>2. read \in Seq(Items) /\ Len(read) <= 0 /\ Len(read) \in Nat
              BY <7>1, TransferredType
            <7>3. read = <<>>
              BY <7>2, EmptySeq
            <7> QED
              BY <7>3 DEF TellsNext
          <6>3. CASE h # Closed
            <7>1. h.data = disk[<<Name>>] /\ disk[<<Name>>] # Missing
              BY <4>3, <6>3 DEF ReadHandles
            <7> QED
              BY <6>1, <7>1 DEF TellsNext
          <6> QED
            BY <6>2, <6>3
        <5>4. Sum(read).sum = Checksum(read)
          BY DEF Sum
        <5>5. out \in Seq(Replies) /\ Sum(read) \in Replies
          BY <3>2, ReplyTypes DEF TypeOK
        <5>6. CASE out' = Append(out, Sum(read))
          <6> DEFINE x == Sum(read)
          <6>1. \A j \in DOMAIN out' \ DOMAIN out : out'[j] = x
            <7> HIDE DEF x
            <7>1. out' = Append(out, x) /\ x \in Replies
              BY <5>5, <5>6 DEF x
            <7> QED
              BY <5>5, <7>1, AppendProperties, LenProperties
          <6> QED
            BY <5>3, <5>4, <6>1
        <5>7. CASE UNCHANGED out
          BY <5>7
        <5> QED
          BY <5>2, <5>6, <5>7 DEF SendOk, SendFails
      <4> QED
        BY <1>3, <4>1, <4>2, <4>3
    <3>4. \A i \in DOMAIN inbox : TellsNext(inbox[i].sum)
      BY <1>5, <1>7 DEF SumInv
    <3> QED
      BY <3>1, <3>2, <3>3, <3>4, NewBehind
  <2> QED
    BY <2>1, <2>2
<1> QED
  BY <1>1, <1>6, <1>7 DEF SumInv, Tells, TellsNext

\* Every step keeps it.
LEMMA SumStep ==
  ASSUME NetInv, Session, Lines, SumInv, [NetNext]_netvars
  PROVE  SumInv'
<1>1. CASE UNCHANGED netvars
  BY <1>1 DEF netvars, vars, client, link, store, SumInv, Tells
<1>2. CASE Connected
  BY <1>2 DEF Connected, TcpConnected, client, store, SumInv, Tells
<1>3. ASSUME NEW n \in 1 .. NetbufSize, Deliver(n) PROVE SumInv'
  BY <1>3 DEF Deliver, TcpRecv, client, store, SumInv, Tells
<1> QED
  BY <1>1, <1>2, <1>3, SumClient, SumFollow, DeviceLeaves DEF NetNext

\* What a read of the card brings, all of the file or with faults a beginning of it, is
\* not what was sent, but has the same checksum.
Collides ==
  /\ disk[<<Name>>] # Missing
  /\ \E read \in Transferred(disk[<<Name>>]) : read # File /\ Checksum(read) = Checksum(File)

\* What nettool reports as verified is what the card holds (control_verify reads the card,
\* not the file object of the first connection), or where the card may fail the beginning
\* of it, whatever else fails, resets or runs in between, for every file that does not
\* begin with a control byte; but for bytes of the same checksum, which an exclusive or of
\* words cannot tell.
THEOREM VerifiedIsStored == Clean(File) => (NetSpec => [](VerifiedMeansStored \/ Collides))
<1> SUFFICES ASSUME Clean(File) PROVE NetSpec => [](VerifiedMeansStored \/ Collides)
  OBVIOUS
<1> DEFINE VerifyInv == NetInv /\ Session /\ Lines /\ SumInv
<1>1. NetInit => VerifyInv
  <2> SUFFICES ASSUME NetInit PROVE VerifyInv
    OBVIOUS
  <2>1. NetInv /\ Lines
    BY NetInitInv, LinesInit
  <2>2. Session /\ SumInv
    BY DEF NetInit, Session, SumInv
  <2> QED
    BY <2>1, <2>2
<1>2. VerifyInv /\ [NetNext]_netvars => VerifyInv'
  BY NetInvStep, SessionStep, LinesStep, SumStep
<1>3. VerifyInv => VerifiedMeansStored \/ Collides
  <2> DEFINE d == disk[<<Name>>]
  <2> SUFFICES ASSUME VerifyInv, cmd = "put", phase = "done", chk2 = Checksum(File),
                      chk2 # Checksum(<<>>), ~Collides
               PROVE  d = File \/ (Faults /\ d # Missing /\ IsPrefix(File, d))
    BY DEF VerifiedMeansStored
  <2>1. d # Missing /\ \E read \in Transferred(d) : chk2 = Checksum(read)
    BY DEF SumInv, Tells
  <2>2. d \in Seq(Items)
    BY <2>1, NetToolAssumption DEF NetInv, IInv, TypeOK, Strings
  <2>3. File \in Transferred(d)
    BY <2>1 DEF Collides
  <2> HIDE DEF d, VerifyInv
  <2>4. Len(File) \in Nat /\ Len(File) <= Len(d) /\ File = SubSeq(d, 1, Len(File))
        /\ (~Faults => File = d)
    BY <2>2, <2>3, TransferredType
  <2>5. SubSeq(File, 1, Len(File)) = File
    BY <2>2, <2>3, TransferredType, SubSeqFull
  <2>6. IsPrefix(File, d)
    BY <2>4, <2>5 DEF IsPrefix
  <2> QED
    BY <2>1, <2>4, <2>6
<1> QED
  BY <1>1, <1>2, <1>3, PTL DEF NetSpec

-----------------------------------------------------------------------------
(* The file a get fetches *)

\* What replies bring.
Gathered(replies) == FlattenSeq(DataOf(replies))

\* Of these replies, those behind i have brought f, and those of i are to be read.
Brought(f, i, replies) == \E q \in Seq(Replies) : f = Gathered(q) /\ q \o i = replies

\* At first nothing is brought.
LEMMA GatherNone == Gathered(<<>>) = <<>> /\ Brought(<<>>, <<>>, <<>>)
<1>1. <<>> \in Seq(Replies)
  BY EmptySeq
<1>2. Gathered(<<>>) = <<>>
  <2>1. DataOf(<<>>) = <<>>
    BY DEF DataOf
  <2> QED
    BY <2>1, FlattenEmpty DEF Gathered
<1>3. <<>> \o <<>> = <<>>
  BY <1>1, ConcatEmptySeq
<1> QED
  BY <1>1, <1>2, <1>3 DEF Brought

\* New replies come behind the others.
LEMMA BroughtMore ==
  ASSUME NEW f, NEW i \in Seq(Replies), NEW new \in Seq(Replies), NEW s, Brought(f, i, s)
  PROVE  Brought(f, i \o new, s \o new)
<1>1. PICK q \in Seq(Replies) : f = Gathered(q) /\ q \o i = s
  BY DEF Brought
<1>2. Regroup(q, i, new)
  BY Regroups
<1>3. q \o (i \o new) = s \o new
  BY <1>1, <1>2 DEF Regroup
<1> QED
  BY <1>1, <1>3 DEF Brought

\* readfile writes what the next reply brings behind what it has written.
LEMMA BroughtRead ==
  ASSUME NEW f, NEW i \in Seq(Replies), i # <<>>, NEW s, Brought(f, i, s)
  PROVE  Brought(f \o Head(i).data, Tail(i), s)
<1>1. PICK q \in Seq(Replies) : f = Gathered(q) /\ q \o i = s
  BY DEF Brought
<1> DEFINE h == Head(i)
           t == Tail(i)
<1>2. h \in Replies /\ t \in Seq(Replies) /\ i = <<h>> \o t
  BY HeadTailProperties
<1> HIDE DEF h, t
<1>3. <<h>> \in Seq(Replies) /\ Append(q, h) = q \o <<h>> /\ Append(q, h) \in Seq(Replies)
  BY <1>2, AppendProperties, AppendIsConcat
<1>4. Regroup(q, <<h>>, t)
  BY <1>2, <1>3, Regroups
<1>5. Append(q, h) \o t = s
  BY <1>1, <1>2, <1>3, <1>4 DEF Regroup
<1>6. Gathered(Append(q, h)) = f \o h.data
  BY <1>1, <1>2, DataAppend DEF Gathered
<1> QED
  BY <1>3, <1>5, <1>6 DEF Brought, h, t

\* When nothing is to be read, everything is written.
LEMMA BroughtAll ==
  ASSUME NEW f, NEW s, Brought(f, <<>>, s)
  PROVE  f = Gathered(s)
<1>1. PICK q \in Seq(Replies) : f = Gathered(q) /\ q \o <<>> = s
  BY DEF Brought
<1> QED
  BY <1>1, ConcatEmptySeq

\* The replies of a step are those behind the others.
LEMMA OneMore ==
  ASSUME TypeOK, TypeOK', UNCHANGED out \/ \E r \in Replies : out' = Append(out, r)
  PROVE  out' = out \o NewReplies /\ NewReplies \in Seq(Replies)
<1>1. out \in Seq(Replies) /\ Len(out) \in Nat /\ NewReplies \in Seq(Replies)
  BY LenProperties, NewRepliesType DEF TypeOK
<1>2. CASE UNCHANGED out
  <2>1. NewReplies = <<>>
    BY <1>1, <1>2, SubSeqEmpty DEF NewReplies
  <2> QED
    BY <1>1, <1>2, <2>1, ConcatEmptySeq
<1>3. ASSUME NEW r \in Replies, out' = Append(out, r) PROVE out' = out \o NewReplies
  <2> DEFINE n == Len(out)
             t == <<r>>
  <2>1. t \in Seq(Replies) /\ Len(t) = 1 /\ out' = out \o t
    BY <1>1, <1>3, AppendIsConcat
  <2>2. Len(out') = n + 1
    BY <1>1, <1>3, AppendProperties
  <2>3. NewReplies = SubSeq(out \o t, n + 1, n + 1)
    BY <2>1, <2>2 DEF NewReplies
  <2> HIDE DEF t
  <2> QED
    BY <1>1, <2>1, <2>3, LastOfConcat
<1> QED
  BY <1>1, <1>2, <1>3

\* No close is waiting in the table.
NoClose == \A i \in Slots : deffuncs[i] # Free => deffuncs[i].func # "close"

\* Nothing but a request puts a close into the table.
LEMMA NoCloseKept ==
  ASSUME TypeOK, NoClose,
         \/ MainLoop \/ (\E i \in Slots : EntryDue(i))
         \/ GotIp \/ TcpConnected \/ TcpFailed \/ TcpDisconnected
         \/ UNCHANGED deffuncs
  PROVE  NoClose'
<1>1. CASE UNCHANGED deffuncs
  BY <1>1 DEF NoClose
<1>2. ASSUME NEW i \in Slots, deffuncs[i] # Free, NEW b, deffuncs' = [deffuncs EXCEPT ![i].due = b]
      PROVE  NoClose'
  <2>1. deffuncs[i] \in Entry /\ deffuncs[i].func # "close"
    BY <1>2 DEF TypeOK, NoClose
  <2>2. deffuncs'[i].func = deffuncs[i].func /\ \A j \in Slots : j # i => deffuncs'[j] = deffuncs[j]
    BY <1>2, <2>1 DEF TypeOK, Entry
  <2> QED
    BY <2>1, <2>2 DEF NoClose
<1>3. CASE SlotConnect
  BY <1>2, <1>3 DEF SlotConnect, Due
<1>4. CASE SlotClose
  BY <1>4 DEF SlotClose, Due, NoClose
<1>5. CASE MainReset
  BY <1>5 DEF MainReset, Restart, EmptyTable, NoClose
<1>6. CASE GotIp
  <2>1. \/ deffuncs' = deffuncs
        \/ \E i \in Slots : deffuncs' = [deffuncs EXCEPT ![i] = Connect]
    BY <1>6, AddDeferSlot DEF GotIp, Post
  <2>2. Connect.func = "connect"
    BY DEF Connect
  <2> QED
    BY <2>1, <2>2 DEF NoClose, TypeOK
<1>7. CASE \E i \in Slots : EntryDue(i)
  BY <1>2, <1>7 DEF EntryDue
<1> QED
  BY <1>1, <1>3, <1>4, <1>5, <1>6, <1>7 DEF MainLoop, MainBegin, SlotSkip, MainReturn, MainAppLoad,
     TcpConnected, TcpFailed, TcpDisconnected

\* The device has sent nothing yet, and nothing makes it close while it reads the header.
Asking == out = <<>> /\ sending = 0 /\ (state \in {"INIT", "FIELD", "VALUE"} => NoClose)

\* A chunk is on its way, and the rest of the file is behind it.
InFlight ==
  /\ sending = 1 /\ command = "GET" /\ state \in {"IDLE", "COMMAND"} /\ conn = "open"
  /\ rx = <<>> /\ wire = <<>> /\ NoClose
  /\ handle.mode = "read" /\ Received \o handle.data = disk[<<Name>>]

\* The whole file has been sent.
AllSent == sending = 0 /\ Received = disk[<<Name>>] /\ rx = <<>> /\ wire = <<>>

\* A get, as the device sees it: its header, a chunk on its way, and the end.
Fetching == Asking \/ InFlight \/ AllSent

\* The step sends one reply or none.
OneReply == UNCHANGED out \/ \E r \in Replies : out' = Append(out, r)

\* Without faults, send_file_chunk sends the next chunk, or has nothing more to send.
SentOn(h) ==
  /\ UNCHANGED <<disk, conn>>
  /\ \/ /\ UNCHANGED out /\ sending' = 0
        /\ h.mode = "read" => Received' = disk[<<Name>>]
     \/ /\ \E r \in Replies : out' = Append(out, r)
        /\ sending' = 1 /\ UNCHANGED deffuncs
        /\ handle'.mode = "read" /\ Received' \o handle'.data = disk[<<Name>>]

\* send_file_chunk sends what comes next of the file, and after the last chunk the whole
\* file has been sent.
LEMMA ChunkSent ==
  ASSUME TypeOK, ~Faults, conn = "open", NEW h \in Handles, h.mode # "write", SendFileChunk(h, 0),
         h.mode = "read" => Received \o h.data = disk[<<Name>>]
  PROVE  SentOn(h)
<1>1. PICK chunk \in Chunks(h, ChunkSize) :
        IF chunk = <<>>
        THEN /\ FileClose(h) /\ Post(CloseSoon)
             /\ sending' = 0 /\ UNCHANGED <<conn, out>>
        ELSE /\ handle' = Advance(h, Len(chunk))
             /\ UNCHANGED disk
             /\ \/ SendOk(0, Chunk(chunk)) /\ UNCHANGED deffuncs
                \/ SendFails(0) /\ Post(CloseSoon)
  BY DEF SendFileChunk
<1>2. Received = Gathered(out) /\ Received' = Gathered(out') /\ out \in Seq(Replies)
  BY DEF Received, Gathered, DataOf, TypeOK
<1>3. Received \in Seq(Items)
  BY <1>2, DataAppend DEF Gathered, Strings
<1>4. CASE chunk = <<>>
  <2>1. UNCHANGED <<disk, out, conn>> /\ sending' = 0
    BY <1>1, <1>4, FileCloseType
  <2>2. ASSUME h.mode = "read" PROVE Received' = disk[<<Name>>]
    <3>1. h.data \in Seq(Items) /\ Len(h.data) \in Nat
      BY <2>2, LenProperties DEF Handles, Closed, Strings
    <3>2. h.data = <<>>
      <4>1. CASE Len(h.data) <= ChunkSize
        BY <1>4, <2>2, <4>1, ChunkType DEF Piece
      <4>2. CASE ~(Len(h.data) <= ChunkSize)
        <5>1. chunk = SubSeq(h.data, 1, ChunkSize)
          BY <2>2, <4>2, ChunkType DEF Piece
        <5>2. ChunkSize \in Nat \ {0} /\ \A i \in 1 .. ChunkSize : h.data[i] \in Items
          <6>1. ChunkSize \in Nat \ {0}
            BY ControlAssumption
          <6> QED
            BY <3>1, <4>2, <6>1, ElementOfSeq
        <5>3. Len(chunk) = ChunkSize
          BY <5>1, <5>2, SubSeqProperties
        <5>4. Len(<<>>) = 0
          BY EmptySeq
        <5> QED
          BY <1>4, <5>2, <5>3, <5>4
      <4> QED
        BY <4>1, <4>2
    <3>3. Received = disk[<<Name>>]
      BY <1>3, <2>2, <3>2, ConcatEmptySeq
    <3> QED
      BY <1>2, <2>1, <3>3
  <2> QED
    BY <2>1, <2>2 DEF SentOn
<1>5. CASE chunk # <<>>
  <2> DEFINE r == Chunk(chunk)
             rest == Advance(h, Len(chunk)).data
             before == Received
  <2>1. ~SendFails(0)
    BY DEF SendFails
  <2>2. /\ h.mode = "read" /\ handle'.mode = "read" /\ handle'.data = rest
        /\ rest \in Seq(Items) /\ chunk \in Seq(Items) /\ chunk \o rest = h.data
    BY <1>1, <1>5, ChunkSplits DEF Strings
  <2>3. r \in Replies /\ r.data = chunk
    BY <2>2, ReplyTypes DEF Chunk, Strings
  <2>4. out' = Append(out, r) /\ sending' = 1 /\ UNCHANGED <<deffuncs, disk, conn>>
    <3>1. 0 + 1 = 1
      OBVIOUS
    <3> QED
      BY <1>1, <1>5, <2>1, <3>1 DEF SendOk
  <2> HIDE DEF r, rest
  <2>5. Received' = before \o chunk
    BY <1>2, <2>3, <2>4, DataAppend DEF Gathered
  <2>6. before \in Seq(Items) /\ before \o (chunk \o rest) = disk[<<Name>>]
    BY <1>3, <2>2
  <2> HIDE DEF before
  <2>7. Regroup(before, chunk, rest)
    BY <2>2, <2>6, Regroups
  <2>8. Received' \o handle'.data = disk[<<Name>>]
    BY <2>2, <2>5, <2>6, <2>7 DEF Regroup
  <2> QED
    BY <2>2, <2>3, <2>4, <2>8 DEF SentOn
<1> QED
  BY <1>4, <1>5

\* The device knows the command and the fields of a header of nettool.
LEMMA AskIsKnown ==
  ASSUME TypeOK, NEW c \in Commands, AskStream(c)'
  PROVE  ~RecvUnknownCommand /\ ~RecvUnknownField
<1>1. Scan.done => Len(Scan.text) >= 1
  BY ScanType
<1>2. Scan.done => Scan.text # <<>>
  <2>1. Len(<<>>) = 0
    BY EmptySeq
  <2> QED
    BY <1>1, <2>1
<1>3. ASSUME RecvUnknownCommand PROVE FALSE
  <2>1. /\ state' = "INIT" /\ netbuf' # <<>> /\ netbuf' # <<c>>
    BY <1>2, <1>3 DEF RecvUnknownCommand
  <2> QED
    BY <2>1 DEF AskStream, Opening, Ending, Before
<1>4. ASSUME RecvUnknownField PROVE FALSE
  <2>1. "filename" \in Fields
    BY DEF Fields
  <2>2. /\ state' = "FIELD" /\ netbuf' # <<>> /\ netbuf' # <<"filename">> /\ netbuf' # <<"#">>
    BY <1>2, <1>4, <2>1 DEF RecvUnknownField
  <2> QED
    BY <2>2 DEF AskStream, Opening, Ending, Before
<1> QED
  BY <1>3, <1>4

\* Only the stream of the get comes, so that no file is written.
LEMMA OnlyGet ==
  ASSUME NetInv, Lines, cmd = "get"
  PROVE  /\ RecvStep => Present /\ GetLine /\ AskStream("GET") /\ command \in {"none", "GET"}
         /\ ~RecvHashPut
<1>1. ASSUME RecvStep PROVE Present /\ GetLine /\ AskStream("GET") /\ command \in {"none", "GET"}
  <2>1. Present /\ ~Untouched
    BY <1>1, RecvReceives DEF Receiving, NetInv, LinkInv, Untouched
  <2> QED
    BY <2>1, WhoseLine DEF Lines, AskStream
<1> QED
  BY <1>1 DEF RecvStep, RecvHashPut, Hash

\* A read of the stream goes on in the header, or sends the first chunk, or there is no
\* file.
LEMMA FetchingRecv ==
  ASSUME ~Faults, NetInv, Lines, cmd = "get", phase = "reading", Fetching, RecvStep,
         conn' # "none", Follow, UNCHANGED client
  PROVE  Fetching' /\ OneReply
<1>1. Present /\ AskStream("GET") /\ command \in {"none", "GET"} /\ rx # <<>>
  BY OnlyGet, RecvReceives DEF Receiving
<1>2. Asking
  BY <1>1 DEF Fetching, InFlight, AllSent
<1>3. UNCHANGED <<wire, phase>> /\ conn # "none"
  BY <1>1 DEF Follow, Replied, client, Present
<1>4. AskStream("GET")'
  <2>1. Ahead \in Seq(Items) /\ Ahead = wire /\ UNCHANGED Ahead
    BY <1>3, AheadType DEF Ahead, Unsent
  <2> QED
    BY <1>1, <1>3, <2>1, AskStreamStep DEF NetInv, IInv
<1>5. ~RecvUnknownCommand /\ ~RecvUnknownField
  BY <1>4, AskIsKnown DEF Commands, NetInv, IInv
<1>6. /\ ~RecvHashPut /\ ~RecvHashList /\ ~RecvHashVerify /\ ~RecvHashReboot
      /\ ~RecvPutData /\ ~RecvPutUnaligned /\ ~RecvIgnored
  BY <1>1 DEF RecvHashPut, RecvHashList, RecvHashVerify, RecvHashReboot, RecvPutData,
              RecvPutUnaligned, RecvIgnored, Hash, AskStream, Opening, Ending
<1>7. CASE RecvPartial \/ RecvCommand \/ RecvField \/ RecvValue
  <2>1. UNCHANGED <<deffuncs, out, sending>> /\ state \in {"INIT", "FIELD", "VALUE"}
    BY <1>7 DEF RecvPartial, RecvCommand, RecvField, RecvValue, stack
  <2>2. Asking'
    BY <1>2, <2>1 DEF Asking, NoClose
  <2> QED
    BY <2>1, <2>2 DEF Fetching, OneReply
<1>8. CASE RecvIdle
  <2>1. UNCHANGED <<out, sending, state>> /\ state = "IDLE"
    BY <1>8 DEF RecvIdle, parser, stack
  <2>2. Asking'
    BY <1>2, <2>1 DEF Asking
  <2> QED
    BY <2>1, <2>2 DEF Fetching, OneReply
<1>9. CASE RecvHashGet
  <2>1. PICK h \in ReadHandles(filename) : SendFileChunk(h, 0)
    BY <1>2, <1>9 DEF RecvHashGet, Asking
  <2>2. /\ state = "FIELD" /\ command = "GET" /\ state' = "COMMAND" /\ UNCHANGED <<filename, command>>
    BY <1>9 DEF RecvHashGet, Hash, HeaderDone
  <2>3. filename = <<Name>> /\ rx' = <<>> /\ wire = <<>>
    BY <1>3, <1>4, <2>2 DEF AskStream, Opening, Ending
  <2>4. conn = "open" /\ NoClose
    BY <1>1, <1>2, <2>2 DEF Present, NetInv, LinkInv, Asking
  <2>5. out = <<>> /\ Received = <<>>
    BY <1>2, FlattenEmpty DEF Asking, Received
  <2>6. /\ h \in Handles /\ h.mode # "write"
        /\ h.mode = "read" => h.data = disk[<<Name>>] /\ h.data \in Seq(Items)
    BY <2>3 DEF ReadHandles, Handles, Closed, NetInv, IInv, TypeOK, Strings
  <2>7. h.mode = "read" => Received \o h.data = disk[<<Name>>]
    BY <2>5, <2>6, ConcatEmptySeq
  <2>8. SentOn(h)
    BY <2>1, <2>4, <2>6, <2>7, ChunkSent DEF NetInv, IInv
  <2>9. CASE UNCHANGED out /\ sending' = 0
    <3>1. Asking'
      BY <2>2, <2>5, <2>9 DEF Asking
    <3> QED
      BY <2>9, <3>1 DEF Fetching, OneReply
  <2>10. CASE /\ \E r \in Replies : out' = Append(out, r)
              /\ sending' = 1 /\ UNCHANGED deffuncs
              /\ handle'.mode = "read" /\ Received' \o handle'.data = disk[<<Name>>]
    <3>1. NoClose' /\ conn' = "open" /\ UNCHANGED disk
      BY <2>4, <2>8, <2>10 DEF NoClose, SentOn
    <3>2. InFlight'
      BY <1>3, <2>2, <2>3, <2>10, <3>1 DEF InFlight
    <3> QED
      BY <2>10, <3>2 DEF Fetching, OneReply
  <2> QED
    BY <2>8, <2>9, <2>10 DEF SentOn
<1> QED
  BY <1>5, <1>6, <1>7, <1>8, <1>9 DEF RecvStep

\* The sent callback sends the next chunk.
LEMMA FetchingSent ==
  ASSUME ~Faults, NetInv, Fetching, TcpSent, UNCHANGED wire
  PROVE  Fetching' /\ OneReply
<1>1. UNCHANGED <<conn, parser, rx>> /\ sending # 0
  BY SentLink DEF NetInv
<1>2. InFlight /\ UNCHANGED <<state, command>>
  BY <1>1 DEF Fetching, Asking, AllSent, parser
<1>3. SendFileChunk(handle, 0) /\ handle \in Handles /\ conn = "open"
  <2>1. sending - 1 = 0
    BY <1>2 DEF InFlight
  <2> QED
    BY <1>2, <2>1 DEF TcpSent, InFlight, NetInv, IInv, TypeOK
<1>4. SentOn(handle)
  BY <1>2, <1>3, ChunkSent DEF InFlight, NetInv, IInv
<1>5. CASE UNCHANGED out /\ sending' = 0
  <2>1. AllSent'
    BY <1>1, <1>2, <1>4, <1>5 DEF AllSent, InFlight, SentOn
  <2> QED
    BY <1>5, <2>1 DEF Fetching, OneReply
<1>6. CASE /\ \E r \in Replies : out' = Append(out, r)
           /\ sending' = 1 /\ UNCHANGED deffuncs
           /\ handle'.mode = "read" /\ Received' \o handle'.data = disk[<<Name>>]
  <2>1. InFlight'
    BY <1>1, <1>2, <1>4, <1>6 DEF InFlight, SentOn, NoClose
  <2> QED
    BY <1>6, <2>1 DEF Fetching, OneReply
<1> QED
  BY <1>4, <1>5, <1>6 DEF SentOn

\* Everything else that the device does leaves the get alone; a connection that ends does
\* not end with a chunk on its way.
LEMMA FetchingRests ==
  ASSUME ~Errors, NetInv, Session, live, Fetching, handle.mode # "write", Plainly \/ ByUser, ~TcpSent,
         ~clobbered', conn # "none", UNCHANGED wire
  PROVE  /\ conn' # "none" => Fetching' /\ OneReply
         /\ conn' = "none" => ~InFlight
<1>1. ~fin
  BY DEF Session
<1>2. UNCHANGED out => UNCHANGED Received
  BY DEF Received
<1>3. CASE MainBegin \/ SlotSkip \/ SlotConnect \/ SlotClose \/ MainReturn \/ GotIp
           \/ (\E i \in Slots : EntryDue(i)) \/ (MainAppLoad /\ clobbered' = (clobbered \/ handle.mode # "closed"))
  <2>1. /\ UNCHANGED <<out, sending, rx, disk, command>> /\ (state' = state \/ state' = "IDLE")
        /\ conn' # "none"
    <3>1. MainAppLoad => UNCHANGED disk
      BY AppLoadReads, FileCloseType DEF ReadOn, NetInv, IInv
    <3> QED
      BY <1>3, <3>1 DEF MainBegin, SlotSkip, SlotConnect, SlotClose, MainReturn, GotIp, EntryDue, MainAppLoad,
                        parser, stack, input, store
  <2>2. NoClose => NoClose'
    BY <1>3, NoCloseKept DEF MainLoop, NetInv, IInv
  <2>3. CASE Asking
    <3>1. Asking'
      BY <2>1, <2>2, <2>3 DEF Asking
    <3> QED
      BY <2>1, <3>1 DEF Fetching, OneReply
  <2>4. CASE AllSent
    <3>1. AllSent'
      BY <1>2, <2>1, <2>4 DEF AllSent
    <3> QED
      BY <2>1, <3>1 DEF Fetching, OneReply
  <2>5. CASE InFlight
    <3>1. handle.mode # "closed" /\ NoClose /\ conn = "open"
      BY <2>5 DEF InFlight
    <3>2. ~(MainAppLoad /\ clobbered' = (clobbered \/ handle.mode # "closed"))
      BY <3>1
    <3>3. ~SlotClose
      BY <3>1 DEF SlotClose, Due, NoClose
    <3>4. UNCHANGED <<handle, conn>>
      BY <1>3, <3>1, <3>2, <3>3 DEF MainBegin, SlotSkip, SlotConnect, MainReturn, GotIp, EntryDue, stack, store
    <3>5. InFlight'
      BY <1>2, <2>1, <2>2, <2>5, <3>1, <3>4 DEF InFlight
    <3> QED
      BY <2>1, <3>5 DEF Fetching, OneReply
  <2> QED
    BY <2>1, <2>3, <2>4, <2>5 DEF Fetching
<1>4. CASE TcpFailed
  BY <1>4 DEF TcpFailed, InFlight
<1>5. CASE TcpDisconnected /\ (conn = "closing" \/ fin)
  BY <1>1, <1>5 DEF TcpDisconnected, InFlight
<1>6. CASE MainReset /\ clobbered' = (clobbered \/ handle.mode # "closed")
  BY <1>6 DEF MainReset, Restart, InFlight
<1> QED
  BY <1>3, <1>4, <1>5, <1>6 DEF Plainly, ByUser

\* The file of a get: what has come in is a part of it while the device sends, and all of
\* it or nothing when nettool has closed or the device has.
Fetched ==
  /\ phase = "reading" /\ live => Fetching /\ Brought(fetched, inbox, out)
  /\ phase = "reading" /\ ~live =>
       \E s \in Seq(Replies) : Gathered(s) \in {<<>>, disk[<<Name>>]} /\ Brought(fetched, inbox, s)
  /\ phase = "done" => fetched \in {<<>>, disk[<<Name>>]}

\* The inductive invariant behind FetchedWhole.
FetchInv ==
  /\ handle.mode # "write"
  /\ phase \in {"accept", "get"} => NoClose
  /\ ~clobbered => Fetched

\* Before nettool has asked, nothing makes the device close.
LEMMA EarlyNoClose ==
  ASSUME NetInv, Device, NoClose, phase \in {"accept", "get"}
  PROVE  NoClose'
<1>1. Present => Untouched
  <2>1. Present => queue # "dead" /\ (queue = "none" => live) /\ (live => phase = "get")
    BY DEF NetInv, LinkInv
  <2> QED
    BY <2>1 DEF NetInv, NetType, LinkInv, Fresh, FreshPhases
<1>2. ~RecvStep
  <2>1. RecvStep => Present /\ rx # <<>>
    BY RecvReceives DEF Receiving, NetInv, LinkInv
  <2> QED
    BY <1>1, <2>1 DEF Untouched
<1>3. ~TcpSent
  <2>1. TcpSent => Present /\ sending # 0
    BY SentLink DEF TcpSent, Present, NetInv
  <2> QED
    BY <1>1, <2>1 DEF Untouched
<1> QED
  BY <1>2, <1>3, NoCloseKept DEF Device, NetInv, IInv

\* nettool's steps keep it.
LEMMA FetchClient == ASSUME NetInv, Session, FetchInv, cmd = "get", Client PROVE FetchInv'
<1>1. UNCHANGED <<deffuncs, disk, handle, out, conn, state, command, rx, sending, cmd, clobbered>>
  BY ClientLeaves DEF vars, parser, stack, input, store
<1>2. (NoClose' <=> NoClose) /\ (Received' = Received)
  BY <1>1 DEF NoClose, Received
<1>3. UNCHANGED wire => (Fetching' <=> Fetching)
  BY <1>1, <1>2 DEF Fetching, Asking, InFlight, AllSent
<1>4. CASE Accept("accept", cmd)
  <2>1. phase = "accept" /\ phase' = "get"
    BY <1>4 DEF Accept
  <2> QED
    BY <1>1, <1>2, <2>1 DEF FetchInv, Fetched
<1>5. CASE Send("get", Header(<<"GET", "filename", Name>>), "reading")
  <2>1. /\ phase = "get" /\ phase' \in {"reading", "failed"} /\ UNCHANGED <<live, inbox, fetched>>
        /\ inbox = <<>> /\ fetched = <<>> /\ NoClose
    BY <1>5 DEF Send, Session, FetchInv
  <2>2. ASSUME live PROVE Asking /\ out = <<>>
    <3>1. Untouched
      BY <2>1, <2>2 DEF NetInv, LinkInv, Fresh, FreshPhases
    <3> QED
      BY <2>1, <3>1 DEF Untouched, Asking
  <2>3. Asking => Asking'
    BY <1>1, <1>2 DEF Asking
  <2>4. <<>> \in Seq(Replies)
    BY EmptySeq
  <2>5. Fetched'
    BY <1>1, <2>1, <2>2, <2>3, <2>4, GatherNone DEF Fetched, Fetching
  <2> QED
    BY <1>1, <2>1, <2>5 DEF FetchInv
<1>6. CASE ReadMore
  <2>1. /\ phase = "reading" /\ inbox # <<>> /\ UNCHANGED <<phase, live, wire>>
        /\ fetched' = fetched \o Head(inbox).data /\ inbox' = Tail(inbox) /\ inbox \in Seq(Replies)
    BY <1>6 DEF ReadMore, NetInv, NetType
  <2>2. \A s : Brought(fetched, inbox, s) => Brought(fetched', inbox', s)
    BY <2>1, BroughtRead
  <2>3. Fetched => Fetched'
    BY <1>1, <1>3, <2>1, <2>2 DEF Fetched
  <2> QED
    BY <1>1, <2>1, <2>3 DEF FetchInv
<1>7. CASE ReadEnd
  <2>1. phase = "reading" /\ EndOfStream /\ phase' = "done" /\ UNCHANGED fetched
    BY <1>7 DEF ReadEnd
  <2>2. ASSUME Fetched PROVE fetched \in {<<>>, disk[<<Name>>]}
    <3>1. CASE live
      <4>1. Fetching /\ Brought(fetched, <<>>, out) /\ conn = "closing"
        BY <2>1, <2>2, <3>1 DEF EndOfStream, Fetched
      <4>2. fetched = Gathered(out) /\ Received = Gathered(out)
        BY <4>1, BroughtAll DEF Gathered, Received, DataOf
      <4>3. Asking => Received = <<>>
        BY FlattenEmpty DEF Asking, Received
      <4> QED
        BY <4>1, <4>2, <4>3 DEF Fetching, InFlight, AllSent
    <3>2. CASE ~live
      <4>1. \E s : Gathered(s) \in {<<>>, disk[<<Name>>]} /\ Brought(fetched, <<>>, s)
        BY <2>1, <2>2, <3>2 DEF EndOfStream, Fetched
      <4> QED
        BY <4>1, BroughtAll
    <3> QED
      BY <3>1, <3>2
  <2>3. Fetched => Fetched'
    BY <1>1, <2>1, <2>2 DEF Fetched
  <2> QED
    BY <1>1, <2>1, <2>3 DEF FetchInv
<1>8. phase \in {"accept", "get", "reading", "done", "failed"}
  BY DEF NetInv, NetType, PhaseFits, FreshPhases
<1> QED
  BY <1>4, <1>5, <1>6, <1>7, <1>8 DEF Client, Send, ReadOk, ReadSum, Slept, Accept

\* The steps of the device in which the connection stays.
LEMMA FetchGoesOn ==
  ASSUME ~Errors, ~Faults, NetInv, Session, Lines, FetchInv, cmd = "get", phase = "reading", live,
         Plainly \/ ByUser \/ ByPeer, conn # "none", conn' # "none", Follow, UNCHANGED client, ~clobbered',
         Fetching, Brought(fetched, inbox, out)
  PROVE  live' /\ Fetching' /\ Brought(fetched', inbox', out')
<1>1. Replied /\ UNCHANGED <<fetched, phase, cmd>>
  BY DEF Follow, client
<1>2. inbox' = inbox \o NewReplies /\ UNCHANGED <<live, wire>>
  BY <1>1 DEF Replied, NewReplies
<1>3. Fetching' /\ OneReply
  <2>1. CASE RecvStep
    BY <2>1, FetchingRecv
  <2>2. CASE TcpSent
    BY <1>2, <2>2, FetchingSent
  <2>3. CASE ~RecvStep /\ ~TcpSent
    BY <1>2, <2>3, FetchingRests DEF ByPeer, FetchInv
  <2> QED
    BY <2>1, <2>2, <2>3
<1>4. TypeOK /\ TypeOK'
  <2>1. Device
    BY DEF Plainly, ByUser, ByPeer, Device, MainLoop
  <2> QED
    BY <2>1, DeviceIInv DEF NetInv, IInv
<1>5. out' = out \o NewReplies /\ NewReplies \in Seq(Replies)
  BY <1>3, <1>4, OneMore DEF OneReply
<1> QED
  BY <1>1, <1>2, <1>3, <1>5, BroughtMore DEF NetInv, NetType

\* The steps of the device in which the connection ends.
LEMMA FetchBreaks ==
  ASSUME ~Errors, ~Faults, NetInv, Session, Lines, FetchInv, cmd = "get", live,
         Plainly \/ ByUser \/ ByPeer, conn # "none", conn' = "none", Follow, UNCHANGED client, ~clobbered',
         Fetching
  PROVE  ~live' /\ UNCHANGED inbox /\ Gathered(out) \in {<<>>, disk[<<Name>>]}
<1>1. Down
  BY DEF Follow
<1>2. ~TcpSent
  BY SentLink DEF NetInv
<1>3. ~RecvStep
  <2> SUFFICES ASSUME RecvStep PROVE FALSE
    OBVIOUS
  <2>1. Restart /\ command \in {"none", "GET"} /\ AskStream("GET")
    BY RecvLink, OnlyGet DEF NetInv
  <2>2. state' = "IDLE" /\ command' = "none" /\ conn' # conn
    BY <2>1 DEF Restart
  <2>3. ~RecvHashReboot /\ ~RecvHashPut /\ ~RecvHashGet /\ ~RecvHashList /\ ~RecvHashVerify
    BY <2>1, <2>2 DEF RecvHashReboot, RecvHashPut, RecvHashGet, RecvHashList, RecvHashVerify, Hash, HeaderDone
  <2>4. ~RecvPutData /\ ~RecvPutUnaligned /\ ~RecvIgnored /\ ~RecvIdle
    BY <2>1, <2>2 DEF RecvPutData, RecvPutUnaligned, RecvIgnored, RecvIdle, stack
  <2> QED
    BY <2>2, <2>3, <2>4 DEF RecvStep, RecvPartial, RecvCommand, RecvUnknownCommand, RecvField,
       RecvUnknownField, RecvValue, stack
<1>4. ~InFlight
  <2>1. CASE UNCHANGED wire
    BY <1>2, <1>3, <2>1, FetchingRests DEF ByPeer, FetchInv
  <2>2. CASE wire' # wire
    BY <1>1, <2>2 DEF Down, InFlight
  <2> QED
    BY <2>1, <2>2
<1>5. Received = Gathered(out)
  BY DEF Gathered, Received, DataOf
<1>6. Asking => Received = <<>>
  BY FlattenEmpty DEF Asking, Received
<1> QED
  BY <1>1, <1>4, <1>5, <1>6 DEF Down, Fetching, AllSent

\* The device's steps keep the invariant.
LEMMA FetchFollow ==
  ASSUME ~Errors, ~Faults, NetInv, Session, Lines, FetchInv, cmd = "get",
         Plainly \/ ByUser \/ ByPeer, Follow, UNCHANGED client
  PROVE  FetchInv'
<1>1. Device
  BY DEF Plainly, ByUser, ByPeer, Device, MainLoop
<1>6. clobbered => clobbered'
  BY DEF Plainly, ByUser, ByPeer
<1>2. UNCHANGED disk /\ handle'.mode # "write"
  BY <1>1, OnlyGet, OnlyPutWrites DEF FetchInv, NetInv, IInv
<1>3. UNCHANGED <<phase, fetched>>
  BY DEF client
<1>4. phase' \in {"accept", "get"} => NoClose'
  BY <1>1, <1>3, EarlyNoClose DEF FetchInv
<1>5. ASSUME ~clobbered' PROVE Fetched'
  <2>1. Fetched
    BY <1>5, <1>6 DEF FetchInv
  <2>2. CASE phase # "reading"
    BY <1>2, <1>3, <2>1, <2>2 DEF Fetched
  <2>3. CASE phase = "reading" /\ live
    <3>1. conn # "none" /\ Fetching /\ Brought(fetched, inbox, out) /\ out \in Seq(Replies)
      BY <2>1, <2>3 DEF Fetched, NetInv, LinkInv, Present, IInv, TypeOK
    <3>2. CASE conn' # "none"
      <4>1. live' /\ Fetching' /\ Brought(fetched', inbox', out')
        BY <1>5, <2>3, <3>1, <3>2, FetchGoesOn
      <4> QED
        BY <1>3, <2>3, <4>1 DEF Fetched
    <3>3. CASE conn' = "none"
      <4>1. ~live' /\ UNCHANGED inbox /\ Gathered(out) \in {<<>>, disk[<<Name>>]}
        BY <1>5, <2>3, <3>1, <3>3, FetchBreaks
      <4> QED
        BY <1>2, <1>3, <2>3, <3>1, <4>1 DEF Fetched
    <3> QED
      BY <3>2, <3>3
  <2>4. CASE phase = "reading" /\ ~live
    <3>1. ~live' /\ UNCHANGED inbox
      BY <2>4 DEF Follow, Down, Replied
    <3> QED
      BY <1>2, <1>3, <2>1, <2>4, <3>1 DEF Fetched
  <2> QED
    BY <2>2, <2>3, <2>4
<1> QED
  BY <1>2, <1>4, <1>5 DEF FetchInv

\* Every step keeps it.
LEMMA FetchStep ==
  ASSUME ~Errors, ~Faults, NetInv, Session, Lines, FetchInv, cmd = "get", [NetNext]_netvars
  PROVE  FetchInv'
<1>1. CASE UNCHANGED netvars
  <2>1. UNCHANGED <<deffuncs, disk, handle, out, conn, state, command, rx, sending, phase, live, inbox,
                    wire, fetched, clobbered>>
    BY <1>1 DEF netvars, vars, client, link, parser, stack, input, store
  <2> QED
    BY <2>1 DEF FetchInv, Fetched, NoClose, Fetching, Asking, InFlight, AllSent, Received
<1>2. CASE Client
  BY <1>2, FetchClient
<1>3. CASE Connected
  <2>1. /\ UNCHANGED <<disk, handle, phase, live, inbox, fetched, clobbered>>
        /\ TcpConnected /\ conn = "connecting"
    BY <1>3 DEF Connected, TcpConnected, client, store
  <2>2. ~live
    BY <2>1 DEF NetInv, LinkInv, Present
  <2>3. NoClose => NoClose'
    BY <2>1, NoCloseKept DEF NetInv, IInv
  <2> QED
    BY <2>1, <2>2, <2>3 DEF FetchInv, Fetched
<1>4. ASSUME NEW n \in 1 .. NetbufSize, Deliver(n) PROVE FetchInv'
  <2>1. /\ UNCHANGED <<deffuncs, disk, handle, out, conn, state, command, sending, phase, live, inbox,
                      fetched, clobbered>>
    BY <1>4 DEF Deliver, TcpRecv, client, parser, stack, store
  <2>2. wire # <<>>
    BY <1>4, Delivered DEF NetInv, NetType
  <2>3. Fetching => Fetching'
    BY <2>1, <2>2 DEF Fetching, Asking, InFlight, AllSent, NoClose
  <2>4. NoClose' <=> NoClose
    BY <2>1 DEF NoClose
  <2> QED
    BY <2>1, <2>3, <2>4 DEF FetchInv, Fetched
<1>5. ASSUME DeviceStep, ~Connected PROVE FetchInv'
  <2>1. Plainly \/ ByUser \/ ByPeer
    BY <1>5, DeviceKinds
  <2>2. Follow /\ UNCHANGED client
    BY <1>5, DeviceLeaves
  <2> QED
    BY <2>1, <2>2, FetchFollow
<1> QED
  BY <1>1, <1>2, <1>3, <1>4, <1>5 DEF NetNext

\* readfile, which takes the end of the connection for the end of the file, has written
\* the whole file or nothing, for every file, chunk size and order of steps, when neither
\* connections nor the card fail and no app or reset takes the file object: nothing in the
\* device ends the connection of a get before its last chunk is confirmed.
THEOREM FetchIsWhole == NetSpec => []FetchedWhole
<1> DEFINE Whole == NetInv /\ Session /\ (cmd = "get" /\ ~Errors /\ ~Faults => Lines /\ FetchInv)
<1>1. NetInit => Whole
  <2> SUFFICES ASSUME NetInit PROVE Whole
    OBVIOUS
  <2>1. NetInv /\ Lines
    BY NetInitInv, LinesInit
  <2>2. Session
    BY DEF NetInit, Session
  <2>3. FetchInv
    BY DEF NetInit, Init, FetchInv, Fetched, NoClose, EmptyTable, Closed
  <2> QED
    BY <2>1, <2>2, <2>3
<1>2. Whole /\ [NetNext]_netvars => Whole'
  <2> SUFFICES ASSUME Whole, [NetNext]_netvars PROVE Whole'
    OBVIOUS
  <2>1. NetInv' /\ Session'
    BY NetInvStep, SessionStep
  <2>2. cmd' = cmd
    BY ClientLeaves, DeviceLeaves DEF NetNext, netvars, client, Connected, Deliver
  <2>3. ASSUME cmd = "get", ~Errors, ~Faults PROVE Lines' /\ FetchInv'
    BY <2>3, LinesStep, FetchStep
  <2> QED
    BY <2>1, <2>2, <2>3
<1>3. Whole => FetchedWhole
  BY DEF FetchInv, Fetched, FetchedWhole
<1> QED
  BY <1>1, <1>2, <1>3, PTL DEF NetSpec
=============================================================================
