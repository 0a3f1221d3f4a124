------------------------------ MODULE Control -------------------------------
(***************************************************************************)
(* The network control protocol of the oc image (oc/sources/control.c),    *)
(* with the main loop that runs its deferred functions and the callbacks   *)
(* of oc.c through which the TCP stack drives it.  The stack, the WiFi     *)
(* link and the SD card below FileOpen/FileRead/FileWrite/FileClose are    *)
(* external; the peer sends any of a set of segments.                      *)
(*                                                                         *)
(* Everything runs to completion on one stack: while a receive callback is *)
(* in its `while (size != 0)' loop, or main_loop in its walk of the table, *)
(* nothing else happens.  One iteration of either loop is one action.      *)
(*                                                                         *)
(* Text is abstract: an item is one byte, and each word of the protocol,   *)
(* each file name and each number is one item, so that of the length of a  *)
(* header only the remainder modulo WordSize is kept.  Time is abstract: a *)
(* deferred function that is not due becomes due at some later moment.     *)
(***************************************************************************)
EXTENDS DeferTable, SequencesExt

CONSTANTS
  Items,      \* the bytes (or words) of a TCP stream
  Controls,   \* those below 32: line feeds and data bytes that look like them
  Zero,       \* the byte 0
  Numeral,    \* the value of control_atoi for each item
  Names,      \* the strings that FileOpen accepts as the name of a file
  Missing,    \* what a name stands for when there is no such file
  Contents,   \* what the files of the card may hold at the start
  Segments,   \* the segments that the peer may send
  WordSize,   \* alignment of the data that FileWrite takes: 4
  NetbufSize, \* NETBUF_SIZE; the strings of the model are shorter
  ChunkSize,  \* GetMemSize(0), what send_file_chunk reads at a time
  MaxLeases,  \* bound on the GOT_IP events
  MaxSending, \* bound on the replies that the stack holds unacknowledged
  MaxOut,     \* bound on the replies of one connection: then the peer is silent
  UserActive, \* TRUE if the user starts apps and may press Y
  Errors,     \* TRUE if a connection may fail
  Faults      \* TRUE if a call to the SD card or to WifiSendTCP may fail

Commands   == {"GET", "PUT", "LIST", "VERIFY", "REBOOT"}
Fields     == {"password", "filename", "filesize", "mode"}
Strings    == Seq(Items)

ASSUME ControlAssumption ==
  /\ Zero \in Controls /\ Controls \subseteq Items
  /\ Numeral \in [Items -> Nat]
  /\ Names \subseteq Strings
  /\ Missing \notin Strings /\ Contents \subseteq Strings
  /\ Segments \subseteq Strings \ {<<>>}
  /\ {WordSize, ChunkSize} \subseteq Nat \ {0}
  /\ {NetbufSize, MaxLeases, MaxSending, MaxOut} \subseteq Nat
  /\ {UserActive, Errors, Faults} \subseteq BOOLEAN

VARIABLES
  state, field, command, filename, filesize, bytesin, \* as in control.c
  netbuf,   \* the insize bytes of the string being read
  deffuncs, \* the table of deferred functions
  pass,     \* where main_loop is: a slot of the walk, AfterWalk or Outside
  conn,     \* the connection, as the stack sees it
  sending,  \* replies handed to the stack whose sent callback is to come
  out,      \* the replies sent on this connection
  seg,      \* the segment of the receive callback that is running
  rx,       \* the part of it that ptr and size still span
  disk,     \* contents of the files on the SD card
  handle,   \* file_object: the one open file
  leases    \* number of GOT_IP events since the last reset

parser == <<state, field, command, filename, filesize, bytesin, netbuf>>
stack  == <<conn, sending, out>>
input  == <<seg, rx>>
store  == <<disk, handle>>
vars   == <<parser, deffuncs, pass, stack, input, store, leases>>

AfterWalk == MaxDeferred
Outside   == MaxDeferred + 1

Quiet     == rx = <<>> /\ pass = Outside
Receiving == rx # <<>>

Closed == [mode |-> "closed", name |-> <<>>, data |-> <<>>]
Entry  == [func : {"connect", "close"}, due : BOOLEAN, periodic : BOOLEAN]

ASSUME ControlFree == Free \notin Entry

Connect    == [func |-> "connect", due |-> TRUE, periodic |-> TRUE]
CloseSoon  == [func |-> "close", due |-> TRUE, periodic |-> FALSE]
CloseLater == [func |-> "close", due |-> FALSE, periodic |-> FALSE]

Post(entry) == deffuncs' = AddDefer(deffuncs, entry)


\* control_read_string: skips leading control bytes of an empty string, appends up
\* to the next control byte, and drops that byte and all those that follow it.
ControlsAt(s) == {i \in 1 .. Len(s) : s[i] \in Controls}
TextAt(s)     == {i \in 1 .. Len(s) : s[i] \notin Controls}

SkipControls(s) ==
  IF TextAt(s) = {} THEN <<>> ELSE SubSeq(s, Least(TextAt(s)), Len(s))

ReadString(buf, s) ==
  LET t == IF buf = <<>> THEN SkipControls(s) ELSE s
      n == IF ControlsAt(t) = {} THEN Len(t) + 1 ELSE Least(ControlsAt(t))
  IN  [done |-> n <= Len(t),
       text |-> buf \o SubSeq(t, 1, n - 1),
       rest |-> SkipControls(SubSeq(t, n, Len(t)))]

\* Variant: only whole words count.
ChecksumWhole(s) ==
  [c \in 0 .. WordSize - 1 |->
     {d \in Items \ {Zero} :
        Cardinality({i \in 1 .. WordSize * (Len(s) \div WordSize) :
                       s[i] = d /\ (i - 1) % WordSize = c}) % 2 = 1}]

\* XOR of the words of a file, the last one padded with zeros: for each byte of a
\* word, the set of the values that occur there an odd number of times.
Checksum(s) ==
  [c \in 0 .. WordSize - 1 |->
     {d \in Items \ {Zero} : Cardinality({i \in 1 .. Len(s) : s[i] = d /\ (i - 1) % WordSize = c}) % 2 = 1}]

\* A reply: OK, a chunk of a file, the listing (left abstract) or a checksum.
Chunk(data) == [kind |-> "data", data |-> data, sum |-> Checksum(<<>>)]
Sum(read)   == [kind |-> "sum", data |-> <<>>, sum |-> Checksum(read)]
Plain(kind) == [kind |-> kind, data |-> <<>>, sum |-> Checksum(<<>>)]

Init ==
  /\ state = "IDLE" /\ field = "none" /\ command = "none"
  /\ filename = <<>> /\ filesize = 0 /\ bytesin = 0 /\ netbuf = <<>>
  /\ deffuncs = EmptyTable /\ pass = Outside
  /\ conn = "none" /\ sending = 0 /\ out = <<>>
  /\ seg = <<>> /\ rx = <<>>
  /\ disk \in [Names -> Contents \cup {Missing}] /\ handle = Closed
  /\ leases = 0

\* Reset: RAM is lost, the card stays as it is, the peer's connection is gone.
Restart ==
  /\ state' = "IDLE" /\ field' = "none" /\ command' = "none"
  /\ filename' = <<>> /\ filesize' = 0 /\ bytesin' = 0 /\ netbuf' = <<>>
  /\ deffuncs' = EmptyTable /\ pass' = Outside
  /\ conn' = "none" /\ sending' = 0 /\ out' = <<>>
  /\ seg' = <<>> /\ rx' = <<>>
  /\ handle' = Closed /\ leases' = 0
  /\ UNCHANGED disk
-----------------------------------------------------------------------------
(* The calls that control.c makes to the firmware. *)

\* WifiSendTCP while n replies are unacknowledged.
SendOk(n, reply) ==
  /\ conn = "open" /\ n < MaxSending
  /\ sending' = n + 1 /\ out' = Append(out, reply)
  /\ UNCHANGED conn

SendFails(n) ==
  /\ conn # "open" \/ n > 0 \/ Faults
  /\ sending' = n
  /\ UNCHANGED <<conn, out>>

\* The handle after FileOpen(name, FILE_MODE_READ).
ReadHandles(name) ==
  (IF name \in Names /\ disk[name] # Missing
     THEN {[mode |-> "read", name |-> name, data |-> disk[name]]} ELSE {})
  \cup (IF name \notin Names \/ disk[name] = Missing \/ Faults THEN {Closed} ELSE {})

\* FileOpen(name, FILE_MODE_CREATE_ALWAYS | FILE_MODE_WRITE), its result ignored:
\* what the handle held unsaved is lost.  It may fail before or after the old file is cut.
OpenForWriting(name) ==
  \/ /\ name \in Names
     /\ disk' = [disk EXCEPT ![name] = <<>>]
     /\ \/ handle' = [mode |-> "write", name |-> name, data |-> <<>>]
        \/ Faults /\ handle' = Closed
  \/ /\ name \notin Names \/ Faults
     /\ handle' = Closed
     /\ UNCHANGED disk

\* The card when the directory entry tells what handle h has written.
Saved(h) == IF h.mode = "write" THEN [disk EXCEPT ![h.name] = h.data] ELSE disk

\* Variant: the file is saved but not closed.
FileSync(h) == disk' = Saved(h) /\ handle' = h

\* FileClose of handle h: only now the directory entry tells the new size.  When it
\* fails, before or after that, the file stays open.
FileClose(h) ==
  \/ disk' = Saved(h) /\ handle' = Closed
  \/ Faults /\ disk' \in {disk, Saved(h)} /\ handle' = h

\* What comes through when bytes are read or written: all, or as many as it takes to fail.
Transferred(data) == {data} \cup (IF Faults THEN Prefixes(data) ELSE {})

\* FileWrite(data): refused without an open file; a full card takes a part.
FileWrite(data) ==
  /\ \E taken \in Transferred(data) :
       handle' = IF handle.mode = "write" THEN [handle EXCEPT !.data = @ \o taken] ELSE handle
  /\ UNCHANGED disk

\* Variant: a read that brings less than it could is taken for the end.
ChunksFull(h, n) ==
  {IF h.mode # "read" \/ Len(h.data) < n THEN <<>> ELSE SubSeq(h.data, 1, n)}
  \cup (IF Faults THEN {<<>>} ELSE {})

\* What FileRead of up to n bytes may return; a failed read looks like the end.
Chunks(h, n) ==
  Transferred(IF h.mode # "read" THEN <<>>
              ELSE IF Len(h.data) <= n THEN h.data ELSE SubSeq(h.data, 1, n))

\* Variant: one byte more is passed over than was read.
AdvanceTooFar(h, k) == [h EXCEPT !.data = SubSeq(@, k + 2, Len(@))]

Advance(h, k) == [h EXCEPT !.data = SubSeq(@, k + 1, Len(@))]

SendFileChunk(h, n) ==
  \E chunk \in Chunks(h, ChunkSize) :
    IF chunk = <<>>
    THEN /\ FileClose(h) /\ Post(CloseSoon)
         /\ sending' = n /\ UNCHANGED <<conn, out>>
    ELSE /\ handle' = Advance(h, Len(chunk))
         /\ UNCHANGED disk
         /\ \/ SendOk(n, Chunk(chunk)) /\ UNCHANGED deffuncs
            \/ SendFails(n) /\ Post(CloseSoon)
-----------------------------------------------------------------------------
(* main_loop *)

MainBegin ==
  /\ Quiet
  /\ pass' = 0
  /\ UNCHANGED <<parser, deffuncs, stack, input, store, leases>>

\* A deferred function becomes due, at a tick that no walk has sampled yet.
EntryDue(i) ==
  /\ Quiet
  /\ deffuncs[i] # Free /\ ~deffuncs[i].due
  /\ deffuncs' = [deffuncs EXCEPT ![i].due = TRUE]
  /\ UNCHANGED <<parser, pass, stack, input, store, leases>>

\* Variants: the walk leaves out the first or the last slot.
DueNotFirst(i) == i > 0 /\ deffuncs[i] # Free /\ deffuncs[i].due
DueNotLast(i)  == i < MaxDeferred - 1 /\ deffuncs[i] # Free /\ deffuncs[i].due

Due(i) == deffuncs[i] # Free /\ deffuncs[i].due

SlotSkip ==
  /\ pass \in Slots
  /\ ~Due(pass)
  /\ pass' = pass + 1
  /\ UNCHANGED <<parser, deffuncs, stack, input, store, leases>>

\* control_deferred_connect; WifiConnectTCP does nothing while there is a connection.
SlotConnect ==
  /\ pass \in Slots
  /\ Due(pass) /\ deffuncs[pass].func = "connect"
  /\ conn' = IF state = "IDLE" /\ conn = "none" THEN "connecting" ELSE conn
  /\ deffuncs' = [deffuncs EXCEPT ![pass].due = FALSE]
  /\ pass' = pass + 1
  /\ UNCHANGED <<parser, sending, out, input, store, leases>>

\* control_deferred_close; the stack reports the end of the connection later.
SlotClose ==
  /\ pass \in Slots
  /\ Due(pass) /\ deffuncs[pass].func = "close"
  /\ conn' = IF conn = "open" THEN "closing" ELSE conn
  /\ state' = "IDLE"
  /\ deffuncs' = [deffuncs EXCEPT ![pass] = Free]
  /\ pass' = pass + 1
  /\ UNCHANGED <<field, command, filename, filesize, bytesin, netbuf, sending, out,
                 input, store, leases>>

\* The rest of main_loop: nothing while a transfer runs, or for a frame of an app.
MainReturn ==
  /\ pass = AfterWalk
  /\ pass' = Outside
  /\ UNCHANGED <<parser, deffuncs, stack, input, store, leases>>

\* An app loads a file, or a part of it, through the one file object of the firmware.
MainAppLoad ==
  /\ UserActive
  /\ pass = AfterWalk /\ state = "IDLE"
  /\ pass' = Outside
  /\ \E name \in Names : \E h \in ReadHandles(name) : \E k \in 0 .. Len(h.data) :
       FileClose(Advance(h, k))
  /\ UNCHANGED <<parser, deffuncs, stack, input, leases>>

\* Key Y.
MainReset ==
  /\ UserActive
  /\ pass = AfterWalk /\ state = "IDLE"
  /\ Restart

MainLoop ==
  \/ MainBegin \/ SlotSkip \/ SlotConnect \/ SlotClose
  \/ MainReturn \/ MainAppLoad \/ MainReset
-----------------------------------------------------------------------------
(* Callbacks of the stack *)

\* wifi_status_callback(GOT_IP): control_init.
GotIp ==
  /\ Quiet
  /\ leases < MaxLeases
  /\ leases' = leases + 1
  /\ state' = "IDLE"
  /\ Post(Connect)
  /\ UNCHANGED <<field, command, filename, filesize, bytesin, netbuf, pass, stack, input, store>>

TcpConnected ==
  /\ Quiet
  /\ conn = "connecting"
  /\ conn' = "open" /\ sending' = 0 /\ out' = <<>>
  /\ state' = "INIT" /\ command' = "none"
  /\ netbuf' = <<>> /\ bytesin' = 0 /\ filesize' = 0
  /\ UNCHANGED <<field, filename, deffuncs, pass, input, store, leases>>

\* tcp_reconnect_callback does nothing: control.c does not hear of the error.
TcpFailed ==
  /\ Quiet
  /\ conn = "connecting" \/ (Errors /\ conn \in {"open", "closing"})
  /\ conn' = "none" /\ sending' = 0
  /\ UNCHANGED <<parser, out, deffuncs, pass, input, store, leases>>

TcpDisconnected ==
  /\ Quiet
  /\ conn \in {"open", "closing"}
  /\ conn' = "none" /\ sending' = 0
  /\ IF command \in {"PUT", "GET"} THEN FileClose(handle) ELSE UNCHANGED store
  /\ state' = "IDLE"
  /\ UNCHANGED <<field, command, filename, filesize, bytesin, netbuf, out, deffuncs, pass,
                 input, leases>>

\* control_sent_callback: the next chunk of a GET, the end of a LIST or VERIFY.
TcpSent ==
  /\ Quiet
  /\ conn \in {"open", "closing"} /\ sending > 0 /\ Len(out) <= MaxOut
  /\ \/ command = "GET" /\ SendFileChunk(handle, sending - 1)
     \/ /\ command \in {"LIST", "VERIFY"} /\ Post(CloseSoon)
        /\ sending' = sending - 1 /\ UNCHANGED <<conn, out, store>>
     \/ /\ command \notin {"GET", "LIST", "VERIFY"}
        /\ sending' = sending - 1 /\ UNCHANGED <<conn, out, store, deffuncs>>
  /\ UNCHANGED <<parser, pass, input, leases>>

\* The receive callback begins; the bound keeps every string shorter than netbuf.
TcpRecv(s) ==
  /\ Quiet
  /\ conn \in {"open", "closing"}
  /\ Len(netbuf) + Len(s) < NetbufSize /\ Len(out) < MaxOut
  /\ seg' = s /\ rx' = s
  /\ UNCHANGED <<parser, deffuncs, pass, stack, store, leases>>
-----------------------------------------------------------------------------
(* control_recv_callback, one iteration of its loop *)

Scan == ReadString(netbuf, rx)

\* The callback goes on with the rest of the segment, or returns.
Continue(rest) == rx' = rest /\ seg' = IF rest = <<>> THEN <<>> ELSE seg

\* Variant: the segment is dropped, and the connection stays.
GiveUpSilently == UNCHANGED deffuncs /\ Continue(<<>>)

GiveUp == Post(CloseSoon) /\ Continue(<<>>)

\* The segment ends inside a string: netbuf and insize keep what has come.
RecvPartial ==
  /\ Receiving
  /\ state \in {"INIT", "FIELD", "VALUE"}
  /\ ~Scan.done
  /\ netbuf' = Scan.text
  /\ Continue(Scan.rest)
  /\ UNCHANGED <<state, field, command, filename, filesize, bytesin, deffuncs, pass,
                 stack, store, leases>>

RecvCommand ==
  /\ Receiving /\ state = "INIT" /\ Scan.done
  /\ \E c \in Commands :
       /\ Scan.text = <<c>>
       /\ command' = c
       /\ state' = "FIELD"
       /\ netbuf' = <<>>
  /\ Continue(Scan.rest)
  /\ UNCHANGED <<field, filename, filesize, bytesin, deffuncs, pass, stack, store, leases>>

RecvUnknownCommand ==
  /\ Receiving /\ state = "INIT" /\ Scan.done
  /\ \A c \in Commands : Scan.text # <<c>>
  /\ netbuf' = Scan.text
  /\ GiveUp
  /\ UNCHANGED <<state, field, command, filename, filesize, bytesin, pass, stack, store, leases>>

RecvField ==
  /\ Receiving /\ state = "FIELD" /\ Scan.done
  /\ \E f \in Fields :
       /\ Scan.text = <<f>>
       /\ field' = f
       /\ state' = "VALUE"
       /\ netbuf' = <<>>
  /\ Continue(Scan.rest)
  /\ UNCHANGED <<command, filename, filesize, bytesin, deffuncs, pass, stack, store, leases>>

RecvUnknownField ==
  /\ Receiving /\ state = "FIELD" /\ Scan.done
  /\ \A f \in Fields : Scan.text # <<f>>
  /\ Scan.text # <<"#">>
  /\ netbuf' = Scan.text
  /\ GiveUp
  /\ UNCHANGED <<state, field, command, filename, filesize, bytesin, pass, stack, store, leases>>

RecvValue ==
  /\ Receiving /\ state = "VALUE" /\ Scan.done
  /\ filename' = IF field = "filename" THEN Scan.text ELSE filename
  /\ IF field \in {"filesize", "mode"}
     THEN filesize' = Numeral[Scan.text[1]] /\ bytesin' = 0
     ELSE UNCHANGED <<filesize, bytesin>>
  /\ state' = "FIELD"
  /\ netbuf' = <<>>
  /\ Continue(Scan.rest)
  /\ UNCHANGED <<field, command, deffuncs, pass, stack, store, leases>>

\* "#" ends the header: the rest of the segment is the data of a PUT, and is
\* dropped by every other command.
Hash(c) ==
  /\ Receiving /\ state = "FIELD" /\ Scan.done
  /\ Scan.text = <<"#">>
  /\ command = c

HeaderDone(rest) ==
  /\ state' = "COMMAND"
  /\ netbuf' = <<"#">>
  /\ Continue(rest)
  /\ UNCHANGED <<field, command, filename, filesize, bytesin, pass, leases>>

RecvHashPut ==
  /\ Hash("PUT")
  /\ OpenForWriting(filename)
  /\ HeaderDone(Scan.rest)
  /\ UNCHANGED <<deffuncs, stack>>

RecvHashGet ==
  /\ Hash("GET")
  /\ \E h \in ReadHandles(filename) : SendFileChunk(h, sending)
  /\ HeaderDone(<<>>)

RecvHashList ==
  /\ Hash("LIST")
  /\ \/ SendOk(sending, Plain("list")) /\ UNCHANGED deffuncs
     \/ SendFails(sending) /\ Post(CloseSoon)
  /\ HeaderDone(<<>>)
  /\ UNCHANGED store

\* get_file_checksum is 0 for a file that cannot be opened, and the checksum of what
\* came before the first failed read; the result of WifiSendTCP is ignored.
RecvHashVerify ==
  /\ Hash("VERIFY")
  /\ \E h \in ReadHandles(filename) :
       \E read \in Transferred(h.data) :
         /\ SendOk(sending, Sum(read)) \/ SendFails(sending)
         /\ FileClose(Advance(h, Len(read)))
  /\ HeaderDone(<<>>)
  /\ UNCHANGED deffuncs

RecvHashReboot == Hash("REBOOT") /\ Restart

\* Variant: everything is taken.
AcceptedAll(n) == n

\* How much of n bytes of data a PUT takes.
Accepted(n) == IF bytesin + n > filesize THEN filesize - bytesin ELSE n

\* Variant: one byte short.
CompleteEarly(n) == bytesin + n + 1 >= filesize

\* With n bytes more, a PUT has all that it announced.
Complete(n) == bytesin + n >= filesize

Aligned == (Len(seg) - Len(rx)) % WordSize = 0

RecvPutData ==
  /\ Receiving /\ state = "COMMAND" /\ command = "PUT" /\ Aligned
  /\ LET n == Accepted(Len(rx)) IN
       /\ IF n > 0 THEN FileWrite(SubSeq(rx, 1, n)) ELSE UNCHANGED store
       /\ bytesin' = bytesin + n
       /\ IF Complete(n)
          THEN /\ SendOk(sending, Plain("OK")) \/ SendFails(sending)
               /\ Post(CloseLater)
          ELSE UNCHANGED <<stack, deffuncs>>
  /\ Continue(<<>>)
  /\ UNCHANGED <<state, field, command, filename, filesize, netbuf, pass, leases>>

RecvPutUnaligned ==
  /\ Receiving /\ state = "COMMAND" /\ command = "PUT" /\ ~Aligned
  /\ GiveUp
  /\ UNCHANGED <<parser, pass, stack, store, leases>>

RecvIgnored ==
  /\ Receiving /\ state = "COMMAND" /\ command # "PUT"
  /\ Continue(<<>>)
  /\ UNCHANGED <<parser, deffuncs, pass, stack, store, leases>>

RecvIdle ==
  /\ Receiving /\ state = "IDLE"
  /\ GiveUp
  /\ UNCHANGED <<parser, pass, stack, store, leases>>

RecvStep ==
  \/ RecvPartial \/ RecvCommand \/ RecvUnknownCommand
  \/ RecvField \/ RecvUnknownField \/ RecvValue
  \/ RecvHashPut \/ RecvHashGet \/ RecvHashList \/ RecvHashVerify \/ RecvHashReboot
  \/ RecvPutData \/ RecvPutUnaligned \/ RecvIgnored \/ RecvIdle

Device ==
  \/ MainLoop
  \/ \E i \in Slots : EntryDue(i)
  \/ GotIp \/ TcpConnected \/ TcpFailed \/ TcpDisconnected \/ TcpSent
  \/ RecvStep

Next == Device \/ \E s \in Segments : TcpRecv(s)

Spec == Init /\ [][Next]_vars
-----------------------------------------------------------------------------
Replies == [kind : {"OK", "data", "list", "sum"},
            data : Strings, sum : [0 .. WordSize - 1 -> SUBSET Items]]
Handles == {Closed} \cup [mode : {"read", "write"}, name : Names, data : Strings]

TypeOK ==
  /\ state \in {"IDLE", "INIT", "FIELD", "VALUE", "COMMAND"}
  /\ field \in Fields \cup {"none"}
  /\ command \in Commands \cup {"none"}
  /\ filename \in Strings /\ netbuf \in Strings
  /\ filesize \in Nat /\ bytesin \in Nat
  /\ deffuncs \in [Slots -> Entry \cup {Free}]
  /\ pass \in 0 .. Outside
  /\ conn \in {"none", "connecting", "open", "closing"}
  /\ sending \in Nat /\ out \in Seq(Replies)
  /\ seg \in Strings /\ rx \in Strings
  /\ disk \in [Names -> Strings \cup {Missing}]
  /\ handle \in Handles
  /\ leases \in Nat

\* While a header is read, no data of an earlier transfer is counted.
HeaderUncounted == state \in {"INIT", "FIELD", "VALUE"} => bytesin = 0

\* The switch of "#" has a command to go by: its default is never taken.
CommandKnown == state \in {"FIELD", "VALUE", "COMMAND"} => command \in Commands

\* A PUT never takes more than it announced, whatever the peer sends after it, and
\* the open file is never longer than what was counted, so filesize - bytesin, by
\* which a segment is cut, does not wrap.
PutBounded ==
  /\ bytesin <= filesize
  /\ state = "COMMAND" /\ command = "PUT" /\ handle.mode = "write"
       => Len(handle.data) <= bytesin

\* The inductive invariant behind PutBounded.
IInv == TypeOK /\ HeaderUncounted /\ CommandKnown /\ PutBounded

\* What a GET has sent, in order.
Received == FlattenSeq([i \in 1 .. Len(out) |-> out[i].data])

\* A GET has at most one chunk in flight, and what it sent is the beginning of the
\* file, without a gap, also after a send or a read has failed, a lease has put
\* the protocol back to IDLE or an app has taken the file object.
GetInOrder ==
  state = "COMMAND" /\ command = "GET" /\ conn = "open" =>
    /\ sending <= 1
    /\ out # <<>> => filename \in Names /\ IsPrefix(Received, disk[filename])

\* Without connection errors and card faults, the file object is open only for a PUT or a
\* GET whose connection has not been reported closed: no transfer leaves it open behind it.
HandleOwned ==
  handle.mode # "closed" => command \in {"PUT", "GET"} /\ conn \in {"open", "closing"}

\* After the OK of a PUT, further segments of that connection change nothing in the
\* file it stored.
AckedFrozen ==
  [][\A i \in DOMAIN out :
       out[i].kind = "OK" /\ handle.mode = "write" /\ handle'.mode = "write"
         => handle'.data = handle.data]_vars

\* The OK of a PUT is sent when all it announced has been counted, and never without
\* a request to close, unless the table of deferred functions is full.
OkWhenComplete ==
  [][(\E i \in DOMAIN out' : i > Len(out) /\ out'[i].kind = "OK") =>
       /\ bytesin' = filesize
       /\ FreeSlots(deffuncs) # {} => \E i \in FreeSlots(deffuncs) : deffuncs'[i] = CloseLater]_vars

\* The periodic connect of a lease stays in the table until a reset.
ConnectStays ==
  [][\A i \in Slots :
       deffuncs[i] # Free /\ deffuncs[i].func = "connect" /\ leases' >= leases
         => deffuncs'[i] # Free /\ deffuncs'[i].func = "connect"]_vars
-----------------------------------------------------------------------------
(* The main loop is called for ever, and gets its turn between callbacks; the
   callbacks return; time passes. *)
Fairness ==
  /\ SF_vars(MainBegin)
  /\ WF_vars(SlotSkip \/ SlotConnect \/ SlotClose)
  /\ WF_vars(MainReturn \/ MainAppLoad \/ MainReset)
  /\ WF_vars(RecvStep)
  /\ \A i \in Slots : SF_vars(EntryDue(i))

FairSpec == Spec /\ Fairness

Waiting(func) == \E i \in Slots : deffuncs[i] # Free /\ deffuncs[i].func = func

\* A close that found a place in the table does put the protocol back to IDLE.
CloseHappens == Waiting("close") ~> state = "IDLE"

\* Once it has a lease, an idle device without a connection tries to connect, until
\* it is reset: its connect was not refused by a full table, and stays in it.
KeepsTrying ==
  (leases > 0 /\ state = "IDLE" /\ conn = "none") ~> (conn # "none" \/ leases = 0)
=============================================================================
