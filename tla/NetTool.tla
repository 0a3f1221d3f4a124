------------------------------ MODULE NetTool -------------------------------
(***************************************************************************)
(* tools/nettool/nettool.c against the device of Control.  `put' sends a   *)
(* file over the connection the device makes, waits for the OK, closes,    *)
(* and compares the checksum the device computes over a second connection; *)
(* `get' and `list' read until the device closes; `reboot' does not wait.  *)
(* The network between them keeps the order of the bytes and cuts and      *)
(* joins them at will; what the device sends at once arrives at once.      *)
(***************************************************************************)
EXTENDS Control

CONSTANTS
  Cmds,  \* the commands nettool may be called with
  File,  \* the local file of a put
  Name,  \* its name on the device
  Size,  \* the item that stands for the decimal text of its size
  Mode,  \* that of the mode of a reboot
  Unit   \* every segment but the last is a multiple of this size

ASSUME NetToolAssumption ==
  /\ Cmds \subseteq {"put", "get", "list", "reboot"}
  /\ Commands \cup Fields \cup {"#", Name, Size, Mode} \subseteq Items \ Controls
  /\ "nl" \in Controls
  /\ File \in Strings /\ <<Name>> \in Names /\ Numeral[Size] = Len(File)
  /\ Unit \in Nat \ {0}

VARIABLES
  cmd,       \* argv[1]
  phase,     \* where main is
  queue,     \* the connection that waits for accept: "none", "live" or "dead"
  live,      \* sockfd is the device's present connection
  inbox,     \* replies that came in on sockfd and are not read
  wire,      \* bytes sent to the device on its present connection, not yet delivered
  fin,       \* nettool has closed that connection
  acked,     \* resp holds the OK of the device
  chk2,      \* what verifyfile returned
  fetched,   \* what readfile has written to the local file
  clobbered  \* history: an app or a reset took the file object from the transfer, or
             \* data at an odd address was dropped

client  == <<cmd, phase, acked, chk2, fetched>>
link    == <<queue, live, inbox, wire, fin>>
netvars == <<vars, client, link, clobbered>>

\* As many items as it takes to make len a multiple of WordSize.
Fill(len, item) ==
  [i \in 1 .. CHOOSE n \in 0 .. WordSize - 1 : (len + n) % WordSize = 0 |-> item]

\* buildheader: a line for each word, filled up so that "#" and its line feed end at
\* a multiple of WordSize.
Line(word) == <<word, "nl">>

Header(words) ==
  LET lines == FlattenSeq([i \in 1 .. Len(words) |-> Line(words[i])])
  IN  lines \o Fill(Len(lines) + 2, "nl") \o Line("#")

\* What sendfile sends of the file: its last word is filled with zeros.
Padded == File \o Fill(Len(File), Zero)

NetInit ==
  /\ Init
  /\ cmd \in Cmds /\ phase = "accept" /\ fetched = <<>>
  /\ queue = "none" /\ live = FALSE /\ inbox = <<>>
  /\ wire = <<>> /\ fin = FALSE /\ acked = FALSE /\ chk2 = Checksum(<<>>)
  /\ clobbered = FALSE
-----------------------------------------------------------------------------
(* nettool *)

Accept(before, after) ==
  /\ phase = before /\ queue # "none"
  /\ phase' = after
  /\ live' = (queue = "live") /\ queue' = "none" /\ inbox' = <<>>
  /\ UNCHANGED <<vars, cmd, acked, chk2, fetched, wire, fin, clobbered>>

\* send; on a connection that is gone it may fail, and nettool exits.
Send(before, bytes, after) ==
  /\ phase = before
  /\ wire' = IF live /\ conn = "open" THEN wire \o bytes ELSE wire
  /\ phase' = after \/ (~live /\ phase' = "failed")
  /\ UNCHANGED <<vars, cmd, acked, chk2, fetched, queue, live, inbox, fin, clobbered>>

EndOfStream == inbox = <<>> /\ (~live \/ conn = "closing")

\* close(sockfd), with whatever has come in and was not read.
CloseSocket ==
  /\ fin' = (fin \/ (live /\ conn # "none"))
  /\ live' = FALSE /\ inbox' = <<>>

\* recv(sockfd, &resp, 3, 0), its result ignored.
ReadOk ==
  /\ phase = "ok"
  /\ \/ inbox # <<>> /\ acked' = (Head(inbox).kind = "OK")
     \/ EndOfStream /\ UNCHANGED acked
  /\ phase' = "accept2"
  /\ CloseSocket
  /\ UNCHANGED <<vars, cmd, chk2, fetched, queue, wire, clobbered>>

\* The rest of verifyfile: nothing received reads as 0.
ReadSum ==
  /\ phase = "sum"
  /\ \/ inbox # <<>> /\ chk2' = Head(inbox).sum
     \/ EndOfStream /\ chk2' = Checksum(<<>>)
  /\ phase' = "done"
  /\ CloseSocket
  /\ UNCHANGED <<vars, cmd, acked, fetched, queue, wire, clobbered>>

\* readfile and listdir: recv until the connection ends or fails; what has come by
\* then is the file.  (listdir keeps the listing, which the model leaves out.)
ReadMore ==
  /\ phase = "reading" /\ inbox # <<>>
  /\ fetched' = fetched \o Head(inbox).data
  /\ inbox' = Tail(inbox)
  /\ UNCHANGED <<vars, cmd, phase, acked, chk2, queue, live, wire, fin, clobbered>>

ReadEnd ==
  /\ phase = "reading" /\ EndOfStream
  /\ phase' = "done"
  /\ CloseSocket
  /\ UNCHANGED <<vars, cmd, acked, chk2, fetched, queue, wire, clobbered>>

\* sleep(2), and close.
Slept ==
  /\ phase = "sleep"
  /\ phase' = "done"
  /\ CloseSocket
  /\ UNCHANGED <<vars, cmd, acked, chk2, fetched, queue, wire, clobbered>>

Client ==
  \/ Accept("accept", cmd)
  \/ Send("get", Header(<<"GET", "filename", Name>>), "reading")
  \/ Send("list", Header(<<"LIST", "filename", Name>>), "reading")
  \/ ReadMore
  \/ ReadEnd
  \/ Send("reboot", Line("REBOOT") \o Line("mode") \o Line(Mode) \o Line("#") \o <<Zero>>, "sleep")
  \/ Slept
  \/ Send("put", Header(<<"PUT", "filename", Name, "filesize", Size>>), "data")
  \/ Send("data", Padded, "ok")
  \/ ReadOk
  \/ Accept("accept2", "verify")
  \/ Send("verify", Header(<<"VERIFY", "filename", Name>>), "sum")
  \/ ReadSum
-----------------------------------------------------------------------------
(* The device and the network *)

Down ==
  /\ wire' = <<>> /\ fin' = FALSE /\ live' = FALSE /\ inbox' = inbox
  /\ queue' = IF queue = "live" THEN "dead" ELSE queue

Replied ==
  /\ inbox' = IF live THEN inbox \o SubSeq(out', Len(out) + 1, Len(out')) ELSE inbox
  /\ UNCHANGED <<queue, live, wire, fin>>

Follow == IF conn # "none" /\ conn' = "none" THEN Down ELSE Replied

Clobbers == clobbered' = (clobbered \/ handle.mode # "closed")

\* The device connects while nettool listens; one connection waits at a time.
Connected ==
  /\ TcpConnected
  /\ queue = "none" /\ phase \notin {"done", "failed"}
  /\ queue' = "live" /\ wire' = <<>> /\ fin' = FALSE
  /\ UNCHANGED <<client, live, inbox, clobbered>>

Disconnected ==
  /\ TcpDisconnected
  /\ conn = "closing" \/ (fin /\ wire = <<>>)
  /\ Down
  /\ UNCHANGED <<client, clobbered>>

Deliver(n) ==
  /\ n = Len(wire) \/ (n < Len(wire) /\ n % Unit = 0)
  /\ TcpRecv(SubSeq(wire, 1, n))
  /\ wire' = SubSeq(wire, n + 1, Len(wire))
  /\ UNCHANGED <<client, queue, live, inbox, fin, clobbered>>

\* A step of the device that nettool takes no part in.
Alone(step) == step /\ Follow /\ UNCHANGED <<client, clobbered>>

Receive ==
  /\ RecvStep /\ Follow /\ UNCHANGED client
  /\ clobbered' = (clobbered \/ (state = "COMMAND" /\ command = "PUT" /\ ~Aligned))

Walk == SlotSkip \/ SlotConnect \/ SlotClose

DeviceStep ==
  \/ Alone(MainBegin) \/ Alone(Walk) \/ Alone(MainReturn)
  \/ \E i \in Slots : Alone(EntryDue(i))
  \/ Alone(GotIp) \/ Alone(TcpFailed) \/ Alone(TcpSent) \/ Receive
  \/ (MainAppLoad \/ MainReset) /\ Follow /\ Clobbers /\ UNCHANGED client
  \/ Connected
  \/ Disconnected

NetNext == Client \/ DeviceStep \/ \E n \in 1 .. NetbufSize : Deliver(n)

NetSpec == NetInit /\ [][NetNext]_netvars
-----------------------------------------------------------------------------
\* The file is on the card, or in the file object and written when it is closed.
Stored ==
  \/ disk[<<Name>>] = File
  \/ handle = [mode |-> "write", name |-> <<Name>>, data |-> File]

\* When nettool has the OK, the device has the whole file and nothing else, however
\* the stream was cut, what came before on the connection and whatever close was
\* left over from the one before, unless an app or a reset took the file object
\* between the deferred close and the disconnect callback, or a cut at an odd
\* address made the device drop data.  (The file does not begin with a control byte:
\* the device takes those for a part of the header.)
OkMeansStored == acked /\ ~clobbered => Stored

\* What nettool reports as verified is what the card holds, also when connections,
\* the card or sends fail, when the device is reset or an app runs in between: the
\* second connection reads the card, not the file object of the first.  But where reads
\* may fail, what is verified may be the beginning of a longer, older file that a failed
\* open has left.  (A checksum of 0 says nothing: it is also what a failed VERIFY returns.)
VerifiedMeansStored ==
  cmd = "put" /\ phase = "done" /\ chk2 = Checksum(File) /\ chk2 # Checksum(<<>>) =>
    \/ disk[<<Name>>] = File
    \/ Faults /\ disk[<<Name>>] # Missing /\ IsPrefix(File, disk[<<Name>>])

\* `get' says "Done" however the connection ended.  As long as neither connections nor
\* the card fail, it has then fetched the whole file, or nothing: a lease in the middle
\* of a transfer does not cut it short, and no chunk is lost or sent twice.
FetchedWhole ==
  cmd = "get" /\ phase = "done" /\ ~clobbered /\ ~Errors /\ ~Faults
    => fetched \in {<<>>, disk[<<Name>>]}

\* The callbacks and the walk return; the main loop has its turn between them for
\* ever, deferred functions become due, the stack and the network deliver what they
\* hold, and nettool goes on whenever it can.
Finish == Alone(Walk) \/ Alone(MainReturn) \/ Receive

StackStep ==
  \/ Alone(GotIp) \/ Alone(TcpSent) \/ Connected \/ Disconnected
  \/ \E n \in 1 .. NetbufSize : Deliver(n)

EntryStep(func) ==
  \E i \in Slots : deffuncs[i] # Free /\ deffuncs[i].func = func /\ Alone(EntryDue(i))

NetFairness ==
  /\ WF_netvars(Finish) /\ WF_netvars(Client)
  /\ SF_netvars(Alone(MainBegin)) /\ SF_netvars(StackStep)
  /\ SF_netvars(EntryStep("connect")) /\ SF_netvars(EntryStep("close"))

NetFairSpec == NetSpec /\ NetFairness

\* Every command comes to an end, a put with a verdict, however the stream is cut and
\* wherever a lease falls.  The file is not empty, and does not begin with a control byte.
ToolEnds == <>(phase \in {"done", "failed"})
=============================================================================
