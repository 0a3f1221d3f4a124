---------------------------- MODULE SerialFlash -----------------------------
(***************************************************************************)
(* esp-flasher and the loader in the ROM of the device over the serial     *)
(* line (esp-utils/esp-flasher.cpp, common/serialport*.cpp): flash_send    *)
(* with its waits, the syncs main() begins with, and the calls of          *)
(* flash_mem that follow.  A thread of its own reads the line and shares   *)
(* the buffer, its position and the count of bytes with main() without a   *)
(* lock: it loads them, and what it stores may undo what main() has reset  *)
(* meanwhile.  A cell stands for the bytes of an answer that are looked at *)
(* together; the value of one may be escaped, and then counts twice.  A    *)
(* flash_data stands for the four blocks of ESP_BLOCK_SIZE of one sector.  *)
(***************************************************************************)
EXTENDS FlashStart, Sequences, FiniteSets

CONSTANTS
  Data,       \* what a sector of an image may hold
  Calls,      \* the calls of flash_mem: sequence of [at, sectors], at in sectors
  NumSectors, \* of the flash
  Attempts,   \* MAX_SYNC_ATTEMPS
  Rounds,     \* AUTODETECT_MAX_SYNC_ATTEMPS
  MaxAnswers, \* the ROM answers a sync several times
  BufCells,   \* the size of recivedBuf: an answer fits
  Blank,      \* what an erased sector holds
  MaxFaults   \* bound on requests and answers that are lost or refused

ASSUME SerialAssumption ==
  /\ {NumSectors, Attempts, Rounds, MaxAnswers, BufCells} \subseteq Nat \ {0} /\ BufCells >= 5
  /\ MaxFaults \in Nat /\ Blank \notin Data
  /\ Calls \in Seq([at : Nat, sectors : Seq(Data)])
  /\ \A i \in DOMAIN Calls : Calls[i].at + Len(Calls[i].sectors) <= NumSectors

\* The sectors of the flash a call of flash_mem is for; the images do not overlap.
Area(i) == Calls[i].at .. Calls[i].at + Len(Calls[i].sectors) - 1

ASSUME AreasAssumption ==
  \A i, j \in DOMAIN Calls : i # j => Area(i) \cap Area(j) = {}

VARIABLES
  host,      \* where main() is: "force", "clear", "reset", "send", "head", "whole",
             \* "quiet", "done" or "failed"
  phase,     \* what it sends: "detect" and "resync" are syncs, then "flash"
  rounds, attempts, \* left in detection and in flash_sync
  call,      \* the call of flash_mem, and behind the last one the farewell
  seq,       \* the sectors of it that are written, plus one for its flash_start
  recivedBuf, recivedPos,
  counted,   \* mBytesRecivedSinceLastSend
  reader,    \* the reading thread: "read", "append" or "count"
  chunk,     \* the cells it has read
  loaded,    \* what it has loaded: the position, or the count
  toDevice, toHost, \* the line: requests and cells
  flash,     \* the sectors of the device
  writeAt,   \* where the ROM writes the next sector, or -1
  faults

progress   == <<call, seq>>
hostVars   == <<host, phase, rounds, attempts, progress>>
bufferVars == <<recivedBuf, recivedPos>>
readerVars == <<reader, chunk, loaded>>
deviceVars == <<flash, writeAt, faults>>
serialVars == <<hostVars, bufferVars, counted, readerVars, toDevice, toHost, deviceVars>>

Request(command, at, data) == [command |-> command, at |-> at, data |-> data]

Sync == Request("sync", 0, <<>>)

\* What main() sends in the end: flash_start(port, 0, 0, 0) and flash_done.
Farewell == <<Request("start", 0, <<>>), Request("done", 0, <<>>)>>

\* flash_mem: flash_start, and the data of each sector.
FlashRequest ==
  IF call \notin DOMAIN Calls THEN Farewell[seq + 1]
  ELSE IF seq = 0 THEN Request("start", Calls[call].at, Calls[call].sectors)
  ELSE Request("data", 0, <<Calls[call].sectors[seq]>>)

LastRequest == seq = IF call \in DOMAIN Calls THEN Len(Calls[call].sectors) ELSE 1

Current == IF phase = "flash" THEN FlashRequest ELSE Sync

\* The cells of an answer on the line; an escaped one is two bytes there.
Answer(status, value) == <<"frame", "head", value, status, "frame">>

\* n answers, one behind the other.
Answers(n, status, value) ==
  [i \in 1 .. 5 * n |-> Answer(status, value)[((i - 1) % 5) + 1]]

\* What the count goes up by.
Width(cells) == Len(cells) + Cardinality({i \in DOMAIN cells : cells[i] = "escaped"})

HeadCells  == 2 \* waitAnswer(5): up to the size
WholeCells == 5 \* waitAnswer(asize + 10)

SerialInit ==
  /\ host = "force" /\ phase = "detect"
  /\ rounds = Rounds /\ attempts = Attempts
  /\ call = 1 /\ seq = 0
  /\ recivedBuf = [i \in 1 .. BufCells |-> "zero"]
  /\ recivedPos = 0 /\ counted = 0
  /\ reader = "read" /\ chunk = <<>> /\ loaded = 0
  /\ toDevice = <<>> /\ toHost = <<>>
  /\ flash = [b \in 0 .. NumSectors - 1 |-> "old"]
  /\ writeAt = -1 /\ faults = 0
-----------------------------------------------------------------------------
(* The reading thread *)

\* read() returns one cell or all that has come; the position is loaded.
ReadLine ==
  /\ reader = "read" /\ toHost # <<>>
  /\ \E n \in {1, Len(toHost)} :
       chunk' = SubSeq(toHost, 1, n) /\ toHost' = SubSeq(toHost, n + 1, Len(toHost))
  /\ loaded' = recivedPos
  /\ reader' = "append"
  /\ UNCHANGED <<hostVars, bufferVars, counted, toDevice, deviceVars>>

Unescaped(cell) == IF cell = "escaped" THEN "plain" ELSE cell

\* SerialPortRecieved puts the cells into the buffer as far as it goes; the count is
\* loaded.
AppendChunk ==
  /\ reader = "append"
  /\ LET end == Min({loaded + Len(chunk), BufCells})
     IN  /\ recivedBuf' = [i \in 1 .. BufCells |->
                             IF i \in loaded + 1 .. end THEN Unescaped(chunk[i - loaded]) ELSE recivedBuf[i]]
         /\ recivedPos' = end
  /\ loaded' = counted
  /\ reader' = "count"
  /\ UNCHANGED <<hostVars, counted, chunk, toDevice, toHost, deviceVars>>

Count ==
  /\ reader = "count"
  /\ counted' = loaded + Width(chunk)
  /\ reader' = "read" /\ chunk' = <<>> /\ loaded' = 0
  /\ UNCHANGED <<hostVars, bufferVars, toDevice, toHost, deviceVars>>

ReaderNext == ReadLine \/ AppendChunk \/ Count
-----------------------------------------------------------------------------
(* The ROM *)

\* A request is answered; a sync several times.
Serve(r, status, value) ==
  \E n \in 1 .. (IF r.command = "sync" THEN MaxAnswers ELSE 1) :
    toHost' = toHost \o Answers(n, status, value)

\* What a flash_start makes the ROM erase.
Wipes(r) == Erased(r.at, Len(r.data))

\* A request is carried out: an erase, the next sector, or nothing that is kept.  What
\* was not erased before does not take the data.
Obey(r) ==
  CASE r.command = "start" ->
         /\ flash' = [s \in DOMAIN flash |-> IF s \in Wipes(r) THEN Blank ELSE flash[s]]
         /\ writeAt' = r.at
    [] r.command = "data" /\ writeAt \in DOMAIN flash ->
         /\ flash' = [flash EXCEPT ![writeAt] = IF @ = Blank THEN r.data[1] ELSE "mixed"]
         /\ writeAt' = writeAt + 1
    [] OTHER -> UNCHANGED <<flash, writeAt>>

Fault == faults < MaxFaults /\ faults' = faults + 1

\* A request is carried out and answered, or refused; it or its answer may be lost.
DeviceNext ==
  /\ toDevice # <<>>
  /\ toDevice' = Tail(toDevice)
  /\ LET r == toDevice[1] IN
     \/ \E value \in {"plain", "escaped"} : Obey(r) /\ Serve(r, "ok", value) /\ UNCHANGED faults
     \/ r.command # "sync" /\ Fault /\ Serve(r, "bad", "plain") /\ UNCHANGED <<flash, writeAt>>
     \/ Fault /\ Obey(r) /\ UNCHANGED toHost
     \/ Fault /\ UNCHANGED <<toHost, flash, writeAt>>
  /\ UNCHANGED <<hostVars, bufferVars, counted, readerVars>>
-----------------------------------------------------------------------------
(* main() and flash_send *)

\* force_flash_mode: the device is reset, and says something at another speed.
ForceFlashMode ==
  /\ host = "force"
  /\ host' = "clear"
  /\ toDevice' = <<>> /\ writeAt' = -1
  /\ toHost' \in {toHost, Append(toHost, "noise")}
  /\ UNCHANGED <<phase, rounds, attempts, progress, bufferVars, counted, readerVars, flash, faults>>

\* Variant: the buffer goes on being filled.
ClearedNever == recivedPos
Cleared == 0

\* clearReciveBuffer
Clear ==
  /\ host = "clear"
  /\ recivedPos' = Cleared
  /\ host' = "reset"
  /\ UNCHANGED <<phase, rounds, attempts, progress, recivedBuf, counted, readerVars, toDevice, toHost,
                 deviceVars>>

\* SerialPort::send
ResetCount ==
  /\ host = "reset"
  /\ counted' = 0
  /\ host' = "send"
  /\ UNCHANGED <<phase, rounds, attempts, progress, bufferVars, readerVars, toDevice, toHost, deviceVars>>

Send ==
  /\ host = "send"
  /\ toDevice' = Append(toDevice, Current)
  /\ host' = "head"
  /\ UNCHANGED <<phase, rounds, attempts, progress, bufferVars, counted, readerVars, toHost, deviceVars>>

\* The line and the thread have nothing left; a sync is answered at once or never.
Silent == toHost = <<>> /\ reader = "read"
AllAnswered == Silent /\ toDevice = <<>>

\* Variant: an attempt is not counted.
FewerNever(n) == n
Fewer(n) == n - 1

\* flash_sync has failed or succeeded, and with it what main() does next.
Synced(ok) ==
  /\ UNCHANGED progress
  /\ CASE ok /\ phase = "detect" ->
            phase' = "resync" /\ attempts' = Attempts /\ host' = "clear" /\ UNCHANGED rounds
       [] ~ok /\ attempts > 1 ->
            attempts' = Fewer(attempts) /\ host' = "clear" /\ UNCHANGED <<phase, rounds>>
       [] phase = "resync" /\ (ok \/ attempts = 1) ->
            phase' = "flash" /\ host' = "clear" /\ UNCHANGED <<attempts, rounds>>
       [] OTHER ->
            /\ rounds' = rounds - 1 /\ attempts' = Attempts
            /\ host' = IF rounds = 1 THEN "failed" ELSE "force"
            /\ UNCHANGED phase

\* The result of flash_start(port, 0, 0, 0) is not looked at.
Passed(ok) == ok \/ (call \notin DOMAIN Calls /\ seq = 0)

Advance ==
  \/ ~LastRequest /\ seq' = seq + 1 /\ host' = "clear" /\ UNCHANGED call
  \/ LastRequest /\ call \in DOMAIN Calls /\ call' = call + 1 /\ seq' = 0 /\ host' = "clear"
  \/ LastRequest /\ call \notin DOMAIN Calls /\ host' = "done" /\ UNCHANGED progress

Flashed(ok) ==
  /\ UNCHANGED <<phase, rounds, attempts>>
  /\ IF Passed(ok) THEN Advance ELSE host' = "failed" /\ UNCHANGED progress

\* flash_send returns.
Return(ok) ==
  /\ IF phase = "flash" THEN Flashed(ok) ELSE Synced(ok)
  /\ UNCHANGED <<bufferVars, counted, readerVars, toDevice, toHost, deviceVars>>

\* "No answer from device", "Answer not completed"
TimeOut ==
  /\ \/ host = "head" /\ counted < HeadCells
     \/ host = "whole" /\ (counted < WholeCells \/ recivedBuf[2] # "head")
  /\ phase # "flash" => AllAnswered
  /\ Return(FALSE)

\* "Wrong answer": only when nothing of the head is as expected.
WaitHead ==
  /\ host = "head" /\ counted >= HeadCells
  /\ IF recivedBuf[1] # "frame" /\ recivedBuf[2] # "head" THEN Return(FALSE)
     ELSE /\ host' = "whole"
          /\ UNCHANGED <<phase, rounds, attempts, progress, bufferVars, counted, readerVars, toDevice,
                         toHost, deviceVars>>

\* The size is read from the buffer: in another cell's place it is any.
WaitWhole ==
  /\ host = "whole"
  /\ counted >= WholeCells \/ recivedBuf[2] # "head"
  /\ host' = "quiet"
  /\ UNCHANGED <<phase, rounds, attempts, progress, bufferVars, counted, readerVars, toDevice, toHost,
                 deviceVars>>

\* waitTransmitionEnd
LineQuiet == IF phase = "flash" THEN Silent ELSE AllAnswered

\* "Wrong body length", "Operation failed"
Judge ==
  /\ host = "quiet" /\ LineQuiet
  /\ Return(recivedBuf[2] = "head" /\ recivedBuf[5] = "frame" /\ recivedBuf[4] = "ok")

HostNext == ForceFlashMode \/ Clear \/ ResetCount \/ Send \/ TimeOut \/ WaitHead \/ WaitWhole \/ Judge

SerialNext == HostNext \/ ReaderNext \/ DeviceNext

\* The threads of esp-flasher run, and the device takes what it is sent.
SerialFairness ==
  WF_serialVars(HostNext) /\ WF_serialVars(ReaderNext) /\ WF_serialVars(DeviceNext)

SerialSpec == SerialInit /\ [][SerialNext]_serialVars /\ SerialFairness
-----------------------------------------------------------------------------
\* The ROM erases the sector behind an odd number of sectors, also when an earlier
\* call has written it.
WipedBehind(i, s) ==
  \E j \in DOMAIN Calls :
    j > i /\ Len(Calls[j].sectors) % 2 = 1 /\ s = Calls[j].at + Len(Calls[j].sectors)

\* The k-th sector of the i-th call has what was sent, or is blank for that reason.
InItsPlace(i, k) ==
  \/ flash[Calls[i].at + k - 1] = Calls[i].sectors[k]
  \/ flash[Calls[i].at + k - 1] = Blank /\ WipedBehind(i, Calls[i].at + k - 1)

\* When esp-flasher says "Flashing done.", every sector of every image is in its place,
\* whatever was lost or refused and whatever answers were still on their way; but for
\* the first sector of an image right behind one of an odd number of sectors that was
\* sent later, which may be blank.
DoneMeansFlashed ==
  host = "done" =>
    \A i \in DOMAIN Calls : \A k \in DOMAIN Calls[i].sectors : InItsPlace(i, k)
=============================================================================
