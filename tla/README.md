# A verification project for lightivy-2019

lightivy is the firmware of a handheld console built on an ESP8266: a
bootloader, the WiFi firmware, and `oc`, the operating core with its apps, plus
the tools that talk to it. This directory holds TLA+ models of the parts of it
where order, failure and limits matter, TLC configurations that check them, and
proofs checked by TLAPS.

## 1. The system

The processor runs one thread. The bootloader starts it, `firmware/` (which is
not in the repository) runs the SDK and calls `main_loop` over and over, and
between two of these calls the callbacks of WiFi and TCP. Callbacks run to
completion. The one true interrupt of the own code is that of the sound DMA. The
hard parts are therefore: callbacks between the steps of a protocol, deferred
functions that fire long after they were posted, resets and losses of power in
the middle of an update, the DMA against the app, and a peer on the network.

| part | state | operations | who it talks to |
|---|---|---|---|
| scheduler (`oc.c:43-88`) | the table `deffuncs` of eight entries | add, remove, the walk of `main_loop` | called by control.c, calls its functions |
| network protocol (`control.c`) | `state`, `field`, `command`, `filename`, `filesize`, `bytesin`, `netbuf`/`insize` | callbacks of connect, receive, sent, disconnect; two deferred functions | TCP stack, scheduler, the file object, `main_loop` |
| nettool (`tools/nettool`) | its two sockets, the checksum | put + verify, get, list, reboot | the protocol, as the TCP server |
| update command (`eboot_command.c`, `startup.c:426-435`) | words in RTC memory | write, read, clear | `reset()` writes, the bootloader reads |
| bootloader (`eboot.c`) | the flash, the open file | `main`, `flash_binary`, load | the card, the flash, the command |
| area erase (`flash.c`) | none beyond the flash | `SPIEraseAreaEx` | the bootloader |
| sound ring (`i2s_driver.c`) | `dmaidx`, `lastidx`, four buffers | `slc_isr`, `i2sGetNextBuffer`, init, stop | DMA, apps, `main_loop` |
| apps and menu (`oc.c`, `app1.c` .. `app3.c`) | `appid`, music pointer, scene | `main_loop1` .. `3`, `fill_audio`, `fill_silence`, `loadmap` | ring, file object, flash |
| configuration (`config.c`) | the text on the card, a sector of the flash | init (at each start), get; set, which nothing calls | card, flash; every setting oc reads |
| asset loading (`oc.c:116-190`) | none beyond the flash | `load_file` | apps call it for maps, objects and textures |
| services (`startup.c`) | one `file_object`, the mode of the SPI bus, the SD speed | files, flash, keys, ticks, reset | everything above |
| SD driver (`common/diskio`), FatFs | card state | read, write, retries | services |
| esp-flasher (`esp-utils`) | the two images; the receive buffer it shares with its reading thread | `flash_file`, `flash_mem`, `flash_send`, detection | ROM loader over the serial line |
| emulator (`emuivy.c`) | its own ring and sockets | the table of system calls | oc |

What makes each part correct, and what could go wrong where, is the list of
hazards in `PROJECT.json`, each with the properties that cover it.

## 2. Modules

    DeferTable ----> Defer ----> MCDefer          Timers  (what Defer promises)
        |              `-> DeferProofs            (that it keeps it)
        `--> Control --> MCControl, ControlProofs
                |
                `--> NetTool --> MCNetTool         (Control composed with its peer)
    SpiErase --> Boot --> MCBoot, BootProofs
        `--> MCSpiErase
    Audio --> MCAudio, AudioProofs                AudioQueue (what Audio promises)
    SdCard --> MCSdCard, SdCardProofs
    ConfigText --> Config --> MCOcData, OcDataProofs <-- LoadFile
    FlashStart --> IncrementalFlash --> MCIncrementalFlash, MCEspFlasher, FlasherProofs
        `--------> SerialFlash -------> MCEspFlasher, FlasherProofs

The arrows are EXTENDS; `BootProofs` also has the proofs about SpiErase, which those
of Boot rest on. `ControlProofs` and `OcDataProofs` extend `DataLemmas` as well: the
least of some naturals, induction over a set of naturals, and what `FlattenSeq` computes. Names of the code are kept: a variable has the name of
the C variable where there is one, an action is named for its function or for
the branch of it. `PROJECT.json` maps every definition to its lines.

### Scheduler: DeferTable, Defer, Timers

`DeferTable` has the table and `add_defer_func` (the first free slot, or nothing
when all are taken). `Defer` adds time: `clock` is the true time, `GetMsTicks`
what `system_get_time() / 1000` makes of it, which returns to 0 after
`TickPeriod` values; `start_tick` is not reduced, as in the code, where the sum
of a tick and a delay is far below 2^32. One action is one turn of the loop of
`call_defer_funcs` (`CallSkip`, `CallRun`), so that time passes between
them. Entries are added and removed between two walks: the callbacks that do so
do not interrupt a walk, and no function that oc defers adds or removes entries.
`posted`, `runs` and `fate` are history. `Timers` is the abstract bounded set
of timers in true time, which refuses a job only while it is full;
`ImplementsTimers` maps the table to it.

### Protocol: Control

One action per callback or deferred function; `control_recv_callback` is its
loop, one turn of which is `RecvStep`, with `rx` the part of the segment still
to be read. Nothing else runs between two turns of that loop. The
network is the environment: connections come up, fail, are closed, segments from
`Segments` arrive, and sends are reported sent or fail. The file system is one
`handle` (the code has one `file_object`) and `disk`. When `Faults`, every call may
fail or be cut short: an open for writing before or behind the cut of the old file, a
read or a write behind any part of its bytes (`Transferred`), a close before or behind
the save, and then the file object stays open, as FatFs leaves it. Left out is the
window of FatFs: a sector whose write failed stays in RAM and is lost with a reset.
`get_file_checksum` stops at the first read that fails, so a VERIFY may answer the
checksum of the beginning of a file (`RecvHashVerify`). `MainAppLoad` is an app that loads a file in the
middle of a transfer, `MainReset` the Y key. Time is abstract: a posted entry
becomes due at any time (`EntryDue`), which covers every delay. An element of a
stream is a word, a number, a name or a byte of data, each one `Item`; lengths
count modulo `WordSize` so that the alignment test of line 310 is real. The
guard of `TcpRecv` keeps every string shorter than `NetbufSize`: what happens to
a string as long as `netbuf` (line 176) is not modelled.

### nettool: NetTool

The commands of nettool, one `cmd` in a behaviour, composed with all of Control over
a stream that is cut into segments anywhere (multiples of `Unit`): `put` is
`sendfile`, the OK, the second connection and `verifyfile`; `get` and `list` read
until the connection ends; `reboot` sends and closes. `fetched` is the local file of
a `get`. The listen queue holds one connection. `clobbered` remembers that an
app or a reset took the file object, or that data at an odd address was dropped; files of the runs have prefixes with other
checksums than their own. The control bytes are those below 32: the words of a header
hold none, a line feed is one, and a file may hold them anywhere, but see below for
one that begins with them.

### Bootloader: SpiErase, Boot

`SpiErase` is `SPIEraseAreaEx`, one turn of a loop a step. `Boot` has the
writing, reading and clearing of the command word by word, `main`, and
`flash_binary` with its chunks. A checksum is the argument it was computed over:
collisions of the CRC are left out. Loss of power empties RTC memory and ends
whatever is going on; a write to the flash may be cut short, and what is written
over something not erased is `Mixed`. The layout is that of `system.h:294-298`
with fewer sectors: areas that start and end inside blocks. The lengths of the files
on the card are a variable that no step changes: each card of `Lengths` is a set of
initial states, and a file may be longer than the area kept for it, which the code does
not test (`eboot.c:120`). What such a file has behind the end of the chip is lost.

### Sound: Audio, AudioQueue

The ring of `i2s_driver.c`, the interrupt, and app 1 as its user: music in each
frame, silence before a map is loaded, nothing while it is. `main_loop` stops
the sound during a transfer (`Transfer`) and never starts it again. While the
map is written to the flash the interrupt may be masked and several of them
become one (`MaskedLoads`). `AudioQueue` is the queue of blocks that the
ring promises to be until it has counted an underrun or an interrupt was held up.

### Card: SdCard

The card in its slot as the services of `startup.c` use it: `DiskInit` with its
two loops over the speeds (`Probe`, `Mount`), a file call as any number of
transfers (`Transfer`), one transfer as its command, its blocks and its end
(`Begin`, `Data`, `End`), and behind each failure the `disk_initialize` between
two tries (`Retry`). `selected` is the chip select, `bus` who the shared SPI bus
is set up for, and at which clock. The screen, the RAM and the keys use the bus
between two calls. The environment is FatFs, taken by what it asks of the disk,
and the card: it is good for clocks up to its limit, fails at others, fails now
and then at any (`MaxGlitches`), and is changed at any moment (`Swap`). What a
card sends at a clock it is not good for may pass for data, since the driver
does not compare the CRC.

### Configuration: ConfigText, Config

`ConfigText` is `config_parse` as a function of the text: lines with a colon, the
cells a line ends at, `SKIP_SPACE` with the line feeds it skips; and the text
`config_set` writes. `Turn` is one turn of its loop, a recursion over the positions
of the text. Every byte is of one class (`ByteClasses`), and the values set
are not empty: an empty one would make the next line the value, and `config_set`
has no caller in the repository that could give one. `Config` is the text on the card and the sector of the
flash that is made of it, across starts. The sector has three parts in the order in
which `FlashWrite` goes through `CONFIG`: the text with its pointers, the count,
and the header. One action is one call that changes the card or the sector, or
one part of it; power may be lost in each, with the part torn. `UpdateFirmware`
erases the sector (0x57000 lies in the area of the firmware), and the user edits
the file while the device is off. `wanted` and `setting` are history: what the user
wrote or set last, and what it is about to be. `trust` is history too: who may
lack some of it, because a read or write was cut short. The files are within the
limits of `CONFIG` (254 keys, 3068 bytes). The calls of the flash do not fail.

### Asset loading: LoadFile

`load_file` into the flash, the SPI RAM or the memory: one turn of its loop up
to the first call that changes the flash, then one sector of the erase, then the
write. It compares what it read with the flash and leaves alone what is the same.
A write clears bits only (`Over`). The flash before is erased or holds any version
of the file; the file is replaced, an update of oc erases the maps (0x68000 lies in
the area of oc), power is lost anywhere. `good` is history: nothing of this load
has failed. That the files fit behind `Base` is `FitAssumption`; the code does not
test it.

### esp-flasher: IncrementalFlash, SerialFlash

`flash_file`'s two passes over the image; an image is the set of its sectors
that differ from the one written last, and a piece may fail in the middle.
In `FlashStart`, which both modules extend, `EraseSize` is what `flash_start` asks of the
ROM for a piece, `EraseArea` what the ROM makes of it: it takes the sectors before the
first boundary of a block on top of the size, which is the fault the formula of
`flash_start` makes up for.

`SerialFlash` is the other half: the detection of the device, `flash_sync`,
`flash_send` with its waits, and the calls of `flash_mem`, against the loader in
the ROM, over a line that loses requests and answers. What a `flash_start` erases is
what FlashStart says (`Wipes`), and a sector that was not erased does not take its data.
The flash is told in sectors: a data request stands for the four of `ESP_BLOCK_SIZE` that
make one up. The thread that
reads the line shares `recivedBuf`, `recivedPos` and the count with `main` and
takes no lock: `ReadLine`, `AppendChunk` and `Count` split its loads from its stores,
so that what `main` has reset in between may come back. An answer is a few cells,
one for the bytes that are looked at together; an escape makes it longer on the
line than in the buffer. Assumed of the world: a sync is answered at once or
never, while any other request may be answered after the wait for it has ended; a silence of 100 ms
means that nothing of a sync is left; what arrives is not garbled, but for the noise of a
device that resets; a read does not part an escape from the byte behind it; there is
one port. The images lie apart in the flash (`AreasAssumption`): the code leaves that to
the user. A buffer that is full drops what comes, as in the code; it need only have
room for one answer, which is what the proof assumes.

## 3. Runs

| run | bounds | shows |
|---|---|---|
| `defer_wrap` | 3 jobs, 2 slots, tick of 3, time to 4 | no early call, no lost entry, refinement of Timers (with drops only when full), what is due is called unless the tick has returned to 0 |
| `control_put` | two headers of PUT and data, also joined at an even and at an odd place, a field of no known name, 2 slots, all failures | the count stays within the announced size; the OK comes at the end and freezes the file |
| `control_get` | GET of 3 in chunks of 1, VERIFY, LIST, REBOOT, 2 leases, all failures | a GET sends a prefix, one chunk at a time; a close happens; a device with a lease that is idle tries to connect, full table or not |
| `net_put` | every command; files of 3, words and chunks of 2, cuts at odd and even places, 2 leases, no failures | each command ends, a put with a verdict; OK means stored; a get fetches the whole file or nothing; the file object is not left open |
| `net_verify` | any cut, all failures, apps and resets; an older file on the card that begins with the new one | a verified put is on the card, or is the beginning of the file there |
| `spi_erase` | 9 sectors, blocks of 4, all areas | the area and only the area is erased |
| `boot_update` | 9 sectors, 2 mishaps; a card whose files fit and one on which both are too long | commands at most once, update complete where it fits, writes only in its area and as far as its file is long; a dead device is brought back with Y |
| `audio_ring` | 4 buffers, interrupts lost while a map is loaded | a queue until a counted underrun; an underrun is counted; only silence while loading; silence ends |
| `sd_card` | 4 cards, 3 tries, 4 failures, 2 changes of the card | a call leaves the card deselected; own clock; the best speed is found; tries hide failures; no foreign card; ends |
| `oc_data` | three texts with every form of line, an older sector, 1 edit, losses of power anywhere, short reads and writes; files of 5, 11 and 12 cells in sectors of 4, 2 mishaps | a header means a whole table; what was set is kept in the file or the sector; what is answered is what was written; a load brings the whole file and touches only its sectors |
| `esp_flasher` | images up to 11 sectors at 3 places in a block of 16, groups of 4, full flash above 1 piece; then two calls with three sectors, the second right before the first, 2 attempts, up to 2 answers to a sync, 2 faults | what is left out is only the sector behind a rounded piece; what is written was erased, what is erased is written; "Flashing done." means every sector in its place, but for the one behind a later odd image; ends |
| `incremental_skips` | the images of `esp_flasher` | expected violation, see below |

`oc_data` and `esp_flasher` each explore two components that share no state, one
with the other at rest.

Why the bounds are enough. Two slots make the table full with two entries, and
an entry added later stands before or behind an older one. A tick of 3 returns within
the run while entries with delay and interval are pending. A file of three
units with words of two has a last word that is filled up, and prefixes. Two
mishaps allow an interruption of the repair of an interruption. Blocks of four
in nine sectors have every position of start and end in a block. Four buffers
are those of the code. Eleven sectors hold two whole groups and a piece at the
end that is not rounded up; the three places put the boundary of a block before,
in and behind a piece. The texts have comments, blank and indented lines, spaces
around the colon, a colon and a hash in a value, a key that occurs twice, an end
without a line feed, and no setting. Files of 5, 11 and 12 cells in sectors of 4 and
parts of 2 end inside a word, inside a sector and with a sector, and differ behind
the first sectors, so that a load leaves some alone and writes others. The second
card of `boot_update` has a firmware that ends half a sector inside the area of oc and an
oc that ends with the chip. The second image of `esp_flasher` has one sector and ends
where the first begins, which is where the ROM's erase reaches too far. Two attempts
and two faults lose an answer and the one to its retry, and late answers of a sync
meet the first request of the flash. Three tries have a first, a middle and a last one, and four
failures spend them with one to spare; the four cards are a fast one, one that
needs a lower clock, one without a volume, and one that answers only while it is
installed; a second change brings the first card back. `MaxOut`, `MaxSending`, `MaxLeases`,
`MaxMishaps`, `MaxPending`, `MaxGlitches`, `MaxSwaps`, `MaxEdits`, `MaxFaults` and
`Horizon` bound what the code leaves unbounded,
in the guards of the environment's actions only. Deadlock is not checked where
a tool has come to its end (`NetTool`, `IncrementalFlash`, `MCEspFlasher`).

**Fairness.** `main_loop` is called for ever, and between callbacks it gets its
turn (SF of `MainBegin`, which is not possible while a callback runs); a walk or
a callback that has begun returns (WF); time passes (SF of `EntryDue`, because a
reset may empty the slot). In NetTool the network delivers what it holds and nettool goes on when it can. In Boot the
processor goes on, and the owner sooner or later switches a dead device on with
Y held (SF of `Rescue`). In Audio the DMA goes on while it runs, and the app gets
the processor. In SdCard a service that was called goes on (WF of `Step`); that
FatFs asks for another transfer is not assumed. In SerialFlash both threads of the
tool run and the device takes what it is sent; that it answers is not assumed. No fairness is assumed of the peer, the user, or of failures.

### What the violation run shows

`flash_file` says "Previously written data found, skipping the same sectors."
(`esp-flasher.cpp:291`). `OnlySameSkipped` says that a skipped sector is the
same. It is violated: behind a piece rounded up to a group of four, `offset`
is advanced by the piece (line 327) and again by the loop (line 305), so the
next sector is skipped unseen. With five sectors of which 0 and 4 differ, 0 to
3 are written and 4 is left out. `LeftOutBehindPiece` shows that this is the
only way a sector is left out. The repository's README says of the incremental
flash that it "sometimes does not work properly" (line 34).

### Met while modelling

Not findings, since no line of the repository says otherwise, but worth knowing:

- After a transfer the sound stays off (`oc.c:234`), and the next map change
  waits in `fill_silence` (`app1.c:894`) for buffers that never become free.
  `SilenceEnds` therefore has a running DMA as its premise.
- Data that follows the header misaligned is dropped and a close is posted, but
  the next segment is accepted (`control.c:310`), so the OK of a PUT
  may stand for a mangled file when segments are cut at odd places. `OkMeansStored`
  excepts it; `net_verify` shows that the second connection catches it.
- A file that begins with bytes below 32 loses them: behind the line feed of "#",
  `control_read_string` goes on to skip (`control.c:167`). A put of it is then short, or
  is taken for whole with the zeros that fill up its last word, and only the second
  connection tells. The properties of a put are about other files (`Clean` in the proofs).
- The error callback is empty (`oc.c:317`): a device whose connection failed in
  the middle stays in its state until a close that was posted brings it back.
- A card that is changed while the driver takes it for ready is never installed
  again (`sd_mmc.c:1356`): disk_init fails on it until the next power up.
  `SettlesOnBest` excepts it.
- `get` says "Done." however the connection ended (`nettool.c:207`): a lease in the
  middle of its header makes it fetch nothing, a failure part of the file.
- `listdir` reads every piece to the start of its buffer (`nettool.c:70`), so of a
  listing that arrives in several pieces only the last is shown whole.
- The speeds 2 and 1 of `lower_sd_speed` both give 2.5 MHz, because `mhz < 1`
  never holds for 1 (`startup.c:505`).
- The speed is lowered in disk_init only: a card that turns bad at its speed
  fails each file call after its tries until disk_init is called again.
- `flash_start` erases one sector behind the image when its last piece has an
  odd number of sectors and is short of the boundary of a block
  (`esp-flasher.cpp:187`); `ErasedAndWritten` excepts that sector. Images given in
  descending order, of which one with an odd number of sectors ends where another begins,
  so cost the other its first sector, and esp-flasher says "Flashing done." all the same.
  `DoneMeansFlashed` excepts that sector, which is then blank, and no other.
- A firmware file larger than its area is written over oc (`eboot.c:120`), and a second
  update of it alone spoils the oc of a first. `InItsArea` says how far a file reaches,
  and `UpdateInstalled` and `RescuedByY` are about files that fit.
- `get_file_checksum` does not tell a read that failed from the end of the file
  (`control.c:57`): when the open for a PUT failed, an older file on the card begins with
  the new one, and a read of it fails right behind that beginning, nettool verifies a
  put that never was. `VerifiedMeansStored` says that this is the only way.
- `FileClose` leaves the one file object open when saving fails (`startup.c:954`), and
  nobody looks at its result. `HandleOwned` is about cards that do not fail.
- `config_set` has no caller in the repository.
- A word that stands alone on a line of `config.txt` hides the next line, and of a
  value of two words the second is taken for a key: `SKIP_SPACE` crosses the ends
  of lines (`config.c`). The files of the run have a value on each of their lines.
- A file with more than 254 keys writes behind `keys[]` (`config.c:44`), and of
  one longer than 3068 bytes the rest is not read; `config_set` may make it longer.
- A `config_set` that is cut short leaves an empty file. The sector still has the
  settings, until an update of the firmware erases it; `KeptSomewhere` says that
  this and a failed call of the card are the only ways to lose them.
- A read that is cut short at the start is not noticed; a `config_set` behind it
  drops the keys it has not seen from the file as well.
- The fade table of app 2 and its objects are loaded over the area of the maps:
  going from one app to the other loads them again.
- `flash_send` joins the comparisons of a header by `&&`: an answer is refused
  only if all of them fail. The results of the sync behind the detection and of the
  last `flash_start` are not looked at. `DoneMeansFlashed` holds all the same, since
  the waits for silence leave no answer to be mistaken for a later one.

## 4. Proofs

All hold for every value of the constants that the named ASSUMEs allow.

| theorem | states | argument |
|---|---|---|
| `DeferProofs!SchedulerInvariant` | `Spec => []IInv` | `NeverEarly` is not inductive: it needs that `start_tick` is the schedule of the job (`ScheduleKept`), and, since the walk goes by a sample of the tick, that the sample is no further from the tick of the posting than the true time is (`SampleNotAhead`), which survives the return to 0 by `TickNotAhead` |
| `NeverCalledEarly`, `EntriesKept`, `TypeCorrect` | its parts | |
| `DataLemmas` | `CountingUp`, `CountingDown`, `FlattenIs`, `FlattenAppend`, `PartsInPlace` | induction on the set of the numbers for which a statement holds, by the least that is not in it; a function that a recursion defines is first shown to exist, since TLA+ defines it by CHOOSE |
| `ControlProofs!ControlInvariant` | `Spec => []IInv` | `PutBounded` needs that a header never starts with a count (`HeaderUncounted`), since it may announce less than was counted before, and that the switch of "#" knows its command (`CommandKnown`) |
| `ControlProofs!PutIsBounded` | `Spec => []PutBounded` | |
| `AckFreezesFile`, `OkIsComplete`, `ConnectIsKept` | `AckedFrozen`, `OkWhenComplete`, `ConnectStays` | from it; that an OK is said only once (`OkSettled`), and that the connect of a lease comes first in the table (`LeaseFirst`), so that removing the others does not reach it |
| `FileObjectOwned` | `~Errors /\ ~Faults => (Spec => []HandleOwned)` | the open file belongs to a request that is running or to a close that is due (`HandleInv`); with the empty error callback, or a close that fails, it would be false |
| `ControlProofs!GetSendsInOrder` | `Spec => []GetInOrder` | `GetInv`: while a chunk is in flight, what was sent and what is left in the open file are the file (`InStep`), and a header begins with nothing sent (`HeaderSilent`); a chunk that could not be sent leaves a gap, but then nothing is in flight and `control_sent_callback` is not called again. What is sent is put together by `FlattenSeq`, one chunk at its end (`DataAppend`) |
| `ControlProofs!LinesAlways` | `Clean(File) /\ NetSpec => [](NetInv /\ Lines)` | see below; that nothing has come on a connection before nettool writes (`LinkInv`), and what is on the wire, in the segment being read and in the string read so far is always the rest of one header and its file (`Lines`) |
| `ControlProofs!OkIsStored` | `~Errors /\ ~Faults /\ Clean(File) => (NetSpec => []OkMeansStored)` | `PutInv`: while data comes, the file object holds what came before it (`Coming`); once an OK is said it holds the file until the disconnect callback has closed it (`Confirmed`), which needs `Lines`, `HandleInv`, `OkSettled` and what nettool knows in each phase (`Session`) |
| `ControlProofs!VerifiedIsStored` | `Clean(File) => (NetSpec => [](VerifiedMeansStored \/ Collides))` | `SumInv`: a checksum that was answered is that of what a read of the card brings, and no file is open for writing, because only a PUT opens one (`OnlyPutWrites`) and on the second connection comes only a VERIFY (`Answers`) |
| `ControlProofs!FetchIsWhole` | `NetSpec => []FetchedWhole` | `FetchInv`: what nettool has written, has to read and is still to be sent are the file (`Brought`, `Fetching`), and no close is in the table while a chunk is on its way (`NoClose`) |
| `DeferProofs!TableImplementsTimers` | `Spec => ImplementsTimers` | a step of the table is a step of the timers or none. That a job is refused only while the timers are full is a count: the entries of the table and the timers are in bijection (`SlotsAndTimers`), and a table without a free slot has as many of them as slots (`CapacityIsSlots`) |
| `OcDataProofs!HeaderLast` | `ConfigSpec => []HeaderMeansWhole` | while the sector is written there is no header in it, and the parts behind the next one are as they are to be (`WrittenSoFar`) |
| `OcDataProofs!ReadsWhatIsWritten` | a text that is lines of settings and comments (`WellWritten`) is read as their pairs | what `config_parse` makes of a position depends on later ones only (`TurnLooksAhead`), so there is one such function (`PairsReads`); each line takes it from its start to the next (`ReadLine`), and the induction goes from the last line to the first |
| `OcDataProofs!TextIsReadBack` | `Pairs(Text(ps)) = ps` for every table `ps` of keys and values that are not empty | `Text(ps)` is such a text: each line stands in it where the ones before end (`PartsInPlace`, `LineIsSetting`) |
| `OcDataProofs!SettingsKept`, `SettingsInForce` | `FilesRead => (ConfigSpec => []KeptSomewhere)`, `[]InForce` | `KeepInv`: while nothing was cut short the sector has the settings, or the file that is being taken over has; while a set is open the sector has the old ones and its buffer the new (`TrustWhole`); once a read was cut short the file has them (`TrustSector`). `FilesRead` asks that the files mean what their writer meant; `WrittenFilesRead` shows it for files of settings, comments and blank lines |
| `BootProofs!EraseInvariant` | `EraseSpec => []EraseInv` | what is behind `current_sector` is blank, the block loop runs on boundaries, and no loop passes `end` |
| `EraseIsWhole`, `EraseStaysInside` | `AreaErased`, `OutsideUntouched` | from it |
| `SdCardProofs!CardInvariant` | `Spec => []CardInv` | a failure leaves the card selected on its way to the next try, so `Released` needs where the card may be selected (`SelectedWhere`), that transfers only happen to a card taken for ready (`ReadyInTransfer`), and that its clock is then that of the CSD (`ReadyClock`) |
| `CallsRelease`, `OwnClock` | `Released`, `CardsOwnClock` | from it |
| `SdCardProofs!OneCardAtATime` | `Spec => NeverForeign` | a card that is ready to the driver is not installed (`ReadyStays`), so one that was put in behind the mount never answers (`OneCard`) |
| `SdCardProofs!TriesAreUsedUp` | `Spec => []TriesHide` | each try that is used up is one failure more (`FailuresCounted`), since the transfer runs at the clock that was settled on (`CardInv`) and the check between two tries is no failure (`ReadyStays`) |
| `SdCardProofs!BestClockFound` | `Spec => []SettlesOnBest` | while disk_init searches, every faster speed has failed (`FasterFail`), and a speed is left only for being too fast for the card (`SearchInv`); rates are monotone in the speed, and the 500 kHz at which cards are installed is below every good card's limit |
| `FlasherProofs!FlashInvariant` | `Spec => []FlashInv` | the comparison stops at the first sector that is the same (`RunStops`); a piece ends the image or is of whole groups (`PieceOfGroups`), so the one sector behind it comes behind a whole group (`PassedIsDone`) |
| `OnlyBehindPieces`, `ErasesWhatIsWritten` | `LeftOutBehindPiece`, `ErasedAndWritten` | from it; the fault of the ROM and the formula cancel out but for one sector when the number is odd (`ErasesWhatIsAsked`), which a piece of an even group never is |
| `FlasherProofs!LineInvariant` | `SerialSpec => []LineInv` | the thread may undo what `main` resets only while something is on its way, and from the sync behind the detection on nothing is when a request is sent (`NothingPending`). A sync is not given up early, since what has come begins with a frame (`FrameFirst`); a request of a call has one answer, of which the cells are in the buffer, read or on the line (`OneAnswer`); and the ROM writes where the last block ended (`InPlace`) |
| `FlasherProofs!DoneIsFlashed` | `SerialSpec => []DoneMeansFlashed` | from it: what a call erases and writes is its own area and at most the sector behind an odd one (`WipedBehind`), so that what earlier calls have written stays but for that (`EarlierCalls`), and what may be late behind the last call leaves the flash alone (`HarmlessLine`) |
| `BootProofs!CommandInvariant` | `Spec => []CommandInv` | a checksum in RTC memory belongs to a command still owed: the checksum is the last word written and the last one cleared |
| `BootProofs!NoCommandTwice` | `Spec => []CarriedOutOnce` | from it |
| `BootProofs!StaysInItsArea` | `Spec => InItsArea` | the erase is between the ends of the area of the file being copied (`ErasingOK`), and the file is written from sector to sector: a position that is no multiple of one is that of its end (`WritingOK`), so that rounding the last buffer up stays within the sectors the file takes (`WriteInPlace`) |
| `BootProofs!UpdateIsInstalled` | `Spec => []UpdateInstalled` | `CopyInv`: what the erase has passed is blank, each buffer of a file that fits goes on where the file has come to, and what is changed for one file shares no sector with another unless the lower of them is too long (`OtherStays`) |
| `AudioProofs!UnderrunIsCounted` | `Spec => []UnderrunCounted` | a buffer is handed out before the DMA comes to it, or the driver has counted (`InStep`, `Ahead`) |
| `AudioProofs!MapsLoadInSilence` | `Spec => []LoadsInSilence` | each buffer knows how long ago it was filled (`Age`), and those filled since `fill_silence` began are silent (`SilentSoFar`) |
| `AudioProofs!RingImplementsQueue` | `Spec => ImplementsQueue` | the queue is the buffers from the one that plays to the one last handed out (`Queued`); the one in the hand of the app lies behind them (`HandAhead`) |
| `OcDataProofs!LoadIsWhole` | `LoadSpec => []LoadedWhole` | each turn begins on a sector, with every byte before it in its place, or is the last (`LoadInv`); a write needs blank cells, which is what the erase of the sectors that differ leaves |
| `OcDataProofs!LoadStaysInside` | `LoadSpec => OnlyItsSectors` | the sectors of a piece end within those of the file |

The argument about nettool. The device reads a stream of bytes that the network has
cut anywhere, with a part of a word in `netbuf`, so no property of a put can be
shown from the state of the parser alone. `Before(buf, u, x, g, d)` says where in a word the
device is: `x` is in `buf`, or still ahead in `u`, with the control bytes `g` and
then `d` behind it. `ReadsWord` shows that one call of `control_read_string` keeps
this whatever part of `u` it is given, and `EndingStep` that behind "#" nothing is
taken from `d`. From `Headers`, which takes the output of `buildheader` apart word by
word, the three steps of a header follow (`OpeningStep`, `SizingStep`, `EndingStep`), and
with `NetInv`, which says whose connection it is, `Lines` is inductive.

What the hypotheses are for. `~Errors` and `~Faults`: a connection that fails leaves its file
open to the next one, and a write that fails is confirmed like any other; `net_put` has the
same. `Clean(File)`: a file does not begin with a control byte, see section 3.
`Collides`: a read of the card brings other bytes of the same checksum; for the files of
`net_verify`, whose prefixes have other checksums, that is excluded, and the run
checks `VerifiedMeansStored` itself. The proofs about Boot and SerialFlash have no
hypothesis about sizes: a file may have any length, and images may touch, though not overlap.

The inductive invariants were checked by TLC before they were proved; the runs
now hold what is said of the code. Every invariant of the runs is a theorem. Only
model-checked are the liveness properties (out of the prover's reach, as is ENABLED:
`SilenceEnds` among it).

## 5. Not modelled

- The TCP stack, WiFi and the caller of oc (`firmware/` is not in the repository),
  FatFs, `printf` and the SDK are the environment; so is the ROM loader.
- The emulator (`emuivy.c`) is a second implementation of the table of system
  calls, for trying oc on a PC. What it promises oc is what the device does, and
  that is modelled. Its own sound ring, which a thread of SDL reads without
  looking whether anything was written, would be the part to model first.
- `display.c`, `gfx3d.c`, app 2 and app 3 draw: numbers and pictures, no protocol.
  Their use of `load_file` is that of LoadFile, and app 1's use of the ring that of Audio.
- The converters are functions from file to file, and the terminal copies bytes.
- In esp-flasher, the SLIP framing byte by byte and several ports. The menu of `oc.c`
  shows and starts apps: its one protocol, the sound that stops, is in Audio.
- `oc_temp*.cc` and `app3old.cc` are not built. The toolchain under
  `xtensa-lx106-elf/` and the tables of FatFs are most of the lines of the
  repository and none of its program.

## 6. Plan

Written in the order of importance: the scheduler and protocol first, since all
remote operation hangs on them; then the update path, where a fault costs the
device; then what oc keeps in its flash, the sound ring and the tools. What is left:

1. *Model further*: the carousel of app 2 (`nextobj` and its fade), the log lines
   that use the bus between other calls, the ring of the emulator.
2. *Compose*: Boot with Control's REBOOT; the update with Config, which erases its
   sector, in one model.
3. *Prove further*: a list in `Lines`; what is left of `OkMeansStored` when connections fail (the file
   that such a connection leaves open is the next one's), and the composed models, once
   there are some.
