------------------------------- MODULE SdCard -------------------------------
(***************************************************************************)
(* The card in its slot as the services of common/startup.c see it:        *)
(* disk_init, the file calls, disk_read and disk_write with their tries    *)
(* (sdmmc_diskio.c), the state of the card and its chip select (sd_mmc.c,  *)
(* sd_mmc_spi.c), and the bus that the screen and the serial RAM share     *)
(* with it.                                                                *)
(*                                                                         *)
(* FatFs is taken by what it asks of the disk: a mount initialises it and  *)
(* reads some sectors, a file call makes any number of transfers and       *)
(* returns at the first that fails.  The card can be changed at any time;  *)
(* it answers at clocks up to its limit, and now and then fails at others  *)
(* or at none.  Clocks are in units of 100 kHz.                            *)
(***************************************************************************)
EXTENDS Naturals

CONSTANTS
  Cards,       \* cards that may be put into the slot: [limit, formatted]
  CardMHz,     \* clock of the card's CSD in MHz, cut to SD_MMC_SPI_MAX_CLOCK
  Tries,       \* the 10 of disk_read and disk_write
  MaxGlitches, \* bound on the failures of a sound card at a sound clock
  MaxSwaps,    \* bound on the changes of the card
  NoCard       \* the empty slot

ASSUME CardsAssumption == Cards \subseteq [limit : Nat, formatted : BOOLEAN] /\ NoCard \notin Cards
ASSUME TriesAssumption ==
  Tries \in Nat \ {0} /\ CardMHz \in Nat /\ MaxGlitches \in Nat /\ MaxSwaps \in Nat

VARIABLES
  state,     \* sd_mmc_cards[0].state
  cardClock, \* sd_mmc_cards[0].clock in MHz
  maxSpeed,  \* max_sd_speed
  bus,       \* for whom SPI_USER is set up, and SPI_CLOCK
  selected,  \* the chip select of the card is low
  remaining, \* sd_mmc_nb_block_remaining
  fs,        \* the volume: unknown to FatFs, registered by f_mount, or mounted
  call,      \* the service that is running, or "none"
  at,        \* where it is
  dir,       \* the direction of the transfer
  cnt,       \* cnt of disk_read and disk_write
  card,      \* what is in the slot
  awake,     \* the card in the slot has been initialised
  seen,      \* the card the last blocks came from or went to
  troubled,  \* history: a failure of a sound card or a change of it in this call
  failures,  \* history: failures of a sound card in this transfer
  result,    \* history: what the last call returned
  settled,   \* history: what DiskInit, if that was the last call, returned
  stale,     \* history: the card was changed since the volume was read
  glitches, swaps

driver  == <<state, cardClock, maxSpeed, selected, remaining, fs>>
slot    == <<card, awake, seen, swaps>>
outcome == <<result, settled>>
vars    == <<driver, bus, call, at, dir, cnt, slot, troubled, failures, outcome, stale, glitches>>
-----------------------------------------------------------------------------
\* oc_set_sd_speed: the clock it sets for mhz when max_sd_speed is max.
Rate(mhz, max) ==
  LET m == IF mhz > max THEN max ELSE mhz IN
    CASE m < 1              -> 5
      [] m \in 1 .. 2       -> 25
      [] m \in 3 .. 4       -> 33
      [] m \in 5 .. 14 /\ max < 20 -> 100
      [] OTHER              -> 200

Speeds == {1, 2, 4, 10, 20}

\* The values lower_sd_speed has below max; it takes the greatest.
LowerThan(max) == {s \in Speeds : s < max}

NextSpeed(max) == CHOOSE s \in LowerThan(max) : \A t \in LowerThan(max) : t <= s

\* Variants: every card that is asked for is installed anew, or only the first.
ToInstallAlways(s) == TRUE
ToInstallOnce(s)   == s = "NO_CARD"

\* sd_mmc_select_slot without card detection: is the card to be installed?
ToInstall(s) == s \in {"NO_CARD", "UNUSABLE"}

\* Variant: the clock stays what sd_mode made it.
SelectClockKept(mhz, max) == 200

\* sd_mmc_spi_select_device sets the clock before it lowers the chip select.
SelectClock(mhz, max) == Rate(mhz, max)

Sound(clock) == card # NoCard /\ awake /\ clock <= card.limit

\* What is exchanged with the selected card at this clock comes out as ok.
Exchange(clock, ok) ==
  IF ok
  THEN /\ card # NoCard /\ awake
       /\ UNCHANGED <<troubled, failures, glitches>>
  ELSE /\ Sound(clock) => glitches < MaxGlitches
       /\ LET g == IF Sound(clock) THEN 1 ELSE 0 IN
            /\ glitches' = glitches + g
            /\ failures' = failures + g
            /\ troubled' = (troubled \/ Sound(clock))
-----------------------------------------------------------------------------
\* sd_mmc_spi_card_init at the low clock, then the clock of the card's CSD.
Install(ok) ==
  LET low == SelectClock(0, maxSpeed)
      fit == card # NoCard /\ low <= card.limit
      g   == IF fit /\ ~ok THEN 1 ELSE 0
      mhz == IF ok THEN CardMHz ELSE 0
  IN /\ ok => card # NoCard
     /\ glitches + g <= MaxGlitches
     /\ glitches' = glitches + g
     /\ failures' = failures + g
     /\ troubled' = (troubled \/ g = 1)
     /\ awake' = ok
     /\ cardClock' = mhz
     /\ bus' = [bus EXCEPT !.clock = SelectClock(mhz, maxSpeed)]

\* sd_mmc_check: the card is selected, installed if it has to be, and deselected.
Check(ok) ==
  /\ selected' = FALSE
  /\ \/ /\ ToInstall(state)
        /\ Install(ok)
        /\ state' = IF ok THEN "READY" ELSE "UNUSABLE"
     \/ /\ ~ToInstall(state)
        /\ ok
        /\ bus' = [bus EXCEPT !.clock = SelectClock(cardClock, maxSpeed)]
        /\ UNCHANGED <<state, cardClock, awake, troubled, failures, glitches>>

\* disk_initialize: a check, and another one, which finds the card ready, behind one
\* that has installed it.
Initialize(ok) == Check(ok)

\* The service returns r.
Return(r) ==
  /\ call' = "none"
  /\ at' = "idle"
  /\ cnt' = 0
  /\ result' = r
  /\ settled' = IF call = "DiskInit" THEN r ELSE "none"

Continue(where, tries) ==
  /\ at' = where
  /\ cnt' = tries
  /\ UNCHANGED <<call, outcome>>

\* `while (lower_sd_speed() != 0)' in disk_init: again from where, or give up.
LowerOrReturn(where) ==
  IF LowerThan(maxSpeed) # {}
  THEN maxSpeed' = NextSpeed(maxSpeed) /\ Continue(where, 0)
  ELSE UNCHANGED maxSpeed /\ Return("error")

Begun(service) ==
  /\ call = "none"
  /\ call' = service
  /\ bus' = [user |-> "sd", clock |-> 200]
  /\ troubled' = FALSE
  /\ failures' = 0
  /\ UNCHANGED <<outcome, stale, glitches, slot>>

\* disk_init: sd_mode and init_sd_speed.
DiskInit ==
  /\ Begun("DiskInit")
  /\ at' = "probe"
  /\ maxSpeed' = 20
  /\ dir' = "read"
  /\ cnt' = 0
  /\ UNCHANGED <<state, cardClock, selected, remaining, fs>>

\* The first loop of disk_init; behind it the volume is registered.
Probe(ok) ==
  /\ at = "probe"
  /\ Initialize(ok)
  /\ IF ok
     THEN /\ fs' = "registered"
          /\ Continue("mount", 0)
          /\ UNCHANGED maxSpeed
     ELSE UNCHANGED fs /\ LowerOrReturn("probe")
  /\ UNCHANGED <<remaining, dir, card, seen, swaps, stale>>

\* f_mount, in the second loop of disk_init or by the first file call on a volume
\* that is not mounted: disk_initialize, then the boot sector is read.
Mount(ok) ==
  /\ at = "mount"
  /\ fs # "mounted"
  /\ Initialize(ok)
  /\ IF ok THEN Continue("begin", 0)
     ELSE call = "FileCall" /\ Return("error")
  /\ UNCHANGED <<maxSpeed, remaining, fs, dir, card, seen, swaps, stale>>

\* What has been read is a volume, or is not (or arrived as rubbish).
Mounted ==
  /\ at = "next"
  /\ fs # "mounted"
  /\ \/ /\ seen.formatted
        /\ fs' = "mounted"
        /\ UNCHANGED maxSpeed
        /\ IF call = "DiskInit" THEN Return("OK") ELSE Continue("next", cnt)
     \/ /\ ~seen.formatted \/ bus.clock > seen.limit
        /\ UNCHANGED fs
        /\ IF call = "DiskInit" THEN LowerOrReturn("mount")
           ELSE Return("error") /\ UNCHANGED maxSpeed
  /\ UNCHANGED <<state, cardClock, selected, remaining, bus, dir, slot, troubled, failures, stale, glitches>>

\* file_open, file_read, file_write, file_close, ...: sd_mode, then FatFs.
FileCall ==
  /\ fs # "none"
  /\ Begun("FileCall")
  /\ at' = IF fs = "mounted" THEN "next" ELSE "mount"
  /\ cnt' = 0
  /\ dir' = "read"
  /\ UNCHANGED driver

\* Variant: a count that outlives the function.
FirstTryStatic == cnt

\* `int cnt = 0'.
FirstTry == 0

\* FatFs reads or writes a sector or more, or has done what was asked.
Transfer(d) ==
  /\ at = "next"
  /\ fs # "mounted" => d = "read"
  /\ dir' = d
  /\ failures' = 0
  /\ Continue("begin", FirstTry)
  /\ UNCHANGED <<driver, bus, slot, troubled, stale, glitches>>

Finish ==
  /\ at = "next"
  /\ fs = "mounted"
  /\ Return("OK")
  /\ UNCHANGED <<driver, bus, dir, slot, troubled, failures, stale, glitches>>

\* The transfer cannot go on: to the disk_initialize between two tries.
ToRetry == Continue("retry", cnt)

\* sd_mmc_init_read_blocks or sd_mmc_init_write_blocks: the card is selected, asked
\* for its status and given the command; deselected if it does not take it.
Begin(blocks, ok) ==
  /\ at = "begin"
  /\ dir = "write" => blocks = 1
  /\ LET clock == SelectClock(cardClock, maxSpeed) IN
       /\ bus' = [bus EXCEPT !.clock = clock]
       /\ Exchange(clock, ok)
  /\ selected' = ok
  /\ remaining' = IF ok THEN blocks ELSE remaining
  /\ IF ok THEN Continue("data", cnt) ELSE ToRetry
  /\ UNCHANGED <<state, cardClock, maxSpeed, fs, dir, slot, stale>>

\* What sd_mmc_start_read_blocks and sd_mmc_start_write_blocks leave of blocks.
LeftOver(blocks, ok) == 0

\* The blocks themselves: a failure leaves the card selected.
Data(ok) ==
  /\ at = "data"
  /\ Exchange(bus.clock, ok)
  /\ remaining' = LeftOver(remaining, ok)
  /\ seen' = IF ok THEN card ELSE seen
  /\ stale' = (stale /\ (ok => fs = "mounted"))
  /\ IF ok THEN Continue("end", cnt) ELSE ToRetry
  /\ UNCHANGED <<state, cardClock, maxSpeed, selected, fs, bus, dir, card, awake, swaps>>

\* sd_mmc_wait_end_of_read_blocks, which cannot fail, or of write blocks, which waits
\* for a card that may stay busy and then leaves it selected.
End(ok) ==
  /\ at = "end"
  /\ IF dir = "read" THEN ok /\ UNCHANGED <<troubled, failures, glitches>>
     ELSE Exchange(bus.clock, ok)
  /\ selected' = ~ok
  /\ IF ok THEN Continue("next", cnt) ELSE ToRetry
  /\ UNCHANGED <<state, cardClock, maxSpeed, remaining, fs, bus, dir, slot, stale>>

\* Variant: the tries are not counted.
CountKept(n)  == n

\* `++cnt'.
Count(n) == n + 1

\* Variant: only the sleep between two tries.
BetweenSleep(ok) ==
  ok /\ UNCHANGED <<state, cardClock, bus, selected, awake, troubled, failures, glitches>>

\* disk_initialize(0) between two tries, whose result is not looked at.  It installs
\* nothing, for the card is ready to the driver, but deselects the card.
BetweenTries(ok) == Initialize(ok)

Retry(ok) ==
  /\ at = "retry"
  /\ BetweenTries(ok)
  /\ IF Count(cnt) # Tries
     THEN Continue("begin", Count(cnt)) /\ UNCHANGED maxSpeed
     ELSE IF call = "DiskInit" THEN LowerOrReturn("mount")
     ELSE Return("error") /\ UNCHANGED maxSpeed
  /\ UNCHANGED <<remaining, fs, dir, card, seen, swaps, stale>>
-----------------------------------------------------------------------------
\* lcd_mode and ram_mode; the key register is clocked by the chip select of the card,
\* which get_keys leaves high.
UseBus(user, clock) ==
  /\ call = "none"
  /\ bus' = [user |-> user, clock |-> clock]
  /\ UNCHANGED <<driver, call, at, dir, cnt, slot, troubled, failures, outcome, stale, glitches>>

UseScreen == UseBus("lcd", 270)
UseRam    == UseBus("ram", 800)

GetKeys ==
  /\ call = "none"
  /\ selected' = FALSE
  /\ UNCHANGED <<state, cardClock, maxSpeed, remaining, fs, bus, call, at, dir, cnt, slot,
                 troubled, failures, outcome, stale, glitches>>

\* The card is taken out, or another one (or the same) is put in, at any moment.
Swap(c) ==
  /\ swaps < MaxSwaps
  /\ swaps' = swaps + 1
  /\ card' = c
  /\ awake' = FALSE
  /\ troubled' = TRUE
  /\ stale' = TRUE
  /\ UNCHANGED <<driver, bus, call, at, dir, cnt, seen, failures, outcome, glitches>>

\* user_init behind sd_mode and sd_mmc_init.
Init ==
  /\ state = "NO_CARD" /\ cardClock = 0 /\ maxSpeed = 0 /\ bus = [user |-> "sd", clock |-> 5]
  /\ selected = FALSE /\ remaining = 0 /\ fs = "none"
  /\ call = "none" /\ at = "idle" /\ dir = "read" /\ cnt = 0
  /\ seen = NoCard /\ awake = FALSE /\ troubled = FALSE /\ failures = 0
  /\ result = "none" /\ settled = "none" /\ stale = FALSE
  /\ card \in Cards \cup {NoCard}
  /\ glitches = 0 /\ swaps = 0

\* Power is lost and comes back.
PowerCycle ==
  /\ state' = "NO_CARD" /\ cardClock' = 0 /\ maxSpeed' = 0 /\ bus' = [user |-> "sd", clock |-> 5]
  /\ selected' = FALSE /\ remaining' = 0 /\ fs' = "none"
  /\ call' = "none" /\ at' = "idle" /\ dir' = "read" /\ cnt' = 0
  /\ seen' = NoCard /\ awake' = FALSE /\ troubled' = FALSE /\ failures' = 0
  /\ result' = "none" /\ settled' = "none" /\ stale' = FALSE
  /\ UNCHANGED <<card, glitches, swaps>>

Step ==
  \/ \E ok \in BOOLEAN : Probe(ok) \/ Mount(ok) \/ Data(ok) \/ End(ok) \/ Retry(ok)
  \/ \E blocks \in 1 .. 2, ok \in BOOLEAN : Begin(blocks, ok)
  \/ Mounted
  \/ Finish

Next ==
  \/ Step
  \/ DiskInit
  \/ FileCall
  \/ \E d \in {"read", "write"} : Transfer(d)
  \/ UseScreen
  \/ UseRam
  \/ GetKeys
  \/ \E c \in Cards \cup {NoCard} : Swap(c)
  \/ PowerCycle

Spec == Init /\ [][Next]_vars

\* A service that was called goes on: nothing in the tries waits for another actor.
FairSpec == Spec /\ WF_vars(Step)
-----------------------------------------------------------------------------
\* Whom the bus is set up for, and the clocks of the card, the screen and the RAM.
BusSettings == [user : {"sd", "lcd", "ram"}, clock : {5, 25, 33, 100, 200, 270, 800}]

TypeOfFlags ==
  /\ selected \in BOOLEAN
  /\ awake \in BOOLEAN
  /\ troubled \in BOOLEAN
  /\ stale \in BOOLEAN

TypeOfCounts ==
  /\ remaining \in 0 .. 2
  /\ cnt \in 0 .. Tries - 1
  /\ failures \in Nat
  /\ glitches \in 0 .. MaxGlitches
  /\ swaps \in 0 .. MaxSwaps

TypeOfRest ==
  /\ state \in {"NO_CARD", "READY", "UNUSABLE"}
  /\ cardClock \in {0, CardMHz}
  /\ maxSpeed \in Speeds \cup {0}
  /\ bus \in BusSettings
  /\ fs \in {"none", "registered", "mounted"}
  /\ call \in {"none", "DiskInit", "FileCall"}
  /\ at \in {"idle", "probe", "mount", "begin", "data", "end", "next", "retry"}
  /\ dir \in {"read", "write"}
  /\ card \in Cards \cup {NoCard}
  /\ seen \in Cards \cup {NoCard}
  /\ result \in {"none", "OK", "error"}
  /\ settled \in {"none", "OK", "error"}

TypeOK == TypeOfFlags /\ TypeOfCounts /\ TypeOfRest

\* Whatever failed in a call of the card, the card is deselected when the call
\* returns: nothing that is then sent to the screen or the RAM reaches it.
Released == call = "none" => ~selected

\* While the card is selected the bus is set up for it and no faster than the speed
\* that disk_init has settled on, although sd_mode sets the full speed each time.
CardsOwnClock ==
  selected => bus.user = "sd" /\ bus.clock = Rate(CardMHz, maxSpeed)

\* A service is running exactly while it is somewhere.
CallHasPlace == call = "none" <=> at = "idle"

\* The bus is set up for the card during a call.
BusOfCall == call # "none" => bus.user = "sd"

\* Transfers, and a mounted volume, are those of a card the driver takes for ready.
InTransfer == {"begin", "data", "end", "retry", "next"}

ReadyInTransfer == (at \in InTransfer \/ fs = "mounted") => state = "READY"

ReadyClock == state = "READY" => cardClock = CardMHz

\* The card is selected from its command to its last block, or a failure, and then at
\* the clock that was settled on.
SelectedWhere ==
  /\ at \in {"data", "end"} => selected
  /\ selected => /\ at \in {"data", "end", "retry"}
                 /\ bus.clock = Rate(CardMHz, maxSpeed)

\* The assertion of sd_mmc_select_slot: no block of an earlier transfer is counted
\* when the card is selected again.
NothingRemains == at # "data" => remaining = 0

\* The inductive invariant behind Released and CardsOwnClock.
CardInv ==
  /\ TypeOK
  /\ CallHasPlace
  /\ BusOfCall
  /\ ReadyInTransfer
  /\ ReadyClock
  /\ SelectedWhere
  /\ NothingRemains

\* The clocks disk_init tries for transfers.
Rates == {Rate(CardMHz, s) : s \in Speeds}

\* The driver takes a card for ready that was put in later.
Deceived == state = "READY" /\ ~awake

\* disk_init that met neither a failure of a sound card nor a change of it mounts a
\* formatted card that is good for the slowest clock, and no slower than it can be;
\* only a card that was changed under a ready driver has to wait for the next power up.
SettlesOnBest ==
  (call = "none" /\ settled # "none" /\ ~troubled /\ ~Deceived
     /\ card # NoCard /\ card.formatted /\ \E r \in Rates : r <= card.limit)
    => /\ settled = "OK"
       /\ \A r \in Rates : r <= card.limit => r <= Rate(CardMHz, maxSpeed)

\* A file call of a sound card, mounted at a clock it is good for, returns an error only
\* after as many failures of one transfer as there are tries.
TriesHide ==
  (call = "none" /\ result = "error" /\ settled = "none" /\ fs = "mounted" /\ ~stale
     /\ Rate(CardMHz, maxSpeed) <= card.limit)
    => failures >= Tries

\* A transfer or a search for the speed ends, whatever the card does: each comes to the
\* end of its tries, or the call returns.
TriesEnd == (call # "none" /\ at # "next") ~> (call = "none" \/ at = "next")

\* Nothing is transferred to or from a card that took the place of the one that was
\* mounted: FatFs never applies the tables of one card to another.
NeverForeign ==
  [][at = "data" /\ at' = "end" /\ fs = "mounted" => ~stale]_vars
=============================================================================
