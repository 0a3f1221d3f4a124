---------------------------- MODULE SdCardProofs ----------------------------
(***************************************************************************)
(* For every set of cards, number of tries and pattern of failures: the    *)
(* card is deselected between two calls, it is selected at its own clock   *)
(* only, and no block of an earlier transfer is counted.                   *)
(***************************************************************************)
EXTENDS SdCard, TLAPS

\* The parts of CardInv beyond the types.
SlotInv ==
  /\ CallHasPlace
  /\ BusOfCall
  /\ ReadyInTransfer
  /\ ReadyClock
  /\ SelectedWhere
  /\ NothingRemains
-----------------------------------------------------------------------------
\* The clocks oc_set_sd_speed knows.
LEMMA RateType == \A mhz, max : Rate(mhz, max) \in {5, 25, 33, 100, 200}
  BY DEF Rate

\* The next speed of lower_sd_speed is one of its values.
LEMMA NextSpeedType ==
  ASSUME maxSpeed \in Speeds \cup {0}, LowerThan(maxSpeed) # {}
  PROVE  NextSpeed(maxSpeed) \in Speeds
  <1>1. \E s \in LowerThan(maxSpeed) : \A t \in LowerThan(maxSpeed) : t <= s
    BY DEF LowerThan, Speeds
  <1>2. NextSpeed(maxSpeed) \in LowerThan(maxSpeed)
    BY <1>1 DEF NextSpeed
  <1>3. QED
    BY <1>2 DEF LowerThan

\* A check leaves the card deselected, the bus with whom it was, and a card that is
\* ready with the clock of its CSD.
LEMMA CheckEffect ==
  ASSUME TypeOK, ReadyClock, NEW ok \in BOOLEAN, Initialize(ok)
  PROVE  /\ selected' = FALSE
         /\ bus' \in BusSettings
         /\ bus'.user = bus.user
         /\ state' \in {"NO_CARD", "READY", "UNUSABLE"} /\ cardClock' \in {0, CardMHz}
         /\ awake' \in BOOLEAN /\ troubled' \in BOOLEAN
         /\ failures' \in Nat /\ glitches' \in 0 .. MaxGlitches
         /\ ReadyClock'
         /\ ok => state' = "READY"
         /\ state = "READY" => state' = "READY"
  <1> DEFINE C == {5, 25, 33, 100, 200}
  <1>1. SelectClock(cardClock, maxSpeed) \in C /\ SelectClock(0, maxSpeed) \in C
          /\ SelectClock(CardMHz, maxSpeed) \in C
    BY RateType DEF SelectClock
  <1>2. CASE ToInstall(state)
    <2> DEFINE fit == card # NoCard /\ SelectClock(0, maxSpeed) <= card.limit
               g   == IF fit /\ ~ok THEN 1 ELSE 0
    <2>1. g \in 0 .. 1
      OBVIOUS
    <2>2. /\ glitches + g <= MaxGlitches /\ glitches' = glitches + g /\ failures' = failures + g
          /\ troubled' = (troubled \/ g = 1) /\ awake' = ok
          /\ cardClock' = (IF ok THEN CardMHz ELSE 0)
          /\ bus' = [bus EXCEPT !.clock = SelectClock(IF ok THEN CardMHz ELSE 0, maxSpeed)]
          /\ state' = (IF ok THEN "READY" ELSE "UNUSABLE") /\ selected' = FALSE
      BY <1>2 DEF Initialize, Check, Install
    <2> HIDE DEF g, fit
    <2>3. bus' = [bus EXCEPT !.clock = bus'.clock] /\ bus'.clock \in C
      BY <1>1, <2>2 DEF TypeOK, TypeOfFlags, TypeOfCounts, TypeOfRest, BusSettings
    <2>4. glitches' \in 0 .. MaxGlitches /\ failures' \in Nat
      BY <2>1, <2>2, TriesAssumption DEF TypeOK, TypeOfFlags, TypeOfCounts, TypeOfRest, BusSettings
    <2>5. QED
      BY <1>2, <2>2, <2>3, <2>4
      DEF ToInstall, TypeOK, TypeOfFlags, TypeOfCounts, TypeOfRest, BusSettings, ReadyClock
  <1>3. CASE ~ToInstall(state)
    BY <1>1, <1>3
    DEF Initialize, Check, ToInstall, ReadyClock, TypeOK, TypeOfFlags, TypeOfCounts, TypeOfRest, BusSettings
  <1>4. QED
    BY <1>2, <1>3
-----------------------------------------------------------------------------
LEMMA InitCard == Init => CardInv
  <1> SUFFICES ASSUME Init PROVE CardInv
    OBVIOUS
  <1>1. TypeOfFlags
    BY DEF Init, TypeOfFlags
  <1>2. TypeOfCounts
    BY TriesAssumption DEF Init, TypeOfCounts
  <1>3. TypeOfRest
    BY DEF Init, BusSettings, TypeOfRest
  <1>4. QED
    BY <1>1, <1>2, <1>3
    DEF Init, CardInv, TypeOK, CallHasPlace, BusOfCall, ReadyInTransfer, InTransfer, ReadyClock,
        SelectedWhere, NothingRemains

\* The search for a speed goes on with a lower one, or the call returns.
LEMMA SearchEffect ==
  ASSUME TypeOK, NEW where, LowerOrReturn(where)
  PROVE  /\ maxSpeed' \in Speeds \cup {0} /\ cnt' = 0
         /\ \/ at' = where /\ call' = call /\ UNCHANGED outcome
            \/ /\ at' = "idle" /\ call' = "none"
               /\ result' = "error" /\ settled' \in {"none", "error"}
  <1>1. CASE LowerThan(maxSpeed) # {}
    BY <1>1, NextSpeedType DEF LowerOrReturn, Continue, TypeOK, TypeOfRest
  <1>2. CASE LowerThan(maxSpeed) = {}
    BY <1>2 DEF LowerOrReturn, Return, TypeOK, TypeOfRest
  <1>3. QED
    BY <1>1, <1>2

\* What is exchanged keeps the types of what it changes.
LEMMA ExchangeType ==
  ASSUME TypeOK, NEW clock, NEW ok \in BOOLEAN, Exchange(clock, ok)
  PROVE  troubled' \in BOOLEAN /\ failures' \in Nat /\ glitches' \in 0 .. MaxGlitches
  <1>1. CASE ok
    BY <1>1 DEF Exchange, TypeOK, TypeOfFlags, TypeOfCounts, TypeOfRest
  <1>2. CASE ~ok /\ Sound(clock)
    <2>1. glitches < MaxGlitches /\ glitches' = glitches + 1 /\ failures' = failures + 1
            /\ troubled' = (troubled \/ Sound(clock))
      BY <1>2 DEF Exchange
    <2>2. QED
      BY <1>2, <2>1, TriesAssumption DEF TypeOK, TypeOfFlags, TypeOfCounts, TypeOfRest
  <1>3. CASE ~ok /\ ~Sound(clock)
    <2>1. glitches' = glitches + 0 /\ failures' = failures + 0 /\ troubled' = (troubled \/ Sound(clock))
      BY <1>3 DEF Exchange
    <2>2. QED
      BY <1>3, <2>1, TriesAssumption DEF TypeOK, TypeOfFlags, TypeOfCounts, TypeOfRest
  <1>4. QED
    BY <1>1, <1>2, <1>3

\* Every step keeps the types of the flags.
LEMMA StepFlags == CardInv /\ [Next]_vars => TypeOfFlags'
  <1> SUFFICES ASSUME CardInv, [Next]_vars PROVE TypeOfFlags'
    OBVIOUS
  <1> USE TriesAssumption DEF CardInv
  <1>1. ASSUME NEW ok \in BOOLEAN, Probe(ok) PROVE TypeOfFlags'
    <2>1. selected' = FALSE /\ awake' \in BOOLEAN /\ troubled' \in BOOLEAN
      <3>1. Initialize(ok)
        BY <1>1 DEF Probe
      <3>2. QED
        BY <1>1, <3>1, CheckEffect
    <2>2. QED
      BY <1>1, <2>1 DEF Probe, Continue, Return, TypeOK, TypeOfFlags
  <1>2. ASSUME NEW ok \in BOOLEAN, Mount(ok) PROVE TypeOfFlags'
    <2>1. selected' = FALSE /\ awake' \in BOOLEAN /\ troubled' \in BOOLEAN
      <3>1. Initialize(ok)
        BY <1>2 DEF Mount
      <3>2. QED
        BY <1>2, <3>1, CheckEffect
    <2>2. QED
      BY <1>2, <2>1 DEF Mount, Continue, Return, TypeOK, TypeOfFlags
  <1>3. ASSUME NEW ok \in BOOLEAN, Data(ok) PROVE TypeOfFlags'
    <2>1. troubled' \in BOOLEAN
      <3>1. Exchange(bus.clock, ok)
        BY <1>3 DEF Data
      <3>2. QED
        BY <1>3, <3>1, ExchangeType
    <2>2. QED
      BY <1>3, <2>1 DEF Data, LeftOver, ToRetry, Continue, slot, TypeOK, TypeOfFlags
  <1>4. ASSUME NEW ok \in BOOLEAN, End(ok) PROVE TypeOfFlags'
    <2>1. troubled' \in BOOLEAN
      <3>1. CASE dir = "read"
        BY <1>4, <3>1 DEF End, TypeOK, TypeOfFlags
      <3>2. CASE dir # "read"
        <4>1. Exchange(bus.clock, ok)
          BY <1>4, <3>2 DEF End
        <4>2. QED
          BY <1>4, <4>1, ExchangeType
      <3>3. QED
        BY <3>1, <3>2
    <2>2. QED
      BY <1>4, <2>1 DEF End, ToRetry, Continue, slot, TypeOK, TypeOfFlags
  <1>5. ASSUME NEW ok \in BOOLEAN, Retry(ok) PROVE TypeOfFlags'
    <2>1. selected' = FALSE /\ awake' \in BOOLEAN /\ troubled' \in BOOLEAN
      <3>1. Initialize(ok)
        BY <1>5 DEF Retry, BetweenTries
      <3>2. QED
        BY <1>5, <3>1, CheckEffect
    <2>2. QED
      BY <1>5, <2>1 DEF Retry, Continue, Return, TypeOK, TypeOfFlags
  <1>6. ASSUME NEW blocks \in 1 .. 2, NEW ok \in BOOLEAN, Begin(blocks, ok) PROVE TypeOfFlags'
    <2>1. troubled' \in BOOLEAN
      <3>1. Exchange(SelectClock(cardClock, maxSpeed), ok)
        BY <1>6 DEF Begin
      <3>2. QED
        BY <1>6, <3>1, ExchangeType
    <2>2. QED
      BY <1>6, <2>1 DEF Begin, ToRetry, Continue, slot, TypeOK, TypeOfFlags
  <1>7. ASSUME Mounted PROVE TypeOfFlags'
    BY <1>7, NextSpeedType
    DEF Mounted, LowerOrReturn, Continue, Return, slot, TypeOK, TypeOfFlags
  <1>8. ASSUME Finish PROVE TypeOfFlags'
    BY <1>8
    DEF Finish, Return, driver, slot, TypeOK, TypeOfFlags
  <1>9. ASSUME DiskInit PROVE TypeOfFlags'
    BY <1>9
    DEF DiskInit, Begun, outcome, slot, Speeds, TypeOK, TypeOfFlags
  <1>10. ASSUME FileCall PROVE TypeOfFlags'
    BY <1>10
    DEF FileCall, Begun, driver, outcome, slot, TypeOK, TypeOfFlags
  <1>11. ASSUME NEW d \in {"read", "write"}, Transfer(d) PROVE TypeOfFlags'
    BY <1>11
    DEF Transfer, FirstTry, Continue, driver, outcome, slot, TypeOK, TypeOfFlags
  <1>12. ASSUME UseScreen \/ UseRam PROVE TypeOfFlags'
    BY <1>12
    DEF UseScreen, UseRam, UseBus, driver, outcome, slot, TypeOK, TypeOfFlags
  <1>13. ASSUME GetKeys PROVE TypeOfFlags'
    BY <1>13
    DEF GetKeys, outcome, slot, TypeOK, TypeOfFlags
  <1>14. ASSUME NEW c \in Cards \cup {NoCard}, Swap(c) PROVE TypeOfFlags'
    BY <1>14
    DEF Swap, driver, outcome, TypeOK, TypeOfFlags
  <1>15. ASSUME PowerCycle PROVE TypeOfFlags'
    BY <1>15
    DEF PowerCycle, TypeOK, TypeOfFlags
  <1>16. ASSUME UNCHANGED vars PROVE TypeOfFlags'
    BY <1>16
    DEF vars, driver, outcome, slot, TypeOK, TypeOfFlags
  <1>17. QED
    BY <1>1, <1>2, <1>3, <1>4, <1>5, <1>6, <1>7, <1>8, <1>9, <1>10, <1>11, <1>12, <1>13, <1>14,
       <1>15, <1>16 DEF Next, Step

\* Every step keeps the bounds of the counters.
LEMMA StepCounts == CardInv /\ [Next]_vars => TypeOfCounts'
  <1> SUFFICES ASSUME CardInv, [Next]_vars PROVE TypeOfCounts'
    OBVIOUS
  <1> USE TriesAssumption DEF CardInv
  <1>1. ASSUME NEW ok \in BOOLEAN, Probe(ok) PROVE TypeOfCounts'
    <2>1. failures' \in Nat /\ glitches' \in 0 .. MaxGlitches
      <3>1. Initialize(ok)
        BY <1>1 DEF Probe
      <3>2. QED
        BY <1>1, <3>1, CheckEffect
    <2>2. cnt' = 0
      BY <1>1, SearchEffect DEF Probe, Continue, Return
    <2>3. QED
      BY <1>1, <2>1, <2>2 DEF Probe, TypeOK, TypeOfCounts
  <1>2. ASSUME NEW ok \in BOOLEAN, Mount(ok) PROVE TypeOfCounts'
    <2>1. failures' \in Nat /\ glitches' \in 0 .. MaxGlitches
      <3>1. Initialize(ok)
        BY <1>2 DEF Mount
      <3>2. QED
        BY <1>2, <3>1, CheckEffect
    <2>2. cnt' = 0
      BY <1>2 DEF Mount, Continue, Return
    <2>3. QED
      BY <1>2, <2>1, <2>2 DEF Mount, TypeOK, TypeOfCounts
  <1>3. ASSUME NEW ok \in BOOLEAN, Data(ok) PROVE TypeOfCounts'
    <2>1. failures' \in Nat /\ glitches' \in 0 .. MaxGlitches
      <3>1. Exchange(bus.clock, ok)
        BY <1>3 DEF Data
      <3>2. QED
        BY <1>3, <3>1, ExchangeType
    <2>2. QED
      BY <1>3, <2>1 DEF Data, LeftOver, ToRetry, Continue, slot, TypeOK, TypeOfCounts
  <1>4. ASSUME NEW ok \in BOOLEAN, End(ok) PROVE TypeOfCounts'
    <2>1. failures' \in Nat /\ glitches' \in 0 .. MaxGlitches
      <3>1. CASE dir = "read"
        BY <1>4, <3>1 DEF End, TypeOK, TypeOfCounts
      <3>2. CASE dir # "read"
        <4>1. Exchange(bus.clock, ok)
          BY <1>4, <3>2 DEF End
        <4>2. QED
          BY <1>4, <4>1, ExchangeType
      <3>3. QED
        BY <3>1, <3>2
    <2>2. QED
      BY <1>4, <2>1 DEF End, ToRetry, Continue, slot, TypeOK, TypeOfCounts
  <1>5. ASSUME NEW ok \in BOOLEAN, Retry(ok) PROVE TypeOfCounts'
    <2>1. failures' \in Nat /\ glitches' \in 0 .. MaxGlitches
      <3>1. Initialize(ok)
        BY <1>5 DEF Retry, BetweenTries
      <3>2. QED
        BY <1>5, <3>1, CheckEffect
    <2>2. cnt' \in 0 .. Tries - 1
      <3>1. CASE Count(cnt) # Tries
        BY <1>5, <3>1 DEF Retry, Continue, Count, TypeOK, TypeOfCounts
      <3>2. CASE Count(cnt) = Tries
        BY <1>5, <3>2, SearchEffect DEF Retry, Return
      <3>3. QED
        BY <3>1, <3>2
    <2>3. QED
      BY <1>5, <2>1, <2>2 DEF Retry, TypeOK, TypeOfCounts
  <1>6. ASSUME NEW blocks \in 1 .. 2, NEW ok \in BOOLEAN, Begin(blocks, ok) PROVE TypeOfCounts'
    <2>1. failures' \in Nat /\ glitches' \in 0 .. MaxGlitches
      <3>1. Exchange(SelectClock(cardClock, maxSpeed), ok)
        BY <1>6 DEF Begin
      <3>2. QED
        BY <1>6, <3>1, ExchangeType
    <2>2. QED
      BY <1>6, <2>1 DEF Begin, ToRetry, Continue, slot, TypeOK, TypeOfCounts
  <1>7. ASSUME Mounted PROVE TypeOfCounts'
    <2>1. cnt' \in 0 .. Tries - 1
      BY <1>7, SearchEffect DEF Mounted, Continue, Return, TypeOK, TypeOfCounts
    <2>2. QED
      BY <1>7, <2>1 DEF Mounted, slot, TypeOK, TypeOfCounts
  <1>8. ASSUME Finish PROVE TypeOfCounts'
    BY <1>8
    DEF Finish, Return, driver, slot, TypeOK, TypeOfCounts
  <1>9. ASSUME DiskInit PROVE TypeOfCounts'
    BY <1>9
    DEF DiskInit, Begun, outcome, slot, Speeds, TypeOK, TypeOfCounts
  <1>10. ASSUME FileCall PROVE TypeOfCounts'
    BY <1>10
    DEF FileCall, Begun, driver, outcome, slot, TypeOK, TypeOfCounts
  <1>11. ASSUME NEW d \in {"read", "write"}, Transfer(d) PROVE TypeOfCounts'
    BY <1>11
    DEF Transfer, FirstTry, Continue, driver, outcome, slot, TypeOK, TypeOfCounts
  <1>12. ASSUME UseScreen \/ UseRam PROVE TypeOfCounts'
    BY <1>12
    DEF UseScreen, UseRam, UseBus, driver, outcome, slot, TypeOK, TypeOfCounts
  <1>13. ASSUME GetKeys PROVE TypeOfCounts'
    BY <1>13
    DEF GetKeys, outcome, slot, TypeOK, TypeOfCounts
  <1>14. ASSUME NEW c \in Cards \cup {NoCard}, Swap(c) PROVE TypeOfCounts'
    BY <1>14
    DEF Swap, driver, outcome, TypeOK, TypeOfCounts
  <1>15. ASSUME PowerCycle PROVE TypeOfCounts'
    BY <1>15
    DEF PowerCycle, TypeOK, TypeOfCounts
  <1>16. ASSUME UNCHANGED vars PROVE TypeOfCounts'
    BY <1>16
    DEF vars, driver, outcome, slot, TypeOK, TypeOfCounts
  <1>17. QED
    BY <1>1, <1>2, <1>3, <1>4, <1>5, <1>6, <1>7, <1>8, <1>9, <1>10, <1>11, <1>12, <1>13, <1>14,
       <1>15, <1>16 DEF Next, Step

\* Every step keeps the other types.
LEMMA StepRest == CardInv /\ [Next]_vars => TypeOfRest'
  <1> SUFFICES ASSUME CardInv, [Next]_vars PROVE TypeOfRest'
    OBVIOUS
  <1> USE TriesAssumption DEF CardInv
  <1>1. ASSUME NEW ok \in BOOLEAN, Probe(ok) PROVE TypeOfRest'
    <2>1. /\ state' \in {"NO_CARD", "READY", "UNUSABLE"} /\ cardClock' \in {0, CardMHz}
          /\ bus' \in BusSettings
      <3>1. Initialize(ok)
        BY <1>1 DEF Probe
      <3>2. QED
        BY <1>1, <3>1, CheckEffect
    <2>2. CASE LowerOrReturn("probe")
      <3>1. maxSpeed' \in Speeds \cup {0}
              /\ \/ at' = "probe" /\ call' = call /\ UNCHANGED outcome
                 \/ /\ at' = "idle" /\ call' = "none"
                    /\ result' = "error" /\ settled' \in {"none", "error"}
        BY <2>2, SearchEffect
      <3>2. QED
        BY <1>1, <2>1, <3>1 DEF Probe, outcome, TypeOK, TypeOfRest
    <2>3. CASE ~LowerOrReturn("probe")
      BY <1>1, <2>1, <2>3 DEF Probe, Continue, Return, outcome, TypeOK, TypeOfRest
    <2>4. QED
      BY <2>2, <2>3
  <1>2. ASSUME NEW ok \in BOOLEAN, Mount(ok) PROVE TypeOfRest'
    <2>1. /\ state' \in {"NO_CARD", "READY", "UNUSABLE"} /\ cardClock' \in {0, CardMHz}
          /\ bus' \in BusSettings
      <3>1. Initialize(ok)
        BY <1>2 DEF Mount
      <3>2. QED
        BY <1>2, <3>1, CheckEffect
    <2>2. QED
      BY <1>2, <2>1 DEF Mount, Continue, Return, outcome, TypeOK, TypeOfRest
  <1>3. ASSUME NEW ok \in BOOLEAN, Data(ok) PROVE TypeOfRest'
    BY <1>3 DEF Data, LeftOver, ToRetry, Continue, outcome, slot, TypeOK, TypeOfRest
  <1>4. ASSUME NEW ok \in BOOLEAN, End(ok) PROVE TypeOfRest'
    BY <1>4 DEF End, ToRetry, Continue, outcome, slot, TypeOK, TypeOfRest
  <1>5. ASSUME NEW ok \in BOOLEAN, Retry(ok) PROVE TypeOfRest'
    <2>1. /\ state' \in {"NO_CARD", "READY", "UNUSABLE"} /\ cardClock' \in {0, CardMHz}
          /\ bus' \in BusSettings
      <3>1. Initialize(ok)
        BY <1>5 DEF Retry, BetweenTries
      <3>2. QED
        BY <1>5, <3>1, CheckEffect
    <2>2. CASE LowerOrReturn("mount")
      <3>1. maxSpeed' \in Speeds \cup {0}
              /\ \/ at' = "mount" /\ call' = call /\ UNCHANGED outcome
                 \/ /\ at' = "idle" /\ call' = "none"
                    /\ result' = "error" /\ settled' \in {"none", "error"}
        BY <2>2, SearchEffect
      <3>2. QED
        BY <1>5, <2>1, <3>1 DEF Retry, outcome, TypeOK, TypeOfRest
    <2>3. CASE ~LowerOrReturn("mount")
      BY <1>5, <2>1, <2>3 DEF Retry, Continue, Return, outcome, TypeOK, TypeOfRest
    <2>4. QED
      BY <2>2, <2>3
  <1>6. ASSUME NEW blocks \in 1 .. 2, NEW ok \in BOOLEAN, Begin(blocks, ok) PROVE TypeOfRest'
    <2>1. SelectClock(cardClock, maxSpeed) \in {5, 25, 33, 100, 200}
      BY RateType DEF SelectClock
    <2>2. QED
      BY <1>6, <2>1 DEF Begin, BusSettings, ToRetry, Continue, outcome, slot, TypeOK, TypeOfRest
  <1>7. ASSUME Mounted PROVE TypeOfRest'
    <2>1. CASE LowerOrReturn("mount")
      <3>1. maxSpeed' \in Speeds \cup {0}
              /\ \/ at' = "mount" /\ call' = call /\ UNCHANGED outcome
                 \/ /\ at' = "idle" /\ call' = "none"
                    /\ result' = "error" /\ settled' \in {"none", "error"}
        BY <2>1, SearchEffect
      <3>2. QED
        BY <1>7, <3>1 DEF Mounted, outcome, slot, TypeOK, TypeOfRest
    <2>2. CASE ~LowerOrReturn("mount")
      BY <1>7, <2>2 DEF Mounted, Continue, Return, outcome, slot, TypeOK, TypeOfRest
    <2>3. QED
      BY <2>1, <2>2
  <1>8. ASSUME Finish PROVE TypeOfRest'
    BY <1>8
    DEF Finish, Return, driver, slot, TypeOK, TypeOfRest
  <1>9. ASSUME DiskInit PROVE TypeOfRest'
    BY <1>9
    DEF DiskInit, Begun, BusSettings, outcome, slot, Speeds, TypeOK, TypeOfRest
  <1>10. ASSUME FileCall PROVE TypeOfRest'
    BY <1>10
    DEF FileCall, Begun, BusSettings, driver, outcome, slot, TypeOK, TypeOfRest
  <1>11. ASSUME NEW d \in {"read", "write"}, Transfer(d) PROVE TypeOfRest'
    BY <1>11
    DEF Transfer, FirstTry, Continue, driver, outcome, slot, TypeOK, TypeOfRest
  <1>12. ASSUME UseScreen \/ UseRam PROVE TypeOfRest'
    BY <1>12
    DEF UseScreen, UseRam, BusSettings, UseBus, driver, outcome, slot, TypeOK, TypeOfRest
  <1>13. ASSUME GetKeys PROVE TypeOfRest'
    BY <1>13
    DEF GetKeys, outcome, slot, TypeOK, TypeOfRest
  <1>14. ASSUME NEW c \in Cards \cup {NoCard}, Swap(c) PROVE TypeOfRest'
    BY <1>14
    DEF Swap, driver, outcome, TypeOK, TypeOfRest
  <1>15. ASSUME PowerCycle PROVE TypeOfRest'
    BY <1>15
    DEF PowerCycle, BusSettings, TypeOK, TypeOfRest
  <1>16. ASSUME UNCHANGED vars PROVE TypeOfRest'
    BY <1>16
    DEF vars, driver, outcome, slot, TypeOK, TypeOfRest
  <1>17. QED
    BY <1>1, <1>2, <1>3, <1>4, <1>5, <1>6, <1>7, <1>8, <1>9, <1>10, <1>11, <1>12, <1>13, <1>14,
       <1>15, <1>16 DEF Next, Step

\* Every step of a service and of its surroundings keeps the rest of CardInv.
LEMMA StepSlot == CardInv /\ [Next]_vars => SlotInv'
  <1> SUFFICES ASSUME CardInv, [Next]_vars PROVE SlotInv'
    OBVIOUS
  <1> USE DEF SlotInv, CallHasPlace, BusOfCall, ReadyInTransfer, InTransfer, SelectedWhere,
              NothingRemains
  <1>0. TypeOK /\ SlotInv
    BY DEF CardInv
  <1>1. ASSUME NEW ok \in BOOLEAN, Probe(ok) PROVE SlotInv'
    BY <1>0, <1>1, CheckEffect DEF Probe, LowerOrReturn, Continue, Return
  <1>2. ASSUME NEW ok \in BOOLEAN, Mount(ok) PROVE SlotInv'
    BY <1>0, <1>2, CheckEffect DEF Mount, Continue, Return
  <1>3. ASSUME NEW ok \in BOOLEAN, Data(ok) PROVE SlotInv'
    BY <1>0, <1>3 DEF Data, LeftOver, ToRetry, Continue, ReadyClock
  <1>4. ASSUME NEW ok \in BOOLEAN, End(ok) PROVE SlotInv'
    <2>1. UNCHANGED <<state, cardClock, maxSpeed, remaining, fs, bus, call>> /\ at = "end"
      BY <1>0, <1>4 DEF End, ToRetry, Continue
    <2>2. CASE ok
      <3>1. selected' = FALSE /\ at' = "next"
        BY <1>0, <1>4, <2>2 DEF End, Continue
      <3>2. QED
        BY <1>0, <2>1, <3>1 DEF ReadyClock
    <2>3. CASE ~ok
      <3>1. at' = "retry"
        BY <1>0, <1>4, <2>3 DEF End, ToRetry, Continue
      <3>2. bus.clock = Rate(CardMHz, maxSpeed)
        BY <1>0, <2>1
      <3>3. QED
        BY <1>0, <2>1, <3>1, <3>2 DEF ReadyClock
    <2>4. QED
      BY <2>2, <2>3
  <1>5. ASSUME NEW ok \in BOOLEAN, Retry(ok) PROVE SlotInv'
    <2>1. Initialize(ok)
      BY <1>0, <1>5 DEF Retry, BetweenTries
    <2>2. QED
      BY <1>0, <1>5, <2>1, CheckEffect DEF Retry, LowerOrReturn, Continue, Return
  <1>6. ASSUME NEW blocks \in 1 .. 2, NEW ok \in BOOLEAN, Begin(blocks, ok) PROVE SlotInv'
    <2>1. state = "READY" /\ cardClock = CardMHz
      BY <1>0, <1>6 DEF Begin, ReadyClock
    <2>2. bus' = [bus EXCEPT !.clock = Rate(CardMHz, maxSpeed)]
      BY <1>0, <1>6, <2>1 DEF Begin, SelectClock
    <2>3. bus'.user = bus.user /\ bus'.clock = Rate(CardMHz, maxSpeed)
      BY <1>0, <2>2 DEF TypeOK, TypeOfFlags, TypeOfCounts, TypeOfRest, BusSettings
    <2>4. UNCHANGED <<state, cardClock, maxSpeed, fs, call>> /\ selected' = ok
            /\ (ok => at' = "data") /\ (~ok => at' = "retry" /\ remaining' = remaining)
      BY <1>0, <1>6 DEF Begin, ToRetry, Continue
    <2>5. QED
      BY <1>0, <1>6, <2>1, <2>3, <2>4 DEF Begin, ReadyClock
  <1>7. ASSUME Mounted PROVE SlotInv'
    BY <1>0, <1>7 DEF Mounted, LowerOrReturn, Continue, Return, ReadyClock
  <1>8. ASSUME Finish PROVE SlotInv'
    BY <1>0, <1>8 DEF Finish, Return, driver, ReadyClock
  <1>9. ASSUME DiskInit PROVE SlotInv'
    BY <1>0, <1>9 DEF DiskInit, Begun, ReadyClock
  <1>10. ASSUME FileCall PROVE SlotInv'
    BY <1>0, <1>10 DEF FileCall, Begun, driver, ReadyClock
  <1>11. ASSUME NEW d \in {"read", "write"}, Transfer(d) PROVE SlotInv'
    BY <1>0, <1>11 DEF Transfer, Continue, driver, ReadyClock
  <1>12. ASSUME UseScreen \/ UseRam PROVE SlotInv'
    BY <1>0, <1>12 DEF UseScreen, UseRam, UseBus, driver, ReadyClock
  <1>13. ASSUME GetKeys PROVE SlotInv'
    BY <1>0, <1>13 DEF GetKeys, ReadyClock
  <1>14. ASSUME NEW c \in Cards \cup {NoCard}, Swap(c) PROVE SlotInv'
    BY <1>0, <1>14 DEF Swap, driver, ReadyClock
  <1>15. ASSUME PowerCycle PROVE SlotInv'
    BY <1>0, <1>15 DEF PowerCycle, ReadyClock
  <1>16. ASSUME UNCHANGED vars PROVE SlotInv'
    BY <1>0, <1>16 DEF vars, driver, ReadyClock
  <1>17. QED
    BY <1>1, <1>2, <1>3, <1>4, <1>5, <1>6, <1>7, <1>8, <1>9, <1>10, <1>11, <1>12, <1>13, <1>14,
       <1>15, <1>16 DEF Next, Step

\* The invariant holds in every state of every behaviour.
THEOREM CardInvariant == Spec => []CardInv
  <1>1. CardInv /\ [Next]_vars => CardInv'
    BY StepFlags, StepCounts, StepRest, StepSlot DEF CardInv, SlotInv, TypeOK
  <1>2. QED
    BY <1>1, InitCard, PTL DEF Spec

\* No call leaves the card selected, whatever failed in it.
THEOREM CallsRelease == Spec => []Released
  <1>1. CardInv => Released
    BY DEF CardInv, CallHasPlace, SelectedWhere, Released
  <1>2. QED
    BY <1>1, CardInvariant, PTL

\* The card is selected at the clock that was settled on only.
THEOREM OwnClock == Spec => []CardsOwnClock
  <1>1. CardInv => CardsOwnClock
    BY DEF CardInv, CallHasPlace, BusOfCall, SelectedWhere, CardsOwnClock
  <1>2. QED
    BY <1>1, CardInvariant, PTL
-----------------------------------------------------------------------------
(* The card that is mounted, and the failures of a transfer.                 *)

\* From the reading of the volume on, the card answers as long as it is the same.
OneCard ==
  /\ awake => card # NoCard
  /\ fs = "mounted" \/ at \in {"end", "next"} => (stale <=> ~awake)

\* Each try that is used up is the failure of a card that is good for the clock.
GoodForClock == fs = "mounted" /\ ~stale /\ Rate(CardMHz, maxSpeed) <= card.limit

FailuresCounted ==
  call = "FileCall" /\ GoodForClock =>
    /\ at \in {"begin", "data", "end"} => failures >= cnt
    /\ at = "retry" => failures >= cnt + 1

\* The search for a speed is disk_init's, whose result is told from that of a file call.
OnlyInitProbes == at = "probe" => call = "DiskInit"

TriesInv == FailuresCounted /\ OnlyInitProbes /\ TriesHide

\* A card that is ready to the driver is not installed.
LEMMA ReadyStays ==
  ASSUME state = "READY", NEW ok, Initialize(ok)
  PROVE  ok /\ UNCHANGED <<state, cardClock, awake, troubled, failures, glitches>>
  BY DEF Initialize, Check, ToInstall

LEMMA InstalledIsThere ==
  ASSUME OneCard, NEW ok \in BOOLEAN, Initialize(ok), UNCHANGED card
  PROVE  awake' => card' # NoCard
  <1>1. CASE ToInstall(state)
    BY <1>1 DEF Initialize, Check, Install
  <1>2. CASE ~ToInstall(state)
    BY <1>2 DEF Initialize, Check, OneCard
  <1>3. QED
    BY <1>1, <1>2

\* A sound card that fails is counted.
LEMMA FailureCounts ==
  ASSUME CardInv, OneCard, NEW clock, clock = Rate(CardMHz, maxSpeed), fs = "mounted", ~stale,
         Rate(CardMHz, maxSpeed) <= card.limit, Exchange(clock, FALSE)
  PROVE  failures' = failures + 1
  <1>1. Sound(clock)
    BY DEF Sound, OneCard
  <1>2. QED
    BY <1>1 DEF Exchange

LEMMA ExchangeAnswers ==
  ASSUME NEW clock, NEW ok \in BOOLEAN, Exchange(clock, ok)
  PROVE  (ok => awake /\ card # NoCard /\ failures' = failures)
  BY DEF Exchange

LEMMA OneCardKept == CardInv /\ OneCard /\ [Next]_vars => OneCard'
  <1> SUFFICES ASSUME CardInv, OneCard, [Next]_vars PROVE OneCard'
    OBVIOUS
  <1>0. /\ at \in InTransfer \/ fs = "mounted" => state = "READY"
        /\ stale \in BOOLEAN /\ awake \in BOOLEAN
    BY DEF CardInv, ReadyInTransfer, TypeOK, TypeOfFlags
  <1>1. ASSUME NEW ok \in BOOLEAN, Probe(ok) PROVE OneCard'
    <2>1. Initialize(ok) /\ UNCHANGED <<card, stale>> /\ at = "probe"
      BY <1>1 DEF Probe
    <2>2. at' \notin {"end", "next"}
      BY <1>1 DEF Probe, LowerOrReturn, Continue, Return
    <2>3. fs' # "mounted" \/ (fs = "mounted" /\ awake' = awake)
      BY <1>0, <1>1, <2>1, ReadyStays DEF Probe
    <2>4. QED
      BY <2>1, <2>2, <2>3, InstalledIsThere DEF OneCard
  <1>2. ASSUME NEW ok \in BOOLEAN, Mount(ok) PROVE OneCard'
    <2>1. Initialize(ok) /\ UNCHANGED <<card, stale, fs>> /\ fs # "mounted"
      BY <1>2 DEF Mount
    <2>2. at' \notin {"end", "next"}
      BY <1>2 DEF Mount, Continue, Return
    <2>3. QED
      BY <2>1, <2>2, InstalledIsThere DEF OneCard
  <1>3. ASSUME NEW ok \in BOOLEAN, Data(ok) PROVE OneCard'
    <2>1. Exchange(bus.clock, ok) /\ UNCHANGED <<card, awake, fs>> /\ at = "data"
            /\ stale' = (stale /\ (ok => fs = "mounted"))
      BY <1>3 DEF Data
    <2>2. CASE ok
      <3>1. awake
        BY <2>1, <2>2, ExchangeAnswers
      <3>2. CASE fs = "mounted"
        <4>1. stale' <=> stale
          BY <2>1, <2>2, <3>2
        <4>2. QED
          BY <2>1, <3>1, <3>2, <4>1 DEF OneCard
      <3>3. CASE fs # "mounted"
        <4>1. stale' = FALSE
          BY <2>1, <2>2, <3>3
        <4>2. QED
          BY <2>1, <3>1, <4>1 DEF OneCard
      <3>4. QED
        BY <3>2, <3>3
    <2>3. CASE ~ok
      <3>1. at' = "retry" /\ (stale' <=> stale)
        BY <1>3, <2>1, <2>3 DEF Data, ToRetry, Continue
      <3>2. QED
        BY <2>1, <3>1 DEF OneCard
    <2>4. QED
      BY <2>2, <2>3
  <1>4. ASSUME NEW ok \in BOOLEAN, End(ok) PROVE OneCard'
    <2>1. UNCHANGED <<card, awake, stale, fs>> /\ at = "end"
      BY <1>4 DEF End, slot
    <2>2. QED
      BY <2>1 DEF OneCard
  <1>5. ASSUME NEW ok \in BOOLEAN, Retry(ok) PROVE OneCard'
    <2>1. Initialize(ok) /\ UNCHANGED <<card, stale, fs>> /\ at = "retry"
      BY <1>5 DEF Retry, BetweenTries
    <2>2. awake' = awake /\ at' \notin {"end", "next"}
      BY <1>0, <1>5, <2>1, ReadyStays DEF Retry, LowerOrReturn, Continue, Return, InTransfer
    <2>3. QED
      BY <2>1, <2>2 DEF OneCard
  <1>6. ASSUME NEW blocks \in 1 .. 2, NEW ok \in BOOLEAN, Begin(blocks, ok) PROVE OneCard'
    <2>1. UNCHANGED <<card, awake, stale, fs>> /\ at' \notin {"end", "next"}
      BY <1>6 DEF Begin, ToRetry, Continue, slot
    <2>2. QED
      BY <2>1 DEF OneCard
  <1>7. ASSUME Mounted PROVE OneCard'
    <2>1. UNCHANGED <<card, awake, stale>> /\ at = "next"
      BY <1>7 DEF Mounted, slot
    <2>2. QED
      BY <2>1 DEF OneCard
  <1>8. ASSUME Finish \/ \E d \in {"read", "write"} : Transfer(d) PROVE OneCard'
    <2>1. UNCHANGED <<card, awake, stale, fs>> /\ at = "next"
      BY <1>8 DEF Finish, Transfer, slot, driver
    <2>2. QED
      BY <2>1 DEF OneCard
  <1>9. ASSUME DiskInit \/ FileCall PROVE OneCard'
    <2>1. UNCHANGED <<card, awake, stale, fs>> /\ (at' \in {"end", "next"} => fs = "mounted")
      BY <1>9 DEF DiskInit, FileCall, Begun, slot, driver
    <2>2. QED
      BY <2>1 DEF OneCard
  <1>10. ASSUME UseScreen \/ UseRam \/ GetKeys \/ UNCHANGED vars PROVE OneCard'
    <2>1. UNCHANGED <<card, awake, stale, fs, at>>
      BY <1>10 DEF UseScreen, UseRam, UseBus, GetKeys, vars, slot, driver
    <2>2. QED
      BY <2>1 DEF OneCard
  <1>11. ASSUME (\E c \in Cards \cup {NoCard} : Swap(c)) \/ PowerCycle PROVE OneCard'
    BY <1>11 DEF Swap, PowerCycle, OneCard
  <1>12. QED
    BY <1>1, <1>2, <1>3, <1>4, <1>5, <1>6, <1>7, <1>8, <1>9, <1>10, <1>11 DEF Next, Step

(* No transfer on a mounted volume comes from or goes to another card.       *)
THEOREM OneCardAtATime == Spec => NeverForeign
  <1>1. Init => OneCard
    BY DEF Init, OneCard
  <1>2. CardInv /\ OneCard /\ [Next]_vars => [at = "data" /\ at' = "end" /\ fs = "mounted" => ~stale]_vars
    <2> SUFFICES ASSUME CardInv, OneCard, Next, at = "data", at' = "end", fs = "mounted"
                 PROVE  ~stale
      OBVIOUS
    <2>1. PICK ok \in BOOLEAN : Data(ok)
      BY DEF Next, Step, Probe, Mount, Data, End, Retry, Begin, Mounted, Finish, DiskInit, FileCall,
             Begun, Transfer, UseScreen, UseRam, UseBus, GetKeys, Swap, PowerCycle, LowerOrReturn,
             Continue, Return, ToRetry, CardInv, CallHasPlace
    <2>2. ok /\ Exchange(bus.clock, ok)
      BY <2>1 DEF Data, ToRetry, Continue
    <2>3. QED
      BY <2>2, ExchangeAnswers DEF OneCard
  <1>3. QED
    BY <1>1, <1>2, OneCardKept, CardInvariant, PTL DEF Spec, NeverForeign
\* A step that neither counts, nor calls or returns, nor changes the volume.
LEMMA NothingCounted ==
  ASSUME TriesInv, UNCHANGED <<call, at, cnt, fs, stale, maxSpeed, card, failures, result, settled>>
  PROVE  TriesInv'
  BY DEF TriesInv, FailuresCounted, OnlyInitProbes, GoodForClock, TriesHide

\* A step that leaves the service running at a place where nothing has been tried yet.
LEMMA NothingTried ==
  ASSUME call' # "none", at' \in {"mount", "next"} \/ (at' = "probe" /\ call' = "DiskInit")
  PROVE  TriesInv'
  BY DEF TriesInv, FailuresCounted, OnlyInitProbes, TriesHide

\* A service that returns OK, or in disk_init, or without a mounted volume.
LEMMA ReturnsElse ==
  ASSUME call' = "none", at' = "idle", result' = "OK" \/ settled' # "none" \/ fs' # "mounted"
  PROVE  TriesInv'
  BY DEF TriesInv, FailuresCounted, OnlyInitProbes, TriesHide

\* disk_init's search for a speed counts no tries of a file call.
LEMMA SearchCountsNothing ==
  ASSUME call = "DiskInit", NEW where \in {"probe", "mount"}, LowerOrReturn(where)
  PROVE  TriesInv'
  <1>1. CASE LowerThan(maxSpeed) # {}
    <2>1. call' = "DiskInit" /\ at' = where
      BY <1>1 DEF LowerOrReturn, Continue
    <2>2. QED
      BY <2>1, NothingTried
  <1>2. CASE LowerThan(maxSpeed) = {}
    <2>1. call' = "none" /\ at' = "idle" /\ settled' # "none"
      BY <1>2 DEF LowerOrReturn, Return
    <2>2. QED
      BY <2>1, ReturnsElse
  <1>3. QED
    BY <1>1, <1>2

\* An exchange of a transfer either goes on as it was, or leads to the next try and is
\* counted when the card is good for the clock.
LEMMA TryCounted ==
  ASSUME CardInv, OneCard, TriesInv, at \in {"begin", "data", "end"}, call # "none",
         NEW clock, clock = Rate(CardMHz, maxSpeed), NEW ok \in BOOLEAN, Exchange(clock, ok),
         UNCHANGED <<call, cnt, fs, maxSpeed, card>>, fs = "mounted" => (stale' <=> stale),
         IF ok THEN at' \in {"data", "end", "next"} ELSE at' = "retry"
  PROVE  TriesInv'
  <1>1. OnlyInitProbes' /\ TriesHide'
    BY DEF OnlyInitProbes, TriesHide
  <1>2. ASSUME call' = "FileCall", GoodForClock' PROVE failures >= cnt /\ call = "FileCall" /\ GoodForClock
    BY <1>2 DEF TriesInv, FailuresCounted, GoodForClock
  <1>3. FailuresCounted'
    <2>1. CASE ok
      <3>1. failures' = failures /\ at' # "retry"
        BY <2>1, ExchangeAnswers
      <3>2. QED
        BY <1>2, <3>1 DEF FailuresCounted
    <2>2. CASE ~ok
      <3>1. ok = FALSE
        BY <2>2
      <3>2. ASSUME call' = "FileCall", GoodForClock' PROVE failures' >= cnt' + 1
        <4>1. failures' = failures + 1
          BY <1>2, <3>1, <3>2, FailureCounts DEF GoodForClock
        <4>2. failures \in Nat /\ cnt \in Nat
          BY TriesAssumption DEF CardInv, TypeOK, TypeOfCounts
        <4>3. QED
          BY <1>2, <3>2, <4>1, <4>2
      <3>3. QED
        BY <2>2, <3>2 DEF FailuresCounted
    <2>3. QED
      BY <2>1, <2>2
  <1>4. QED
    BY <1>1, <1>3 DEF TriesInv

LEMMA TriesKept == CardInv /\ OneCard /\ TriesInv /\ [Next]_vars => TriesInv'
  <1> SUFFICES ASSUME CardInv, OneCard, TriesInv, [Next]_vars PROVE TriesInv'
    OBVIOUS
  <1>0. /\ TypeOK /\ ReadyClock /\ OnlyInitProbes
        /\ call = "none" <=> at = "idle"
        /\ at \in InTransfer \/ fs = "mounted" => state = "READY"
        /\ at \in {"data", "end"} => bus.clock = Rate(CardMHz, maxSpeed)
        /\ call \in {"none", "DiskInit", "FileCall"}
    BY DEF CardInv, TriesInv, CallHasPlace, ReadyInTransfer, SelectedWhere, TypeOK, TypeOfRest
  <1>1. ASSUME NEW ok \in BOOLEAN, Probe(ok) PROVE TriesInv'
    <2>1. at = "probe" /\ call = "DiskInit"
      BY <1>0, <1>1 DEF Probe, OnlyInitProbes
    <2>2. CASE ok
      <3>1. call' # "none" /\ at' = "mount"
        BY <1>1, <2>1, <2>2 DEF Probe, Continue
      <3>2. QED
        BY <3>1, NothingTried
    <2>3. CASE ~ok
      <3>1. LowerOrReturn("probe")
        BY <1>1, <2>3 DEF Probe
      <3>2. QED
        BY <2>1, <3>1, SearchCountsNothing
    <2>4. QED
      BY <2>2, <2>3
  <1>2. ASSUME NEW ok \in BOOLEAN, Mount(ok) PROVE TriesInv'
    <2>1. fs' # "mounted"
      BY <1>2 DEF Mount
    <2>2. CASE ok
      <3>1. call' # "none" /\ at' = "begin"
        BY <1>0, <1>2, <2>2 DEF Mount, Continue
      <3>2. QED
        BY <2>1, <3>1 DEF TriesInv, FailuresCounted, GoodForClock, OnlyInitProbes, TriesHide
    <2>3. CASE ~ok
      <3>1. call' = "none" /\ at' = "idle"
        BY <1>2, <2>3 DEF Mount, Return
      <3>2. QED
        BY <2>1, <3>1, ReturnsElse
    <2>4. QED
      BY <2>2, <2>3
  <1>3. ASSUME NEW ok \in BOOLEAN, Data(ok) PROVE TriesInv'
    <2>1. at = "data" /\ Exchange(bus.clock, ok) /\ UNCHANGED <<call, cnt, fs, maxSpeed, card>>
      BY <1>3 DEF Data, ToRetry, Continue
    <2>2. fs = "mounted" => (stale' <=> stale)
      BY <1>3 DEF Data
    <2>3. IF ok THEN at' = "end" ELSE at' = "retry"
      BY <1>3 DEF Data, ToRetry, Continue
    <2>4. QED
      BY <1>0, <2>1, <2>2, <2>3, TryCounted
  <1>4. ASSUME NEW ok \in BOOLEAN, End(ok) PROVE TriesInv'
    <2>1. at = "end" /\ UNCHANGED <<call, cnt, fs, maxSpeed, card, stale>>
      BY <1>4 DEF End, ToRetry, Continue, slot
    <2>2. IF ok THEN at' = "next" ELSE at' = "retry"
      BY <1>4 DEF End, ToRetry, Continue
    <2>3. CASE dir = "read"
      <3>1. call' # "none" /\ at' = "next"
        BY <1>0, <1>4, <2>1, <2>2, <2>3 DEF End
      <3>2. QED
        BY <3>1, NothingTried
    <2>4. CASE dir # "read"
      <3>1. Exchange(bus.clock, ok)
        BY <1>4, <2>4 DEF End
      <3>2. QED
        BY <1>0, <2>1, <2>2, <3>1, TryCounted
    <2>5. QED
      BY <2>3, <2>4
  <1>5. ASSUME NEW ok \in BOOLEAN, Retry(ok) PROVE TriesInv'
    <2>1. at = "retry" /\ Initialize(ok) /\ UNCHANGED <<fs, card, stale>>
      BY <1>5 DEF Retry, BetweenTries
    <2>2. failures' = failures
      BY <1>0, <2>1, ReadyStays DEF InTransfer
    <2>3. failures \in Nat /\ cnt \in Nat /\ Tries \in Nat
      BY <1>0, TriesAssumption DEF TypeOK, TypeOfCounts
    <2>4. call = "FileCall" /\ GoodForClock => failures >= cnt + 1
      BY <2>1 DEF TriesInv, FailuresCounted
    <2>5. CASE cnt + 1 # Tries
      <3>1. at' = "begin" /\ cnt' = cnt + 1 /\ UNCHANGED <<call, maxSpeed>>
        BY <1>5, <2>5 DEF Retry, Continue, Count
      <3>2. call' # "none"
        BY <1>0, <2>1, <3>1
      <3>3. GoodForClock' => GoodForClock
        BY <2>1, <3>1 DEF GoodForClock
      <3>4. FailuresCounted'
        BY <2>2, <2>4, <3>1, <3>3 DEF FailuresCounted
      <3>5. QED
        BY <3>1, <3>2, <3>4 DEF TriesInv, OnlyInitProbes, TriesHide
    <2>6. CASE cnt + 1 = Tries /\ call = "DiskInit"
      <3>1. LowerOrReturn("mount")
        BY <1>5, <2>6 DEF Retry, Count
      <3>2. QED
        BY <2>6, <3>1, SearchCountsNothing
    <2>7. CASE cnt + 1 = Tries /\ call # "DiskInit"
      <3>1. call = "FileCall"
        BY <1>0, <2>1, <2>7
      <3>2. call' = "none" /\ at' = "idle" /\ maxSpeed' = maxSpeed
        BY <1>5, <2>7 DEF Retry, Count, Return
      <3>3. GoodForClock' => failures' >= Tries
        BY <2>1, <2>2, <2>4, <2>7, <3>1, <3>2 DEF GoodForClock
      <3>4. QED
        BY <3>2, <3>3 DEF TriesInv, FailuresCounted, OnlyInitProbes, TriesHide, GoodForClock
    <2>8. QED
      BY <2>5, <2>6, <2>7
  <1>6. ASSUME NEW blocks \in 1 .. 2, NEW ok \in BOOLEAN, Begin(blocks, ok) PROVE TriesInv'
    <2>1. at = "begin" /\ UNCHANGED <<call, cnt, fs, maxSpeed, card, stale>>
      BY <1>6 DEF Begin, ToRetry, Continue, slot
    <2>2. SelectClock(cardClock, maxSpeed) = Rate(CardMHz, maxSpeed)
      BY <1>0, <2>1 DEF ReadyClock, InTransfer, SelectClock
    <2>3. Exchange(SelectClock(cardClock, maxSpeed), ok)
      BY <1>6 DEF Begin
    <2>4. IF ok THEN at' = "data" ELSE at' = "retry"
      BY <1>6 DEF Begin, ToRetry, Continue
    <2>5. QED
      BY <1>0, <2>1, <2>2, <2>3, <2>4, TryCounted
  <1>7. ASSUME Mounted PROVE TriesInv'
    <2>1. at = "next" /\ fs # "mounted"
      BY <1>7 DEF Mounted
    <2>2. CASE call = "DiskInit" /\ LowerOrReturn("mount")
      BY <2>2, SearchCountsNothing
    <2>3. CASE ~(call = "DiskInit" /\ LowerOrReturn("mount"))
      <3>1. \/ call' # "none" /\ at' = "next"
            \/ call' = "none" /\ at' = "idle" /\ (result' = "OK" \/ fs' # "mounted")
        BY <1>0, <1>7, <2>1, <2>3 DEF Mounted, Continue, Return
      <3>2. QED
        BY <3>1, NothingTried, ReturnsElse
    <2>4. QED
      BY <2>2, <2>3
  <1>8. ASSUME Finish PROVE TriesInv'
    <2>1. call' = "none" /\ at' = "idle" /\ result' = "OK"
      BY <1>8 DEF Finish, Return
    <2>2. QED
      BY <2>1, ReturnsElse
  <1>9. ASSUME DiskInit \/ FileCall PROVE TriesInv'
    <2>1. call' # "none" /\ (at' \in {"mount", "next"} \/ (at' = "probe" /\ call' = "DiskInit"))
      BY <1>9 DEF DiskInit, FileCall, Begun
    <2>2. QED
      BY <2>1, NothingTried
  <1>10. ASSUME NEW d \in {"read", "write"}, Transfer(d) PROVE TriesInv'
    <2>1. at' = "begin" /\ call' # "none" /\ failures' = 0 /\ cnt' = 0
      BY <1>0, <1>10 DEF Transfer, Continue, FirstTry
    <2>2. QED
      BY <2>1 DEF TriesInv, FailuresCounted, OnlyInitProbes, TriesHide
  <1>11. ASSUME UseScreen \/ UseRam \/ GetKeys \/ UNCHANGED vars PROVE TriesInv'
    <2>1. UNCHANGED <<call, at, cnt, fs, stale, maxSpeed, card, failures, result, settled>>
      BY <1>11 DEF UseScreen, UseRam, UseBus, GetKeys, vars, slot, driver, outcome
    <2>2. QED
      BY <2>1, NothingCounted
  <1>12. ASSUME NEW c \in Cards \cup {NoCard}, Swap(c) PROVE TriesInv'
    <2>1. stale' /\ UNCHANGED <<call, at>>
      BY <1>12 DEF Swap
    <2>2. QED
      BY <1>0, <2>1 DEF TriesInv, FailuresCounted, OnlyInitProbes, TriesHide, GoodForClock
  <1>13. ASSUME PowerCycle PROVE TriesInv'
    BY <1>13, ReturnsElse DEF PowerCycle
  <1>14. QED
    BY <1>1, <1>2, <1>3, <1>4, <1>5, <1>6, <1>7, <1>8, <1>9, <1>10, <1>11, <1>12, <1>13
    DEF Next, Step

(* A file call of a sound card fails only when all its tries have failed.    *)
THEOREM TriesAreUsedUp == Spec => []TriesHide
  <1>1. Init => OneCard /\ TriesInv
    BY DEF Init, OneCard, TriesInv, FailuresCounted, OnlyInitProbes, TriesHide
  <1>2. TriesInv => TriesHide
    BY DEF TriesInv
  <1>3. QED
    BY <1>1, <1>2, OneCardKept, TriesKept, CardInvariant, PTL DEF Spec
-----------------------------------------------------------------------------
(* The search of disk_init for the best speed.                               *)

\* disk_init has met nothing that SettlesOnBest excepts.
Undisturbed ==
  /\ ~troubled /\ ~Deceived
  /\ card # NoCard /\ card.formatted /\ \E r \in Rates : r <= card.limit

\* Every faster speed is too fast for the card.
FasterFail == \A s \in Speeds : s > maxSpeed => Rate(CardMHz, s) > card.limit

\* A speed is left when the card has failed at it, and what was read is of this card.
SearchInv ==
  call = "DiskInit" /\ Undisturbed =>
    /\ maxSpeed \in Speeds
    /\ FasterFail
    /\ at = "retry" => Rate(CardMHz, maxSpeed) > card.limit
    /\ at \in {"end", "next"} => seen = card
    /\ at = "next" => bus.clock = Rate(CardMHz, maxSpeed)

BestInv == SearchInv /\ OnlyInitProbes /\ SettlesOnBest

\* A card is read no slower at a higher speed, and cards are installed at 500 kHz.
LEMMA RateMonotone ==
  ASSUME NEW s \in Speeds, NEW t \in Speeds, s <= t
  PROVE  Rate(CardMHz, s) <= Rate(CardMHz, t)
  <1> DEFINE m == IF CardMHz > s THEN s ELSE CardMHz
             n == IF CardMHz > t THEN t ELSE CardMHz
  <1>1. m \in Nat /\ n \in Nat /\ m <= n
    BY TriesAssumption DEF Speeds
  <1>2. CASE m < 1
    BY <1>2, RateType DEF Rate
  <1>3. CASE m \in 1 .. 2
    <2>1. Rate(CardMHz, s) = 25
      BY <1>3 DEF Rate
    <2>2. ~(n < 1)
      BY <1>1, <1>3
    <2>3. Rate(CardMHz, t) \in {25, 33, 100, 200}
      BY <2>2 DEF Rate
    <2>4. QED
      BY <2>1, <2>3
  <1>4. CASE m \in 3 .. 4
    <2>1. Rate(CardMHz, s) = 33
      BY <1>4 DEF Rate
    <2>2. ~(n < 1) /\ n \notin 1 .. 2
      BY <1>1, <1>4
    <2>3. Rate(CardMHz, t) \in {33, 100, 200}
      BY <2>2 DEF Rate
    <2>4. QED
      BY <2>1, <2>3
  <1>5. CASE m > 4
    <2>1. ~(n < 1) /\ n \notin 1 .. 2 /\ n \notin 3 .. 4
      BY <1>1, <1>5
    <2>m. ~(m < 1) /\ m \notin 1 .. 2 /\ m \notin 3 .. 4
      BY <1>1, <1>5
    <2>t. Rate(CardMHz, t) \in {100, 200}
      BY <2>1 DEF Rate
    <2>s. Rate(CardMHz, s) \in {100, 200}
      BY <2>m DEF Rate
    <2>2. Rate(CardMHz, t) \in {100, 200} /\ Rate(CardMHz, s) \in {100, 200}
      BY <2>t, <2>s
    <2>3. CASE t = 20
      <3>1. ~(t < 20)
        BY <2>3
      <3>2. ~(n \in 5 .. 14 /\ t < 20)
        BY <3>1
      <3>3. Rate(CardMHz, t) = 200
        BY <2>1, <3>2 DEF Rate
      <3>4. QED
        BY <2>2, <3>3
    <2>4. CASE t # 20
      <3>1. s = 10 /\ t = 10
        BY <1>1, <1>5, <2>4 DEF Speeds
      <3>2. QED
        BY <2>2, <3>1
    <2>5. QED
      BY <2>3, <2>4
  <1>6. QED
    BY <1>1, <1>2, <1>3, <1>4, <1>5

LEMMA LowestClock == TypeOK => SelectClock(0, maxSpeed) = 5
  BY DEF SelectClock, Rate, TypeOK, TypeOfRest, Speeds

\* The limit of a card that is there is a clock.
LEMMA CardLimit ==
  ASSUME TypeOK, card # NoCard
  PROVE  card.limit \in Nat
  BY CardsAssumption DEF TypeOK, TypeOfRest

\* A check of a good card finds it, and what is undisturbed behind it was before.
LEMMA CheckOfGoodCard ==
  ASSUME TypeOK, NEW ok \in BOOLEAN, Initialize(ok), UNCHANGED card, Undisturbed'
  PROVE  Undisturbed /\ ok
  <1>1. card # NoCard /\ card.formatted /\ (\E r \in Rates : r <= card.limit)
    BY DEF Undisturbed, Rates
  <1>2. CASE ToInstall(state)
    <2>1. SelectClock(0, maxSpeed) <= card.limit
      <3>1. PICK s \in Speeds : Rate(CardMHz, s) <= card.limit
        BY <1>1 DEF Rates
      <3>2. Rate(CardMHz, s) \in {5, 25, 33, 100, 200}
        BY RateType
      <3>3. card.limit \in Nat
        BY <1>1, CardLimit
      <3>4. QED
        BY <3>1, <3>2, <3>3, LowestClock
    <2>2. Install(ok)
      BY <1>2 DEF Initialize, Check
    <2>3. CASE ~ok
      <3>1. troubled' = (troubled \/ 1 = 1)
        BY <1>1, <2>1, <2>2, <2>3 DEF Install
      <3>2. QED
        BY <3>1 DEF Undisturbed
    <2>4. CASE ok
      <3>1. troubled' = (troubled \/ 0 = 1)
        BY <2>2, <2>4 DEF Install
      <3>2. ~Deceived
        BY <1>2 DEF ToInstall, Deceived
      <3>3. QED
        BY <1>1, <2>4, <3>1, <3>2 DEF Undisturbed
    <2>5. QED
      BY <2>3, <2>4
  <1>3. CASE ~ToInstall(state)
    <2>1. ok /\ UNCHANGED <<state, awake, troubled>>
      BY <1>3 DEF Initialize, Check
    <2>2. QED
      BY <1>1, <2>1 DEF Undisturbed, Deceived
  <1>4. QED
    BY <1>2, <1>3

\* An exchange with a good card at the clock of its speed fails only if that is too fast.
LEMMA ExchangeOfGoodCard ==
  ASSUME TypeOK, state = "READY", NEW ok \in BOOLEAN, Exchange(Rate(CardMHz, maxSpeed), ok),
         UNCHANGED <<card, state, awake>>, Undisturbed'
  PROVE  Undisturbed /\ (~ok => Rate(CardMHz, maxSpeed) > card.limit)
  <1>1. card # NoCard /\ card.formatted /\ (\E r \in Rates : r <= card.limit) /\ ~Deceived /\ awake
    BY DEF Undisturbed, Rates, Deceived
  <1>2. CASE ok
    <2>1. UNCHANGED troubled
      BY <1>2 DEF Exchange
    <2>2. QED
      BY <1>1, <1>2, <2>1 DEF Undisturbed
  <1>3. CASE ~ok
    <2>1. troubled' = (troubled \/ Sound(Rate(CardMHz, maxSpeed)))
      BY <1>3 DEF Exchange
    <2>2. ~troubled /\ ~Sound(Rate(CardMHz, maxSpeed))
      BY <2>1 DEF Undisturbed
    <2>3. card.limit \in Nat /\ Rate(CardMHz, maxSpeed) \in Nat
      <3>1. Rate(CardMHz, maxSpeed) \in {5, 25, 33, 100, 200}
        BY RateType
      <3>2. QED
        BY <1>1, <3>1, CardLimit
    <2>4. Rate(CardMHz, maxSpeed) > card.limit
      BY <1>1, <2>2, <2>3 DEF Sound
    <2>5. QED
      BY <1>1, <2>2, <2>4 DEF Undisturbed
  <1>4. QED
    BY <1>2, <1>3

\* Behind a speed that is too fast disk_init has a lower one to try: the lowest is not.
LEMMA SearchGoesOn ==
  ASSUME TypeOK, call = "DiskInit", Undisturbed, maxSpeed \in Speeds, FasterFail,
         Rate(CardMHz, maxSpeed) > card.limit, LowerOrReturn("mount"),
         UNCHANGED card
  PROVE  maxSpeed' \in Speeds /\ FasterFail' /\ at' = "mount" /\ call' = "DiskInit"
  <1>1. card.limit \in Nat
    BY CardLimit DEF Undisturbed
  <1>2. \A s \in Speeds : s >= maxSpeed => Rate(CardMHz, s) > card.limit
    BY DEF FasterFail, Speeds
  <1>3. PICK s \in Speeds : Rate(CardMHz, s) <= card.limit
    BY DEF Undisturbed, Rates
  <1>4. s < maxSpeed
    <2>1. Rate(CardMHz, s) \in Nat
      BY RateType
    <2>2. QED
      BY <1>1, <1>2, <1>3, <2>1 DEF Speeds
  <1>5. LowerThan(maxSpeed) # {}
    BY <1>3, <1>4 DEF LowerThan
  <1>6. maxSpeed' = NextSpeed(maxSpeed) /\ at' = "mount" /\ call' = "DiskInit"
    BY <1>5 DEF LowerOrReturn, Continue
  <1>7. maxSpeed' \in LowerThan(maxSpeed) /\ \A t \in LowerThan(maxSpeed) : t <= maxSpeed'
    <2>1. \E u \in LowerThan(maxSpeed) : \A t \in LowerThan(maxSpeed) : t <= u
      BY <1>5 DEF LowerThan, Speeds
    <2>2. QED
      BY <1>6, <2>1 DEF NextSpeed
  <1>8. ASSUME NEW t \in Speeds, t > maxSpeed' PROVE t >= maxSpeed
    BY <1>7, <1>8 DEF LowerThan, Speeds
  <1>9. FasterFail'
    BY <1>2, <1>8 DEF FasterFail
  <1>10. QED
    BY <1>6, <1>7, <1>9 DEF LowerThan

\* When every faster speed fails, this one is the best.
LEMMA SettledBest ==
  ASSUME TypeOK, Undisturbed, maxSpeed \in Speeds, FasterFail
  PROVE  \A r \in Rates : r <= card.limit => r <= Rate(CardMHz, maxSpeed)
  <1>1. card.limit \in Nat
    BY CardLimit DEF Undisturbed
  <1>2. SUFFICES ASSUME NEW s \in Speeds, Rate(CardMHz, s) <= card.limit
                 PROVE  Rate(CardMHz, s) <= Rate(CardMHz, maxSpeed)
    BY DEF Rates
  <1>3. Rate(CardMHz, s) \in Nat
    BY RateType
  <1>4. s <= maxSpeed
    BY <1>1, <1>2, <1>3 DEF FasterFail, Speeds
  <1>5. QED
    BY <1>4, RateMonotone

\* Nothing of the search moves.
LEMMA SearchRests ==
  ASSUME BestInv, UNCHANGED <<call, at, maxSpeed, card, seen, state, awake, troubled, settled>>,
         call # "none" => UNCHANGED bus
  PROVE  BestInv'
  BY DEF BestInv, SearchInv, OnlyInitProbes, SettlesOnBest, Undisturbed, Deceived, FasterFail, Rates

\* No disk_init runs, or has just returned.
LEMMA NoSearch ==
  ASSUME call' # "DiskInit", at' # "probe", call' # "none" \/ settled' = "none"
  PROVE  BestInv'
  BY DEF BestInv, SearchInv, OnlyInitProbes, SettlesOnBest

\* disk_init goes on, with what holds where it is then.
LEMMA SearchStep ==
  ASSUME call' = "DiskInit",
         Undisturbed' =>
           /\ maxSpeed' \in Speeds /\ FasterFail'
           /\ at' = "retry" => Rate(CardMHz, maxSpeed') > card'.limit
           /\ at' \in {"end", "next"} => seen' = card'
           /\ at' = "next" => bus'.clock = Rate(CardMHz, maxSpeed')
  PROVE  BestInv'
  BY DEF BestInv, SearchInv, OnlyInitProbes, SettlesOnBest

\* disk_init cannot have returned undisturbed, or has returned OK at the best speed.
LEMMA SearchEnds ==
  ASSUME call' = "none", at' = "idle",
         Undisturbed' => /\ settled' = "OK"
                         /\ \A r \in Rates : r <= card'.limit => r <= Rate(CardMHz, maxSpeed')
  PROVE  BestInv'
  BY DEF BestInv, SearchInv, OnlyInitProbes, SettlesOnBest, Undisturbed, Deceived, Rates

LEMMA BestKept == CardInv /\ BestInv /\ [Next]_vars => BestInv'
  <1> SUFFICES ASSUME CardInv, BestInv, [Next]_vars PROVE BestInv'
    OBVIOUS
  <1>0. /\ TypeOK /\ ReadyClock
        /\ call = "none" <=> at = "idle"
        /\ at \in InTransfer => state = "READY"
        /\ at \in {"data", "end"} => bus.clock = Rate(CardMHz, maxSpeed)
        /\ call \in {"none", "DiskInit", "FileCall"}
        /\ at = "probe" => call = "DiskInit"
    BY DEF CardInv, BestInv, OnlyInitProbes, CallHasPlace, ReadyInTransfer, SelectedWhere, TypeOK, TypeOfRest
  <1>s. ASSUME call = "DiskInit", Undisturbed
        PROVE  /\ maxSpeed \in Speeds /\ FasterFail
               /\ at = "retry" => Rate(CardMHz, maxSpeed) > card.limit
               /\ at \in {"end", "next"} => seen = card
               /\ at = "next" => bus.clock = Rate(CardMHz, maxSpeed)
    BY <1>s DEF BestInv, SearchInv
  <1>f. ASSUME call \in {"none", "FileCall"}, call' # "DiskInit", at' # "probe",
               call' # "none" \/ settled' = "none"
        PROVE  BestInv'
    BY <1>f, NoSearch
  <1>k. ASSUME UNCHANGED <<card, maxSpeed>>, FasterFail PROVE FasterFail'
    BY <1>k DEF FasterFail
  <1>1. ASSUME NEW ok \in BOOLEAN, Probe(ok) PROVE BestInv'
    <2>1. at = "probe" /\ call = "DiskInit" /\ Initialize(ok) /\ UNCHANGED card
      BY <1>0, <1>1 DEF Probe
    <2>2. CASE ok
      <3>1. call' = "DiskInit" /\ at' = "mount" /\ UNCHANGED maxSpeed
        BY <1>1, <2>1, <2>2 DEF Probe, Continue
      <3>2. Undisturbed' => maxSpeed' \in Speeds /\ FasterFail'
        BY <1>0, <1>s, <1>k, <2>1, <3>1, CheckOfGoodCard
      <3>3. QED
        BY <3>1, <3>2, SearchStep
    <2>3. CASE ~ok
      <3>1. ~Undisturbed'
        BY <1>0, <2>1, <2>3, CheckOfGoodCard
      <3>2. LowerOrReturn("probe")
        BY <1>1, <2>3 DEF Probe
      <3>3. call' = "DiskInit" \/ (call' = "none" /\ at' = "idle")
        BY <2>1, <3>2 DEF LowerOrReturn, Continue, Return
      <3>4. QED
        BY <3>1, <3>3, SearchStep, SearchEnds
    <2>4. QED
      BY <2>2, <2>3
  <1>2. ASSUME NEW ok \in BOOLEAN, Mount(ok) PROVE BestInv'
    <2>1. at = "mount" /\ call # "none" /\ Initialize(ok) /\ UNCHANGED <<card, maxSpeed>>
      BY <1>0, <1>2 DEF Mount
    <2>2. CASE call = "DiskInit"
      <3>1. call' = "DiskInit" /\ at' = "begin"
        BY <1>2, <2>2 DEF Mount, Continue
      <3>2. Undisturbed' => maxSpeed' \in Speeds /\ FasterFail'
        BY <1>0, <1>s, <1>k, <2>1, <2>2, CheckOfGoodCard
      <3>3. QED
        BY <3>1, <3>2, SearchStep
    <2>3. CASE call = "FileCall"
      <3>1. call' # "DiskInit" /\ at' # "probe" /\ (call' # "none" \/ settled' = "none")
        BY <1>2, <2>3 DEF Mount, Continue, Return
      <3>2. QED
        BY <1>f, <2>3, <3>1
    <2>4. QED
      BY <1>0, <2>1, <2>2, <2>3
  <1>3. ASSUME NEW ok \in BOOLEAN, Data(ok) PROVE BestInv'
    <2>1. /\ at = "data" /\ state = "READY" /\ Exchange(Rate(CardMHz, maxSpeed), ok)
          /\ UNCHANGED <<call, card, state, awake, maxSpeed, bus>>
          /\ IF ok THEN at' = "end" ELSE at' = "retry"
          /\ seen' = IF ok THEN card ELSE seen
      BY <1>0, <1>3 DEF Data, ToRetry, Continue, InTransfer
    <2>2. CASE call = "DiskInit"
      <3>1. Undisturbed' => Undisturbed /\ (~ok => Rate(CardMHz, maxSpeed) > card.limit)
        BY <1>0, <2>1, ExchangeOfGoodCard
      <3>2. Undisturbed' => /\ maxSpeed' \in Speeds /\ FasterFail'
                            /\ at' = "retry" => Rate(CardMHz, maxSpeed') > card'.limit
                            /\ at' \in {"end", "next"} => seen' = card'
        BY <1>s, <1>k, <2>1, <2>2, <3>1
      <3>3. QED
        BY <2>1, <2>2, <3>2, SearchStep
    <2>3. CASE call # "DiskInit"
      BY <1>0, <1>f, <2>1, <2>3
    <2>4. QED
      BY <2>2, <2>3
  <1>4. ASSUME NEW ok \in BOOLEAN, End(ok) PROVE BestInv'
    <2>1. /\ at = "end" /\ state = "READY"
          /\ UNCHANGED <<call, card, state, awake, maxSpeed, bus, seen>>
          /\ IF ok THEN at' = "next" ELSE at' = "retry"
      BY <1>0, <1>4 DEF End, ToRetry, Continue, InTransfer, slot
    <2>2. Undisturbed' => Undisturbed /\ (~ok => Rate(CardMHz, maxSpeed) > card.limit)
      <3>1. CASE dir = "read"
        <4>1. ok /\ UNCHANGED troubled
          BY <1>4, <3>1 DEF End
        <4>2. QED
          BY <2>1, <4>1 DEF Undisturbed, Deceived, Rates
      <3>2. CASE dir # "read"
        <4>1. Exchange(Rate(CardMHz, maxSpeed), ok)
          BY <1>0, <1>4, <2>1, <3>2 DEF End
        <4>2. QED
          BY <1>0, <2>1, <4>1, ExchangeOfGoodCard
      <3>3. QED
        BY <3>1, <3>2
    <2>3. CASE call = "DiskInit"
      <3>1. Undisturbed' => /\ maxSpeed' \in Speeds /\ FasterFail'
                            /\ at' = "retry" => Rate(CardMHz, maxSpeed') > card'.limit
                            /\ at' \in {"end", "next"} => seen' = card'
        BY <1>s, <1>k, <2>1, <2>2, <2>3
      <3>2. bus'.clock = Rate(CardMHz, maxSpeed')
        BY <1>0, <2>1
      <3>3. QED
        BY <2>1, <2>3, <3>1, <3>2, SearchStep
    <2>4. CASE call # "DiskInit"
      BY <1>0, <1>f, <2>1, <2>4
    <2>5. QED
      BY <2>3, <2>4
  <1>5. ASSUME NEW ok \in BOOLEAN, Retry(ok) PROVE BestInv'
    <2>1. at = "retry" /\ call # "none" /\ state = "READY" /\ Initialize(ok) /\ UNCHANGED card
      BY <1>0, <1>5 DEF Retry, BetweenTries, InTransfer
    <2>2. Undisturbed' => Undisturbed
      BY <1>0, <2>1, CheckOfGoodCard
    <2>3. CASE call = "DiskInit" /\ Count(cnt) # Tries
      <3>1. call' = "DiskInit" /\ at' = "begin" /\ UNCHANGED maxSpeed
        BY <1>5, <2>3 DEF Retry, Continue
      <3>2. Undisturbed' => maxSpeed' \in Speeds /\ FasterFail'
        BY <1>s, <1>k, <2>1, <2>2, <2>3, <3>1
      <3>3. QED
        BY <3>1, <3>2, SearchStep
    <2>4. CASE call = "DiskInit" /\ Count(cnt) = Tries
      <3>1. LowerOrReturn("mount")
        BY <1>5, <2>4 DEF Retry
      <3>2. Undisturbed' => maxSpeed' \in Speeds /\ FasterFail' /\ at' = "mount" /\ call' = "DiskInit"
        BY <1>0, <1>s, <2>1, <2>2, <2>4, <3>1, SearchGoesOn
      <3>3. call' = "DiskInit" \/ (call' = "none" /\ at' = "idle")
        BY <2>4, <3>1 DEF LowerOrReturn, Continue, Return
      <3>4. QED
        BY <3>2, <3>3, SearchStep, SearchEnds
    <2>5. CASE call = "FileCall"
      <3>1. call' # "DiskInit" /\ at' # "probe" /\ (call' # "none" \/ settled' = "none")
        BY <1>5, <2>5 DEF Retry, Continue, Return
      <3>2. QED
        BY <1>f, <2>5, <3>1
    <2>6. QED
      BY <1>0, <2>1, <2>3, <2>4, <2>5
  <1>6. ASSUME NEW blocks \in 1 .. 2, NEW ok \in BOOLEAN, Begin(blocks, ok) PROVE BestInv'
    <2>1. /\ at = "begin" /\ state = "READY"
          /\ UNCHANGED <<call, card, state, awake, maxSpeed>>
          /\ IF ok THEN at' = "data" ELSE at' = "retry"
      BY <1>0, <1>6 DEF Begin, ToRetry, Continue, InTransfer, slot
    <2>2. SelectClock(cardClock, maxSpeed) = Rate(CardMHz, maxSpeed)
      BY <1>0, <2>1 DEF ReadyClock, SelectClock
    <2>3. Exchange(Rate(CardMHz, maxSpeed), ok)
      BY <1>6, <2>2 DEF Begin
    <2>4. CASE call = "DiskInit"
      <3>1. Undisturbed' => Undisturbed /\ (~ok => Rate(CardMHz, maxSpeed) > card.limit)
        BY <1>0, <2>1, <2>3, ExchangeOfGoodCard
      <3>2. Undisturbed' => /\ maxSpeed' \in Speeds /\ FasterFail'
                            /\ at' = "retry" => Rate(CardMHz, maxSpeed') > card'.limit
        BY <1>s, <1>k, <2>1, <2>4, <3>1
      <3>3. QED
        BY <2>1, <2>4, <3>2, SearchStep
    <2>5. CASE call # "DiskInit"
      BY <1>0, <1>f, <2>1, <2>5
    <2>6. QED
      BY <2>4, <2>5
  <1>7. ASSUME Mounted PROVE BestInv'
    <2>1. at = "next" /\ call # "none" /\ UNCHANGED <<card, state, awake, troubled, seen, bus>>
      BY <1>0, <1>7 DEF Mounted, slot
    <2>2. Undisturbed' => Undisturbed
      BY <2>1 DEF Undisturbed, Deceived, Rates
    <2>3. CASE call = "DiskInit" /\ LowerOrReturn("mount") /\ (~seen.formatted \/ bus.clock > seen.limit)
      <3>1. Undisturbed => Rate(CardMHz, maxSpeed) > card.limit
        BY <1>s, <2>1, <2>3 DEF Undisturbed
      <3>2. Undisturbed' => maxSpeed' \in Speeds /\ FasterFail' /\ at' = "mount" /\ call' = "DiskInit"
        BY <1>0, <1>s, <2>1, <2>2, <2>3, <3>1, SearchGoesOn
      <3>3. call' = "DiskInit" \/ (call' = "none" /\ at' = "idle")
        BY <2>3 DEF LowerOrReturn, Continue, Return
      <3>4. QED
        BY <3>2, <3>3, SearchStep, SearchEnds
    <2>4. CASE call = "DiskInit" /\ Return("OK") /\ UNCHANGED maxSpeed
      <3>1. call' = "none" /\ at' = "idle" /\ settled' = "OK"
        BY <2>4 DEF Return
      <3>2. Undisturbed' => \A r \in Rates : r <= card'.limit => r <= Rate(CardMHz, maxSpeed')
        BY <1>0, <1>s, <2>1, <2>2, <2>4, SettledBest
      <3>3. QED
        BY <3>1, <3>2, SearchEnds
    <2>5. CASE call = "FileCall"
      <3>1. call' # "DiskInit" /\ at' # "probe" /\ (call' # "none" \/ settled' = "none")
        BY <1>7, <2>5 DEF Mounted, Continue, Return
      <3>2. QED
        BY <1>f, <2>5, <3>1
    <2>6. call = "DiskInit" => \/ Return("OK") /\ UNCHANGED maxSpeed
                               \/ LowerOrReturn("mount") /\ (~seen.formatted \/ bus.clock > seen.limit)
      BY <1>7 DEF Mounted
    <2>7. QED
      BY <1>0, <2>1, <2>3, <2>4, <2>5, <2>6
  <1>8. ASSUME Finish PROVE BestInv'
    <2>1. at = "next" /\ call # "none" /\ Return("OK") /\ UNCHANGED <<card, state, awake, troubled, maxSpeed>>
      BY <1>0, <1>8 DEF Finish, slot, driver
    <2>2. Undisturbed' => Undisturbed
      BY <2>1 DEF Undisturbed, Deceived, Rates
    <2>3. CASE call = "DiskInit"
      <3>1. call' = "none" /\ at' = "idle" /\ settled' = "OK"
        BY <2>1, <2>3 DEF Return
      <3>2. Undisturbed' => \A r \in Rates : r <= card'.limit => r <= Rate(CardMHz, maxSpeed')
        BY <1>0, <1>s, <2>1, <2>2, <2>3, SettledBest
      <3>3. QED
        BY <3>1, <3>2, SearchEnds
    <2>4. CASE call = "FileCall"
      <3>1. call' # "DiskInit" /\ at' # "probe" /\ settled' = "none"
        BY <2>1, <2>4 DEF Return
      <3>2. QED
        BY <1>f, <2>4, <3>1
    <2>5. QED
      BY <1>0, <2>1, <2>3, <2>4
  <1>9. ASSUME DiskInit PROVE BestInv'
    <2>1. call' = "DiskInit" /\ at' = "probe" /\ maxSpeed' = 20
      BY <1>9 DEF DiskInit, Begun
    <2>2. maxSpeed' \in Speeds /\ FasterFail'
      BY <2>1 DEF FasterFail, Speeds
    <2>3. QED
      BY <2>1, <2>2, SearchStep
  <1>10. ASSUME FileCall PROVE BestInv'
    <2>1. call = "none" /\ call' = "FileCall" /\ at' # "probe"
      BY <1>10 DEF FileCall, Begun
    <2>2. QED
      BY <1>f, <2>1
  <1>11. ASSUME NEW d \in {"read", "write"}, Transfer(d) PROVE BestInv'
    <2>1. at = "next" /\ call # "none" /\ call' = call /\ at' = "begin"
            /\ UNCHANGED <<card, state, awake, troubled, maxSpeed>>
      BY <1>0, <1>11 DEF Transfer, Continue, slot, driver
    <2>2. Undisturbed' => Undisturbed
      BY <2>1 DEF Undisturbed, Deceived, Rates
    <2>3. CASE call = "DiskInit"
      <3>1. Undisturbed' => maxSpeed' \in Speeds /\ FasterFail'
        BY <1>s, <1>k, <2>1, <2>2, <2>3
      <3>2. QED
        BY <2>1, <2>3, <3>1, SearchStep
    <2>4. CASE call # "DiskInit"
      BY <1>0, <1>f, <2>1, <2>4
    <2>5. QED
      BY <2>3, <2>4
  <1>12. ASSUME UseScreen \/ UseRam \/ GetKeys \/ UNCHANGED vars PROVE BestInv'
    <2>1. /\ UNCHANGED <<call, at, maxSpeed, card, seen, state, awake, troubled, settled>>
          /\ call # "none" => UNCHANGED bus
      BY <1>12 DEF UseScreen, UseRam, UseBus, GetKeys, vars, slot, driver, outcome
    <2>2. QED
      BY <2>1, SearchRests
  <1>13. ASSUME NEW c \in Cards \cup {NoCard}, Swap(c) PROVE BestInv'
    <2>1. ~Undisturbed' /\ UNCHANGED <<call, at>>
      BY <1>13 DEF Swap, Undisturbed
    <2>2. QED
      BY <1>0, <2>1, SearchStep, SearchEnds, NoSearch
  <1>14. ASSUME PowerCycle PROVE BestInv'
    BY <1>14, NoSearch DEF PowerCycle
  <1>15. QED
    BY <1>1, <1>2, <1>3, <1>4, <1>5, <1>6, <1>7, <1>8, <1>9, <1>10, <1>11, <1>12, <1>13, <1>14
    DEF Next, Step

(* disk_init mounts a good card, and at the best clock that it has for it.   *)
THEOREM BestClockFound == Spec => []SettlesOnBest
  <1>1. Init => BestInv
    BY DEF Init, BestInv, SearchInv, OnlyInitProbes, SettlesOnBest
  <1>2. BestInv => SettlesOnBest
    BY DEF BestInv
  <1>3. QED
    BY <1>1, <1>2, BestKept, CardInvariant, PTL DEF Spec
=============================================================================
