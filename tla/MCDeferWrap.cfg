\* The tick returns to 0 in the middle of the run; the walks are fair.
CONSTANTS
  Jobs = {j1, j2, j3}
  Delays = {1}
  Intervals = {0, 2}
  MaxDeferred = 2
  Free = Free
  TickPeriod = 3
  Horizon = 4
SPECIFICATION FairSpec
INVARIANTS NeverEarly NoEntryLost
PROPERTIES ImplementsTimers DueIsCalled
