\* What esp-flasher says of the sectors it skips.
CONSTANTS
  MaxSize = 11
  Group = 4
  MaxPieces = 1
  Block = 16
  Bases = {0, 11, 14}
SPECIFICATION Spec
INVARIANTS OnlySameSkipped
CHECK_DEADLOCK FALSE
