\* Every set of sectors that differ; two calls with three sectors over a line that loses two requests.
CONSTANTS
  MaxSize = 11
  Group = 4
  MaxPieces = 1
  Block = 16
  Bases = {0, 11, 14}
  Data = {"a", "b", "c"}
  Calls <- MCCalls
  NumSectors = 5
  Attempts = 2
  Rounds = 1
  MaxAnswers = 2
  BufCells = 14
  Blank = Blank
  MaxFaults = 2
SPECIFICATION EspSpec
INVARIANTS LeftOutBehindPiece ErasedAndWritten DoneMeansFlashed
PROPERTIES FlasherEnds
CHECK_DEADLOCK FALSE
