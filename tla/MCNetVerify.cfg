\* Any cut of the stream; connections and the card may fail, the user runs apps and resets.
CONSTANTS
  Items <- MCItems
  Controls <- MCControls
  Numeral <- MCNumeral
  Names <- MCNames
  Segments <- NoSegments
  Contents <- OldFile
  Cmds = {"put"}
  File <- NewFile
  Name = "f"
  Size = "3"
  Mode = "1"
  Unit = 1
  Missing = Missing
  Free = Free
  Zero = "nul"
  WordSize = 2
  ChunkSize = 2
  NetbufSize = 20
  MaxDeferred = 3
  MaxLeases = 1
  MaxSending = 2
  MaxOut = 4
  UserActive = TRUE
  Errors = TRUE
  Faults = TRUE
SPECIFICATION NetSpec
INVARIANTS VerifiedMeansStored
CHECK_DEADLOCK FALSE
