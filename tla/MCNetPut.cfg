\* Every command, in segments of three bytes or multiples of it, two leases, fair scheduling; nothing fails.
CONSTANTS
  Items <- MCItems
  Controls <- MCControls
  Numeral <- MCNumeral
  Names <- MCNames
  Segments <- NoSegments
  Contents <- OtherFile
  Cmds <- AllCmds
  File <- NewFile
  Name = "f"
  Size = "3"
  Mode = "1"
  Unit = 3
  Missing = Missing
  Free = Free
  Zero = "nul"
  WordSize = 2
  ChunkSize = 2
  NetbufSize = 20
  MaxDeferred = 3
  MaxLeases = 2
  MaxSending = 2
  MaxOut = 4
  UserActive = FALSE
  Errors = FALSE
  Faults = FALSE
SPECIFICATION NetFairSpec
INVARIANTS OkMeansStored HandleOwned FetchedWhole
PROPERTIES ToolEnds
CHECK_DEADLOCK FALSE
