\* Every command but PUT; connections, sends and reads may fail.
CONSTANTS
  Items <- MCItems
  Controls <- MCControls
  Numeral <- MCNumeral
  Names <- MCNames
  Missing = Missing
  Free = Free
  Zero = "nul"
  WordSize = 2
  Contents <- OneFile
  Segments <- GetSegments
  NetbufSize = 9
  ChunkSize = 1
  MaxDeferred = 2
  MaxLeases = 2
  MaxSending = 2
  MaxOut = 3
  UserActive = TRUE
  Errors = TRUE
  Faults = TRUE
SPECIFICATION FairSpec
INVARIANTS GetInOrder
PROPERTIES CloseHappens KeepsTrying
