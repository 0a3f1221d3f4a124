\* Whole headers of PUT; connections and the card may fail.
CONSTANTS
  Items <- MCItems
  Controls <- MCControls
  Numeral <- MCNumeral
  Names <- MCNames
  Missing = Missing
  Free = Free
  Zero = "nul"
  WordSize = 2
  Contents <- NoFile
  Segments <- PutSegments
  NetbufSize = 16
  ChunkSize = 1
  MaxDeferred = 2
  MaxLeases = 1
  MaxSending = 2
  MaxOut = 2
  UserActive = TRUE
  Errors = TRUE
  Faults = TRUE
SPECIFICATION Spec
INVARIANTS PutBounded
PROPERTIES AckedFrozen OkWhenComplete
