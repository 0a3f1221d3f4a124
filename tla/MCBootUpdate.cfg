\* Every order of commands, resets, losses of power and failing devices, up to
\* two mishaps.
CONSTANTS
  NumSectors = 9
  SectorUnits = 2
  SectorsPerBlock = 2
  Images <- BootImages
  Blank = Blank
  Mixed = Mixed
  FlashFails = TRUE
  Base <- BootBase
  Span <- BootSpan
  Lengths <- BootLengths
  ChunkSectors = 2
  Old = Old
  MaxMishaps = 2
  MaxPending = 1
SPECIFICATION FairSpec
INVARIANTS CarriedOutOnce UpdateInstalled
PROPERTIES InItsArea RescuedByY
