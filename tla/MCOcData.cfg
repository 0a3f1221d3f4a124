\* Cards that fail and losses of power anywhere, for files of one to three sectors.
CONSTANTS
  Letters = {"a", "b", "c"}
  Digits = {"1", "2"}
  Files <- MCFiles
  Stored <- MCStored
  Values <- MCValues
  Names <- MCNames
  Missing = Missing
  Magic = Magic
  Blank = Blank
  Torn = Torn
  Default = Default
  MaxEdits = 1
  CardFails = TRUE
  Bytes = {"x", "y", "z"}
  Versions <- MCVersions
  Sizes = {5, 20}
  WordCells = 2
  PartCells = 2
  SectorCells = 4
  BufSectors = 2
  NumSectors = 5
  Base = 1
  Foreign = Foreign
  FF = FF
  Garbled = Garbled
  MaxMishaps = 2
  ReadFails = TRUE
SPECIFICATION Spec
INVARIANTS HeaderMeansWhole KeptSomewhere InForce LoadedWhole
PROPERTIES OnlyItsSectors
