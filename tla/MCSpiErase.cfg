\* Two whole blocks and one sector of the third; every start and every size.
CONSTANTS
  NumSectors = 9
  SectorUnits = 2
  SectorsPerBlock = 4
  Images = {old}
  Blank = Blank
  Mixed = Mixed
  FlashFails = FALSE
SPECIFICATION EraseSpec
INVARIANTS AreaErased
PROPERTIES OutsideUntouched
