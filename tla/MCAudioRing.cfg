\* The interrupt is taken at once, but for the time a map is written.
CONSTANTS
  BufCnt = 4
  Block = 2
  AudioSize = 5
  Silence = Silence
  Torn = Torn
  SleepsPerBuffer = 2
  MaskedLoads = TRUE
SPECIFICATION FairSpec
INVARIANTS UnderrunCounted LoadsInSilence
PROPERTIES ImplementsQueue SilenceEnds
