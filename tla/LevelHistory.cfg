CONSTANTS
  TopLevel = 2
  Levels = {0, 2}
  HISTORY_SIZE = 2
  MaxClock = 4
  MaxSamples = 5
SPECIFICATION HistorySpec
INVARIANTS
  HistoryTypeOK
  HistoryExact
