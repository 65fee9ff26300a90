CONSTANTS
  Nodes = {"n1"}
  DataTimeout = 2
  StatusTimeout = 4
  StatusPeriod = 3
  MaxInbox = 2
  MaxCommands = 2
SPECIFICATION Spec
INVARIANT
  AsleepCountsOnline
