CONSTANTS
  Nodes = {n1, n2}
  R = 2
  W = 1
  MaxTasks = 3
  MaxFaults = 1
  MaxCorrupt = 0
  NoNode = NoNode
  Faults = {"reboot", "restart", "silence", "expire"}
  RandomIds = FALSE
SPECIFICATION FairSpec
CHECK_DEADLOCK FALSE
INVARIANTS CopiesCounted
PROPERTIES CopiesSettle
