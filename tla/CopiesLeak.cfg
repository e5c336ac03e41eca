CONSTANTS
  Nodes = {n1, n2}
  R = 2
  W = 1
  MaxTasks = 4
  MaxFaults = 1
  MaxCorrupt = 0
  NoNode = NoNode
  Faults = {"reboot"}
  RandomIds = FALSE
SPECIFICATION FairSpec
CHECK_DEADLOCK FALSE
PROPERTIES RetiredGone
