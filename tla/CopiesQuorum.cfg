CONSTANTS
  Nodes = {n1, n2, n3}
  R = 3
  W = 2
  MaxTasks = 3
  MaxFaults = 1
  MaxCorrupt = 1
  NoNode = NoNode
  Faults = {"reboot"}
  RandomIds = FALSE
SPECIFICATION Spec
SYMMETRY Symmetry
CHECK_DEADLOCK FALSE
INVARIANTS CommittedSurvives
