CONSTANTS
  Makers = {m1, m2}
  Hosts = {va, vb}
  Slots = {va, vb}
  NoOne = NoOne
  MaxEpochs = 1
  MaxDays = 1
  PrefixFits = FALSE
SPECIFICATION DeploymentSpec
CHECK_DEADLOCK FALSE
INVARIANT ImportNotRefused
