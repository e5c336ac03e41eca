CONSTANTS
  MaxAttempts = 2
  Replicas = {d1, d2, d3}
  MaxBlock = 2
  MaxChunk = 2
  MaxRetries = 2
  Controls = {k1, k2}
  Tasks = {t1}
  MaxFaults = 2
  Nodes = {n1, n2}
  Transfers = {x1, x2}
  Units = 4
  Weights = {1, 2, 4}
  MaxOps = 1
  Parts = {1, 2}
  Streams = {s1, s2}
  ReadHandles = {h1}
  Faults = {"restart", "remove"}
  MaxHandles = 1
  MaxLocks = 3
  MaxWrites = 2
  MaxRoots = 2
  MaxFiles = 1
  MaxReads = 1
  MaxBlocks = 1
  BlockSize = 2
  Ranges <- FirstByte
  UploadSizes = {2}
  Preload = 1
  AccessFaults = {"reboot", "restart", "remove"}
  Modes = {"R+"}
  LockTTL = 2
  HandleTTL = 2
  HandleMax = 3
  UploadTTL = 2
  UploadMax = 3
  Threads = {th1, th2}
  MaxTx = 2
  Leases = {l1, l2}
  NoLease = NoLease
  LeaseTTL = 1
  Endpoints = 1
  MaxOwners = 0
SPECIFICATION PartsSpec
CHECK_DEADLOCK FALSE
INVARIANTS PartsTypeOK ToldTrue
PROPERTIES LeadersApart BlocksStay CallsEnd HoldingsEnd FailedUploadsReclaimed
