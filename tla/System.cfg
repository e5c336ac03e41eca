CONSTANTS
  Workers = {w1, w2}
  Logins = {r1, r2}
  MaxCalls = 1
  MaxSessions = 2
  AuthSlots = 1
  SessionLimit = 1
  MaxRevision = 3
  BlockBytes = 4
  ChunkBytes = 2
  MaxParts = 3
  MaxFile = 9
  MaxDelta = 8
  MaxRange = 5
  PlanLimit = 2
  MaxTries = 3
  Versions = {v1, v2}
  MaxPolicy = 3
  Sources = {q1, q2}
  Runs = {m1, m2}
  MaxRecords = 1
  MaxNodes = 4
  MaxNames = 2
  MaxDepth = 2
  MaxUploads = 1
  PageLimit = 1
  Objects = {o1, o2}
  Capacity = 1
  MaxReceipts = 3
  MaxMishaps = 2
  KeyNodes = {kn1, kn2}
  ContentKeys = {k0, k1}
  BootKey = k0
  NeedRunning = 1
  MaxBoots = 4
  LabVersions = {v1, v2}
  NoVersion = NoVersion
  MaxBackups = 2
  MaxStarts = 3
  MaxKills = 2
  Admin = adm
  People = {p1, p2}
  Owner = p1
  Team = team
  MaxFiles = 2
  MaxBumps = 3
  MaxEdits = 2
  EtcdCount = 2
  ControlCount = 1
  NodeCount = 2
  MaxRuns = 2
  MaxTroubles = 3
  MaxEtcdRevision = 4
  Endpoints = 2
  Plain = {n1}
  Handles = {h1}
  Registered = {d1}
  Threads = {w1, w2}
  MaxUnits = 2
  MaxUnitOps = 2
  MaxLeases = 3
  MaxGuards = 1
  Makers = {m1, m2}
  Hosts = {va}
  Slots = {va, vb}
  NoOne = NoOne
  MaxEpochs = 2
  MaxDays = 2
  PrefixFits = TRUE
SPECIFICATION SystemSpec
CHECK_DEADLOCK FALSE
INVARIANTS
  SystemTypeOK WriteExact OneReceipt PromotedDurable NothingLost WithinCapacity KeysEverywhere RestoredWhole
  OneWriter WatchComplete UnitExact DeploymentSound
PROPERTIES RequestsSound NamesConsistent RightsCurrent LabKept
