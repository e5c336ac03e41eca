CONSTANTS
  MaxHandles = 2
  MaxLocks = 2
  MaxOps = 2
  MaxRoots = 3
  MaxFiles = 2
  MaxReads = 1
  MaxBlocks = 1
  BlockSize = 2
  Ranges <- FirstByte
  UploadSizes = {1}
  Preload = 0
  Faults = {"remove", "restart", "reboot"}
  Modes = {"W+", "R"}
  LockTTL = 1
  HandleTTL = 1
  HandleMax = 1
  UploadTTL = 1
  UploadMax = 1
  Terminals = {sh1, cmd1}
  Shells = {sh1}
  MaxPlaces = 2
  MaxLogins = 2
  MaxOpens = 1
  MaxKeysMade = 1
SPECIFICATION AccessSpec
INVARIANTS OneContent PinnedSnapshotsExist ShellTrue
