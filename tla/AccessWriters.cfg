CONSTANTS
  MaxHandles = 2
  MaxLocks = 3
  MaxOps = 3
  MaxRoots = 3
  MaxFiles = 1
  MaxReads = 0
  MaxBlocks = 2
  BlockSize = 1
  Ranges <- EitherBlock
  UploadSizes = {}
  Preload = 1
  Faults = {"reboot"}
  Modes = {"R+"}
  LockTTL = 1
  HandleTTL = 2
  HandleMax = 2
  UploadTTL = 1
  UploadMax = 1
  DataNodes = {n1, n2}
  Blocks = {b1}
  Room = 1
  MaxCopies = 1
  MaxChanges = 1
  MaxTroubles = 1
  Nowhere = Nowhere
SPECIFICATION ContentSpec
SYMMETRY Symmetry
INVARIANTS LockExclusion WritesMerged WriteOwnsHandle PlacementSound
PROPERTIES LockedContentStable
