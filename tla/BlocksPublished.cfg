CONSTANTS
  MaxOps = 1
  Parts = {1}
  Streams = {s1}
  ReadHandles = {}
  Faults = {}
SPECIFICATION Spec
INVARIANTS PublishedOnDisk
