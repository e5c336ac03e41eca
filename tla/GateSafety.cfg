CONSTANTS
  Threads = {t1, t2}
  MaxTx = 2
  Leases = {l1, l2}
  NoLease = NoLease
  LeaseTTL = 1
  Endpoints = 2
  MaxOwners = 1
  Pages = {p1, p2}
  FirstTree = {p1}
  Imported = {p2}
  Authors = {a1}
  MaxPageTx = 3
SPECIFICATION MetadataSpec
SYMMETRY Symmetry
INVARIANTS TypeOK AtMostOnce CommittedIsPublished PagesKept
PROPERTIES ConflictIsTrue PublishesAtomically
