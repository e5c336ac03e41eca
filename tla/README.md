# A TLA+ model of DFSha

DFSha (`src/src/dfsha/`, with its scripts under `src/scripts/` and
`src/deploy/`) is a distributed file system written in Python: control processes
keep metadata, DataNodes keep encrypted blocks, and clients open, lock, read,
write and upload files through them.  This directory holds TLA+ modules for its
parts, TLC configurations that check them on small instances, and TLAPS proofs
of the properties that matter most for every instance.  `PROJECT.json` gives,
for every definition that models code, the lines it was translated from.

Contents: [1 the system](#1-the-system), [2 modules and the code](#2-modules-and-the-code),
[3 what is checked](#3-what-is-checked), [4 what is proved](#4-what-is-proved),
[5 disagreements with the documentation](#5-disagreements-with-the-documentation),
[6 what is not modelled](#6-what-is-not-modelled), [7 plan](#7-plan).

## 1 The system

### Profiles

The same handlers run in several profiles, each a subclass of the one before:

| profile | class | metadata | blocks |
|---|---|---|---|
| H1, one process | `Monolith` | SQLite | local block store |
| E4, distributed | `DistributedControl` | SQLite | DataNodes, one copy |
| E5, RF3 access | with `AccessCommands` | SQLite | + handles, range locks, copy-on-write patches |
| E6, replicated | `ReplicatedControl` | SQLite | R = 3 copies, W = 2 to be durable, repair, scrub |
| E7, high availability | `HAControl` | etcd | three active controls, leases in etcd, one maintenance leader |
| E8, protected | the same with limits | etcd | encryption, rates, quotas |

### Components

| component | state it keeps | hard behaviours | what makes it correct |
|---|---|---|---|
| RF3 access authority (`access.py`, `leases.py`, `patch_authority.py`) | handles, locks with fencing generations, write operations, snapshots | leases run out between the requests of one write; writes to disjoint ranges merge; a truncation races with open handles | locks exclude, no committed write is lost, truncated content does not come back |
| upload pipeline (`commands.py`, `monolith.py`) | operations, allocations, manifest pages | data moves outside any transaction; deadlines | the published manifest consists of stored blocks |
| block store and collection (`blocks.py`, each `collect`) | files, staging files, pins | the decision to delete is older than the deletion | nothing live is deleted, nothing dead is kept |
| etcd unit of work (`etcd_metadata.py`, `failover.py`) | gate key, root key, markers, leases, immutable pages, page caches | requests repeated, delayed or lost; a lease runs out at any point; pages collected offline | publications are atomic, happen once, answers are true, a root's pages exist |
| node registry, placement, reports (`distributed.py`) | datanode records, locations, tasks | reports that are out of date; reboots; nodes put out of service | the control's view never promises what a disk does not hold |
| replication (`replication.py`) | durability, retirements, tasks, scrub, policies | a thread that works step by step while nodes crash and answer late | committed content survives, is repaired, and retired content is reclaimed |
| DataNode (`datanode/`) | files, inventory, ledgers, quarantine, space | a crash between the file and its record; repeated patches; jobs that share the space | one receipt per patch, capacity kept |
| HA control (`ha.py`) | leader key, generations | a replaced leader that goes on working | only the leader's steps take effect |
| root watch (`etcd_watch.py`) | the revision it has seen | cancelled streams, compaction | no change of the root is missed |
| namespace, sessions, ACL (`commands.py`, `queries.py`, `auth.py`) | tree, sessions, groups, policies | login against revocation; listings over several pages; rights that change under an open handle | unique names, no effect after revocation, rights of the moment |
| idempotency ledger, client SDK (`monolith.py`, `client/`) | ledger records, client handles | the outcome of a commit whose answer was lost | effects happen once, what is reported is true |
| command line (`cli.py`, `state.py`) | a state file, a key file | several processes on one file | a command acts where its user is |
| local admission (`local.py`) | weighted slots | circular waits | units conserved, every transfer ends |
| migration (`migration.py`) | the authority marker, the staging root | a death between any two steps; two runs at once | nothing is lost, one run activates |
| processes, laboratory, key rotation, backup, cloud deployment (`server.py`, `scripts/`, `deploy/`) | lock, ready and stop files, configurations, archives, markers | scripts die half way and are run again | see the properties below |

### How the parts interact

Clients call a control; every handler that changes metadata runs in one write
transaction of the store (SQLite `BEGIN IMMEDIATE`, or the etcd gate).  Clients
then move data with a DataNode, which asks the control to authorize it, works on
its disk with no transaction open, and reports the durable receipt to the
control.  A maintenance loop in the control (the leader, in E7) runs `tick()`
for ever: it collects, scrubs, plans repairs, cleans and sends tasks to
DataNodes.  DataNodes register, send their inventory, and heartbeat.  So a
handler is atomic, and everything that needs two handlers, or a handler and a
disk, is not; this is where the models put their interleavings.

The list `hazards` of `PROJECT.json` names each place in the code where this
can go wrong, with the property that watches it.

## 2 Modules and the code

| module | models |
|---|---|
| `FileAccess` | the RF3 access authority for one path: every handler of `AccessCommands` |
| `RangeWrite` | the bytes of one write: parts, plan, assembly on the DataNode, merge, and a read back |
| `PatchCall` | the calls to PatchBlock of one write: authorization, pin, ledger, file, record, report |
| `BlockGC` | uploads, data streams and the collector of the one-process profile |
| `MetadataGate`, `AtomicPublication` | the write transaction of the etcd store, and what either store promises |
| `PageStore` | the pages under the root, the caches of the controls, the offline collector |
| `MetaUnit` | one unit of work on etcd and on SQLite side by side, with the lease keys |
| `Cluster` | the E4 control and its DataNodes: placement, reports, copies, retirement |
| `Replication`, `Promotion` | the copies of one block version in E6; the promotion of a file's policy |
| `Maintenance` | election of the leader, generations, tasks |
| `Volume`, `Admission`, `Keys`, `Processes` | a DataNode's disk and space, its transfer units, its keys, its process |
| `Sessions`, `Permissions`, `Namespace` | login and the ledger; groups and policies; the tree and its listing |
| `ClientCommit`, `ClientRead`, `Client` | the SDK's outcome of a commit, its reads, and both side by side |
| `Shell` | the command line |
| `RootWatch`, `Migration` | the watch of the root; SQLite to etcd |
| `Recovery`, `Laboratory`, `Deployment` | backup and restoration, the laboratory's supervisor, the cloud installation |
| `MCFileAccess`, `MCAccess`, `MCMetadata`, `MCReplication`, `MCContent`, `MCParts`, `MCSystem` | instances for TLC |
| `FileAccessProofs`, `FileContentProofs`, `MetadataGateProofs`, `PageStoreProofs`, `NodeProofs`, `ControlProofs`, `SiteProofs`, `ReplicationProofs` | the theorems |

Definitions whose comment begins with "Mutant" are not part of the model: each
is a plausible mistake in the definition below it, and `PROJECT.json` says which
property it breaks.

Each handler is one action where it is one transaction; a refused request rolls
back and is therefore the negation of a guard.  Where a handler is several
transactions, or works on a disk or a file between them, it is several actions
and anything may come between.  The notes below say what is particular.

**FileAccess.**  State: `files` (node records), `snapshots` (one per manifest
root: content epoch, version, size, manifest), `handles`, `locks`, `ops` (writes
and uploads), `reads`, and `seq` (the last identifier of each kind).  Time is two
actions: `TickLease` for the monotonic leases of handles and locks, `TickWall`
for the deadlines of operations, which are kept in different clocks in the code.
`DataNodeReboot` aborts writes without releasing them, as `RegisterNode` does;
`Collect` releases them later.  Block contents are the operation that wrote
them; a lock is named by its fencing generation.

**RangeWrite, PatchCall.**  `RangeWrite` has bytes: blocks of 4, chunks of 2,
and all ranges over files of up to 9, so that every position of a block, chunk
and part boundary occurs.  `MaxDelta` is `(MaxParts - 1) * BlockBytes`, the
relation that 16 MiB, 4 MiB and five parts have in the code.

**MetadataGate, PageStore, MetaUnit.**  Three views of one transaction.  In
`MetadataGate` etcd holds `gate`, `root`, `key`, `markers`, `lease`; requests
on their way are `net`; an attempt that timed out may have been applied, may be
applied later, or never.  The content of the root is the set of transactions in
it.  `key` stands for the lease-backed keys whose value a transaction must still
find (`required_guards`).  In `PageStore` a tree is a set of pages, and every
request (for the gate, a publication, a deletion) is applied late, twice or
never.  Since the clean-up of a transaction does not take back an attempt to
acquire its gate that is still on its way, a value of the gate can come back;
the history variables `had`, `again` and `late` say when it did and whether
something was applied under it.  In `MetaUnit` a
unit puts, reads and deletes records over a root it has read, and the same calls
are made on a table.

**Cluster, Replication.**  `Replication` follows one block version in full: the
control (`op`, records, tombstone, `locations`, durability `history`,
`registry`, `tasks`, `retirement`), the maintenance thread (`maint`, one step
per transaction or remote call in the order of `tick()`), the nodes (`disk`,
inventory receipts `stored`, `boot`, `link` with the inventory as it was read,
`put`, `jobs`, `outcome`).  A task request that was sent can be delivered at any
later time, and more than once.  Task identifiers are random in the code;
`RandomIds = FALSE` gives them in creation order, which is one of the orders the
code can draw.  Other versions meet this one only through capacity and the
dispatch slot.  Which copies are due (backoff) is left open.

**The sums.**  `MCParts`, `MCSystem`, `MCAccess`, `MCContent` and `MCMetadata` put
components side by side that share no state in the model; a behaviour moves one
of them, chosen at the start, so nothing is multiplied and nothing is hidden: a
property of a part is checked on all behaviours of that part.  TLC takes such a
next-state relation for one action, so that the steps of a part that do happen
are to be read in its coverage of the part's own definitions.  By that coverage
every action of every part happens.  Three branches never do, all of them the
code's own precautions: `ReadTree` finds a page missing (by the exception in
`PagesKept` only, one transaction beyond the run's three), `InstallPublish` finds its own generation already published, and
`SetActive` misses the file of a key that its node has loaded.

**ClientCommit.**  A resumed write asks for the state of its operation first; if
that query fails, or the BeginWrite that repeats the original one does, the
caller gets the plain error (outcome `error`) without the look and the abort of
`_finish_write`, and may call again.

**Maintenance.**  Tasks of any generation fail in the tick of a leader, and by
`DisableNode`, which every control serves (`SetNodeAuthorization`).

**Permissions.**  A file is removed and made again under its name; `held` is a
policy that was read, with the revision it was read at, and SetAcl compares only
this revision with that of what the path leads to at that time.

**Laboratory.**  The supervisor launches every etcd member and then asks the
cluster for its status, which orphan members answer too; only a status that
fails makes it look at its own processes.  A DataNode or control beside an orphan
ends at once, for the lock is taken, and the start fails unless the orphan writes
its ready file just then and is taken for it.  The two kinds of
backup stop controls and DataNodes in opposite orders.  A failure or an interrupt
is possible in every phase up to the end of the main loop.

**Migration.**  The transaction that activates the root may have been applied
though its repetition was refused (step `failed`), or though no answer came (step
`lost`), and may then be applied later.

**Deployment** follows scripts typed by operators, one command at a time on a
machine.  `PrefixFits` says whether the etcd prefix that was rendered is one
that the store accepts; it is FALSE for what the scripts write (`cloud_import`)
and TRUE in `system`, where the operator has corrected the prefix by hand, so
that everything after the import is explored.

## 3 What is checked

| run | question | instance |
|---|---|---|
| `access_writers` | do two writers of one file, with locks, growth, commits, aborts, expiries and a reboot, lose anything? does the E4 control know where content is? | 2 handles in r+, 3 locks, 3 operations, 2 blocks; 2 nodes, each disabled at first or not, 1 block, 1 change of policy, 1 trouble |
| `content` | do truncating opens, creations, uploads, removals, reboots, restarts and collections on one path keep snapshots and names right? do command lines act where their users are? | 2 handles (W+, R), 2 files, 3 manifests, 2 operations; a shell and a command, 2 sessions, 2 identities of a directory, 1 handle, 1 key |
| `gate_safety` | is the publication atomic and at most once, are commits and conflicts reported truly? are a root's pages stored? | 2 threads, 2 transactions, 2 leases, 2 endpoints, 1 owner; 2 pages, 1 author and the collector, 3 transactions |
| `parts` | does everything end that must: calls, transfers, leases, failed uploads, leaders? | one instance per part, see `Parts.cfg` |
| `system` | the safety of fifteen parts that share no state | see `System.cfg` |
| `copies_faults` | does the control's view stay true through any one fault, and is committed content repaired, and retired content reclaimed while nothing fails? | 2 nodes, R = 2, W = 1, 3 tasks |
| `copies_quorum` | does committed content survive under R = 3, W = 2? | 3 nodes, 1 reboot, 1 rotten file |
| `upload_outcome`, `resumed_write`, `cloud_import`, `blocks_published`, `copies_leak` | *violated*: see section 5 | |

The properties, in words:

- `access_writers`.  `LockExclusion`: live locks of different owners on one file
  do not conflict.  `LockedContentStable`: what a live lock covers is published
  only by its owner.  `WritesMerged`: the blocks of a committed write are in the
  published content or were replaced by a committed write that had read them, no
  two committed writes started from the same block or the same size, and growth
  and patches leave no hole.  `WriteOwnsHandle`: from BeginWrite to its outcome
  nothing slips in on its handle or its locks.
  `PlacementSound`: committed content is in the file and the inventory of the
  node it was placed on, and the control knows, though nodes are disabled.
- `content`.  `OneContent`: creators of a path race and one wins; truncated or
  overwritten content does not come back through an old handle.
  `PinnedSnapshotsExist`: collection spares what files publish and handles read.
  `ShellTrue`: a command acts in the directory and on the handle it is for, and no
  key is made beside a state that another key has sealed.
- `gate_safety`.  `PublishesAtomically`: the gate refines `AtomicPublication`.
  `AtMostOnce`, `CommittedIsPublished`: repetitions publish once, an answer
  "committed" is true.  `ConflictIsTrue`: a caller whose lease lives hears of a
  conflict only if nothing of it was published and its ownership key has changed,
  and what was told a conflict and is not published by then never is.
  `PagesKept`: every page a root names is stored, unless something was applied
  under a value that a late acquisition had given back to the gate; the staged
  root's pages always are.
- `parts`.  `ToldTrue`: what the SDK reports of commits and reads is so.
  The plain error of a resumed write says nothing, and the property claims
  nothing of it.  `LeadersApart`: generations have one owner; of what a deposed
  leader ordered, an active task may still fail and nothing else changes.
  `BlocksStay`: the collector deletes neither receipts nor files that count, with
  the exception that `blocks_published` exhibits.  `CallsEnd`, `HoldingsEnd`,
  `FailedUploadsReclaimed`: calls and transfers end, what a vanished client or
  writer held is freed, a leader is found, files of failed uploads are deleted.
- `system`.  `WriteExact` (bytes of a write), `OneReceipt` (patches),
  `PromotedDurable` (promotion), `NothingLost` (migration), `WithinCapacity`
  (volume), `KeysEverywhere` (rotation), `RestoredWhole` (backup), `OneWriter`
  (processes), `WatchComplete` (root watch),
  `UnitExact` (units of work), `DeploymentSound` (deployment), `RequestsSound`
  (sessions and ledger), `NamesConsistent` (tree and listing), `RightsCurrent`
  (policies), `LabKept` (laboratory): each is stated in its module.
- `copies_*`.  `CopiesCounted`: a copy that the control counts and reads from is
  a recorded file at its node, and nothing reported late gives a retired version
  a location.  `CommittedSurvives`: committed content has a good copy while fewer
  than W files rot.  `CopiesSettle`: repair up to R, and reclamation.

For every property of every passing run a mutant of a translated definition
violates it: the properties are not true of just any model of this shape.

### Bounds

Identifiers are drawn from bounded counters, so every run is finite; each bound
is a constant of its module.  They are chosen so that the case that matters can
happen: two writers and a third lock, so that a lock is taken over after it ran
out while its old owner still commits; three manifests, so that a truncation
lies between a write's base and its commit; two endpoints, so that the same
request is repeated once and both copies are applied in any order; leases of one
tick, so that they can run out between any two steps, and of two or three where
renewal matters; one ownership key, whose expiry leaves a transaction with as
stale a guard as a replacement would; three transactions on pages, so that a
root is replaced, a publication stays on its way, and the collector deletes what
it names before its gate value comes back; two supervisors of a laboratory, so
that the second meets the orphans of the first; changes enough that a file made
again has the revision of the one before it; two blocks, so that writes are disjoint or equal and
one of them grows the file (ranges that overlap in part are left to the proofs); three or four tasks, so that a copy fails, is
planned again, finishes late, and is then deleted; two sources and two runs of
the migration, so that they mix in the staging root; two keys and four boots, so
that a rotation overlaps restarts; capacity for one file of two objects, so that
jobs compete for the last unit; four etcd revisions, so that a stream falls
behind a compaction and reconnects.  `copies_quorum` has the numbers of the E6
policy.  The parts that are proved (section 4) do not rest on these bounds.

`CHECK_DEADLOCK FALSE` stands where a behaviour may end: `Replication` when its
tasks are used up (`CopiesSettle` claims nothing then), a client's call when it
is answered, a migration, a restoration or an installation when it is done, and
the sums of which one part ends.  `access_writers`, `content` and `gate_safety`
check for deadlock (in `content` of the access authority; a command line whose
keys are used up rests).  Symmetry is used only in runs without a liveness property.

### Fairness

- `FileAccess`: weak fairness of `Collect`, `TickLease` and `TickWall`: the
  maintenance loop of the server calls `collect()` every few seconds, and time
  passes.  Clients owe nothing; they may renew as long as the code lets them.
- `MetadataGate`: weak fairness of `Tick` only: leases run out unless kept
  alive.  Threads and requests may stop for ever.
- `BlockGC`: weak fairness of the two halves of the collector, of the end of
  each stream (they have a deadline), and of the expiry of each upload (renewal
  has a maximum).
- `ClientCommit`, `ClientRead`: weak fairness of the client's own thread; each
  call it waits for ends by its deadline.
- `Admission`: weak fairness of a transfer's wait (it gets its units or times
  out after five seconds) and of its end (streams have a deadline).
- `Maintenance`: weak fairness of each control's loop and of the end of a lease
  nobody keeps alive; faults are bounded and have no fairness.
- `Replication`: weak fairness of the maintenance thread as a whole and of each
  node's `maintain()` loop and accepted jobs.  Strong fairness where the code
  retries after a backoff: planning, cleaning and sending a task (`Retried`),
  and a deletion that meets a pin.  Reboots, lost answers and rot have none.

## 4 What is proved

TLAPS checks the theorems below for every value of the constants that the named
assumptions allow.  The assumptions say that bounds are naturals, that leases
last at least a tick, that files have at least one block, that there is a window
and a directory to begin with (`DeploymentAssumption`, `ShellAssumption`), that
clients' ranges lie within the longest file, that markers such as `NoLease` are
not members of the sets they mark the absence from, that a DataNode has finitely
many objects (`VolumeAssumption`), that there are finitely many DataNodes
(`NodesAssumption`), controls (`FaultsAssumption`) and records with a lease, no
more of them than leases the model may grant (`UnitAssumption`), and that no run
of migrate is called "nobody" or "control" (`RecordsAssumption`).  TLC evaluates
each of them.

| theorem | states | of |
|---|---|---|
| `FileAccessProofs!TypeCorrect`, `Exclusion` | `TypeOK`, `LockExclusion` | access authority |
| `FileContentProofs!Pinned`, `HandleOwned`, `Content`, `Merged`, `Locked` | `PinnedSnapshotsExist`, `WriteOwnsHandle`, `OneContent`, `WritesMerged`, `LockedContentStable` | access authority |
| `MetadataGateProofs!GateTypes`, `PublishedAtMostOnce`, `CommittedIsTrue`, `ConflictsAreTrue`, `ImplementsAtomicPublication` | `TypeOK`, `AtMostOnce`, `CommittedIsPublished`, `ConflictIsTrue`, `PublishesAtomically` | etcd unit of work |
| `MetadataGateProofs!ClientToldTruth` | `ToldTrue` | client SDK |
| `PageStoreProofs!RootsWhole`, `PlacedContentStays` | `PagesKept`, `PlacementSound` | metadata pages, E4 cluster |
| `ReplicationProofs!CountedCopiesExist`, `CommittedContentSurvives` | `CopiesCounted`, `CommittedSurvives` | replication |
| `NodeProofs!VolumeOwned`, `BlocksReadable`, `PatchOnce`, `CapacityKept` | `OneWriter`, `KeysEverywhere`, `OneReceipt`, `WithinCapacity` | DataNode |
| `ControlProofs!ProtectionKept`, `MigrationSafe`, `RootChangesSeen`, `UnitsAreTransactions` | `PromotedDurable`, `NothingLost`, `WatchComplete`, `UnitExact` | control and its stores |
| `ControlProofs!RequestsHandled`, `RightsAreCurrent`, `TreeStaysConsistent` | `RequestsSound`, `RightsCurrent`, `NamesConsistent` | sessions, policies, namespace |
| `SiteProofs!CommandsTrue`, `DeploymentKept`, `RestoredComplete`, `LaboratoryKept` | `ShellTrue`, `DeploymentSound`, `RestoredWhole`, `LabKept` | command line, installation, backup and restoration, laboratory |
| `SiteProofs!LeadersStayApart`, `CollectorSpares` | `LeadersApart`, `BlocksStay` | maintenance leader, collector of blocks |

None of these properties is inductive.  Each proof states the invariant it
needs (the theorems `...Correct` say that the specification keeps it), shows
that the initial state has it and, in a lemma per action or group of actions,
that every step keeps it.

- **Types and exclusion of `FileAccess`.**  A new snapshot takes its version and
  epoch from the current snapshot of a file that a handle or an operation refers
  to: `TypeInv` adds that those references are real.  For exclusion, every
  action but the three that acquire leaves the claims of live locks as they are
  or drops some; those three add a lock that met no conflict.
- **Content of `FileAccess`.**  `ContentInv` is a conjunction of parts per kind
  of record: what it refers to was drawn and is pinned (`FilePinned`,
  `HandlePinned`, `HandleDrawn`, `FileDrawn`, `LockDrawn`, `OpDrawn`, `NewFile`),
  what is published was committed (`RootCommitted`, `BaseCommitted`), the shape
  of a write or upload in preparation (`WriteShaped`, `UploadShaped`), that its
  locks are its own and cover what it touches (`LockOwned`, `WriteCovered`,
  `UploadCovered`), that it and its handle lie behind the published snapshot
  (`WriteBehind`, `HandleBehind`), that a base it patched was replaced only by
  itself (`BaseReplaced`), that no committed block is lost (`NotLost`, `Apart`),
  and that manifests have the blocks their size and epoch say (`BlocksOfEpoch`,
  `Manifest`).  The steps fall into three groups: those that leave all this in
  place (`CalmNext`), those that change one record (`RecordNext`) and those that
  publish (`PublishNext`), which is where a write's locks are what keeps its base
  in the manifest it merges with.
- **`MetadataGate`.**  `Owned`: at most one thread works on a transaction.
  `Unsent`: a transaction that has not sent its commit has no request on its way
  and was not published.  `Reads`: what a transaction read is the present root or
  an older one, which is why a repeated commit finds its comparison false.
  `Told`: markers and positive answers are true.  The gate key is not what makes
  the publication safe: the comparison with the root's revision is.  For conflicts
  `Fate` adds `HoldsGate`: until its lease runs out or it is published, a
  transaction that got the gate has it and the root stays the one it read, so
  what it is refused for is the ownership key; `Leased`, `GateAlive`: its lease is
  its own, and the gate goes with it; `MarkersOver`: the marker that a
  publication deletes is of a transaction that is over; `GuardsDrawn`: values of
  the ownership key are new; `ContentApplied`; and `ConflictFinal`: a transaction
  told of a conflict can no longer be published.
- **`PageStore`.**  A control leaves out pages that are in its cache, and a
  deletion may arrive long after it was sent; what makes this safe is that every
  publication and deletion carries a value of the gate.  The invariants below are
  therefore about values that have not come back (`again`), and as long as
  nothing was applied under one that has (`late`); only `Marked` and the staged
  root need no such condition.  `CollectorAlone`: a collector with the gate has
  it alone;
  `Marked`, `DeletesSpare`: what it marked, and what its deletions still on their
  way spare, includes every page of the root; `CachesTrue`, `WantsCovered`,
  `PublishesCovered`: pages in a cache, wanted or about to be published are
  stored or on their way under the present value; `Numbers`, `DownEmpty` about
  drawn values and stopped controls.
- **`Volume`.**  `RoomForAll`: tracked receipts and reservations together fit the
  capacity; `FilesTracked`, `AsideTracked`, `JobsSound` say which files, records
  and jobs account for each other between any two steps of a job.
- **`Keys`.**  `ProvisionedListed`: a key that was provisioned is in every node's
  list; `BootEverywhere`, `ScriptSound` (how far a script has come),
  `UsedLoaded`: what a node writes under was loaded by every node.
- **`PatchCall`.**  `PinExclusive`, `OneRecord`, `HandlerSound`, `ReportsSound`:
  at most one handler holds the pin, and what handlers and late reports carry is
  the one record.
- **`Processes`.**  `OwnersLock`, `VolumeInOrder`, `WorkInPhase`,
  `GenerationsTaken`, `CountExact`.
- **`Promotion`.**  `CapturedW`: a change in preparation asks for no more than
  the policy; `RoundTrue`: what a round over pages read at different moments
  found ready was confirmed; `WaitsForDraft`, `ActiveDurable`.
- **`Migration`.**  `HoldersOwn`, `ServersOwn`: the lock of a source has one
  holder; `BackupsCurrent`: nothing is committed between backup and flag;
  `DisabledBacked`, `CarriedFrozen`: the backup is what the source held;
  `Imported`: it is under the root of each step, except records of an identity
  that another source's run replaces; `OneDone`: at most one run reports success.
  A run that ended `failed` or `lost` keeps its backup, since its root may have
  been activated or may yet be.
- **`RootWatch`.**  `OfThePast`: nothing known is later than etcd;
  `SeenInOrder`: events counted were seen, and a stream is past what was seen,
  so a batch is disjoint from the events before it.
- **`Shell`.**  `RunningKeyed`: a process that has loaded a state runs beside a
  key, which is why `save` seals with the key of the file that is there;
  `KeyMadeAlone`: a key is made by one process, where there is neither key nor
  state, so none appears beside a state that another key has sealed.
- **`Deployment`.**  `SeedMade`: whoever makes tables and fills them made the key
  file, and the database was not filled before; `MaterialSound`: material comes
  from a valid inventory; `HostSound`: a machine with secrets has those of its
  own slot, installed before, a DataNode that runs has all of them and the epoch
  of the marker, and an activation has replaced as many files as it took steps.
- **`Recovery`.**  `LabSound`: the files have what the metadata need and no order
  concerns it; `BackupSound`: from the quiet laboratory on, the first of the two
  copies stays true while commits that were sent are still applied, because these
  need no block that was not needed before, so a complete bundle covers its
  metadata; `RestoredFrom` compares the restored cluster with the bundle.

- **`Replication`.**  A copy is counted by what the control was told, and told
  late: `CountedHeld` (what counts is a recorded file) needs that what was read of
  an inventory stays there until it is reported (`ReportsHold`), that a finished
  copy and a recorded put stay until they are (`CopiesSound`, `PutHolds`), that
  jobs with the pin are where their phase says (`JobsSound`), and that a deletion
  is of a copy nobody counts on or can come to count on.  Receipts carry the
  argument: each is one write, so those a node, a report or a location names are
  old ones (`ReceiptsOld`) and those taken for bad are of files lost for good
  (`BadAreLost`, `ScrubSound`).  `Untouched`, `BootsOrdered`, `TasksSound` order
  the rest.  For survival, `GoodKept`: located good files and those that ever
  rotted together number at least W once the content is committed.
- **`Cluster`.**  `GrantsInPlace`, `WorkInPlace`, `PutKept`: a put is at a node
  the block was placed on, a deletion there is of a block that is over; `RecordedKnown`,
  `CommittedRecorded`: what is recorded is known, what is committed is recorded;
  `PolicyFollowed`, `BootsCounted`, `NeverPlaced`, `PlacedSomewhere`.
- **`MetaUnit`.**  `Published`: the root is the table SQLite has; `Overlay`: a
  unit's overlay and effects, applied to the root it read, are the table of its
  transaction; `Dated`: the root a unit has read is the present one unless a later
  revision was published, in which case its own publication fails.
- **`Sessions`.**  `SessionsCurrent`, `LoginsKnown` (a session is the one of the
  request that made it), `WithinLimit` (finite sets are counted), and
  `EffectsRecorded`: a mutation that took effect is in the ledger.
- **`Permissions`.**  Most of the property is what the handlers check again in the
  step that acts; the replacement of policies needs `ReadPolicyDated`: a policy
  that was read is the present one, or the node's revision has grown since; and
  `NamesGoOn`: if the path leads to another file by then, it is a later one.
- **`Namespace`.**  `DirectoriesKept`: the root stays a living directory, and an
  upload is prepared in what is or was a directory; `TreeSound`: a living node has
  a living directory above it, and its name there alone.  For the listing,
  `CursorSound`: a cursor that is still good separates the entries that were sent
  from the others.
- **`Laboratory`.**  `FirstRunOnly`: a laboratory without a record is prepared by
  its first supervisor only; `ReadyRecorded`; `Accounted`: what runs was started
  by this supervisor or ran before it; `LoopBehind`: the loop of `__exit__` has
  stopped every unit it has passed.  Hence members end after servers, and only
  what ran before is left.
- **`Maintenance`.**  `ValuesSpent`: a value is no longer asked for once it has
  the key, never again once it was published, and of the published ones only the
  last may have the key; `InstallsElected`: a control installs itself only with a
  value it was elected with; `GenerationLast`: the generation recorded is the last.
- **`BlockGC`.**  `RetainedNeeded`: the list a collection deletes by has every
  needed block that was allocated when it was made; `PutsAllocated`, `PutsAlone`,
  `RecordsAllocated`, `UploadsBegun`.
- **`Client`.**  `RecordedCommitted`, `LeavingCommitted`: a response in the ledger
  and an upload on its way out mean a published operation; `FailedEnded`: a write
  reported as failed has ended, which is why no late CommitWrite publishes it (a
  plain error is no such report); `BeginningOpen`: what begins again has no
  outcome yet.
  For reads, `Positioned`: how many chunks there are says where the call is, so
  that a resumed stream starts exactly behind them; `InOrder`.

Only model-checked: every liveness property (TLAPS reasons here about neither
fairness nor `ENABLED`); `WriteExact`, which is about what folds and flattened
sequences compute, and `UnitsConserved` (a part of `PartsTypeOK`), a sum over a
set: both need induction over data.  `PartsTypeOK` and `SystemTypeOK` are the
type invariants of sums; the proofs include those of most of their parts.  The
five violated properties of section 5 are not theorems.

## 5 Disagreements with the documentation

1. `upload_outcome`.  `keepalive()` raises the failure of its renewal thread when
   its block ends, also when the block has committed the upload (`sdk.py:246`):
   `send()` reports a failure although the file was published.
   `docs/protocolos.md:116`: never assume that it was not applied; the comment at
   `client/access.py:206-207` says of the same situation in a write that a
   renewal must not turn a confirmed write into a reported failure.
2. `resumed_write`.  `write()` with the request id of a write whose outcome was
   unknown finds it COMMITTED and returns without moving the handle
   (`client/access.py:232`); `docs/especificacion.md:169` and
   `docs/protocolos.md:259` say that the writer's handle advances.
3. `cloud_import`.  The bundle names a prefix under `/dfsha/cloud/`
   (`cloud_bundle.py:144`) and the store accepts only `/dfsha/ha/`
   (`etcd_metadata.py:35`): the import of `docs/despliegue.md:181` is refused.
4. `blocks_published`.  `Monolith.collect` (`monolith.py:408`) computes the list
   of retained blocks in a transaction and deletes files after it.  A block
   allocated, stored and unpinned in between is deleted although its upload goes
   on; `docs/protocolos-hito1.md:149-150` says that active operations are
   respected.
5. `copies_leak`.  `clean_orphan_copy()` (`replication.py:475`, `:488`) asks about
   the first orphan only, and overwrites the expected receipt of a deletion that
   names a later copy; `docs/etapa6-replicacion.md:85-86` says that complete
   provisional copies are cleaned.

Smaller things met while modelling.  They are behaviours of the models, no run
exhibits them as violations, and where a property would be false because of one
it names the exception:

- Metadata.  `VERSION_CONFLICT` can be answered for a transaction that was
  published, when the marker's lease ran out before the marker was read
  (`etcd_metadata.py:247`, against `etapa7-ha-control.md:114`); `ConflictIsTrue`
  excepts it.  A control reads
  the migration flag before it takes the lock (`monolith.py:40`), so it can come
  to serve a database that was disabled meanwhile.  Two migrations into one
  prefix mix the record settings/system; `NothingLost` excepts it.  A migration
  that reports a failure may have activated its root, or may yet.  An attempt to
  acquire the gate that arrives after the clean-up (`etcd_metadata.py:259-262`)
  gives an old value back; a publication late as well, applied under it after the
  collector's deletions, makes a root whose pages are missing; `PagesKept` excepts
  it.
- Client.  A resumed write whose status query or repeated BeginWrite fails raises
  the plain error (`client/access.py:220-223`, `:234`) although the CommitWrite of
  an earlier attempt may have published or may yet; `docs/especificacion.md:189`
  has OUTCOME_UNKNOWN there; `OutcomesTrue` excepts it.  The renewal thread and a commit both change the handle's revision
  (`client/access.py:187`).  Login sets the session before `stat('/')` may fail.
  Two command lines overwrite each other's state file, and a late save can bring
  a logged-out session back.
- Replication and DataNodes.  A delete task that expires unsent is not made again
  until the control restarts (`replication.py:317`); a copy that goes on after
  its time gives a file its own receipt, and the location differs from it until
  the next inventory; in E4 a plan may overcommit a node (NO_SPACE), a deletion
  authorized before an administrator's copy may unlink it afterwards, retirement
  is made once so later leftovers leak, and disabling a node fails its delete
  tasks for good; a file the node has lost track of counts against nothing.
- Keys.  A provision that died between the key file and a stopped node's
  configuration, followed by an activation, leaves the key out of that node's
  list; `check_retirement` says eligible though configurations still list the
  key; configurations are not written atomically; a torn key file means
  DATA_LOSS until it is removed by hand.
- Processes.  A copy worker may outlive its join and work past the release of
  the lock; an ending process removes its successor's ready file; `start()`
  removes another supervisor's stop file and can read the ready file of an
  earlier process that is still starting.  A SIGTERM only sets the stop event, so
  a stuck process is not stopped by it and `__exit__` leaves the rest running.
  The processes of an existing laboratory are untracked, so quiescence checks
  pass; a laboratory that failed between migration and `save` can neither be
  resumed nor made again.  The orphans of a killed supervisor: a server of its
  that is ready makes a resume fail, while with its etcd members a resume comes up, works, and
  leaves them running when it ends (`ha_runtime.py:110-117`, `:27-30`).
  A plain restore verifies digests and copies afterwards.
- Leader.  Disabling a DataNode fails active tasks of every generation, on a
  control that leads nothing (`distributed.py:63-68`).
- Policies.  chmod and setacl compare the revision of whatever the path leads to
  now (`commands.py:124-126`): the policy of a file that was removed and made
  again, and has as many changes, is replaced although nobody read it, against
  `docs/seguridad.md:238-239`; `RightsCurrent` excepts it.  An upload's commit does not check the
  traversal of its ancestors again.
- Root watch.  Nobody waits on `wake`; a failure rotates the index of the shared
  channel; a pause between the check and `disconnected.clear()` leaves
  `disconnected` stale and a stream uncancelled.
- Deployment.  An initialisation that died after the key file, RBAC cut off half
  way, and an import that died after disabling the seed cannot be resumed;
  activation accepts any UUID.

## 6 What is not modelled

- Generated stubs and the vendored etcd protocol (about 7,100 of the 18,400
  lines of the implementation), measurement and packaging scripts, the metadata
  cipher, configuration, telemetry, RPC plumbing, diagnostics, stubs that answer
  UNIMPLEMENTED: no protocol state of this system.
- Within the modelled parts: login rates and quotas; encryption, framing and
  digests; the capacity check of the one-process profile; the order of candidates
  in placement; inventories and protection reports of several pages beyond what
  `Promotion` reads; argument parsing; the error mapping of `invoke`; traffic
  counters.

## 7 Plan

Done: the models of all parts above and the proofs of section 4, which state
every safety property of the runs but `WriteExact` and the two type invariants of
sums.  What is left:

1. `RangeWrite`: a formulation of the commit and of the read back without folds,
   byte by byte, would make `WriteExact` an ordinary invariant.
2. `Admission`: `UnitsConserved`, with a history variable for the sum.
3. Refinement: `Sessions`' ledger and `FileAccess`' handlers as transactions of
   `AtomicPublication`.
