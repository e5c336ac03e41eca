-------------------------- MODULE FileContentProofs --------------------------
(***************************************************************************)
(* Theorems about what FileAccess publishes, for every number of handles,   *)
(* locks, writes, blocks and files and for every lease length: writes are   *)
(* merged without loss, content epochs do not mix, what a handle or a file  *)
(* needs is never pruned, and content under a lock changes only by its      *)
(* owner.                                                                   *)
(***************************************************************************)
EXTENDS FileAccessProofs

(***************************************************************************)
(* The inductive invariant, stated of one record at a time: a step is       *)
(* checked for the few records it writes, and one lemma per part says that  *)
(* the others keep it.                                                      *)
(***************************************************************************)
Preparing(o, kind) == ops[o].kind = kind /\ ops[o].state = "PREPARING"
CommittedWrite(o) == ops[o].kind = "write" /\ ops[o].state = "COMMITTED"
Usable(h) == ~handles[h].closed /\ LiveHandle(h)
NamesNewFile(o) == Preparing(o, "upload") /\ ops[o].root = 0

\* What existing files publish and usable handles read is stored.
FilePinned(f) == files[f].alive => Exists(files[f].snapshot)
HandlePinned(h) == Usable(h) => Exists(handles[h].snapshot)

\* A write being prepared owns its handle (WriteOwnsHandle).
OwnsHandle(o) ==
  Preparing(o, "write") =>
    LET h == ops[o].handle IN
      /\ h # 0 /\ handles[h].busy = Writing(o) /\ handles[h].revision = ops[o].revision
      /\ handles[h].snapshot = ops[o].root /\ handles[h].file = ops[o].file
      /\ \A l \in ops[o].locks : LiveLock(l) =>
           o \in locks[l].active /\ locks[l].owner = HandleOwner(h)

\* Identifiers are drawn from counters: nothing refers to one that was not drawn.
HandleDrawn(h) == /\ handles[h].file <= seq.file /\ handles[h].snapshot <= seq.root
                  /\ h > seq.handle => handles[h].closed /\ handles[h].busy = Idle
FileDrawn(f) == files[f].snapshot <= seq.root /\ (f > seq.file => files[f].snapshot = 0)
LockDrawn(l) == locks[l].file <= seq.file /\ (LiveLock(l) => l <= seq.lock)
OpDrawn(o) == /\ ops[o].file <= seq.file /\ ops[o].root <= seq.root
              /\ \A l \in ops[o].locks : l <= seq.lock
              /\ o > seq.op => ops[o].state = "NONE"
              /\ ops[o].kind = "write" => ops[o].file # 0

\* The file of an upload under a new name is nobody else's until it is committed.
NewFile(o) ==
  NamesNewFile(o) => /\ files[ops[o].file].snapshot = 0
                     /\ \A h \in Handles : handles[h].file # ops[o].file
                     /\ \A p \in Ops : p # o => ops[p].file # ops[o].file

\* Committed operations wrote every block of a stored snapshot and every block a write replaces.
RootCommitted(r) ==
  \A i \in Indices : snapshots[r].blocks[i] # 0 => ops[snapshots[r].blocks[i]].state = "COMMITTED"
BaseCommitted(o) ==
  ops[o].kind = "write" => \A i \in ops[o].touched :
    ops[o].base[i] # 0 => ops[ops[o].base[i]].state = "COMMITTED"

\* A write replaces the blocks from its offset to its end, and knows the epoch and the size of
\* the snapshot it started from.
WriteShaped(o) ==
  Preparing(o, "write") =>
    /\ ops[o].touched # {}
    /\ \A i \in ops[o].touched : i * BlockSize < ops[o].total
    /\ \A i \in Indices : i * BlockSize < ops[o].total =>
         i \in ops[o].touched \/ i * BlockSize < ops[o].base_size
    /\ ops[o].base_size <= ops[o].total
    /\ ops[o].growing <=> ops[o].base_size < ops[o].total
    /\ Exists(ops[o].root) => /\ ops[o].epoch = snapshots[ops[o].root].epoch
                              /\ ops[o].base_size = snapshots[ops[o].root].size

\* An upload replaces everything and opens a new content epoch.
UploadShaped(o) ==
  Preparing(o, "upload") =>
    /\ ops[o].touched = Covered(0, ops[o].total)
    /\ ops[o].root # 0 /\ Exists(ops[o].root) => ops[o].epoch = snapshots[ops[o].root].epoch + 1

\* Who owns a live lock, and on which file.
LockOwned(l) ==
  LiveLock(l) =>
    /\ locks[l].file # 0 /\ locks[l].owner.kind \in {"handle", "op"}
    /\ locks[l].owner.kind = "handle" =>
         /\ locks[l].owner.id \in Handles /\ locks[l].owner.id <= seq.handle
         /\ locks[l].file = handles[locks[l].owner.id].file

\* What an operation changes is covered by its locks, as long as they are live.
WriteCovered(o) ==
  Preparing(o, "write") /\ (\A l \in ops[o].locks : LiveLock(l)) =>
    /\ \A i \in ops[o].touched : \E l \in ops[o].locks : locks[l].whole \/ i \in locks[l].indices
    /\ ops[o].growing => \E l \in ops[o].locks : locks[l].size
UploadCovered(o) ==
  Preparing(o, "upload") =>
    /\ ops[o].locks # {}
    /\ \A l \in ops[o].locks : LiveLock(l) =>
         locks[l].whole /\ locks[l].file = ops[o].file /\ locks[l].owner = OpOwner(o)

\* An epoch that was left does not come back, and within one the file only grows.
WriteBehind(o) ==
  ops[o].kind = "write" /\ files[ops[o].file].alive => ops[o].epoch <= Current(ops[o].file).epoch
HandleBehind(h) ==
  Usable(h) /\ files[handles[h].file].alive =>
    LET old == snapshots[handles[h].snapshot]
        new == Current(handles[h].file)
    IN  old.epoch <= new.epoch /\ (old.epoch = new.epoch => old.size <= new.size)

\* Operation o wrote into the content that its file has now.
InEpoch(o) == files[ops[o].file].alive /\ ops[o].epoch = Current(ops[o].file).epoch

\* What a committed write replaced is gone from the content of its epoch.
BaseReplaced(o) ==
  CommittedWrite(o) /\ InEpoch(o) =>
    /\ \A i \in ops[o].touched : Current(ops[o].file).blocks[i] # ops[o].base[i]
    /\ ops[o].growing => ops[o].base_size < Current(ops[o].file).size

\* What it wrote is there, or was replaced by a write that had read it (NoLostUpdate).
SameContent(o, p) == ops[o].file = ops[p].file /\ ops[o].epoch = ops[p].epoch
NotLost(o) ==
  CommittedWrite(o) /\ InEpoch(o) => \A i \in ops[o].touched :
    \/ Current(ops[o].file).blocks[i] = o
    \/ \E p \in Ops : /\ CommittedWrite(p) /\ SameContent(o, p)
                      /\ i \in ops[p].touched /\ ops[p].base[i] = o

\* Two committed writes of one epoch replaced different blocks (NoLostUpdate).
Apart(o, p) ==
  CommittedWrite(o) /\ CommittedWrite(p) /\ SameContent(o, p) =>
    /\ \A i \in ops[o].touched \cap ops[p].touched : ops[o].base[i] # ops[p].base[i]
    /\ ops[o].growing /\ ops[p].growing => ops[o].base_size # ops[p].base_size

\* The published content is that of its epoch (PublishedFromEpoch).
BlocksOfEpoch(f) ==
  files[f].alive => \A i \in Indices : Current(f).blocks[i] # 0 =>
    LET v == Current(f).blocks[i]
    IN  ops[v].file = f /\ ops[v].epoch = Current(f).epoch /\ i \in ops[v].touched

\* A manifest has a block exactly where the size says (ManifestMatchesSize).
Manifest(r) ==
  \A i \in Indices : (snapshots[r].blocks[i] # 0) <=> (i * BlockSize < snapshots[r].size)

FileInv(f) == FilePinned(f) /\ FileDrawn(f) /\ BlocksOfEpoch(f)
RootInv(r) == RootCommitted(r) /\ Manifest(r)
HandleInv(h) == HandlePinned(h) /\ HandleDrawn(h) /\ HandleBehind(h)
LockInv(l) == LockDrawn(l) /\ LockOwned(l)
OpInv(o) ==
  /\ OwnsHandle(o) /\ OpDrawn(o) /\ NewFile(o) /\ BaseCommitted(o) /\ WriteShaped(o)
  /\ UploadShaped(o) /\ WriteCovered(o) /\ UploadCovered(o) /\ WriteBehind(o)
  /\ BaseReplaced(o) /\ NotLost(o)

ContentInv ==
  /\ TypeInv /\ LockExclusion /\ OneFilePerPath
  /\ (\A f \in Files : FileInv(f)) /\ (\A r \in Roots : RootInv(r))
  /\ (\A h \in Handles : HandleInv(h)) /\ (\A l \in Locks : LockInv(l))
  /\ (\A o \in Ops : OpInv(o)) /\ (\A o, p \in Ops : o # p => Apart(o, p))

-----------------------------------------------------------------------------
(* What a step leaves as it was.                                            *)

\* What operation o is about does not change.
SameOp(o) ==
  /\ ops'[o].kind = ops[o].kind /\ ops'[o].file = ops[o].file /\ ops'[o].handle = ops[o].handle
  /\ ops'[o].revision = ops[o].revision /\ ops'[o].root = ops[o].root /\ ops'[o].epoch = ops[o].epoch
  /\ ops'[o].growing = ops[o].growing /\ ops'[o].base_size = ops[o].base_size
  /\ ops'[o].total = ops[o].total /\ ops'[o].touched = ops[o].touched
  /\ ops'[o].base = ops[o].base /\ ops'[o].locks = ops[o].locks

\* It goes on, or ends without being committed.
OpGoesOn(o) ==
  /\ SameOp(o)
  /\ \/ ops'[o].state = ops[o].state
     \/ ops[o].state \notin {"NONE", "COMMITTED"} /\ ops'[o].state \in {"ABORTED", "EXPIRED"}

\* A lock that stays live keeps its claim and the operations that are still being prepared.
LockGoesOn(l) ==
  /\ KeepsClaim(l)
  /\ locks'[l].file \in {0, locks[l].file}
  /\ locks'[l].ttl > 0 =>
       \A o \in Ops : ops'[o].state = "PREPARING" /\ o \in locks[l].active => o \in locks'[l].active

\* A handle stays on its file and its snapshot, and is not opened again.
HandleStays(h) ==
  /\ handles'[h].file = handles[h].file /\ handles'[h].snapshot = handles[h].snapshot
  /\ ~handles'[h].closed /\ handles'[h].ttl > 0 => ~handles[h].closed /\ handles[h].ttl > 0
  /\ handles[h].closed /\ handles[h].busy = Idle => handles'[h].closed /\ handles'[h].busy = Idle

\* It is not taken from a write that is still being prepared.
KeepsWrite(h) ==
  \A o \in Ops : ops'[o].state = "PREPARING" /\ handles[h].busy = Writing(o) =>
    /\ handles'[h].busy = handles[h].busy /\ handles'[h].revision = handles[h].revision
    /\ handles'[h].file = handles[h].file /\ handles'[h].snapshot = handles[h].snapshot

\* A file is at most removed.
FileStays(f) ==
  /\ files'[f].snapshot = files[f].snapshot
  /\ files'[f].alive => /\ files[f].alive
                        /\ snapshots'[files[f].snapshot] = snapshots[files[f].snapshot]

\* Counters do not fall.
CountersGrow ==
  /\ seq.file <= seq'.file /\ seq.root <= seq'.root /\ seq.handle <= seq'.handle
  /\ seq.lock <= seq'.lock /\ seq.op <= seq'.op

\* A step that writes at most operation n, lock k, handle x, file f and snapshot v, a new one;
\* the others are pruned only when neither a file nor a usable handle needs them.
Leaves(n, k, x, f, v) ==
  /\ CountersGrow
  /\ \A o \in Ops : o # n => OpGoesOn(o)
  /\ n \in Ops => ops[n].state # "COMMITTED"
  /\ \A l \in Locks : l # k => LockGoesOn(l)
  /\ k \in Locks => k > seq.lock
  /\ \A h \in Handles : KeepsWrite(h) /\ (h <= seq.handle => handles'[h].file = handles[h].file)
  /\ \A h \in Handles : h # x => HandleStays(h)
  /\ \A g \in Files : g # f => FileStays(g)
  /\ \A r \in Roots : r # v => snapshots'[r] = snapshots[r] \/ snapshots'[r] = NoSnapshot
  /\ v \in Roots => v > seq.root
  /\ \A h \in Handles : h # x /\ ~handles'[h].closed /\ handles'[h].ttl > 0 =>
       snapshots'[handles[h].snapshot] = snapshots[handles[h].snapshot]

-----------------------------------------------------------------------------
(* The types of what the parts of the invariant refer to.                   *)

\* Identifiers and sizes are numbers, references are in range.
LEMMA Fields ==
  ASSUME TypeInv
  PROVE  /\ \A f \in Files : files[f].snapshot \in 0..MaxRoots /\ (files[f].snapshot # 0 => files[f].snapshot \in Roots)
         /\ \A f \in Files : files[f].alive \in BOOLEAN /\ (files[f].alive => files[f].snapshot \in Roots)
         /\ \A h \in Handles : /\ handles[h].file \in 0..MaxFiles /\ handles[h].snapshot \in 0..MaxRoots
                               /\ handles[h].closed \in BOOLEAN /\ handles[h].ttl \in Nat
                               /\ ~handles[h].closed => handles[h].file \in Files /\ handles[h].snapshot \in Roots
         /\ \A l \in Locks : /\ locks[l].file \in 0..MaxFiles /\ locks[l].ttl \in Nat
                             /\ locks[l].indices \in SUBSET Indices
         /\ \A o \in Ops : /\ ops[o].file \in 0..MaxFiles /\ (ops[o].file # 0 => ops[o].file \in Files)
                           /\ ops[o].handle \in 0..MaxHandles /\ (ops[o].handle # 0 => ops[o].handle \in Handles)
                           /\ ops[o].root \in 0..MaxRoots /\ (ops[o].root # 0 => ops[o].root \in Roots)
                           /\ ops[o].locks \in SUBSET Locks /\ ops[o].touched \in SUBSET Indices
                           /\ ops[o].epoch \in Nat /\ ops[o].base_size \in Nat /\ ops[o].total \in Nat
                           /\ \A i \in Indices : ops[o].base[i] # 0 => ops[o].base[i] \in Ops
                           /\ ops[o].state = "PREPARING" => ops[o].file \in Files
         /\ \A r \in Roots : /\ snapshots[r].epoch \in Nat /\ snapshots[r].size \in Nat /\ snapshots[r].version \in Nat
                             /\ \A i \in Indices : snapshots[r].blocks[i] # 0 => snapshots[r].blocks[i] \in Ops
         /\ seq.file \in 0..MaxFiles /\ seq.root \in 0..MaxRoots /\ seq.handle \in 0..MaxHandles
         /\ seq.lock \in 0..MaxLocks /\ seq.op \in 0..MaxOps
  <1> USE TypeParts, Constants
  <1>1. \A f \in Files : /\ files[f].snapshot \in 0..MaxRoots /\ (files[f].snapshot # 0 => files[f].snapshot \in Roots)
                         /\ files[f].alive \in BOOLEAN /\ (files[f].alive => files[f].snapshot \in Roots)
    BY DEF FileType, FileRefs, Roots
  <1>2. \A h \in Handles : /\ handles[h].file \in 0..MaxFiles /\ handles[h].snapshot \in 0..MaxRoots
                           /\ handles[h].closed \in BOOLEAN /\ handles[h].ttl \in Nat
                           /\ ~handles[h].closed => handles[h].file \in Files /\ handles[h].snapshot \in Roots
    BY DEF Handle, HandleRefs, Roots, Files
  <1>3. \A l \in Locks : /\ locks[l].file \in 0..MaxFiles /\ locks[l].ttl \in Nat
                         /\ locks[l].indices \in SUBSET Indices
    BY DEF Lock
  <1>4. \A o \in Ops : /\ ops[o].file \in 0..MaxFiles /\ (ops[o].file # 0 => ops[o].file \in Files)
                       /\ ops[o].handle \in 0..MaxHandles /\ (ops[o].handle # 0 => ops[o].handle \in Handles)
                       /\ ops[o].root \in 0..MaxRoots /\ (ops[o].root # 0 => ops[o].root \in Roots)
                       /\ ops[o].state = "PREPARING" => ops[o].file \in Files
    BY DEF Op, OpRefs, Files, Handles, Roots
  <1>5. \A o \in Ops : /\ ops[o].locks \in SUBSET Locks /\ ops[o].touched \in SUBSET Indices
                       /\ ops[o].epoch \in Nat /\ ops[o].base_size \in Nat /\ ops[o].total \in Nat
    BY DEF Op
  <1>6. \A o \in Ops : \A i \in Indices : ops[o].base[i] # 0 => ops[o].base[i] \in Ops
    <2>1. \A o \in Ops : ops[o].base \in [Indices -> 0..MaxOps]
      BY DEF Op
    <2> QED BY <2>1 DEF Ops
  <1>7. \A r \in Roots : /\ snapshots[r].epoch \in Nat /\ snapshots[r].size \in Nat /\ snapshots[r].version \in Nat
                         /\ snapshots[r].blocks \in [Indices -> 0..MaxOps]
    BY DEF Snapshot
  <1>8. \A r \in Roots : \A i \in Indices : snapshots[r].blocks[i] # 0 => snapshots[r].blocks[i] \in Ops
    BY <1>7 DEF Ops
  <1>9. /\ seq.file \in 0..MaxFiles /\ seq.root \in 0..MaxRoots /\ seq.handle \in 0..MaxHandles
        /\ seq.lock \in 0..MaxLocks /\ seq.op \in 0..MaxOps
    BY DEF Counters
  <1> QED BY <1>1, <1>2, <1>3, <1>4, <1>5, <1>6, <1>7, <1>8, <1>9

\* What is pruned holds nothing.
LEMMA NothingStored ==
  NoSnapshot.version = 0 /\ NoSnapshot.size = 0 /\ \A i \in Indices : NoSnapshot.blocks[i] = 0
  BY DEF NoSnapshot, NoBlocks

\* Committed operations stay as they are.
LEMMA CommittedStay ==
  ASSUME NEW n, NEW k, NEW x, NEW f, NEW v, Leaves(n, k, x, f, v), NEW o \in Ops, ops[o].state = "COMMITTED"
  PROVE  SameOp(o) /\ ops'[o].state = "COMMITTED" /\ o # n
  BY DEF Leaves, OpGoesOn

\* A snapshot that is still stored is as it was.
LEMMA StoredStays ==
  ASSUME NEW n, NEW k, NEW x, NEW f, NEW v, Leaves(n, k, x, f, v), TypeInv, NEW r \in Roots, r <= seq.root
  PROVE  Exists(r)' => Exists(r) /\ snapshots'[r] = snapshots[r]
  BY NothingStored, Fields, Constants DEF Leaves, Exists, Roots

\* Counters are naturals, before and after a step.
LEMMA CountersTyped ==
  ASSUME TypeInv, TypeInv'
  PROVE  /\ seq.file \in Nat /\ seq.root \in Nat /\ seq.handle \in Nat /\ seq.lock \in Nat /\ seq.op \in Nat
         /\ seq'.file \in Nat /\ seq'.root \in Nat /\ seq'.handle \in Nat /\ seq'.lock \in Nat /\ seq'.op \in Nat
  BY Constants DEF TypeInv, TypeOK

-----------------------------------------------------------------------------
(* The records that a step leaves alone keep their part of the invariant.   *)

\* Operations other than n keep what they say of their handles, locks and snapshots.
LEMMA OpKept ==
  ASSUME ContentInv, TypeInv', NEW n, NEW k, NEW x, NEW f, NEW v, Leaves(n, k, x, f, v), NEW o \in Ops, o # n
  PROVE  /\ OwnsHandle(o)' /\ OpDrawn(o)' /\ BaseCommitted(o)' /\ WriteShaped(o)'
         /\ UploadShaped(o)' /\ WriteCovered(o)' /\ UploadCovered(o)'
  <1>1. TypeInv /\ OpInv(o)
    BY DEF ContentInv
  <1>2. SameOp(o) /\ (ops'[o].state # ops[o].state => ops'[o].state \in {"ABORTED", "EXPIRED"} /\ ops[o].state # "NONE")
    BY DEF Leaves, OpGoesOn
  <1>3. \A l \in ops[o].locks : l \in Locks /\ LockGoesOn(l)
    <2>1. \A l \in ops[o].locks : l \in Locks /\ l <= seq.lock
      BY <1>1, Fields DEF OpInv, OpDrawn
    <2> QED BY <2>1, <1>1, Fields DEF Leaves, Locks
  <1>4. OwnsHandle(o)'
    <2> SUFFICES ASSUME Preparing(o, "write")'
                 PROVE  LET h == ops[o].handle IN
                          /\ h # 0 /\ handles'[h].busy = Writing(o) /\ handles'[h].revision = ops[o].revision
                          /\ handles'[h].snapshot = ops[o].root /\ handles'[h].file = ops[o].file
                          /\ \A l \in ops[o].locks : locks'[l].ttl > 0 =>
                               o \in locks'[l].active /\ locks'[l].owner = HandleOwner(h)
      BY <1>2 DEF OwnsHandle, SameOp, LiveLock
    <2> DEFINE h == ops[o].handle
    <2>1. Preparing(o, "write") /\ ops'[o].state = "PREPARING"
      BY <1>2 DEF Preparing, SameOp
    <2>2. /\ h # 0 /\ handles[h].busy = Writing(o) /\ handles[h].revision = ops[o].revision
          /\ handles[h].snapshot = ops[o].root /\ handles[h].file = ops[o].file
          /\ \A l \in ops[o].locks : locks[l].ttl > 0 =>
               o \in locks[l].active /\ locks[l].owner = HandleOwner(h)
      BY <1>1, <2>1 DEF OpInv, OwnsHandle, LiveLock
    <2>3. h \in Handles
      BY <1>1, <2>2, Fields
    <2>4. KeepsWrite(h)
      BY <2>3 DEF Leaves
    <2>5. \A l \in ops[o].locks : locks'[l].ttl > 0 => o \in locks'[l].active /\ locks'[l].owner = HandleOwner(h)
      BY <1>3, <2>1, <2>2 DEF LockGoesOn, KeepsClaim
    <2> QED BY <2>1, <2>2, <2>4, <2>5 DEF KeepsWrite
  <1>5. OpDrawn(o)'
    <2>1. CountersGrow
      BY DEF Leaves
    <2>2. \A l \in ops[o].locks : l \in Nat
      BY <1>3, Constants DEF Locks
    <2>3. /\ ops[o].file <= seq'.file /\ ops[o].root <= seq'.root
          /\ \A l \in ops[o].locks : l <= seq'.lock
          /\ o > seq'.op => o > seq.op
      BY <1>1, <2>1, <2>2, CountersTyped, Fields, Constants DEF OpInv, OpDrawn, CountersGrow, Ops
    <2> QED BY <1>1, <1>2, <2>3 DEF OpInv, OpDrawn, SameOp
  <1>6. BaseCommitted(o)'
    <2>1. \A i \in ops[o].touched : ops[o].base[i] # 0 => ops[o].base[i] \in Ops
      BY <1>1, Fields
    <2>2. ops[o].kind = "write" => \A i \in ops[o].touched :
            ops[o].base[i] # 0 => ops'[ops[o].base[i]].state = "COMMITTED"
      BY <1>1, <2>1, CommittedStay DEF OpInv, BaseCommitted
    <2> QED BY <1>2, <2>2 DEF BaseCommitted, SameOp
  <1>7. Exists(ops[o].root)' => Exists(ops[o].root) /\ snapshots'[ops[o].root] = snapshots[ops[o].root]
    <2> SUFFICES ASSUME Exists(ops[o].root)' PROVE Exists(ops[o].root) /\ snapshots'[ops[o].root] = snapshots[ops[o].root]
      OBVIOUS
    <2> DEFINE r == ops[o].root
    <2>1. r \in Roots /\ r <= seq.root
      BY <1>1, <1>2, Fields DEF Exists, OpInv, OpDrawn, SameOp
    <2>2. Exists(r)'
      BY <1>2 DEF SameOp, Exists
    <2> QED BY <1>1, <2>1, <2>2, <1>2, StoredStays DEF Exists, SameOp
  <1>8. WriteShaped(o)'
    <2> SUFFICES ASSUME Preparing(o, "write")' PROVE WriteShaped(o)'
      BY DEF WriteShaped
    <2>1. Preparing(o, "write")
      BY <1>2 DEF Preparing, SameOp
    <2> QED BY <1>1, <1>2, <1>7, <2>1 DEF OpInv, WriteShaped, SameOp, Exists
  <1>9. UploadShaped(o)'
    <2> SUFFICES ASSUME Preparing(o, "upload")' PROVE UploadShaped(o)'
      BY DEF UploadShaped
    <2>1. Preparing(o, "upload")
      BY <1>2 DEF Preparing, SameOp
    <2> QED BY <1>1, <1>2, <1>7, <2>1 DEF OpInv, UploadShaped, SameOp, Exists
  <1>10. WriteCovered(o)'
    <2> SUFFICES ASSUME Preparing(o, "write")', \A l \in ops[o].locks : locks'[l].ttl > 0 PROVE WriteCovered(o)'
      BY <1>2 DEF WriteCovered, LiveLock, SameOp
    <2>1. Preparing(o, "write")
      BY <1>2 DEF Preparing, SameOp
    <2>2. \A l \in ops[o].locks : /\ locks[l].ttl > 0 /\ locks'[l].whole = locks[l].whole
                                  /\ locks'[l].size = locks[l].size /\ locks'[l].indices = locks[l].indices
      BY <1>3 DEF LockGoesOn, KeepsClaim
    <2>3. /\ \A i \in ops[o].touched : \E l \in ops[o].locks : locks[l].whole \/ i \in locks[l].indices
          /\ ops[o].growing => \E l \in ops[o].locks : locks[l].size
      BY <1>1, <2>1, <2>2 DEF OpInv, WriteCovered, LiveLock
    <2>4. /\ \A i \in ops[o].touched : \E l \in ops[o].locks : locks'[l].whole \/ i \in locks'[l].indices
          /\ ops[o].growing => \E l \in ops[o].locks : locks'[l].size
      BY <2>2, <2>3
    <2> QED BY <1>2, <2>4 DEF WriteCovered, SameOp
  <1>11. UploadCovered(o)'
    <2> SUFFICES ASSUME Preparing(o, "upload")' PROVE UploadCovered(o)'
      BY DEF UploadCovered
    <2>1. Preparing(o, "upload")
      BY <1>2 DEF Preparing, SameOp
    <2>2. /\ ops[o].locks # {}
          /\ \A l \in ops[o].locks : locks'[l].ttl > 0 =>
               locks'[l].whole /\ locks'[l].file = ops[o].file /\ locks'[l].owner = OpOwner(o)
      BY <1>1, <1>3, <2>1 DEF OpInv, UploadCovered, LiveLock, LockGoesOn, KeepsClaim
    <2> QED BY <1>2, <2>2 DEF UploadCovered, SameOp, LiveLock
  <1> QED BY <1>4, <1>5, <1>6, <1>8, <1>9, <1>10, <1>11

\* Nobody else comes to the file of an upload under a new name.
LEMMA NewFileKept ==
  ASSUME ContentInv, NEW n, NEW k, NEW x, NEW f, NEW v, Leaves(n, k, x, f, v), NEW o \in Ops, o # n,
         NamesNewFile(o) => /\ ops[o].file # f
                            /\ x \in Handles => handles'[x].file # ops[o].file
                            /\ n \in Ops => ops'[n].file # ops[o].file
  PROVE  NewFile(o)'
  <1> SUFFICES ASSUME NamesNewFile(o)' PROVE NewFile(o)'
    BY DEF NewFile
  <1>1. TypeInv /\ NewFile(o)
    BY DEF ContentInv, OpInv
  <1>2. NamesNewFile(o) /\ ops'[o].file = ops[o].file
    BY DEF Leaves, OpGoesOn, SameOp, NamesNewFile, Preparing
  <1>3. ops[o].file \in Files
    BY <1>1, <1>2, Fields DEF NamesNewFile, Preparing
  <1>4. files'[ops[o].file].snapshot = 0
    BY <1>1, <1>2, <1>3 DEF NewFile, Leaves, FileStays
  <1>5. \A h \in Handles : handles'[h].file # ops[o].file
    BY <1>1, <1>2 DEF NewFile, Leaves, HandleStays
  <1>6. \A p \in Ops : p # o => ops'[p].file # ops[o].file
    BY <1>1, <1>2 DEF NewFile, Leaves, OpGoesOn, SameOp
  <1> QED BY <1>2, <1>4, <1>5, <1>6 DEF NewFile

\* Writes on other files than f stay related to what is published.
LEMMA WriteKept ==
  ASSUME ContentInv, NEW n, NEW k, NEW x, NEW f, NEW v, Leaves(n, k, x, f, v), NEW o \in Ops, o # n,
         ops[o].file # f
  PROVE  WriteBehind(o)' /\ BaseReplaced(o)' /\ NotLost(o)'
  <1>1. TypeInv /\ OpInv(o)
    BY DEF ContentInv
  <1>2. SameOp(o) /\ (CommittedWrite(o)' => CommittedWrite(o))
    BY DEF Leaves, OpGoesOn, SameOp, CommittedWrite
  <1> SUFFICES ASSUME ops[o].kind = "write", files'[ops[o].file].alive
               PROVE  WriteBehind(o)' /\ BaseReplaced(o)' /\ NotLost(o)'
    BY <1>2 DEF WriteBehind, BaseReplaced, NotLost, InEpoch, CommittedWrite, SameOp
  <1>3. PICK g \in Files : g = ops[o].file /\ g = ops'[o].file
    BY <1>1, <1>2, Fields DEF OpInv, OpDrawn, SameOp
  <1>4. files[g].alive /\ files'[g].alive /\ Current(g)' = Current(g)
    BY <1>3 DEF Leaves, FileStays, Current
  <1>5. WriteBehind(o)'
    BY <1>1, <1>2, <1>3, <1>4 DEF OpInv, WriteBehind, SameOp
  <1>6. InEpoch(o)' => InEpoch(o)
    BY <1>2, <1>3, <1>4 DEF InEpoch, SameOp
  <1>7. BaseReplaced(o)'
    BY <1>1, <1>2, <1>3, <1>4, <1>6 DEF OpInv, BaseReplaced, SameOp
  <1>8. NotLost(o)'
    <2> SUFFICES ASSUME CommittedWrite(o), InEpoch(o), NEW i \in ops[o].touched
                 PROVE  \/ Current(g)'.blocks[i] = o
                        \/ \E p \in Ops : /\ CommittedWrite(p)' /\ SameContent(o, p)'
                                          /\ i \in ops'[p].touched /\ ops'[p].base[i] = o
      BY <1>2, <1>3, <1>6 DEF NotLost, SameOp
    <2>1. CASE Current(g).blocks[i] = o
      BY <1>4, <2>1
    <2>2. ASSUME NEW p \in Ops, CommittedWrite(p), SameContent(o, p), i \in ops[p].touched, ops[p].base[i] = o
          PROVE  CommittedWrite(p)' /\ SameContent(o, p)' /\ i \in ops'[p].touched /\ ops'[p].base[i] = o
      <3>1. SameOp(p) /\ ops'[p].state = "COMMITTED"
        BY <2>2, CommittedStay DEF CommittedWrite
      <3> QED BY <1>2, <2>2, <3>1 DEF SameOp, CommittedWrite, SameContent
    <2> QED BY <1>1, <1>3, <2>1, <2>2 DEF OpInv, NotLost
  <1> QED BY <1>5, <1>7, <1>8

\* Two operations other than n stay apart.
LEMMA ApartKept ==
  ASSUME ContentInv, NEW n, NEW k, NEW x, NEW f, NEW v, Leaves(n, k, x, f, v),
         NEW o \in Ops, NEW p \in Ops, o # p, o # n, p # n
  PROVE  Apart(o, p)'
  <1>1. Apart(o, p)
    BY DEF ContentInv
  <1>2. SameOp(o) /\ (CommittedWrite(o)' => CommittedWrite(o))
    BY DEF Leaves, OpGoesOn, SameOp, CommittedWrite
  <1>3. SameOp(p) /\ (CommittedWrite(p)' => CommittedWrite(p))
    BY DEF Leaves, OpGoesOn, SameOp, CommittedWrite
  <1> QED BY <1>1, <1>2, <1>3 DEF Apart, SameOp, SameContent

\* Handles other than x keep their snapshots; those on file f are looked at apart.
LEMMA HandleKept ==
  ASSUME ContentInv, TypeInv', NEW n, NEW k, NEW x, NEW f, NEW v, Leaves(n, k, x, f, v), NEW h \in Handles, h # x
  PROVE  HandlePinned(h)' /\ HandleDrawn(h)' /\ (handles[h].file # f => HandleBehind(h)')
  <1>1. TypeInv /\ HandleInv(h)
    BY DEF ContentInv
  <1>2. HandleStays(h)
    BY DEF Leaves
  <1>3. Usable(h)' => /\ Usable(h) /\ handles[h].snapshot \in Roots /\ handles[h].file \in Files
                      /\ snapshots'[handles[h].snapshot] = snapshots[handles[h].snapshot]
    BY <1>1, <1>2, Fields DEF Usable, LiveHandle, HandleStays, Leaves
  <1>4. HandlePinned(h)'
    BY <1>1, <1>2, <1>3 DEF HandleInv, HandlePinned, Exists, HandleStays
  <1>5. HandleDrawn(h)'
    <2>1. CountersGrow
      BY DEF Leaves
    <2>2. /\ handles[h].file <= seq'.file /\ handles[h].snapshot <= seq'.root
          /\ h > seq'.handle => h > seq.handle
      BY <1>1, <2>1, CountersTyped, Fields, Constants DEF HandleInv, HandleDrawn, CountersGrow, Handles
    <2> QED BY <1>1, <1>2, <2>2 DEF HandleInv, HandleDrawn, HandleStays
  <1>6. ASSUME handles[h].file # f PROVE HandleBehind(h)'
    <2> SUFFICES ASSUME Usable(h)', files'[handles[h].file].alive PROVE HandleBehind(h)'
      BY <1>2 DEF HandleBehind, HandleStays
    <2>1. FileStays(handles[h].file)
      BY <1>3, <1>6 DEF Leaves
    <2>2. files[handles[h].file].alive /\ Current(handles[h].file)' = Current(handles[h].file)
      BY <2>1, <1>2 DEF FileStays, Current, HandleStays
    <2> QED BY <1>1, <1>2, <1>3, <2>2 DEF HandleInv, HandleBehind, HandleStays, Current
  <1> QED BY <1>4, <1>5, <1>6

\* So do the locks.
LEMMA LockKept ==
  ASSUME ContentInv, TypeInv', NEW n, NEW k, NEW x, NEW f, NEW v, Leaves(n, k, x, f, v), NEW l \in Locks, l # k
  PROVE  LockInv(l)'
  <1>1. TypeInv /\ LockInv(l)
    BY DEF ContentInv
  <1>2. LockGoesOn(l) /\ CountersGrow
    BY DEF Leaves
  <1>3. LockDrawn(l)'
    <2>1. locks'[l].file <= seq'.file
      BY <1>1, <1>2, CountersTyped, Fields, Constants DEF LockInv, LockDrawn, LockGoesOn, CountersGrow
    <2>2. locks'[l].ttl > 0 => l <= seq'.lock
      BY <1>1, <1>2, CountersTyped, Constants DEF LockInv, LockDrawn, LockGoesOn, KeepsClaim, LiveLock, CountersGrow, Locks
    <2> QED BY <2>1, <2>2 DEF LockDrawn, LiveLock
  <1>4. LockOwned(l)'
    <2> SUFFICES ASSUME locks'[l].ttl > 0 PROVE LockOwned(l)'
      BY DEF LockOwned, LiveLock
    <2>1. locks[l].ttl > 0 /\ locks'[l].file = locks[l].file /\ locks'[l].owner = locks[l].owner
      BY <1>2 DEF LockGoesOn, KeepsClaim
    <2>2. CASE locks[l].owner.kind = "handle"
      <3>1. /\ locks[l].owner.id \in Handles /\ locks[l].owner.id <= seq.handle
            /\ locks[l].file = handles[locks[l].owner.id].file
        BY <1>1, <2>1, <2>2 DEF LockInv, LockOwned, LiveLock
      <3>2. handles'[locks[l].owner.id].file = handles[locks[l].owner.id].file
        BY <3>1 DEF Leaves
      <3>3. locks[l].owner.id <= seq'.handle
        BY <1>1, <1>2, <3>1, CountersTyped, Constants DEF CountersGrow, Handles
      <3> QED BY <1>1, <2>1, <3>1, <3>2, <3>3 DEF LockInv, LockOwned, LiveLock
    <2>3. CASE locks[l].owner.kind # "handle"
      BY <1>1, <2>1, <2>3 DEF LockInv, LockOwned, LiveLock
    <2> QED BY <2>2, <2>3
  <1> QED BY <1>3, <1>4 DEF LockInv

\* So do the files and the stored snapshots.
LEMMA FileKept ==
  ASSUME ContentInv, TypeInv', NEW n, NEW k, NEW x, NEW f, NEW v, Leaves(n, k, x, f, v), NEW g \in Files, g # f
  PROVE  FileInv(g)'
  <1>1. TypeInv /\ FileInv(g) /\ FileStays(g) /\ CountersGrow
    BY DEF ContentInv, Leaves
  <1>2. FilePinned(g)'
    BY <1>1 DEF FileInv, FilePinned, FileStays, Exists
  <1>3. FileDrawn(g)'
    BY <1>1, CountersTyped, Fields, Constants DEF FileInv, FileDrawn, FileStays, CountersGrow, Files
  <1>4. BlocksOfEpoch(g)'
    <2> SUFFICES ASSUME files'[g].alive, NEW i \in Indices, Current(g)'.blocks[i] # 0
                 PROVE  LET b == Current(g)'.blocks[i]
                        IN  ops'[b].file = g /\ ops'[b].epoch = Current(g)'.epoch /\ i \in ops'[b].touched
      BY DEF BlocksOfEpoch
    <2>1. files[g].alive /\ Current(g)' = Current(g) /\ files[g].snapshot \in Roots
      BY <1>1, Fields DEF FileStays, Current
    <2> DEFINE b == Current(g).blocks[i]
    <2>2. b \in Ops /\ ops[b].state = "COMMITTED"
      <3>1. RootCommitted(files[g].snapshot)
        BY <2>1 DEF ContentInv, RootInv
      <3> QED BY <1>1, <2>1, <3>1, Fields DEF RootCommitted, Current
    <2>3. SameOp(b)
      BY <2>2, CommittedStay
    <2>4. ops[b].file = g /\ ops[b].epoch = Current(g).epoch /\ i \in ops[b].touched
      BY <1>1, <2>1 DEF FileInv, BlocksOfEpoch
    <2> QED BY <2>1, <2>3, <2>4 DEF SameOp
  <1> QED BY <1>2, <1>3, <1>4 DEF FileInv

\* Stored snapshots keep their parts, and pruned ones hold nothing.
LEMMA RootKept ==
  ASSUME ContentInv, NEW n, NEW k, NEW x, NEW f, NEW v, Leaves(n, k, x, f, v), NEW r \in Roots, r # v
  PROVE  RootInv(r)'
  <1>0. snapshots'[r] = snapshots[r] \/ snapshots'[r] = NoSnapshot
    BY DEF Leaves
  <1>1. TypeInv /\ RootInv(r)
    BY DEF ContentInv
  <1>2. CASE snapshots'[r] = NoSnapshot
    <2>1. \A i \in Indices : ~(i * BlockSize < 0)
      BY BoundsAssumption DEF Indices
    <2> QED BY <1>2, <2>1, NothingStored DEF RootInv, RootCommitted, Manifest
  <1>3. CASE snapshots'[r] = snapshots[r]
    <2>1. RootCommitted(r)'
      BY <1>1, <1>3, Fields, CommittedStay DEF RootInv, RootCommitted
    <2> QED BY <1>1, <1>3, <2>1 DEF RootInv, Manifest
  <1> QED BY <1>0, <1>2, <1>3

\* Two writes are apart whichever is named first.
LEMMA ApartEitherWay ==
  ASSUME NEW o \in Ops, NEW p \in Ops, Apart(o, p)'
  PROVE  Apart(p, o)'
  BY DEF Apart, SameContent

\* A step keeps the invariant when the records it writes have their parts of it, and so have
\* the handles and the writes of the file whose content it replaces (snapshot v is the new one).
LEMMA Kept ==
  ASSUME ContentInv, TypeInv', LockExclusion', OneFilePerPath',
         NEW n, NEW k, NEW x, NEW f, NEW v, Leaves(n, k, x, f, v),
         v \in Roots => RootInv(v)',
         k \in Locks => LockInv(k)',
         x \in Handles => HandleInv(x)',
         n \in Ops => OpInv(n)' /\ \A p \in Ops : p # n => Apart(n, p)',
         f \in Files => /\ FileInv(f)'
                        /\ \A h \in Handles : h # x /\ handles[h].file = f => HandleBehind(h)'
                        /\ \A o \in Ops : o # n /\ ops[o].file = f =>
                             WriteBehind(o)' /\ BaseReplaced(o)' /\ NotLost(o)',
         \A o \in Ops : o # n /\ NamesNewFile(o) =>
           /\ ops[o].file # f
           /\ x \in Handles => handles'[x].file # ops[o].file
           /\ n \in Ops => ops'[n].file # ops[o].file
  PROVE  ContentInv'
  <1>0. TypeInv /\ 0 \notin Files
    BY Constants DEF Files, ContentInv
  <1>1. \A g \in Files : FileInv(g)'
    BY FileKept
  <1>2. \A r \in Roots : RootInv(r)'
    BY RootKept
  <1>3. \A l \in Locks : LockInv(l)'
    BY LockKept
  <1>4. ASSUME NEW h \in Handles PROVE HandleInv(h)'
    <2>1. CASE h = x
      BY <2>1
    <2>2. CASE h # x
      <3>1. HandlePinned(h)' /\ HandleDrawn(h)' /\ (handles[h].file # f => HandleBehind(h)')
        BY <2>2, HandleKept
      <3>2. CASE handles[h].file = f /\ f \in Files
        BY <2>2, <3>1, <3>2 DEF HandleInv
      <3>3. CASE handles[h].file = f /\ f \notin Files
        <4>1. handles'[h].closed
          <5>1. handles'[h].file = handles[h].file
            BY <2>2 DEF Leaves, HandleStays
          <5>2. ~handles'[h].closed => handles'[h].file # 0 /\ handles'[h].file \in 0..MaxFiles
            BY DEF TypeInv, TypeOK, References, HandleRefs, Handle
          <5> QED BY <3>3, <5>1, <5>2, Constants DEF Files
        <4> QED BY <3>1, <4>1 DEF HandleInv, HandleBehind, Usable
      <3> QED BY <3>1, <3>2, <3>3 DEF HandleInv
    <2> QED BY <2>1, <2>2
  <1>5. ASSUME NEW o \in Ops PROVE OpInv(o)'
    <2>1. CASE o = n
      BY <2>1
    <2>2. CASE o # n
      <3>1. NewFile(o)'
        BY <2>2, NewFileKept
      <3>2. WriteBehind(o)' /\ BaseReplaced(o)' /\ NotLost(o)'
        <4>1. CASE ops[o].file # f
          BY <2>2, <4>1, WriteKept
        <4>2. CASE ops[o].file = f /\ f \in Files
          BY <2>2, <4>2
        <4>3. CASE ops[o].file = f /\ f \notin Files
          <5>1. ops[o].file = 0
            BY <1>0, <4>3, Fields
          <5>2. ops'[o].kind # "write"
            BY <2>2, <5>1 DEF ContentInv, OpInv, OpDrawn, Leaves, OpGoesOn, SameOp
          <5> QED BY <5>2 DEF WriteBehind, BaseReplaced, NotLost, CommittedWrite
        <4> QED BY <4>1, <4>2, <4>3
      <3> QED BY <2>2, <3>1, <3>2, OpKept DEF OpInv
    <2> QED BY <2>1, <2>2
  <1>6. \A o, p \in Ops : o # p => Apart(o, p)'
    BY ApartKept, ApartEitherWay
  <1> QED BY <1>1, <1>2, <1>3, <1>4, <1>5, <1>6 DEF ContentInv

-----------------------------------------------------------------------------
(* The handlers that publish nothing and make no new record.                *)

OpsGoOn == \A o \in Ops : OpGoesOn(o)
LocksGoOn == \A l \in Locks : LockGoesOn(l)
HandlesGoOn == \A h \in Handles : HandleStays(h) /\ KeepsWrite(h)

\* Files may be removed and snapshots pruned, but not those in use.
ContentShrinks ==
  /\ \A f \in Files : FileStays(f)
  /\ \A r \in Roots : snapshots'[r] = snapshots[r] \/ snapshots'[r] = NoSnapshot
  /\ \A h \in Handles : ~handles'[h].closed /\ handles'[h].ttl > 0 =>
       snapshots'[handles[h].snapshot] = snapshots[handles[h].snapshot]

\* Only the counter of reads may move.
NothingDrawn ==
  /\ seq'.file = seq.file /\ seq'.root = seq.root /\ seq'.handle = seq.handle
  /\ seq'.lock = seq.lock /\ seq'.op = seq.op

\* Such a step keeps the invariant.
LEMMA Calm ==
  ASSUME ContentInv, TypeInv', LockExclusion', NothingDrawn, OpsGoOn, LocksGoOn, HandlesGoOn,
         ContentShrinks
  PROVE  ContentInv'
  <1>1. TypeInv /\ 0 \notin Ops /\ 0 \notin Locks /\ 0 \notin Roots
    BY Constants DEF ContentInv, Ops, Locks, Roots
  <1>2. CountersGrow
    BY <1>1, CountersTyped DEF NothingDrawn, CountersGrow
  <1>3. Leaves(0, 0, 0, 0, 0)
    BY <1>1, <1>2 DEF Leaves, OpsGoOn, LocksGoOn, HandlesGoOn, ContentShrinks, HandleStays
  <1>4. OneFilePerPath'
    BY DEF ContentInv, OneFilePerPath, ContentShrinks, FileStays
  <1>5. \A o \in Ops : NamesNewFile(o) => ops[o].file # 0
    BY <1>1, Fields, Constants DEF NamesNewFile, Preparing, Files
  <1>6. 0 \notin Handles /\ 0 \notin Files /\ 0 \notin Roots
    BY Constants DEF Handles, Files, Roots
  <1> QED BY <1>1, <1>3, <1>4, <1>5, <1>6, Kept DEF ContentShrinks

\* Records that do not change go on.
LEMMA RecordsStay ==
  /\ UNCHANGED ops => OpsGoOn
  /\ UNCHANGED locks => LocksGoOn
  /\ UNCHANGED handles => HandlesGoOn
  /\ UNCHANGED seq => NothingDrawn
  /\ UNCHANGED <<files, snapshots>> => ContentShrinks
  BY DEF OpsGoOn, OpGoesOn, SameOp, LocksGoOn, LockGoesOn, KeepsClaim, HandlesGoOn, HandleStays, KeepsWrite,
         NothingDrawn, ContentShrinks, FileStays

\* Operations that are aborted or expire go on, and so does one with another expiry.
LEMMA SettledGoOn ==
  ASSUME TypeInv, NEW o \in Ops, NEW state \in {"ABORTED", "EXPIRED"},
         ops'[o] = Settle(ops[o], state), ops[o].state \notin {"NONE", "COMMITTED"}
  PROVE  OpGoesOn(o) /\ ops'[o].state = state
  <1>1. ops[o] \in Op
    BY TypeParts
  <1> QED BY <1>1 DEF OpGoesOn, SameOp, Settle, Op

\* An operation whose lease, receipts or seal change goes on.
LEMMA ProgressGoesOn ==
  ASSUME TypeInv, NEW o \in Ops, NEW v, NEW w,
         \/ ops'[o] = ops[o]
         \/ ops'[o] = [ops[o] EXCEPT !.expires = v]
         \/ ops'[o] = [ops[o] EXCEPT !.expires = v, !.max = w]
         \/ ops'[o] = [ops[o] EXCEPT !.stored = v]
         \/ ops'[o] = [ops[o] EXCEPT !.sealed = v]
  PROVE  OpGoesOn(o)
  <1>1. ops[o] \in Op
    BY TypeParts
  <1>2. SameOp(o)
    BY <1>1 DEF SameOp, Op
  <1>3. ops'[o].state = ops[o].state
    BY <1>1 DEF Op
  <1> QED BY <1>2, <1>3 DEF OpGoesOn

\* Leases that are renewed while live, or run down, change nothing else.
LEMMA LeaseGoesOn ==
  ASSUME TypeInv
  PROVE  /\ \A h \in Handles : \A t, m :
              handles'[h] = [handles[h] EXCEPT !.ttl = t, !.max = m] /\ (t > 0 => handles[h].ttl > 0) =>
                HandleStays(h) /\ KeepsWrite(h)
         /\ \A l \in Locks : \A t :
              locks'[l] = [locks[l] EXCEPT !.ttl = t] /\ (t > 0 => locks[l].ttl > 0) => LockGoesOn(l)
  <1>1. \A h \in Handles : handles[h] \in Handle
    BY TypeParts
  <1>2. \A l \in Locks : locks[l] \in Lock
    BY TypeParts
  <1>3. ASSUME NEW h \in Handles, NEW t, NEW m, t > 0 => handles[h].ttl > 0,
               handles'[h] = [handles[h] EXCEPT !.ttl = t, !.max = m]
        PROVE  HandleStays(h) /\ KeepsWrite(h)
    <2>1. /\ handles'[h].file = handles[h].file /\ handles'[h].snapshot = handles[h].snapshot
          /\ handles'[h].closed = handles[h].closed /\ handles'[h].busy = handles[h].busy
          /\ handles'[h].revision = handles[h].revision /\ handles'[h].ttl = t
      BY <1>1, <1>3 DEF Handle
    <2> QED BY <1>3, <2>1 DEF HandleStays, KeepsWrite
  <1>4. ASSUME NEW l \in Locks, NEW t, t > 0 => locks[l].ttl > 0, locks'[l] = [locks[l] EXCEPT !.ttl = t]
        PROVE  LockGoesOn(l)
    <2>1. /\ locks'[l].file = locks[l].file /\ locks'[l].owner = locks[l].owner
          /\ locks'[l].indices = locks[l].indices /\ locks'[l].whole = locks[l].whole
          /\ locks'[l].size = locks[l].size /\ locks'[l].active = locks[l].active /\ locks'[l].ttl = t
      BY <1>2, <1>4 DEF Lock
    <2> QED BY <1>4, <2>1 DEF LockGoesOn, KeepsClaim
  <1> QED BY <1>3, <1>4

\* A lock that is deleted goes on, too: nothing is live that was not.
LEMMA DeletedGoesOn == \A l \in Locks : locks'[l] = NoLock => LockGoesOn(l)
  BY DEF LockGoesOn, KeepsClaim, NoLock

\* release_operation() of operations that are no longer being prepared.
LEMMA ReleasedLocksGoOn ==
  ASSUME TypeInv, NEW S, \A o \in S : ops'[o].state # "PREPARING", locks' = ReleasedLocks(S)
  PROVE  LocksGoOn
  <1> SUFFICES ASSUME NEW l \in Locks PROVE LockGoesOn(l)
    BY DEF LocksGoOn
  <1>1. KeepsClaim(l)
    BY ReleasedClaims
  <1>2. locks[l] \in Lock
    BY TypeParts
  <1> DEFINE done == {o \in S \cap locks[l].active : l \in ops[o].locks}
  <1>3. locks'[l] = IF done = {} THEN locks[l] ELSE IF locks[l].automatic THEN NoLock
                    ELSE [locks[l] EXCEPT !.active = locks[l].active \ done]
    BY DEF ReleasedLocks
  <1>4. \A o \in done : ops'[o].state # "PREPARING"
    OBVIOUS
  <1> HIDE DEF done
  <1>5. CASE done = {}
    BY <1>1, <1>3, <1>5 DEF LockGoesOn
  <1>6. CASE done # {} /\ locks[l].automatic
    BY <1>1, <1>3, <1>6 DEF LockGoesOn, NoLock
  <1>7. CASE done # {} /\ ~locks[l].automatic
    <2>1. locks'[l].file = locks[l].file /\ locks'[l].active = locks[l].active \ done
      BY <1>2, <1>3, <1>7 DEF Lock
    <2> QED BY <1>1, <1>4, <2>1 DEF LockGoesOn
  <1> QED BY <1>5, <1>6, <1>7

\* The handles they let go of, and the others.
LEMMA ReleasedFields ==
  ASSUME TypeInv, NEW S, NEW h \in Handles
  PROVE  LET x == ReleasedHandles(S)[h] IN
         /\ x \in Handle /\ x.file = handles[h].file /\ x.snapshot = handles[h].snapshot
         /\ x.closed = handles[h].closed /\ x.ttl = handles[h].ttl /\ x.revision = handles[h].revision
         /\ x.busy = handles[h].busy \/ x.busy = Idle
         /\ \A o \in Ops : o \notin S /\ handles[h].busy = Writing(o) => x.busy = Writing(o)
  <1>1. handles[h] \in Handle /\ ReleasedHandles(S)[h] \in Handle
    BY TypeParts, ReleasedType DEF TypeInv
  <1>2. ReleasedHandles(S)[h] = IF handles[h].busy.kind = "write" /\ handles[h].busy.id \in S
                                THEN [handles[h] EXCEPT !.busy = Idle] ELSE handles[h]
    BY DEF ReleasedHandles
  <1>3. \A o \in Ops : Writing(o).kind = "write" /\ Writing(o).id = o
    BY DEF Writing
  <1>4. CASE handles[h].busy.kind = "write" /\ handles[h].busy.id \in S
    <2>1. ReleasedHandles(S)[h] = [handles[h] EXCEPT !.busy = Idle]
      BY <1>2, <1>4
    <2>2. \A o \in Ops : o \notin S => handles[h].busy # Writing(o)
      BY <1>3, <1>4
    <2> QED BY <1>1, <2>1, <2>2 DEF Handle
  <1>5. CASE ~(handles[h].busy.kind = "write" /\ handles[h].busy.id \in S)
    BY <1>1, <1>2, <1>5
  <1> QED BY <1>4, <1>5

\* The same for their handles, closed in the same step or not.
LEMMA ReleasedHandlesGoOn ==
  ASSUME TypeInv, NEW S, \A o \in S : ops'[o].state # "PREPARING", NEW h \in Handles,
         \/ handles'[h] = ReleasedHandles(S)[h]
         \/ handles'[h] = Shut(ReleasedHandles(S)[h])
  PROVE  HandleStays(h) /\ KeepsWrite(h)
  <1> DEFINE x == ReleasedHandles(S)[h]
  <1>1. /\ x \in Handle /\ x.file = handles[h].file /\ x.snapshot = handles[h].snapshot
        /\ x.closed = handles[h].closed /\ x.ttl = handles[h].ttl /\ x.revision = handles[h].revision
        /\ x.busy = handles[h].busy \/ x.busy = Idle
        /\ \A o \in Ops : o \notin S /\ handles[h].busy = Writing(o) => x.busy = Writing(o)
    BY ReleasedFields
  <1> HIDE DEF x
  <1>2. /\ handles'[h].file = x.file /\ handles'[h].snapshot = x.snapshot
        /\ handles'[h].busy = x.busy /\ handles'[h].revision = x.revision
        /\ handles'[h].closed \/ (handles'[h].closed = x.closed /\ handles'[h].ttl = x.ttl)
    <2>1. CASE handles'[h] = x
      BY <2>1
    <2>2. CASE handles'[h] = Shut(x)
      BY <1>1, <2>2 DEF Shut, Handle
    <2> QED BY <2>1, <2>2 DEF x
  <1> QED BY <1>1, <1>2 DEF HandleStays, KeepsWrite

\* Pruning keeps what files publish and usable handles read.
LEMMA PrunedShrinks ==
  ASSUME TypeInv, UNCHANGED files, snapshots' = Pruned(Pins(Handles)), HandlesGoOn
  PROVE  ContentShrinks
  <1>1. \A r \in Roots : snapshots'[r] = IF r \in Pins(Handles) THEN snapshots[r] ELSE NoSnapshot
    BY DEF Pruned
  <1>2. \A f \in Files : files[f].alive => files[f].snapshot \in Pins(Handles) /\ files[f].snapshot \in Roots
    BY Fields DEF Pins
  <1>3. \A h \in Handles : ~handles[h].closed /\ handles[h].ttl > 0 =>
          handles[h].snapshot \in Pins(Handles) /\ handles[h].snapshot \in Roots
    BY Fields DEF Pins, LiveHandle
  <1>4. \A f \in Files : FileStays(f)
    BY <1>1, <1>2 DEF FileStays
  <1> QED BY <1>1, <1>3, <1>4 DEF ContentShrinks, HandlesGoOn, HandleStays

\* Renewing, closing and reading through a handle.
LEMMA CalmHandle ==
  ASSUME TypeInv, NEW h \in Handles, RenewHandle(h) \/ Close(h) \/ BeginRead(h)
  PROVE  NothingDrawn /\ OpsGoOn /\ LocksGoOn /\ HandlesGoOn /\ ContentShrinks
  <1>1. handles \in [Handles -> Handle] /\ handles[h] \in Handle /\ ops \in [Ops -> Op]
    BY TypeParts
  <1>2. CASE RenewHandle(h)
    <2> DEFINE ttl == Minimum(HandleTTL, handles[h].max)
               o == handles[h].busy.id
    <2>1. /\ handles[h].ttl > 0 /\ handles' = [handles EXCEPT ![h].ttl = ttl]
          /\ ops' = IF handles[h].busy.kind = "write" /\ ops[o].state = "PREPARING"
                    THEN [ops EXCEPT ![o].expires = ttl] ELSE ops
          /\ UNCHANGED <<files, snapshots, locks, reads, seq>>
      BY <1>2 DEF RenewHandle, HandleOk, LiveHandle
    <2> HIDE DEF ttl, o
    <2>2. HandlesGoOn
      <3> SUFFICES ASSUME NEW g \in Handles PROVE HandleStays(g) /\ KeepsWrite(g)
        BY DEF HandlesGoOn
      <3>1. handles'[g] = [handles[g] EXCEPT !.ttl = handles'[g].ttl, !.max = handles[g].max]
        BY <1>1, <2>1, TypeParts DEF Handle
      <3>2. handles'[g].ttl > 0 => handles[g].ttl > 0
        BY <1>1, <2>1
      <3> QED BY <3>1, <3>2, LeaseGoesOn
    <2>3. OpsGoOn
      <3> SUFFICES ASSUME NEW p \in Ops PROVE OpGoesOn(p)
        BY DEF OpsGoOn
      <3>1. ops'[p] = ops[p] \/ ops'[p] = [ops[p] EXCEPT !.expires = ttl]
        BY <1>1, <2>1
      <3> QED BY <3>1, ProgressGoesOn
    <2> QED BY <2>1, <2>2, <2>3, RecordsStay
  <1>3. CASE Close(h)
    <2>1. /\ handles[h].busy = Idle
          /\ handles' = [handles EXCEPT ![h] =
                          [Shut(handles[h]) EXCEPT !.revision = handles[h].revision + 1]]
          /\ locks' = [l \in Locks |-> IF locks[l].owner = HandleOwner(h) THEN NoLock ELSE locks[l]]
          /\ UNCHANGED <<files, snapshots, ops, reads, seq>>
      BY <1>3 DEF Close
    <2>2. LocksGoOn
      <3> SUFFICES ASSUME NEW l \in Locks PROVE LockGoesOn(l)
        BY DEF LocksGoOn
      <3>1. CASE locks'[l] = NoLock
        BY <3>1, DeletedGoesOn
      <3>2. CASE locks'[l] = locks[l]
        BY <3>2 DEF LockGoesOn, KeepsClaim
      <3> QED BY <2>1, <3>1, <3>2
    <2>3. HandlesGoOn
      <3> SUFFICES ASSUME NEW g \in Handles PROVE HandleStays(g) /\ KeepsWrite(g)
        BY DEF HandlesGoOn
      <3>1. CASE g # h
        <4>1. handles'[g] = handles[g]
          BY <1>1, <2>1, <3>1
        <4> QED BY <4>1 DEF HandleStays, KeepsWrite
      <3>2. CASE g = h
        <4>1. /\ handles'[h].file = handles[h].file /\ handles'[h].snapshot = handles[h].snapshot
              /\ handles'[h].closed /\ handles'[h].busy = Idle
          BY <1>1, <2>1 DEF Handle, Shut
        <4>2. \A o \in Ops : handles[h].busy # Writing(o)
          BY <2>1 DEF Idle, Writing
        <4> QED BY <3>2, <4>1, <4>2 DEF HandleStays, KeepsWrite
      <3> QED BY <3>1, <3>2
    <2> QED BY <2>1, <2>2, <2>3, RecordsStay
  <1>4. CASE BeginRead(h)
    <2> DEFINE r == seq.read + 1
    <2>1. /\ ~handles[h].closed /\ handles[h].busy = Idle
          /\ handles' = [handles EXCEPT ![h].busy = Reading(r)]
          /\ seq' = [seq EXCEPT !.read = r]
          /\ UNCHANGED <<files, snapshots, locks, ops>>
      BY <1>4 DEF BeginRead, HandleOk
    <2> HIDE DEF r
    <2>2. HandlesGoOn
      <3> SUFFICES ASSUME NEW g \in Handles PROVE HandleStays(g) /\ KeepsWrite(g)
        BY DEF HandlesGoOn
      <3>1. CASE g # h
        <4>1. handles'[g] = handles[g]
          BY <1>1, <2>1, <3>1
        <4> QED BY <4>1 DEF HandleStays, KeepsWrite
      <3>2. CASE g = h
        <4>1. /\ handles'[h].file = handles[h].file /\ handles'[h].snapshot = handles[h].snapshot
              /\ handles'[h].closed = handles[h].closed /\ handles'[h].ttl = handles[h].ttl
          BY <1>1, <2>1 DEF Handle
        <4>2. \A o \in Ops : handles[h].busy # Writing(o)
          BY <2>1 DEF Idle, Writing
        <4> QED BY <2>1, <3>2, <4>1, <4>2 DEF HandleStays, KeepsWrite
      <3> QED BY <3>1, <3>2
    <2>3. NothingDrawn
      <3>1. seq \in Counters
        BY TypeParts
      <3> QED BY <2>1, <3>1 DEF NothingDrawn, Counters
    <2> QED BY <2>1, <2>2, <2>3, RecordsStay
  <1> QED BY <1>2, <1>3, <1>4

\* The end of a read, however late.
LEMMA CalmEndRead ==
  ASSUME TypeInv, NEW r \in Reads, EndRead(r)
  PROVE  NothingDrawn /\ OpsGoOn /\ LocksGoOn /\ HandlesGoOn /\ ContentShrinks
  <1> DEFINE h == reads[r].handle
  <1>1. /\ h # 0
        /\ handles' = IF handles[h].busy = Reading(r)
                      THEN [handles EXCEPT ![h].busy = Idle] ELSE handles
        /\ UNCHANGED <<files, snapshots, locks, ops, seq>>
    BY DEF EndRead
  <1>2. h \in Handles /\ handles \in [Handles -> Handle]
    BY <1>1, TypeParts, Constants DEF Read, Handles
  <1> HIDE DEF h
  <1>3. CASE handles[h].busy = Reading(r)
    <2>1. handles' = [handles EXCEPT ![h].busy = Idle]
      BY <1>1, <1>3
    <2>2. \A o \in Ops : handles[h].busy # Writing(o)
      BY <1>3 DEF Reading, Writing
    <2>3. \A g \in Handles : g # h => handles'[g] = handles[g]
      BY <1>2, <2>1
    <2>4. /\ handles'[h].file = handles[h].file /\ handles'[h].snapshot = handles[h].snapshot
          /\ handles'[h].closed = handles[h].closed /\ handles'[h].ttl = handles[h].ttl
          /\ handles'[h].busy = Idle
      BY <1>2, <2>1 DEF Handle
    <2>5. HandlesGoOn
      BY <2>2, <2>3, <2>4 DEF HandlesGoOn, HandleStays, KeepsWrite
    <2> QED BY <1>1, <2>5, RecordsStay
  <1>4. CASE handles[h].busy # Reading(r)
    BY <1>1, <1>4, RecordsStay
  <1> QED BY <1>3, <1>4

\* Renewing and giving up a lock.
LEMMA CalmLock ==
  ASSUME TypeInv, NEW l \in Locks, RenewLock(l) \/ Unlock(l)
  PROVE  NothingDrawn /\ OpsGoOn /\ LocksGoOn /\ HandlesGoOn /\ ContentShrinks
  <1>1. locks \in [Locks -> Lock] /\ locks[l].ttl > 0 /\ UNCHANGED <<files, snapshots, handles, ops, reads, seq>>
    BY TypeParts DEF RenewLock, Unlock, Valid, LiveLock
  <1>2. locks' = [locks EXCEPT ![l].ttl = LockTTL] \/ locks' = [locks EXCEPT ![l] = NoLock]
    BY DEF RenewLock, Unlock
  <1>3. LocksGoOn
    <2> SUFFICES ASSUME NEW k \in Locks PROVE LockGoesOn(k)
      BY DEF LocksGoOn
    <2>1. CASE locks'[k] = locks[k]
      BY <2>1 DEF LockGoesOn, KeepsClaim
    <2>2. CASE locks'[k] = NoLock
      BY <2>2, DeletedGoesOn
    <2>3. CASE k = l /\ locks'[k] = [locks[k] EXCEPT !.ttl = LockTTL]
      BY <1>1, <2>3, LeaseGoesOn
    <2> QED BY <1>1, <1>2, <2>1, <2>2, <2>3
  <1> QED BY <1>1, <1>3, RecordsStay

\* Receipts, and the renewal and sealing of an upload.
LEMMA CalmProgress ==
  ASSUME TypeInv, NEW o \in Ops,
         (\E i \in Indices : ReportPatch(o, i)) \/ RenewUpload(o) \/ SealManifest(o)
  PROVE  NothingDrawn /\ OpsGoOn /\ LocksGoOn /\ HandlesGoOn /\ ContentShrinks
  <1>1. ops \in [Ops -> Op] /\ UNCHANGED <<files, snapshots, handles, reads, seq>>
    BY TypeParts DEF ReportPatch, RenewUpload, SealManifest
  <1>2. OpsGoOn
    <2> SUFFICES ASSUME NEW p \in Ops PROVE OpGoesOn(p)
      BY DEF OpsGoOn
    <2>1. PICK v : \/ ops' = [ops EXCEPT ![o].stored = v]
                   \/ ops' = [ops EXCEPT ![o].expires = v]
                   \/ ops' = [ops EXCEPT ![o].sealed = v]
      BY DEF ReportPatch, RenewUpload, SealManifest
    <2>2. \/ ops'[p] = ops[p] \/ ops'[p] = [ops[p] EXCEPT !.stored = v]
          \/ ops'[p] = [ops[p] EXCEPT !.expires = v] \/ ops'[p] = [ops[p] EXCEPT !.sealed = v]
      BY <1>1, <2>1
    <2> QED BY <2>2, ProgressGoesOn
  <1>3. LocksGoOn
    <2>1. CASE UNCHANGED locks
      BY <2>1, RecordsStay
    <2>2. CASE RenewUpload(o)
      <3> DEFINE ttl == Minimum(UploadTTL, ops[o].max)
      <3>1. /\ \A l \in ops[o].locks : locks[l].ttl > 0
            /\ locks' = [l \in Locks |->
                  IF l \in ops[o].locks THEN [locks[l] EXCEPT !.ttl = ttl] ELSE locks[l]]
        BY <2>2 DEF RenewUpload, UploadOperation, Valid, LiveLock
      <3> HIDE DEF ttl
      <3>2. ASSUME NEW l \in Locks PROVE LockGoesOn(l)
        <4>1. CASE l \in ops[o].locks
          BY <3>1, <4>1, LeaseGoesOn
        <4>2. CASE l \notin ops[o].locks
          BY <3>1, <4>2 DEF LockGoesOn, KeepsClaim
        <4> QED BY <4>1, <4>2
      <3> QED BY <3>2 DEF LocksGoOn
    <2> QED BY <2>1, <2>2 DEF ReportPatch, SealManifest
  <1> QED BY <1>1, <1>2, <1>3, RecordsStay

\* The client's abort, a removal and a DataNode's reboot.
LEMMA CalmAbort ==
  ASSUME TypeInv, \/ \E o \in Ops : Abort(o)
                  \/ \E f \in Files : Remove(f)
                  \/ \E S \in SUBSET Ops : DataNodeReboot(S)
  PROVE  NothingDrawn /\ OpsGoOn /\ LocksGoOn /\ HandlesGoOn /\ ContentShrinks
  <1>0. ops \in [Ops -> Op]
    BY TypeParts
  <1>1. ASSUME NEW S, \A p \in S : ops'[p].state # "PREPARING",
               locks' = ReleasedLocks(S), handles' = ReleasedHandles(S)
        PROVE  LocksGoOn /\ HandlesGoOn
    BY <1>1, ReleasedLocksGoOn, ReleasedHandlesGoOn DEF HandlesGoOn
  <1>2. ASSUME \A p \in Ops : \/ ops'[p] = ops[p]
                              \/ /\ ops'[p] = Settle(ops[p], "ABORTED")
                                 /\ ops[p].state \notin {"NONE", "COMMITTED"}
        PROVE  OpsGoOn
    <2> SUFFICES ASSUME NEW p \in Ops PROVE OpGoesOn(p)
      BY DEF OpsGoOn
    <2>1. CASE ops'[p] = ops[p]
      BY <2>1 DEF OpGoesOn, SameOp
    <2> QED BY <1>2, <2>1, SettledGoOn
  <1>3. \A p \in Ops : Settle(ops[p], "ABORTED").state = "ABORTED"
    BY <1>0 DEF Settle, Op
  <1>4. ASSUME NEW o \in Ops, Abort(o)
        PROVE  NothingDrawn /\ OpsGoOn /\ LocksGoOn /\ HandlesGoOn /\ ContentShrinks
    <2>1. /\ ops[o].state \notin {"NONE", "COMMITTED"}
          /\ ops' = [ops EXCEPT ![o] = Settle(ops[o], "ABORTED")]
          /\ locks' = ReleasedLocks({o}) /\ handles' = ReleasedHandles({o})
          /\ UNCHANGED <<files, snapshots, reads, seq>>
      BY <1>4 DEF Abort
    <2>2. LocksGoOn /\ HandlesGoOn
      BY <1>0, <1>1, <1>3, <2>1
    <2>3. OpsGoOn
      BY <1>0, <1>2, <2>1
    <2> QED BY <2>1, <2>2, <2>3, RecordsStay
  <1>5. ASSUME NEW f \in Files, Remove(f)
        PROVE  NothingDrawn /\ OpsGoOn /\ LocksGoOn /\ HandlesGoOn /\ ContentShrinks
    <2> DEFINE doomed == {o \in Ops : ops[o].file = f /\ ops[o].state = "PREPARING"}
               after  == [o \in Ops |-> IF o \in doomed THEN Settle(ops[o], "ABORTED") ELSE ops[o]]
    <2>1. /\ files' = [files EXCEPT ![f].alive = FALSE] /\ ops' = after
          /\ locks' = ReleasedLocks(Settled(after)) /\ handles' = ReleasedHandles(Settled(after))
          /\ UNCHANGED <<snapshots, reads, seq>>
      BY <1>5 DEF Remove
    <2>2. \A p \in Settled(after) : ops'[p].state # "PREPARING"
      BY <2>1 DEF Settled
    <2>3. OpsGoOn
      BY <1>2, <2>1
    <2> HIDE DEF after, doomed
    <2>4. LocksGoOn /\ HandlesGoOn
      BY <1>1, <2>1, <2>2
    <2>5. ContentShrinks
      <3>1. files \in [Files -> FileType]
        BY TypeParts
      <3>2. \A g \in Files : files'[g].snapshot = files[g].snapshot /\ (files'[g].alive => files[g].alive)
        BY <2>1, <3>1 DEF FileType
      <3> QED BY <2>1, <3>2 DEF ContentShrinks, FileStays
    <2> QED BY <2>1, <2>3, <2>4, <2>5, RecordsStay
  <1>6. ASSUME NEW S \in SUBSET Ops, DataNodeReboot(S)
        PROVE  NothingDrawn /\ OpsGoOn /\ LocksGoOn /\ HandlesGoOn /\ ContentShrinks
    <2>1. /\ \A o \in S : ops[o].state = "PREPARING"
          /\ ops' = [o \in Ops |-> IF o \in S THEN Settle(ops[o], "ABORTED") ELSE ops[o]]
          /\ UNCHANGED <<files, snapshots, handles, locks, reads, seq>>
      BY <1>6 DEF DataNodeReboot
    <2>2. OpsGoOn
      BY <1>2, <2>1
    <2> QED BY <2>1, <2>2, RecordsStay
  <1> QED BY <1>4, <1>5, <1>6

\* collect() lets go of what has lapsed and prunes.
LEMMA CalmCollect ==
  ASSUME TypeInv, Collect
  PROVE  NothingDrawn /\ OpsGoOn /\ LocksGoOn /\ HandlesGoOn /\ ContentShrinks
  <1> DEFINE lapsed(o) == /\ ops[o].kind = "write" /\ ops[o].state = "PREPARING"
                          /\ \/ ~LiveHandle(ops[o].handle)
                             \/ \E l \in ops[o].locks : ~LiveLock(l)
             late(o)   == /\ ops[o].state = "PREPARING"
                          /\ IF ops[o].kind = "write" THEN handles[ops[o].handle].closed
                             ELSE ops[o].expires = 0
             first     == [o \in Ops |-> IF lapsed(o) THEN Settle(ops[o], "EXPIRED") ELSE ops[o]]
  <1>1. /\ ops' = [o \in Ops |-> IF late(o) THEN Settle(ops[o], "EXPIRED") ELSE first[o]]
        /\ locks' = ReleasedLocks(Settled(first))
        /\ handles' = [h \in Handles |->
             IF LiveHandle(h) THEN ReleasedHandles(Settled(first))[h]
             ELSE Shut(ReleasedHandles(Settled(first))[h])]
        /\ snapshots' = Pruned(Pins(Handles))
        /\ UNCHANGED <<files, reads, seq>>
    BY DEF Collect
  <1>2. ops \in [Ops -> Op]
    BY TypeParts
  <1>3. \A o \in Ops : /\ lapsed(o) => ops[o].state = "PREPARING"
                       /\ late(o) => ops[o].state = "PREPARING"
                       /\ first[o] = IF lapsed(o) THEN Settle(ops[o], "EXPIRED") ELSE ops[o]
    OBVIOUS
  <1> HIDE DEF lapsed, late, first
  <1>4. \A o \in Ops : \/ ops'[o] = ops[o] /\ ops'[o] = first[o]
                       \/ /\ ops'[o] = Settle(ops[o], "EXPIRED")
                          /\ ops[o].state \notin {"NONE", "COMMITTED"}
    BY <1>1, <1>3
  <1>5. OpsGoOn
    <2> SUFFICES ASSUME NEW p \in Ops PROVE OpGoesOn(p)
      BY DEF OpsGoOn
    <2>1. CASE ops'[p] = ops[p]
      BY <2>1 DEF OpGoesOn, SameOp
    <2> QED BY <1>4, <2>1, SettledGoOn
  <1>6. \A p \in Settled(first) : ops'[p].state # "PREPARING"
    <2>1. \A p \in Ops : Settle(ops[p], "EXPIRED").state = "EXPIRED"
      BY <1>2 DEF Settle, Op
    <2> QED BY <1>4, <2>1 DEF Settled
  <1>7. LocksGoOn
    BY <1>1, <1>6, ReleasedLocksGoOn
  <1>8. HandlesGoOn
    <2>1. \A h \in Handles : \/ handles'[h] = ReleasedHandles(Settled(first))[h]
                             \/ handles'[h] = Shut(ReleasedHandles(Settled(first))[h])
      BY <1>1
    <2> QED BY <1>6, <2>1, ReleasedHandlesGoOn DEF HandlesGoOn
  <1> QED BY <1>1, <1>5, <1>7, <1>8, PrunedShrinks, RecordsStay

\* A restart ends everything that was going on; the clocks only run leases down.
LEMMA CalmRestart ==
  ASSUME TypeInv, ControlRestart
  PROVE  NothingDrawn /\ OpsGoOn /\ LocksGoOn /\ HandlesGoOn /\ ContentShrinks
  <1>1. /\ ops' = [o \in Ops |-> IF ops[o].state = "PREPARING"
                                 THEN Settle(ops[o], "ABORTED") ELSE ops[o]]
        /\ snapshots' = Pruned(Pins(Handles))
        /\ handles' = [h \in Handles |-> Shut(handles[h])]
        /\ locks' = [l \in Locks |-> NoLock]
        /\ UNCHANGED <<files, reads, seq>>
    BY DEF ControlRestart
  <1>2. OpsGoOn
    <2> SUFFICES ASSUME NEW p \in Ops PROVE OpGoesOn(p)
      BY DEF OpsGoOn
    <2>1. CASE ops'[p] = ops[p]
      BY <2>1 DEF OpGoesOn, SameOp
    <2> QED BY <1>1, <2>1, SettledGoOn
  <1>3. LocksGoOn
    BY <1>1, DeletedGoesOn DEF LocksGoOn
  <1>4. HandlesGoOn
    <2>1. \A h \in Handles : /\ handles'[h].file = handles[h].file /\ handles'[h].snapshot = handles[h].snapshot
                             /\ handles'[h].closed /\ handles'[h].busy = handles[h].busy
                             /\ handles'[h].revision = handles[h].revision
      BY <1>1, TypeParts DEF Shut, Handle
    <2> QED BY <2>1 DEF HandlesGoOn, HandleStays, KeepsWrite
  <1> QED BY <1>1, <1>2, <1>3, <1>4, PrunedShrinks, RecordsStay

\* The clocks only shorten leases and expiries.
LEMMA CalmTicks ==
  ASSUME TypeInv, TickLease \/ TickWall \/ UNCHANGED vars
  PROVE  NothingDrawn /\ OpsGoOn /\ LocksGoOn /\ HandlesGoOn /\ ContentShrinks
  <1>1. CASE TickLease
    <2>1. /\ locks' = [l \in Locks |-> [locks[l] EXCEPT !.ttl = Less(locks[l].ttl)]]
          /\ handles' = [h \in Handles |-> [handles[h] EXCEPT !.ttl = Less(handles[h].ttl),
                                                              !.max = Less(handles[h].max)]]
          /\ UNCHANGED <<files, snapshots, ops, reads, seq>>
      BY <1>1 DEF TickLease
    <2>2. \A l \in Locks : Less(locks[l].ttl) > 0 => locks[l].ttl > 0
      BY Fields DEF Less
    <2>3. \A h \in Handles : Less(handles[h].ttl) > 0 => handles[h].ttl > 0
      BY Fields DEF Less
    <2>4. LocksGoOn
      BY <2>1, <2>2, LeaseGoesOn DEF LocksGoOn
    <2>5. HandlesGoOn
      BY <2>1, <2>3, LeaseGoesOn DEF HandlesGoOn
    <2> QED BY <2>1, <2>4, <2>5, RecordsStay
  <1>2. CASE TickWall
    <2>1. /\ ops' = [o \in Ops |-> [ops[o] EXCEPT !.expires = Less(ops[o].expires),
                                                  !.max = Less(ops[o].max)]]
          /\ UNCHANGED <<files, snapshots, handles, locks, reads, seq>>
      BY <1>2 DEF TickWall
    <2>3. OpsGoOn
      <3> SUFFICES ASSUME NEW p \in Ops PROVE OpGoesOn(p)
        BY DEF OpsGoOn
      <3> DEFINE v == Less(ops[p].expires)
                 w == Less(ops[p].max)
      <3>1. ops'[p] = [ops[p] EXCEPT !.expires = v, !.max = w]
        BY <2>1
      <3> QED BY <3>1, ProgressGoesOn
    <2> QED BY <2>1, <2>3, RecordsStay
  <1>3. CASE UNCHANGED vars
    BY <1>3, RecordsStay DEF vars
  <1> QED BY <1>1, <1>2, <1>3

-----------------------------------------------------------------------------
(* The handlers that make a handle, a lock or an operation and publish      *)
(* nothing.                                                                 *)

\* A step that writes a handle, a lock or an operation and leaves files and snapshots alone.
LEMMA Recorded ==
  ASSUME ContentInv, TypeInv', LockExclusion', UNCHANGED <<files, snapshots>>,
         NEW n, NEW k, NEW x, Leaves(n, k, x, 0, 0),
         k \in Locks => LockInv(k)',
         x \in Handles => HandleInv(x)',
         n \in Ops => OpInv(n)' /\ \A p \in Ops : p # n => Apart(n, p)',
         \A o \in Ops : o # n /\ NamesNewFile(o) =>
           /\ x \in Handles => handles'[x].file # ops[o].file
           /\ n \in Ops => ops'[n].file # ops[o].file
  PROVE  ContentInv'
  <1>1. TypeInv /\ 0 \notin Files /\ 0 \notin Roots
    BY Constants DEF ContentInv, Files, Roots
  <1>2. \A o \in Ops : NamesNewFile(o) => ops[o].file # 0
    BY <1>1, Fields, Constants DEF NamesNewFile, Preparing, Files
  <1>3. OneFilePerPath'
    BY DEF ContentInv, OneFilePerPath
  <1> QED BY <1>1, <1>2, <1>3, Kept

\* The next identifiers name records that nobody uses.
LEMMA Unused ==
  ASSUME ContentInv
  PROVE  /\ \A h \in Handles : h > seq.handle => handles[h].closed /\ handles[h].busy = Idle
         /\ \A o \in Ops : o > seq.op => ops[o].state = "NONE"
         /\ \A f \in Files : f > seq.file => files[f].snapshot = 0 /\ ~files[f].alive
         /\ \A f \in Files : files[f].alive => f <= seq.file
  <1>1. TypeInv
    BY DEF ContentInv
  <1>2. \A f \in Files : files[f].alive => files[f].snapshot # 0
    BY <1>1, TypeParts DEF FileRefs
  <1>3. \A f \in Files : f \in Nat /\ seq.file \in Nat
    BY <1>1, Fields, Constants DEF Files
  <1> QED BY <1>2, <1>3 DEF ContentInv, HandleInv, HandleDrawn, OpInv, OpDrawn, FileInv, FileDrawn

\* A new handle takes nothing from anybody.
LEMMA OpenedLeaves ==
  ASSUME ContentInv, NEW x \in Handles, x = seq.handle + 1, NEW f, NEW root, NEW mode,
         handles' = [handles EXCEPT ![x] = NewHandle(f, root, mode)]
  PROVE  /\ \A h \in Handles : KeepsWrite(h) /\ (h <= seq.handle => handles'[h].file = handles[h].file)
         /\ \A h \in Handles : h # x => HandleStays(h) /\ handles'[h] = handles[h]
         /\ handles'[x].file = f /\ handles'[x].snapshot = root /\ ~handles'[x].closed
  <1>1. TypeInv
    BY DEF ContentInv
  <1>2. handles \in [Handles -> Handle] /\ seq.handle \in Nat /\ \A h \in Handles : h \in Nat
    BY <1>1, TypeParts, Fields, Constants DEF Handles
  <1>3. handles[x].busy = Idle
    BY <1>2, Unused
  <1>4. \A h \in Handles : h # x => handles'[h] = handles[h]
    BY <1>2
  <1>5. handles'[x].file = f /\ handles'[x].snapshot = root /\ ~handles'[x].closed
    BY <1>2 DEF NewHandle
  <1>6. \A o \in Ops : Idle # Writing(o)
    BY DEF Idle, Writing
  <1>7. KeepsWrite(x)
    BY <1>3, <1>6 DEF KeepsWrite
  <1>8. \A h \in Handles : h # x => HandleStays(h) /\ KeepsWrite(h)
    BY <1>4 DEF HandleStays, KeepsWrite
  <1>9. ~(x <= seq.handle)
    BY <1>2
  <1> QED BY <1>4, <1>5, <1>7, <1>8, <1>9

\* Open in a mode that neither creates nor truncates.
LEMMA ContentOpenExisting ==
  ASSUME ContentInv, TypeInv', LockExclusion', NEW f \in Files, NEW mode \in Modes, OpenExisting(f, mode)
  PROVE  ContentInv'
  <1>1. TypeInv /\ FileInv(f)
    BY DEF ContentInv
  <1>2. /\ files[f].alive /\ seq.handle < MaxHandles
        /\ handles' = [handles EXCEPT ![seq.handle + 1] = NewHandle(f, files[f].snapshot, mode)]
        /\ seq' = [seq EXCEPT !.handle = seq.handle + 1]
        /\ UNCHANGED <<files, snapshots, locks, ops, reads>>
    BY DEF OpenExisting
  <1>3. PICK x \in Handles : x = seq.handle + 1
    BY <1>1, <1>2, TypeParts, NextIdentifier
  <1>4. PICK root \in Roots : root = files[f].snapshot
    BY <1>1, <1>2, Fields
  <1>5. handles' = [handles EXCEPT ![x] = NewHandle(f, root, mode)]
    BY <1>2, <1>3, <1>4
  <1>6. /\ \A h \in Handles : KeepsWrite(h) /\ (h <= seq.handle => handles'[h].file = handles[h].file)
        /\ \A h \in Handles : h # x => HandleStays(h) /\ handles'[h] = handles[h]
        /\ handles'[x].file = f /\ handles'[x].snapshot = root /\ ~handles'[x].closed
    BY <1>3, <1>5, OpenedLeaves
  <1>7. /\ seq'.file = seq.file /\ seq'.root = seq.root /\ seq'.handle = x
        /\ seq'.lock = seq.lock /\ seq'.op = seq.op
    BY <1>1, <1>2, <1>3, TypeParts DEF Counters
  <1>8. Leaves(0, 0, x, 0, 0)
    <2>1. 0 \notin Ops /\ 0 \notin Locks /\ 0 \notin Roots
      BY Constants DEF Ops, Locks, Roots
    <2>2. CountersGrow
      BY <1>1, <1>3, <1>7, CountersTyped DEF CountersGrow
    <2>3. OpsGoOn /\ LocksGoOn /\ ContentShrinks
      BY <1>2, RecordsStay
    <2> QED BY <1>2, <1>6, <2>1, <2>2, <2>3 DEF Leaves, OpsGoOn, LocksGoOn, ContentShrinks
  <1>9. HandleInv(x)'
    <2>1. HandlePinned(x)'
      BY <1>1, <1>2, <1>4, <1>6 DEF FileInv, FilePinned, HandlePinned, Exists
    <2>2. HandleDrawn(x)'
      <3>1. f <= seq.file /\ root <= seq.root
        BY <1>1, <1>2, <1>4, Unused DEF FileInv, FileDrawn
      <3> QED BY <1>3, <1>6, <1>7, <3>1, Constants DEF HandleDrawn, Handles
    <2>3. HandleBehind(x)'
      <3>1. snapshots[root].epoch \in Nat /\ snapshots[root].size \in Nat
        BY <1>1, Fields
      <3> QED BY <1>2, <1>4, <1>6, <3>1 DEF HandleBehind, Current
    <2> QED BY <2>1, <2>2, <2>3 DEF HandleInv
  <1>10. \A o \in Ops : NamesNewFile(o) => ops[o].file # f
    <2>1. files[f].snapshot # 0
      BY <1>4, Constants DEF Roots
    <2> QED BY <2>1 DEF ContentInv, OpInv, NewFile
  <1>11. 0 \notin Ops /\ 0 \notin Locks
    BY Constants DEF Ops, Locks
  <1> QED BY <1>2, <1>6, <1>8, <1>9, <1>10, <1>11, Recorded

\* An explicit lock.
LEMMA ContentAcquireLock ==
  ASSUME ContentInv, TypeInv', LockExclusion', NEW h \in Handles, NEW indices, NEW whole,
         AcquireLock(h, indices, whole)
  PROVE  ContentInv'
  <1>1. TypeInv
    BY DEF ContentInv
  <1>2. /\ ~handles[h].closed /\ seq.lock < MaxLocks
        /\ locks' = [locks EXCEPT ![seq.lock + 1] =
                       NewLock(handles[h].file, HandleOwner(h), indices, whole, whole, FALSE, {}, LockTTL)]
        /\ seq' = [seq EXCEPT !.lock = seq.lock + 1]
        /\ UNCHANGED <<files, snapshots, handles, ops, reads>>
    BY DEF AcquireLock, Writable, HandleOk, CanAcquire
  <1>3. PICK k \in Locks : k = seq.lock + 1
    BY <1>1, <1>2, TypeParts, NextIdentifier
  <1>4. /\ locks'[k].file = handles[h].file /\ locks'[k].owner = HandleOwner(h)
        /\ \A l \in Locks : l # k => locks'[l] = locks[l]
    BY <1>1, <1>2, <1>3, TypeParts DEF NewLock
  <1>5. /\ seq'.file = seq.file /\ seq'.root = seq.root /\ seq'.handle = seq.handle
        /\ seq'.lock = k /\ seq'.op = seq.op
    BY <1>1, <1>2, <1>3, TypeParts DEF Counters
  <1>6. Leaves(0, k, 0, 0, 0)
    <2>1. 0 \notin Ops /\ 0 \notin Roots
      BY Constants DEF Ops, Roots
    <2>2. CountersGrow /\ k > seq.lock
      BY <1>1, <1>3, <1>5, CountersTyped DEF CountersGrow
    <2>3. OpsGoOn /\ HandlesGoOn /\ ContentShrinks
      BY <1>2, RecordsStay
    <2>4. \A l \in Locks : l # k => LockGoesOn(l)
      BY <1>4 DEF LockGoesOn, KeepsClaim
    <2> QED BY <1>2, <2>1, <2>2, <2>3, <2>4 DEF Leaves, OpsGoOn, HandlesGoOn, ContentShrinks
  <1>7. LockInv(k)'
    <2>1. handles[h].file \in Files /\ handles[h].file <= seq.file /\ h <= seq.handle
      <3>1. HandleDrawn(h) /\ h \in Nat /\ seq.handle \in Nat
        BY <1>1, Fields, Constants DEF ContentInv, HandleInv, Handles
      <3> QED BY <1>1, <1>2, <3>1, Fields DEF HandleDrawn
    <2>2. HandleOwner(h).kind = "handle" /\ HandleOwner(h).id = h
      BY DEF HandleOwner
    <2>3. handles[h].file # 0
      BY <2>1, Constants DEF Files
    <2>4. k <= seq'.lock
      BY <1>3, <1>5, Constants DEF Locks
    <2> QED BY <1>2, <1>4, <1>5, <2>1, <2>2, <2>3, <2>4 DEF LockInv, LockDrawn, LockOwned
  <1>8. 0 \notin Ops /\ 0 \notin Handles
    BY Constants DEF Ops, Handles
  <1> QED BY <1>2, <1>6, <1>7, <1>8, Recorded

\* Division with remainder.
LEMMA Quotient ==
  ASSUME NEW a \in Nat, NEW b \in Nat \ {0}
  PROVE  \E i \in Nat : i * b <= a /\ a < (i + 1) * b
  <1> DEFINE q == a \div b
  <1>1. q \in Int /\ b * q <= a /\ a < b * q + b
    BY Z3
  <1>2. q \in Nat
    BY <1>1, Z3
  <1> QED BY <1>1, <1>2, Z3

\* The blocks a write replaces: at least one, up to its end, and none between the old end of
\* the file and its offset is left out.
LEMMA CoveredShape ==
  ASSUME NEW offset \in Nat, NEW length \in Nat \ {0}, NEW size \in Nat,
         offset <= size, offset + length <= MaxSize
  PROVE  LET total == Maximum(size, offset + length)
         IN  /\ Covered(offset, length) # {}
             /\ \A i \in Covered(offset, length) : i * BlockSize < total
             /\ \A i \in Indices : i * BlockSize < total =>
                  i \in Covered(offset, length) \/ i * BlockSize < size
             /\ size <= total
             /\ (offset + length > size) <=> (size < total)
  <1> DEFINE total == Maximum(size, offset + length)
  <1>1. BlockSize \in Nat \ {0} /\ MaxBlocks \in Nat \ {0}
    BY BoundsAssumption
  <1>2. /\ total \in Nat /\ size <= total /\ offset + length <= total
        /\ total = size \/ total = offset + length
        /\ (offset + length > size) <=> (size < total)
    BY DEF Maximum
  <1> HIDE DEF total
  <1>3. Covered(offset, length) # {}
    <2>1. PICK i \in Nat : i * BlockSize <= offset /\ offset < (i + 1) * BlockSize
      BY <1>1, Quotient
    <2>2. i * BlockSize < MaxBlocks * BlockSize
      BY <1>1, <2>1, Z3 DEF MaxSize
    <2>3. i < MaxBlocks
      BY <1>1, <2>2, Z3
    <2>4. i \in Indices /\ i * BlockSize < offset + length
      BY <1>1, <2>1, <2>3, Z3 DEF Indices
    <2> QED BY <2>1, <2>4 DEF Covered
  <1>4. \A i \in Indices : i \in Nat /\ i * BlockSize \in Nat /\ (i + 1) * BlockSize \in Nat
                           /\ i * BlockSize < (i + 1) * BlockSize
    BY <1>1, Z3 DEF Indices
  <1>5. \A i \in Covered(offset, length) : i * BlockSize < total
    <2> SUFFICES ASSUME NEW i \in Indices, i * BlockSize < offset + length PROVE i * BlockSize < total
      BY DEF Covered
    <2> DEFINE a == i * BlockSize
    <2>1. a \in Nat
      BY <1>4
    <2> HIDE DEF a
    <2>2. a < offset + length => a < total
      BY <1>2, <2>1
    <2> QED BY <2>2 DEF a
  <1>6. ASSUME NEW i \in Indices, i * BlockSize < total, ~(i * BlockSize < size)
        PROVE  i \in Covered(offset, length)
    <2> DEFINE a == i * BlockSize
               b == (i + 1) * BlockSize
    <2>1. a \in Nat /\ b \in Nat /\ a < b /\ a < total /\ ~(a < size)
      BY <1>4, <1>6
    <2> HIDE DEF a, b
    <2>2. a < offset + length /\ offset < b
      BY <1>2, <2>1
    <2> QED BY <2>2 DEF Covered, a, b
  <1> QED BY <1>2, <1>3, <1>5, <1>6 DEF total

\* A content of total bytes has a block up to its end.
LEMMA CoveredFromStart ==
  ASSUME NEW total \in Nat, NEW i \in Indices
  PROVE  i \in Covered(0, total) <=> i * BlockSize < total
  <1>1. i \in Nat /\ BlockSize \in Nat \ {0}
    BY BoundsAssumption DEF Indices
  <1>2. 0 < (i + 1) * BlockSize
    BY <1>1, Z3
  <1>3. 0 + total = total
    OBVIOUS
  <1> QED BY <1>2, <1>3 DEF Covered

\* A write starts: it takes its handle, and a lock on what its handle has not locked yet.
LEMMA ContentBeginWrite ==
  ASSUME ContentInv, TypeInv', LockExclusion', NEW h \in Handles, NEW range \in Ranges,
         BeginWrite(h, range[1], range[2])
  PROVE  ContentInv'
  <1>0. TypeInv
    BY DEF ContentInv
  <1>1. PICK n \in Ops : n = seq.op + 1
    <2>1. seq.op < MaxOps
      BY DEF BeginWrite
    <2> QED BY <1>0, <2>1, TypeParts, NextIdentifier
  <1>2. PICK f \in Files, root \in Roots : f = handles[h].file /\ root = handles[h].snapshot
    BY <1>0, Fields DEF BeginWrite, Writable, HandleOk
  <1> DEFINE offset == range[1]
             length == range[2]
             base == snapshots[handles[h].snapshot]
             touched == Covered(offset, length)
             growing == offset + length > base.size
             own == OwnLocks(h)
             missing == {i \in touched : \A k \in own : ~locks[k].whole /\ i \notin locks[k].indices}
             needSize == growing /\ \A k \in own : ~locks[k].size
             extra == IF missing # {} \/ needSize THEN {seq.lock + 1} ELSE {}
             op == [kind |-> "write", state |-> "PREPARING", file |-> handles[h].file, handle |-> h,
                    revision |-> handles[h].revision, root |-> handles[h].snapshot,
                    epoch |-> base.epoch, growing |-> growing, base_size |-> base.size,
                    total |-> Maximum(base.size, offset + length), touched |-> touched,
                    base |-> [i \in Indices |-> IF i \in touched THEN base.blocks[i] ELSE 0],
                    locks |-> own \cup extra, stored |-> {}, sealed |-> FALSE,
                    expires |-> handles[h].ttl, max |-> 0]
             new == NewLock(handles[h].file, HandleOwner(h), missing, FALSE, needSize, TRUE, {seq.op + 1}, LockTTL)
  <1>4. /\ Writable(h) /\ handles[h].busy = Idle
        /\ offset <= base.size /\ offset + length <= MaxSize
        /\ extra # {} => seq.lock < MaxLocks
        /\ ops' = [ops EXCEPT ![seq.op + 1] = op]
        /\ locks' = [l \in Locks |->
             IF l \in extra THEN new
             ELSE IF l \in own THEN [locks[l] EXCEPT !.active = locks[l].active \cup {seq.op + 1}] ELSE locks[l]]
        /\ handles' = [handles EXCEPT ![h].busy = Writing(seq.op + 1)]
        /\ seq' = [seq EXCEPT !.op = seq.op + 1, !.lock = IF extra = {} THEN seq.lock ELSE seq.lock + 1]
        /\ UNCHANGED <<files, snapshots, reads>>
    BY DEF BeginWrite, CanAcquire
  <1>5. /\ missing \subseteq touched /\ needSize \in BOOLEAN /\ growing \in BOOLEAN
        /\ \A i \in touched : i \in missing \/ \E l \in own : locks[l].whole \/ i \in locks[l].indices
        /\ growing => needSize \/ \E l \in own : locks[l].size
        /\ extra = {} \/ extra = {seq.lock + 1}
        /\ extra = {} => missing = {} /\ ~needSize
    OBVIOUS
  <1>6. \A l \in own : l \in Locks /\ locks[l].ttl > 0 /\ locks[l].owner = HandleOwner(h)
    BY DEF OwnLocks, LiveLock
  <1>7. touched = Covered(offset, length) /\ (growing <=> offset + length > base.size) /\ base = snapshots[root]
    BY <1>2
  <1>8. /\ ops'[n].kind = "write" /\ ops'[n].state = "PREPARING" /\ ops'[n].file = f /\ ops'[n].handle = h
        /\ ops'[n].revision = handles[h].revision /\ ops'[n].root = root
        /\ ops'[n].epoch = base.epoch /\ ops'[n].growing = growing /\ ops'[n].base_size = base.size
        /\ ops'[n].total = Maximum(base.size, offset + length) /\ ops'[n].touched = touched
        /\ ops'[n].base = [i \in Indices |-> IF i \in touched THEN base.blocks[i] ELSE 0]
        /\ ops'[n].locks = own \cup extra
    <2>1. ops'[n] = op
      BY <1>0, <1>1, <1>4, TypeParts
    <2> HIDE DEF touched, growing, own, base, extra, offset, length
    <2> QED BY <1>2, <2>1
  <1>9. PICK k \in Nat : /\ seq.lock \in Nat /\ (k # 0 => k \in Locks /\ k = seq.lock + 1)
                         /\ extra = IF k = 0 THEN {} ELSE {k}
    <2>1. seq.lock \in Nat
      BY <1>0, Fields, Constants
    <2> HIDE DEF extra
    <2>2. CASE extra = {}
      BY <2>1, <2>2
    <2>3. CASE extra = {seq.lock + 1}
      <3>1. seq.lock + 1 \in Locks /\ seq.lock + 1 # 0
        BY <1>0, <1>4, <2>1, <2>3, TypeParts, NextIdentifier
      <3> QED BY <2>1, <2>3, <3>1
    <2> QED BY <1>5, <2>2, <2>3
  <1> HIDE DEF touched, growing, own, missing, needSize, extra, op, offset, length, base
  <1>10. /\ \A l \in Locks : l = k =>
              /\ locks'[l].file = f /\ locks'[l].owner = HandleOwner(h) /\ locks'[l].indices = missing
              /\ locks'[l].whole = FALSE /\ locks'[l].size = needSize /\ locks'[l].active = {n}
         /\ \A l \in Locks : l # k =>
              /\ locks'[l].file = locks[l].file /\ locks'[l].owner = locks[l].owner
              /\ locks'[l].indices = locks[l].indices /\ locks'[l].whole = locks[l].whole
              /\ locks'[l].size = locks[l].size /\ locks'[l].ttl = locks[l].ttl
              /\ locks[l].active \subseteq locks'[l].active /\ (l \in own => n \in locks'[l].active)
    <2>0. 0 \notin Locks
      BY Constants DEF Locks
    <2>1. ASSUME NEW l \in Locks, l = k
          PROVE  /\ locks'[l].file = f /\ locks'[l].owner = HandleOwner(h) /\ locks'[l].indices = missing
                 /\ locks'[l].whole = FALSE /\ locks'[l].size = needSize /\ locks'[l].active = {n}
      <3>1. l \in extra
        BY <1>9, <2>0, <2>1
      <3>2. locks'[l] = new
        BY <1>4, <3>1
      <3> QED BY <1>1, <1>2, <3>2 DEF NewLock
    <2>2. ASSUME NEW l \in Locks, l # k
          PROVE  /\ locks'[l].file = locks[l].file /\ locks'[l].owner = locks[l].owner
                 /\ locks'[l].indices = locks[l].indices /\ locks'[l].whole = locks[l].whole
                 /\ locks'[l].size = locks[l].size /\ locks'[l].ttl = locks[l].ttl
                 /\ locks[l].active \subseteq locks'[l].active /\ (l \in own => n \in locks'[l].active)
      <3>1. locks[l] \in Lock
        BY <1>0, TypeParts
      <3>2. locks'[l] = IF l \in own THEN [locks[l] EXCEPT !.active = locks[l].active \cup {n}] ELSE locks[l]
        BY <1>1, <1>4, <1>9, <2>2
      <3>3. CASE l \in own
        BY <3>1, <3>2, <3>3 DEF Lock
      <3>4. CASE l \notin own
        BY <3>2, <3>4
      <3> QED BY <3>3, <3>4
    <2> QED BY <2>1, <2>2
  <1>11. /\ seq'.file = seq.file /\ seq'.root = seq.root /\ seq'.handle = seq.handle
         /\ seq'.lock = (IF k = 0 THEN seq.lock ELSE k) /\ seq'.op = n
    BY <1>0, <1>1, <1>4, <1>9, TypeParts DEF Counters
  <1>12. /\ \A g \in Handles : g # h => handles'[g] = handles[g]
         /\ handles'[h].file = f /\ handles'[h].snapshot = root /\ handles'[h].closed = handles[h].closed
         /\ handles'[h].ttl = handles[h].ttl /\ handles'[h].busy = Writing(n)
         /\ handles'[h].revision = handles[h].revision
    BY <1>0, <1>1, <1>2, <1>4, TypeParts DEF Handle
  <1>13. ops[n].state = "NONE" /\ \A o \in Ops : o # n => ops'[o] = ops[o]
    BY <1>0, <1>1, <1>4, TypeParts, Unused, Fields
  <1>14. Leaves(n, k, 0, 0, 0)
    <2>1. CountersGrow /\ (k \in Locks => k > seq.lock)
      BY <1>0, <1>1, <1>9, <1>11, CountersTyped, Constants DEF CountersGrow, Locks
    <2>2. \A l \in Locks : l # k => LockGoesOn(l)
      BY <1>10 DEF LockGoesOn, KeepsClaim
    <2>3. \A o \in Ops : o # n => OpGoesOn(o)
      BY <1>13 DEF OpGoesOn, SameOp
    <2>4. \A g \in Handles : HandleStays(g) /\ KeepsWrite(g)
      <3>1. \A g \in Handles : g # h => HandleStays(g) /\ KeepsWrite(g)
        BY <1>12 DEF HandleStays, KeepsWrite
      <3>2. \A o \in Ops : Idle # Writing(o)
        BY DEF Idle, Writing
      <3>3. HandleStays(h) /\ KeepsWrite(h)
        BY <1>2, <1>4, <1>12, <3>2 DEF HandleStays, KeepsWrite, Writable, HandleOk
      <3> QED BY <3>1, <3>3
    <2>5. ContentShrinks /\ 0 \notin Roots
      BY <1>4, RecordsStay, Constants DEF Roots
    <2> QED BY <1>4, <1>13, <2>1, <2>2, <2>3, <2>4, <2>5 DEF Leaves, ContentShrinks, HandleStays
  <1>15. f # 0 /\ f <= seq.file /\ root <= seq.root /\ h <= seq.handle
    <2>1. HandleDrawn(h) /\ h \in Nat /\ seq.handle \in Nat
      BY <1>0, Fields, Constants DEF ContentInv, HandleInv, Handles
    <2> QED BY <1>2, <1>4, <2>1, Constants DEF HandleDrawn, Writable, HandleOk, Files
  <1>16. k \in Locks => LockInv(k)'
    <2>1. HandleOwner(h).kind = "handle" /\ HandleOwner(h).id = h
      BY DEF HandleOwner
    <2>2. k \in Locks => /\ locks'[k].file = f /\ locks'[k].owner = HandleOwner(h)
      BY <1>10
    <2>3. k \in Locks => k <= seq'.lock
      BY <1>9, <1>11, Constants DEF Locks
    <2> QED BY <1>11, <1>12, <1>15, <2>1, <2>2, <2>3 DEF LockInv, LockDrawn, LockOwned
  <1>17. OwnsHandle(n)'
    <2>1. \A l \in ops'[n].locks : n \in locks'[l].active /\ locks'[l].owner = HandleOwner(h)
      <3>1. \A l \in ops'[n].locks : l = k \/ l \in own
        BY <1>8, <1>9
      <3>2. \A l \in ops'[n].locks : l \in Locks
        BY <1>6, <1>8, <1>9
      <3> QED BY <1>6, <1>10, <3>1, <3>2
    <2>2. h # 0
      BY Constants DEF Handles
    <2> QED BY <1>8, <1>12, <2>1, <2>2 DEF OwnsHandle
  <1>18. OpDrawn(n)'
    <2>1. \A l \in own : l <= seq.lock /\ l \in Nat
      BY <1>6, Constants DEF ContentInv, LockInv, LockDrawn, LiveLock, Locks
    <2>2. \A l \in ops'[n].locks : l <= seq'.lock
      BY <1>8, <1>9, <1>11, <2>1
    <2> QED BY <1>8, <1>11, <1>15, <2>2, Constants DEF OpDrawn, Ops
  <1>19. BaseCommitted(n)'
    <2>1. RootCommitted(root)
      BY DEF ContentInv, RootInv
    <2>2. touched \subseteq Indices
      BY <1>7, CoveredType
    <2>3. \A i \in touched : ops'[n].base[i] = snapshots[root].blocks[i]
      BY <1>7, <1>8, <2>2
    <2>4. \A i \in touched : snapshots[root].blocks[i] # 0 => ops'[snapshots[root].blocks[i]].state = "COMMITTED"
      BY <1>0, <1>13, <2>1, <2>2, Fields DEF RootCommitted
    <2> QED BY <1>8, <2>3, <2>4 DEF BaseCommitted
  <1>20. WriteShaped(n)'
    <2>1. offset \in Nat /\ length \in Nat \ {0}
      BY BoundsAssumption DEF offset, length
    <2>2. snapshots[root].size \in Nat
      BY <1>0, Fields
    <2>3. LET total == Maximum(snapshots[root].size, offset + length)
          IN  /\ touched # {}
              /\ \A i \in touched : i * BlockSize < total
              /\ \A i \in Indices : i * BlockSize < total => i \in touched \/ i * BlockSize < snapshots[root].size
              /\ snapshots[root].size <= total
              /\ growing <=> (snapshots[root].size < total)
      BY <1>4, <1>7, <2>1, <2>2, CoveredShape
    <2> QED BY <1>4, <1>7, <1>8, <2>3 DEF WriteShaped
  <1>21. WriteCovered(n)'
    <2>1. \A l \in own : l \in ops'[n].locks /\ l # k
      <3>1. \A l \in own : l <= seq.lock /\ l \in Nat /\ l # 0
        BY <1>6, Constants DEF ContentInv, LockInv, LockDrawn, LiveLock, Locks
      <3> QED BY <1>8, <1>9, <3>1
    <2>2. k # 0 => k \in ops'[n].locks
      BY <1>8, <1>9
    <2>3. \A i \in touched : \E l \in ops'[n].locks : locks'[l].whole \/ i \in locks'[l].indices
      BY <1>5, <1>6, <1>9, <1>10, <2>1, <2>2
    <2>4. growing => \E l \in ops'[n].locks : locks'[l].size
      BY <1>5, <1>6, <1>9, <1>10, <2>1, <2>2
    <2> QED BY <1>8, <2>3, <2>4 DEF WriteCovered
  <1>22. WriteBehind(n)'
    <2>1. Current(f).epoch = snapshots[root].epoch /\ snapshots[root].epoch \in Nat
      BY <1>0, <1>2, <1>4, Fields DEF Writable
    <2> QED BY <1>4, <1>7, <1>8, <2>1 DEF WriteBehind, Current
  <1>23. OpInv(n)'
    BY <1>8, <1>17, <1>18, <1>19, <1>20, <1>21, <1>22
       DEF OpInv, NewFile, NamesNewFile, Preparing, UploadShaped, UploadCovered, BaseReplaced, NotLost, CommittedWrite
  <1>24. \A p \in Ops : Apart(n, p)'
    BY <1>8 DEF Apart, CommittedWrite
  <1>25. \A o \in Ops : NamesNewFile(o) => ops'[n].file # ops[o].file
    BY <1>2, <1>8 DEF ContentInv, OpInv, NewFile
  <1>26. 0 \notin Handles
    BY Constants DEF Handles
  <1> QED BY <1>4, <1>14, <1>16, <1>23, <1>24, <1>25, <1>26, Recorded

\* A write of no bytes is committed at once and replaces nothing.
LEMMA ContentBeginEmptyWrite ==
  ASSUME ContentInv, TypeInv', LockExclusion', NEW h \in Handles, BeginEmptyWrite(h)
  PROVE  ContentInv'
  <1>0. TypeInv
    BY DEF ContentInv
  <1> DEFINE base == snapshots[handles[h].snapshot]
             op == [NoOp EXCEPT !.kind = "write", !.state = "COMMITTED", !.file = handles[h].file,
                        !.handle = h, !.revision = handles[h].revision,
                        !.root = handles[h].snapshot, !.epoch = base.epoch,
                        !.base_size = base.size, !.total = base.size,
                        !.locks = OwnLocks(h)]
  <1>1. /\ Writable(h) /\ seq.op < MaxOps
        /\ ops' = [ops EXCEPT ![seq.op + 1] = op]
        /\ seq' = [seq EXCEPT !.op = seq.op + 1]
        /\ UNCHANGED <<files, snapshots, handles, locks, reads>>
    BY DEF BeginEmptyWrite
  <1>2. PICK n \in Ops : n = seq.op + 1
    BY <1>0, <1>1, TypeParts, NextIdentifier
  <1>3. PICK f \in Files, root \in Roots : f = handles[h].file /\ root = handles[h].snapshot
    BY <1>0, <1>1, Fields DEF Writable, HandleOk
  <1>4. /\ ops'[n].kind = "write" /\ ops'[n].state = "COMMITTED" /\ ops'[n].file = f
        /\ ops'[n].root = root /\ ops'[n].epoch = snapshots[root].epoch /\ ops'[n].growing = FALSE
        /\ ops'[n].touched = {} /\ ops'[n].locks = OwnLocks(h)
    <2>1. ops'[n] = op
      BY <1>0, <1>1, <1>2, TypeParts
    <2> QED BY <1>3, <2>1 DEF NoOp
  <1>5. ops[n].state = "NONE" /\ \A o \in Ops : o # n => ops'[o] = ops[o]
    BY <1>0, <1>1, <1>2, TypeParts, Unused, Fields
  <1>6. /\ seq'.file = seq.file /\ seq'.root = seq.root /\ seq'.handle = seq.handle
        /\ seq'.lock = seq.lock /\ seq'.op = n
    BY <1>0, <1>1, <1>2, TypeParts DEF Counters
  <1>7. Leaves(n, 0, 0, 0, 0)
    <2>1. CountersGrow /\ 0 \notin Locks /\ 0 \notin Roots
      BY <1>0, <1>2, <1>6, CountersTyped, Constants DEF CountersGrow, Locks, Roots
    <2>2. \A o \in Ops : o # n => OpGoesOn(o)
      BY <1>5 DEF OpGoesOn, SameOp
    <2>3. LocksGoOn /\ HandlesGoOn /\ ContentShrinks
      BY <1>1, RecordsStay
    <2> QED BY <1>1, <1>5, <2>1, <2>2, <2>3 DEF Leaves, LocksGoOn, HandlesGoOn, ContentShrinks, HandleStays
  <1>8. OpDrawn(n)'
    <2>1. f # 0 /\ f <= seq.file /\ root <= seq.root
      BY <1>3, Constants DEF ContentInv, HandleInv, HandleDrawn, Files
    <2>2. \A l \in OwnLocks(h) : l <= seq.lock
      BY DEF ContentInv, LockInv, LockDrawn, OwnLocks
    <2> QED BY <1>4, <1>6, <2>1, <2>2, Constants DEF OpDrawn, Ops
  <1>9. WriteBehind(n)'
    <2>1. Current(f).epoch = snapshots[root].epoch /\ snapshots[root].epoch \in Nat
      BY <1>0, <1>1, <1>3, Fields DEF Writable
    <2> QED BY <1>1, <1>4, <2>1 DEF WriteBehind, Current
  <1>10. OpInv(n)'
    BY <1>4, <1>8, <1>9
       DEF OpInv, OwnsHandle, NewFile, NamesNewFile, Preparing, BaseCommitted, WriteShaped, UploadShaped,
           WriteCovered, UploadCovered, BaseReplaced, NotLost
  <1>11. \A p \in Ops : Apart(n, p)'
    BY <1>4 DEF Apart
  <1>12. \A o \in Ops : NamesNewFile(o) => ops'[n].file # ops[o].file
    BY <1>3, <1>4 DEF ContentInv, OpInv, NewFile
  <1>13. 0 \notin Handles /\ 0 \notin Locks
    BY Constants DEF Handles, Locks
  <1> QED BY <1>1, <1>7, <1>10, <1>11, <1>12, <1>13, Recorded

\* An upload starts, of the file the path names or of a new one.
LEMMA ContentBeginUpload ==
  ASSUME ContentInv, TypeInv', LockExclusion', NEW f \in Files, NEW base, NEW total \in UploadSizes,
         BeginUpload(f, base, total), UNCHANGED <<files, snapshots, handles, reads>>,
         \/ /\ files[f].alive /\ base = files[f].snapshot
            /\ seq' = [seq EXCEPT !.op = seq.op + 1, !.lock = seq.lock + 1]
         \/ /\ base = 0 /\ f = seq.file + 1
            /\ seq' = [seq EXCEPT !.file = seq.file + 1, !.op = seq.op + 1, !.lock = seq.lock + 1]
  PROVE  ContentInv'
  <1>0. TypeInv
    BY DEF ContentInv
  <1> DEFINE op == [NoOp EXCEPT !.kind = "upload", !.state = "PREPARING", !.file = f, !.root = base,
                        !.epoch = IF base = 0 THEN 1 ELSE snapshots[base].epoch + 1,
                        !.total = total, !.touched = Covered(0, total), !.locks = {seq.lock + 1},
                        !.expires = UploadTTL, !.max = UploadMax]
             new == NewLock(f, OpOwner(seq.op + 1), {}, TRUE, TRUE, TRUE, {seq.op + 1}, UploadTTL)
  <1>1. /\ seq.lock < MaxLocks /\ seq.op < MaxOps
        /\ ops' = [ops EXCEPT ![seq.op + 1] = op]
        /\ locks' = [locks EXCEPT ![seq.lock + 1] = new]
    BY DEF BeginUpload, CanAcquire
  <1>2. PICK n \in Ops, k \in Locks : n = seq.op + 1 /\ k = seq.lock + 1
    BY <1>0, <1>1, TypeParts, NextIdentifier
  <1>3. /\ ops'[n].kind = "upload" /\ ops'[n].state = "PREPARING" /\ ops'[n].file = f
        /\ ops'[n].root = base /\ ops'[n].epoch = (IF base = 0 THEN 1 ELSE snapshots[base].epoch + 1)
        /\ ops'[n].total = total /\ ops'[n].touched = Covered(0, total) /\ ops'[n].locks = {k}
    <2>1. ops'[n] = op
      BY <1>0, <1>1, <1>2, TypeParts
    <2> QED BY <1>2, <2>1 DEF NoOp
  <1>4. /\ locks'[k].file = f /\ locks'[k].owner = OpOwner(n) /\ locks'[k].whole
        /\ \A l \in Locks : l # k => locks'[l] = locks[l]
    <2>1. locks'[k] = new /\ \A l \in Locks : l # k => locks'[l] = locks[l]
      BY <1>0, <1>1, <1>2, TypeParts
    <2> QED BY <1>2, <2>1 DEF NewLock
  <1>5. ops[n].state = "NONE" /\ \A o \in Ops : o # n => ops'[o] = ops[o]
    BY <1>0, <1>1, <1>2, TypeParts, Unused, Fields
  <1>6. /\ seq'.root = seq.root /\ seq'.handle = seq.handle /\ seq'.lock = k /\ seq'.op = n
        /\ seq'.file = seq.file \/ (seq'.file = f /\ f = seq.file + 1)
    BY <1>0, <1>2, TypeParts DEF Counters
  <1>7. f <= seq'.file /\ f # 0
    <2>1. files[f].alive => f <= seq.file
      BY Unused
    <2>2. base = 0 /\ f = seq.file + 1 => seq'.file = f \/ files[f].alive
      BY <1>0, TypeParts DEF Counters
    <2>3. f \in Nat /\ f # 0 /\ seq.file \in Nat
      BY <1>0, Fields, Constants DEF Files
    <2> QED BY <1>6, <2>1, <2>2, <2>3
  <1>8. Leaves(n, k, 0, 0, 0)
    <2>1. CountersGrow /\ k > seq.lock /\ 0 \notin Roots
      BY <1>0, <1>2, <1>6, CountersTyped, Constants DEF CountersGrow, Roots
    <2>2. \A o \in Ops : o # n => OpGoesOn(o)
      BY <1>5 DEF OpGoesOn, SameOp
    <2>3. HandlesGoOn /\ ContentShrinks
      BY RecordsStay
    <2>4. \A l \in Locks : l # k => LockGoesOn(l)
      BY <1>4 DEF LockGoesOn, KeepsClaim
    <2> QED BY <1>5, <2>1, <2>2, <2>3, <2>4 DEF Leaves, HandlesGoOn, ContentShrinks, HandleStays
  <1>9. LockInv(k)'
    <2>1. OpOwner(n).kind = "op"
      BY DEF OpOwner
    <2>2. k <= seq'.lock
      BY <1>6, Constants DEF Locks
    <2> QED BY <1>4, <1>7, <2>1, <2>2 DEF LockInv, LockDrawn, LockOwned
  <1>10. OpDrawn(n)'
    <2>1. base <= seq'.root
      BY <1>0, <1>6, Fields DEF ContentInv, FileInv, FileDrawn
    <2>2. k <= seq'.lock /\ ~(n > seq'.op)
      BY <1>6, Constants DEF Locks, Ops
    <2> QED BY <1>3, <1>7, <2>1, <2>2 DEF OpDrawn
  <1>11. base = 0 => f = seq.file + 1
    BY <1>0, Fields, Constants DEF Roots
  <1>12. NewFile(n)'
    <2> SUFFICES ASSUME base = 0
                 PROVE  /\ files[f].snapshot = 0
                        /\ \A h \in Handles : handles[h].file # f
                        /\ \A p \in Ops : p # n => ops'[p].file # f
      BY <1>3 DEF NewFile, NamesNewFile
    <2>1. f > seq.file /\ seq.file \in Nat
      BY <1>0, <1>11, Fields, Constants
    <2>2. \A h \in Handles : handles[h].file # f
      BY <1>0, <2>1, Fields, Constants DEF ContentInv, HandleInv, HandleDrawn
    <2>3. \A p \in Ops : p # n => ops'[p].file # f
      BY <1>0, <1>5, <2>1, Fields, Constants DEF ContentInv, OpInv, OpDrawn
    <2> QED BY <2>1, <2>2, <2>3, Unused
  <1>13. UploadShaped(n)'
    BY <1>3 DEF UploadShaped
  <1>14. UploadCovered(n)'
    BY <1>3, <1>4 DEF UploadCovered
  <1>15. OpInv(n)'
    BY <1>3, <1>10, <1>12, <1>13, <1>14
       DEF OpInv, OwnsHandle, Preparing, BaseCommitted, WriteShaped, WriteCovered, WriteBehind, BaseReplaced,
           NotLost, CommittedWrite
  <1>16. \A p \in Ops : Apart(n, p)'
    BY <1>3 DEF Apart, CommittedWrite
  <1>17. ASSUME NEW o \in Ops, NamesNewFile(o) PROVE ops'[n].file # ops[o].file
    <2>1. files[ops[o].file].snapshot = 0 /\ ops[o].file <= seq.file
      BY <1>17 DEF ContentInv, OpInv, NewFile, OpDrawn
    <2>2. files[f].alive => files[f].snapshot # 0
      BY <1>0, TypeParts DEF FileRefs
    <2>3. ops[o].file \in Nat /\ seq.file \in Nat
      BY <1>0, Fields, Constants
    <2> QED BY <1>3, <2>1, <2>2, <2>3
  <1>18. 0 \notin Handles
    BY Constants DEF Handles
  <1> QED BY <1>8, <1>9, <1>15, <1>16, <1>17, <1>18, Recorded

\* Both ways an upload starts.
LEMMA ContentUploads ==
  ASSUME ContentInv, TypeInv', LockExclusion',
         \/ \E f \in Files, total \in UploadSizes : UploadExisting(f, total)
         \/ \E total \in UploadSizes : UploadNew(total)
  PROVE  ContentInv'
  <1>1. ASSUME NEW f \in Files, NEW total \in UploadSizes, UploadExisting(f, total) PROVE ContentInv'
    <2>1. PICK base : base = files[f].snapshot
      OBVIOUS
    <2>2. /\ files[f].alive /\ BeginUpload(f, base, total)
          /\ seq' = [seq EXCEPT !.op = seq.op + 1, !.lock = seq.lock + 1]
          /\ UNCHANGED <<files, snapshots, handles, reads>>
      BY <1>1, <2>1 DEF UploadExisting, BeginUpload
    <2> QED BY <2>1, <2>2, ContentBeginUpload
  <1>2. ASSUME NEW total \in UploadSizes, UploadNew(total) PROVE ContentInv'
    <2>0. TypeInv
      BY DEF ContentInv
    <2>1. PICK f \in Files : f = seq.file + 1
      BY <1>2, <2>0, TypeParts, NextIdentifier DEF UploadNew
    <2>2. /\ BeginUpload(f, 0, total)
          /\ seq' = [seq EXCEPT !.file = seq.file + 1, !.op = seq.op + 1, !.lock = seq.lock + 1]
          /\ UNCHANGED <<files, snapshots, handles, reads>>
      BY <1>2, <2>1 DEF UploadNew, BeginUpload
    <2> QED BY <2>1, <2>2, ContentBeginUpload
  <1> QED BY <1>1, <1>2

-----------------------------------------------------------------------------
(* The handlers that publish.                                               *)

\* A new snapshot disturbs nothing that was stored.
LEMMA Published ==
  ASSUME ContentInv, NEW f \in Files, NEW v \in Roots, v = seq.root + 1, NEW new, Publish(f, v, new)
  PROVE  /\ files'[f].alive /\ files'[f].snapshot = v /\ snapshots'[v] = new /\ Current(f)' = new
         /\ \A g \in Files : g # f => FileStays(g) /\ files'[g] = files[g]
         /\ \A r \in Roots : r # v => snapshots'[r] = snapshots[r]
         /\ v > seq.root /\ v # 0
         /\ \A h \in Handles : ~handles[h].closed =>
              handles[h].snapshot # v /\ snapshots'[handles[h].snapshot] = snapshots[handles[h].snapshot]
         /\ \A g \in Files : files[g].snapshot # v
  <1>1. TypeInv
    BY DEF ContentInv
  <1>2. files \in [Files -> FileType] /\ snapshots \in [Roots -> Snapshot] /\ seq.root \in Nat /\ MaxRoots \in Nat
    BY <1>1, TypeParts, Fields, Constants
  <1>3. v > seq.root /\ v # 0
    BY <1>2
  <1>4. /\ \A r \in Roots : r # v => snapshots'[r] = snapshots[r]
        /\ snapshots'[v] = new
        /\ files'[f].alive /\ files'[f].snapshot = v /\ \A g \in Files : g # f => files'[g] = files[g]
    BY <1>2 DEF Publish
  <1>5. \A g \in Files : files[g].snapshot # v /\ (files[g].alive => files[g].snapshot \in Roots)
    BY <1>1, <1>2, <1>3, Fields DEF ContentInv, FileInv, FileDrawn
  <1>6. \A h \in Handles : ~handles[h].closed => handles[h].snapshot # v /\ handles[h].snapshot \in Roots
    BY <1>1, <1>2, <1>3, Fields DEF ContentInv, HandleInv, HandleDrawn
  <1>7. \A g \in Files : g # f => FileStays(g)
    BY <1>4, <1>5 DEF FileStays
  <1> QED BY <1>3, <1>4, <1>5, <1>6, <1>7 DEF Current

\* Open that truncates: an empty content in the next epoch.
LEMMA ContentOpenTruncate ==
  ASSUME ContentInv, TypeInv', LockExclusion', NEW f \in Files, NEW mode \in Modes, OpenTruncate(f, mode)
  PROVE  ContentInv'
  <1>0. TypeInv /\ FileInv(f)
    BY DEF ContentInv
  <1> DEFINE new == [epoch |-> Current(f).epoch + 1, version |-> Current(f).version + 1,
                     size |-> 0, blocks |-> NoBlocks]
  <1>1. /\ files[f].alive
        /\ seq.handle < MaxHandles /\ seq.root < MaxRoots /\ seq.lock < MaxLocks
        /\ Publish(f, seq.root + 1, new)
        /\ handles' = [handles EXCEPT ![seq.handle + 1] = NewHandle(f, seq.root + 1, mode)]
        /\ seq' = [seq EXCEPT !.handle = seq.handle + 1, !.root = seq.root + 1, !.lock = seq.lock + 1]
        /\ UNCHANGED <<locks, ops, reads>>
    BY DEF OpenTruncate, CanAcquire
  <1>2. PICK x \in Handles, v \in Roots : x = seq.handle + 1 /\ v = seq.root + 1
    BY <1>0, <1>1, TypeParts, NextIdentifier
  <1>3. PICK s : s = new
    OBVIOUS
  <1>4. files[f].snapshot \in Roots /\ Current(f).epoch \in Nat /\ Current(f).version \in Nat
    BY <1>0, <1>1, Fields DEF Current
  <1>5. /\ s.epoch = Current(f).epoch + 1 /\ s.version > 0 /\ s.size = 0 /\ \A i \in Indices : s.blocks[i] = 0
    BY <1>3, <1>4 DEF NoBlocks
  <1> HIDE DEF new
  <1>6. /\ files'[f].alive /\ files'[f].snapshot = v /\ snapshots'[v] = s /\ Current(f)' = s
        /\ \A g \in Files : g # f => FileStays(g) /\ files'[g] = files[g]
        /\ \A r \in Roots : r # v => snapshots'[r] = snapshots[r]
        /\ v > seq.root /\ v # 0
        /\ \A h \in Handles : ~handles[h].closed =>
             handles[h].snapshot # v /\ snapshots'[handles[h].snapshot] = snapshots[handles[h].snapshot]
    BY <1>1, <1>2, <1>3, Published
  <1>7. /\ \A h \in Handles : KeepsWrite(h) /\ (h <= seq.handle => handles'[h].file = handles[h].file)
        /\ \A h \in Handles : h # x => HandleStays(h) /\ handles'[h] = handles[h]
        /\ handles'[x].file = f /\ handles'[x].snapshot = v /\ ~handles'[x].closed
    <2>1. handles' = [handles EXCEPT ![x] = NewHandle(f, v, mode)]
      BY <1>1, <1>2
    <2>2. x = seq.handle + 1
      BY <1>2
    <2> QED BY <2>1, <2>2, OpenedLeaves
  <1>8. /\ seq'.file = seq.file /\ seq'.root = v /\ seq'.handle = x /\ seq'.lock = seq.lock + 1 /\ seq'.op = seq.op
    BY <1>0, <1>1, <1>2, TypeParts DEF Counters
  <1>9. 0 \notin Ops /\ 0 \notin Locks
    BY Constants DEF Ops, Locks
  <1>10. Leaves(0, 0, x, f, v)
    <2>1. CountersGrow
      BY <1>0, <1>2, <1>8, CountersTyped DEF CountersGrow
    <2>2. OpsGoOn /\ LocksGoOn
      BY <1>1, RecordsStay
    <2>3. \A h \in Handles : h # x /\ ~handles'[h].closed /\ handles'[h].ttl > 0 =>
            snapshots'[handles[h].snapshot] = snapshots[handles[h].snapshot]
      BY <1>6, <1>7
    <2> QED BY <1>6, <1>7, <1>9, <2>1, <2>2, <2>3 DEF Leaves, OpsGoOn, LocksGoOn
  <1>11. f <= seq.file
    BY <1>1, Unused
  <1>12. RootInv(v)'
    <2>1. \A i \in Indices : ~(i * BlockSize < 0)
      BY BoundsAssumption DEF Indices
    <2> QED BY <1>5, <1>6, <2>1 DEF RootInv, RootCommitted, Manifest
  <1>13. HandleInv(x)'
    <2>1. HandlePinned(x)'
      BY <1>5, <1>6, <1>7 DEF HandlePinned, Exists
    <2>2. HandleDrawn(x)'
      BY <1>7, <1>8, <1>11, Constants DEF HandleDrawn, Handles, Roots
    <2>3. HandleBehind(x)'
      BY <1>4, <1>5, <1>6, <1>7 DEF HandleBehind
    <2> QED BY <2>1, <2>2, <2>3 DEF HandleInv
  <1>14. FileInv(f)'
    <2>1. FilePinned(f)'
      BY <1>5, <1>6 DEF FilePinned, Exists
    <2>2. FileDrawn(f)'
      BY <1>0, <1>6, <1>8, <1>11, Fields, Constants DEF FileDrawn, Roots, Files
    <2>3. BlocksOfEpoch(f)'
      BY <1>5, <1>6 DEF BlocksOfEpoch
    <2> QED BY <2>1, <2>2, <2>3 DEF FileInv
  <1>15. ASSUME NEW h \in Handles, h # x, handles[h].file = f PROVE HandleBehind(h)'
    <2>1. HandleBehind(h) /\ handles'[h] = handles[h]
      BY <1>7, <1>15 DEF ContentInv, HandleInv
    <2>2. CASE ~handles[h].closed
      <3>1. snapshots[handles[h].snapshot].epoch \in Nat
        BY <1>0, <2>2, Fields
      <3> QED BY <1>1, <1>4, <1>5, <1>6, <1>15, <2>1, <2>2, <3>1 DEF HandleBehind, Usable, LiveHandle
    <2>3. CASE handles[h].closed
      BY <2>1, <2>3 DEF HandleBehind, Usable
    <2> QED BY <2>2, <2>3
  <1>16. ASSUME NEW o \in Ops, ops[o].file = f PROVE WriteBehind(o)' /\ BaseReplaced(o)' /\ NotLost(o)'
    <2>1. WriteBehind(o) /\ ops[o].epoch \in Nat /\ ops' = ops
      BY <1>0, <1>1, Fields DEF ContentInv, OpInv
    <2>2. WriteBehind(o)'
      BY <1>1, <1>4, <1>5, <1>6, <1>16, <2>1 DEF WriteBehind
    <2>3. ops[o].kind = "write" => ~InEpoch(o)'
      BY <1>1, <1>4, <1>5, <1>6, <1>16, <2>1 DEF WriteBehind, InEpoch
    <2> QED BY <2>1, <2>2, <2>3 DEF BaseReplaced, NotLost, CommittedWrite
  <1>17. \A o \in Ops : NamesNewFile(o) => ops[o].file # f
    <2>1. files[f].snapshot # 0
      BY <1>4, Constants DEF Roots
    <2> QED BY <2>1 DEF ContentInv, OpInv, NewFile
  <1>18. OneFilePerPath'
    BY <1>1, <1>6 DEF ContentInv, OneFilePerPath
  <1> QED BY <1>7, <1>9, <1>10, <1>12, <1>13, <1>14, <1>15, <1>16, <1>17, <1>18, Kept

\* Open that creates: an empty content of a file that nobody has seen.
LEMMA ContentOpenCreate ==
  ASSUME ContentInv, TypeInv', LockExclusion', NEW mode \in Modes, OpenCreate(mode)
  PROVE  ContentInv'
  <1>0. TypeInv
    BY DEF ContentInv
  <1> DEFINE new == [epoch |-> 1, version |-> 1, size |-> 0, blocks |-> NoBlocks]
  <1>1. /\ NameFree
        /\ seq.handle < MaxHandles /\ seq.root < MaxRoots /\ seq.file < MaxFiles
        /\ Publish(seq.file + 1, seq.root + 1, new)
        /\ handles' = [handles EXCEPT ![seq.handle + 1] = NewHandle(seq.file + 1, seq.root + 1, mode)]
        /\ seq' = [seq EXCEPT !.file = seq.file + 1, !.root = seq.root + 1, !.handle = seq.handle + 1]
        /\ UNCHANGED <<locks, ops, reads>>
    BY DEF OpenCreate
  <1>2. PICK x \in Handles, v \in Roots, f \in Files : x = seq.handle + 1 /\ v = seq.root + 1 /\ f = seq.file + 1
    BY <1>0, <1>1, TypeParts, NextIdentifier
  <1>3. PICK s : s = new
    OBVIOUS
  <1>5. /\ s.epoch = 1 /\ s.version > 0 /\ s.size = 0 /\ \A i \in Indices : s.blocks[i] = 0
    BY <1>3 DEF NoBlocks
  <1> HIDE DEF new
  <1>6. /\ files'[f].alive /\ files'[f].snapshot = v /\ snapshots'[v] = s /\ Current(f)' = s
        /\ \A g \in Files : g # f => FileStays(g) /\ files'[g] = files[g]
        /\ \A r \in Roots : r # v => snapshots'[r] = snapshots[r]
        /\ v > seq.root /\ v # 0
        /\ \A h \in Handles : ~handles[h].closed =>
             handles[h].snapshot # v /\ snapshots'[handles[h].snapshot] = snapshots[handles[h].snapshot]
    BY <1>1, <1>2, <1>3, Published
  <1>7. /\ \A h \in Handles : KeepsWrite(h) /\ (h <= seq.handle => handles'[h].file = handles[h].file)
        /\ \A h \in Handles : h # x => HandleStays(h) /\ handles'[h] = handles[h]
        /\ handles'[x].file = f /\ handles'[x].snapshot = v /\ ~handles'[x].closed
    <2>1. handles' = [handles EXCEPT ![x] = NewHandle(f, v, mode)]
      BY <1>1, <1>2
    <2>2. x = seq.handle + 1
      BY <1>2
    <2> QED BY <2>1, <2>2, OpenedLeaves
  <1>8. /\ seq'.file = f /\ seq'.root = v /\ seq'.handle = x /\ seq'.lock = seq.lock /\ seq'.op = seq.op
    BY <1>0, <1>1, <1>2, TypeParts DEF Counters
  <1>9. 0 \notin Ops /\ 0 \notin Locks
    BY Constants DEF Ops, Locks
  <1>10. Leaves(0, 0, x, f, v)
    <2>1. CountersGrow
      BY <1>0, <1>2, <1>8, CountersTyped DEF CountersGrow
    <2>2. OpsGoOn /\ LocksGoOn
      BY <1>1, RecordsStay
    <2>3. \A h \in Handles : h # x /\ ~handles'[h].closed /\ handles'[h].ttl > 0 =>
            snapshots'[handles[h].snapshot] = snapshots[handles[h].snapshot]
      BY <1>6, <1>7
    <2> QED BY <1>6, <1>7, <1>9, <2>1, <2>2, <2>3 DEF Leaves, OpsGoOn, LocksGoOn
  <1>11. f > seq.file /\ seq.file \in Nat /\ f \in Nat /\ v \in Nat /\ x \in Nat
    BY <1>0, <1>2, Fields, Constants DEF Files, Roots, Handles
  <1>12. RootInv(v)'
    <2>1. \A i \in Indices : ~(i * BlockSize < 0)
      BY BoundsAssumption DEF Indices
    <2> QED BY <1>5, <1>6, <2>1 DEF RootInv, RootCommitted, Manifest
  <1>13. HandleInv(x)'
    <2>1. HandlePinned(x)'
      BY <1>5, <1>6, <1>7 DEF HandlePinned, Exists
    <2>2. HandleDrawn(x)'
      BY <1>7, <1>8, <1>11 DEF HandleDrawn
    <2>3. HandleBehind(x)'
      BY <1>5, <1>6, <1>7 DEF HandleBehind
    <2> QED BY <2>1, <2>2, <2>3 DEF HandleInv
  <1>14. FileInv(f)'
    <2>1. FilePinned(f)'
      BY <1>5, <1>6 DEF FilePinned, Exists
    <2>2. FileDrawn(f)'
      BY <1>6, <1>8, <1>11 DEF FileDrawn
    <2>3. BlocksOfEpoch(f)'
      BY <1>5, <1>6 DEF BlocksOfEpoch
    <2> QED BY <2>1, <2>2, <2>3 DEF FileInv
  <1>15. \A h \in Handles : handles[h].file # f
    BY <1>0, <1>11, Fields, Constants DEF ContentInv, HandleInv, HandleDrawn
  <1>16. \A o \in Ops : ops[o].file # f
    BY <1>0, <1>11, Fields, Constants DEF ContentInv, OpInv, OpDrawn
  <1>18. OneFilePerPath'
    BY <1>1, <1>6 DEF NameFree, OneFilePerPath
  <1> QED BY <1>7, <1>9, <1>10, <1>12, <1>13, <1>14, <1>15, <1>16, <1>18, Kept

\* A committed operation releases its locks and its handle; nobody else notices.
LEMMA CommitReleases ==
  ASSUME TypeInv, NEW n \in Ops, ops[n].state = "PREPARING",
         ops' = [ops EXCEPT ![n] = Settle(ops[n], "COMMITTED")], locks' = ReleasedLocks({n})
  PROVE  /\ ops'[n].state = "COMMITTED" /\ SameOp(n)
         /\ \A o \in Ops : o # n => OpGoesOn(o)
         /\ \A l \in Locks : LockGoesOn(l)
  <1>1. ops \in [Ops -> Op]
    BY TypeParts
  <1>2. ops'[n].state = "COMMITTED" /\ SameOp(n)
    BY <1>1 DEF Settle, SameOp, Op
  <1>3. \A o \in Ops : o # n => OpGoesOn(o)
    BY <1>1 DEF OpGoesOn, SameOp
  <1>4. \A l \in Locks : LockGoesOn(l)
    BY <1>2, ReleasedLocksGoOn DEF LocksGoOn
  <1> QED BY <1>2, <1>3, <1>4

\* The commit of an upload: a content of its own, in a new epoch.
LEMMA ContentCommitUpload ==
  ASSUME ContentInv, TypeInv', LockExclusion', NEW n \in Ops, CommitUpload(n)
  PROVE  ContentInv'
  <1>0. TypeInv /\ OpInv(n)
    BY DEF ContentInv
  <1>1. PICK f \in Files : f = ops[n].file
    BY <1>0, Fields DEF CommitUpload, UploadOperation
  <1> DEFINE new == [epoch |-> ops[n].epoch,
                     version |-> IF ops[n].root = 0 THEN 1 ELSE snapshots[ops[n].root].version + 1,
                     size |-> ops[n].total,
                     blocks |-> [i \in Indices |-> IF i \in ops[n].touched THEN n ELSE 0]]
  <1>2. /\ Preparing(n, "upload") /\ seq.root < MaxRoots
        /\ ops[n].root # 0 => files[f].alive /\ files[f].snapshot = ops[n].root
        /\ ops[n].root = 0 => NameFree
        /\ Publish(f, seq.root + 1, new)
        /\ locks' = ReleasedLocks({n}) /\ handles' = ReleasedHandles({n})
        /\ ops' = [ops EXCEPT ![n] = Settle(ops[n], "COMMITTED")]
        /\ seq' = [seq EXCEPT !.root = seq.root + 1]
    BY <1>1 DEF CommitUpload, UploadOperation, Preparing
  <1>3. PICK v \in Roots : v = seq.root + 1
    BY <1>0, <1>2, TypeParts, NextIdentifier
  <1>4. PICK s : s = new
    OBVIOUS
  <1>5. /\ s.epoch = ops[n].epoch /\ s.version > 0 /\ s.size = ops[n].total
        /\ \A i \in Indices : s.blocks[i] = IF i \in ops[n].touched THEN n ELSE 0
    <2>1. ops[n].root # 0 => snapshots[ops[n].root].version \in Nat
      BY <1>0, Fields
    <2> QED BY <1>4, <2>1
  <1> HIDE DEF new
  <1>6. /\ files'[f].alive /\ files'[f].snapshot = v /\ snapshots'[v] = s /\ Current(f)' = s
        /\ \A g \in Files : g # f => FileStays(g) /\ files'[g] = files[g]
        /\ \A r \in Roots : r # v => snapshots'[r] = snapshots[r]
        /\ v > seq.root /\ v # 0
        /\ \A h \in Handles : ~handles[h].closed =>
             handles[h].snapshot # v /\ snapshots'[handles[h].snapshot] = snapshots[handles[h].snapshot]
    BY <1>2, <1>3, <1>4, Published
  <1>7. /\ ops'[n].state = "COMMITTED" /\ SameOp(n)
        /\ \A o \in Ops : o # n => OpGoesOn(o)
        /\ \A l \in Locks : LockGoesOn(l)
    BY <1>0, <1>2, CommitReleases DEF Preparing
  <1>8. \A h \in Handles : HandleStays(h) /\ KeepsWrite(h)
    BY <1>0, <1>2, <1>7, ReleasedHandlesGoOn
  <1>9. /\ seq'.file = seq.file /\ seq'.root = v /\ seq'.handle = seq.handle
        /\ seq'.lock = seq.lock /\ seq'.op = seq.op
    BY <1>0, <1>2, <1>3, TypeParts DEF Counters
  <1>10. 0 \notin Handles /\ 0 \notin Locks
    BY Constants DEF Handles, Locks
  <1>11. Leaves(n, 0, 0, f, v)
    <2>1. CountersGrow
      BY <1>0, <1>3, <1>9, CountersTyped DEF CountersGrow
    <2>2. \A h \in Handles : h # 0 /\ ~handles'[h].closed /\ handles'[h].ttl > 0 =>
            snapshots'[handles[h].snapshot] = snapshots[handles[h].snapshot]
      BY <1>6, <1>8 DEF HandleStays
    <2>3. ops[n].state # "COMMITTED"
      BY <1>2 DEF Preparing
    <2> QED BY <1>6, <1>7, <1>8, <1>10, <2>1, <2>2, <2>3 DEF Leaves, HandleStays
  <1>12. ops[n].touched = Covered(0, ops[n].total) /\ ops[n].total \in Nat /\ n # 0
    BY <1>0, <1>2, Fields, Constants DEF OpInv, UploadShaped, Ops
  <1>13. RootInv(v)'
    <2>1. RootCommitted(v)'
      BY <1>5, <1>6, <1>7 DEF RootCommitted
    <2>2. \A i \in Indices : i \in Covered(0, ops[n].total) <=> i * BlockSize < ops[n].total
      BY <1>12, CoveredFromStart
    <2>3. Manifest(v)'
      BY <1>5, <1>6, <1>12, <2>2 DEF Manifest
    <2> QED BY <2>1, <2>3 DEF RootInv
  <1>14. FileInv(f)'
    <2>1. FilePinned(f)'
      BY <1>5, <1>6 DEF FilePinned, Exists
    <2>2. FileDrawn(f)'
      <3>1. f <= seq.file
        BY <1>0, <1>1 DEF OpInv, OpDrawn
      <3> QED BY <1>0, <1>6, <1>9, <3>1, Fields, Constants DEF FileDrawn, Files, Roots
    <2>3. BlocksOfEpoch(f)'
      BY <1>1, <1>5, <1>6, <1>7 DEF BlocksOfEpoch, SameOp
    <2> QED BY <2>1, <2>2, <2>3 DEF FileInv
  \* Nobody has seen the file, or what they have seen is of an earlier epoch.
  <1>15. \/ /\ \A h \in Handles : handles[h].file # f
            /\ \A o \in Ops : o # n => ops[o].file # f
         \/ /\ files[f].alive /\ files[f].snapshot \in Roots
            /\ Current(f).epoch \in Nat /\ ops[n].epoch = Current(f).epoch + 1
    <2>1. CASE ops[n].root = 0
      BY <1>0, <1>1, <1>2, <2>1 DEF OpInv, NewFile, NamesNewFile
    <2>2. CASE ops[n].root # 0
      <3>1. files[f].alive /\ files[f].snapshot = ops[n].root /\ FilePinned(f)
        BY <1>2, <2>2 DEF ContentInv, FileInv
      <3>2. ops[n].epoch = Current(f).epoch + 1
        BY <1>0, <1>2, <2>2, <3>1 DEF FilePinned, OpInv, UploadShaped, Current
      <3>3. files[f].snapshot \in Roots /\ Current(f).epoch \in Nat
        BY <1>0, <3>1, Fields DEF Current
      <3> QED BY <3>1, <3>2, <3>3
    <2> QED BY <2>1, <2>2
  <1>16. ASSUME NEW h \in Handles, handles[h].file = f PROVE HandleBehind(h)'
    <2>1. HandleBehind(h) /\ HandleStays(h)
      BY <1>8 DEF ContentInv, HandleInv
    <2>2. CASE Usable(h)'
      <3>1. Usable(h) /\ ~handles[h].closed
        BY <2>1, <2>2 DEF Usable, LiveHandle, HandleStays
      <3>2. snapshots[handles[h].snapshot].epoch \in Nat
        BY <1>0, <3>1, Fields
      <3> QED BY <1>5, <1>6, <1>15, <1>16, <2>1, <3>1, <3>2 DEF HandleBehind, HandleStays
    <2>3. CASE ~Usable(h)'
      BY <2>3 DEF HandleBehind
    <2> QED BY <2>2, <2>3
  <1>17. ASSUME NEW o \in Ops, o # n, ops[o].file = f PROVE WriteBehind(o)' /\ BaseReplaced(o)' /\ NotLost(o)'
    <2>1. WriteBehind(o) /\ ops[o].epoch \in Nat /\ SameOp(o)
      BY <1>0, <1>7, <1>17, Fields DEF ContentInv, OpInv, OpGoesOn
    <2>2. WriteBehind(o)'
      BY <1>5, <1>6, <1>15, <1>17, <2>1 DEF WriteBehind, SameOp
    <2>3. ops'[o].kind = "write" => ~InEpoch(o)'
      BY <1>5, <1>6, <1>15, <1>17, <2>1 DEF WriteBehind, InEpoch, SameOp
    <2> QED BY <2>2, <2>3 DEF BaseReplaced, NotLost, CommittedWrite
  <1>18. OpInv(n)'
    <2>1. OpDrawn(n)'
      <3>1. seq.root \in Nat /\ v \in Nat /\ ops[n].root \in Nat
        BY <1>0, Fields, Constants DEF Roots
      <3>2. ops[n].root <= v
        BY <1>0, <1>3, <3>1 DEF OpInv, OpDrawn
      <3>3. ~(n > seq.op)
        BY <1>0, <1>2 DEF OpInv, OpDrawn, Preparing
      <3> QED BY <1>0, <1>7, <1>9, <3>2, <3>3 DEF OpInv, OpDrawn, SameOp
    <2>2. ops'[n].kind = "upload"
      BY <1>2, <1>7 DEF Preparing, SameOp
    <2> QED BY <1>7, <2>1, <2>2
       DEF OpInv, OwnsHandle, NewFile, NamesNewFile, Preparing, BaseCommitted, WriteShaped, UploadShaped,
           WriteCovered, UploadCovered, WriteBehind, BaseReplaced, NotLost, CommittedWrite
  <1>19. \A p \in Ops : Apart(n, p)'
    BY <1>2, <1>7 DEF Apart, CommittedWrite, Preparing, SameOp
  <1>20. \A o \in Ops : o # n /\ NamesNewFile(o) => ops[o].file # f /\ ops'[n].file # ops[o].file
    BY <1>1, <1>7 DEF ContentInv, OpInv, NewFile, SameOp
  <1>21. OneFilePerPath'
    BY <1>2, <1>6 DEF ContentInv, OneFilePerPath, NameFree
  <1> QED BY <1>10, <1>11, <1>13, <1>14, <1>16, <1>17, <1>18, <1>19, <1>20, <1>21, Kept

\* What the commit of a write finds: a handle of its own, the file in the epoch the write
\* started in and at least as long as it was then.
LEMMA CommitFinds ==
  ASSUME ContentInv, NEW n \in Ops, WriteOperation(n)
  PROVE  /\ Preparing(n, "write") /\ ops[n].handle \in Handles /\ Usable(ops[n].handle)
         /\ ops[n].file \in Files /\ handles[ops[n].handle].file = ops[n].file
         /\ files[ops[n].file].alive /\ files[ops[n].file].snapshot \in Roots
         /\ ops[n].epoch = Current(ops[n].file).epoch
         /\ ops[n].base_size <= Current(ops[n].file).size
  <1>0. TypeInv /\ OpInv(n)
    BY DEF ContentInv
  <1>1. Preparing(n, "write")
    BY DEF WriteOperation, Preparing
  <1>2. PICK x : x = ops[n].handle
    OBVIOUS
  <1>3. PICK f : f = ops[n].file
    OBVIOUS
  <1>4. x \in Handles /\ handles[x].file = f /\ handles[x].snapshot = ops[n].root
    BY <1>0, <1>1, <1>2, <1>3, Fields DEF OpInv, OwnsHandle
  <1>5. Writable(x)
    BY <1>2 DEF WriteOperation
  <1>6. /\ Usable(x) /\ Exists(ops[n].root) /\ ~handles[x].closed /\ files[f].alive
        /\ Current(f).epoch = snapshots[ops[n].root].epoch
    BY <1>4, <1>5 DEF Writable, HandleOk, Usable
  <1>7. f \in Files /\ files[f].snapshot \in Roots
    BY <1>0, <1>4, <1>6, Fields
  <1>8. ops[n].epoch = snapshots[ops[n].root].epoch /\ ops[n].base_size = snapshots[ops[n].root].size
    BY <1>0, <1>1, <1>6 DEF OpInv, WriteShaped
  <1>9. HandleBehind(x)
    BY <1>4 DEF ContentInv, HandleInv
  <1>10. snapshots[ops[n].root].size <= Current(f).size
    BY <1>4, <1>6, <1>9 DEF HandleBehind
  <1> QED BY <1>1, <1>2, <1>3, <1>4, <1>6, <1>7, <1>8, <1>10

\* The merged content has a block exactly where its size says.
LEMMA MergedSize ==
  ASSUME ContentInv, NEW n \in Ops, WriteOperation(n),
         ops[n].growing => Current(ops[n].file).size = ops[n].base_size,
         NEW size, size = Maximum(Current(ops[n].file).size, ops[n].total)
  PROVE  /\ size \in Nat /\ Current(ops[n].file).size <= size
         /\ ops[n].growing => ops[n].base_size < size
         /\ ~ops[n].growing => size = Current(ops[n].file).size
         /\ \A i \in ops[n].touched : i * BlockSize < size
         /\ \A i \in Indices \ ops[n].touched :
              i * BlockSize < size <=> i * BlockSize < Current(ops[n].file).size
  <1>0. TypeInv /\ OpInv(n)
    BY DEF ContentInv
  <1>1. PICK c, b, t : c = Current(ops[n].file).size /\ b = ops[n].base_size /\ t = ops[n].total
    OBVIOUS
  <1>2. Preparing(n, "write") /\ b <= c /\ ops[n].file \in Files /\ files[ops[n].file].snapshot \in Roots
    BY <1>1, CommitFinds
  <1>3. c \in Nat /\ b \in Nat /\ t \in Nat /\ ops[n].growing \in BOOLEAN
    <2>1. ops[n] \in Op
      BY <1>0, TypeParts
    <2> QED BY <1>0, <1>1, <1>2, <2>1, Fields DEF Current, Op
  <1>4. /\ \A i \in ops[n].touched : i * BlockSize < t
        /\ \A i \in Indices : i * BlockSize < t => i \in ops[n].touched \/ i * BlockSize < b
        /\ b <= t /\ (ops[n].growing <=> b < t)
    BY <1>0, <1>1, <1>2 DEF OpInv, WriteShaped
  <1>5. (ops[n].growing => c = b) /\ size = Maximum(c, t)
    BY <1>1
  <1>6. /\ size \in Nat /\ c <= size /\ t <= size
        /\ ops[n].growing => b < size /\ size = t /\ b = c
        /\ ~ops[n].growing => size = c
    BY <1>2, <1>3, <1>4, <1>5 DEF Maximum
  <1>7. ASSUME NEW i \in Indices
        PROVE  /\ i \in ops[n].touched => i * BlockSize < size
               /\ i \notin ops[n].touched => (i * BlockSize < size <=> i * BlockSize < c)
    <2>1. PICK a \in Nat : a = i * BlockSize
      BY BoundsAssumption, Z3 DEF Indices
    <2>2. /\ i \in ops[n].touched => a < t
          /\ a < t => i \in ops[n].touched \/ a < b
      BY <1>4, <2>1
    <2>3. /\ i \in ops[n].touched => a < size
          /\ i \notin ops[n].touched => (a < size <=> a < c)
      BY <1>2, <1>3, <1>6, <2>2
    <2> QED BY <2>1, <2>3
  <1>8. ops[n].touched \subseteq Indices
    BY <1>0, Fields
  <1> QED BY <1>1, <1>6, <1>7, <1>8

\* The commit of a write: its blocks over the latest content, in the same epoch.
LEMMA ContentCommitWrite ==
  ASSUME ContentInv, TypeInv', LockExclusion', NEW n \in Ops, CommitWrite(n)
  PROVE  ContentInv'
  <1>0. TypeInv /\ OpInv(n) /\ WriteOperation(n)
    BY DEF ContentInv, CommitWrite
  <1>f. PICK f \in Files, x \in Handles : f = ops[n].file /\ x = ops[n].handle
    BY <1>0, CommitFinds
  <1>1. PICK c : f = ops[n].file /\ x = ops[n].handle /\ c = Current(f)
    BY <1>f
  <1>2. /\ Preparing(n, "write") /\ Usable(x) /\ handles[x].file = f
        /\ files[f].alive /\ files[f].snapshot \in Roots /\ c = snapshots[files[f].snapshot]
        /\ ops[n].epoch = c.epoch /\ ops[n].base_size <= c.size
    BY <1>0, <1>1, CommitFinds DEF Current
  <1> DEFINE new == [epoch |-> ops[n].epoch, version |-> c.version + 1,
                     size |-> Maximum(c.size, ops[n].total),
                     blocks |-> [i \in Indices |-> IF i \in ops[n].touched THEN n ELSE c.blocks[i]]]
  <1>3. /\ \A i \in ops[n].touched : c.blocks[i] = ops[n].base[i]
        /\ ops[n].growing => c.size = ops[n].base_size
        /\ seq.root < MaxRoots /\ Publish(f, seq.root + 1, new)
        /\ handles' = [ReleasedHandles({n}) EXCEPT ![x].snapshot = seq.root + 1,
                                                   ![x].revision = ReleasedHandles({n})[x].revision + 1]
        /\ locks' = ReleasedLocks({n})
        /\ ops' = [ops EXCEPT ![n] = Settle(ops[n], "COMMITTED")]
        /\ seq' = [seq EXCEPT !.root = seq.root + 1]
    BY <1>1 DEF CommitWrite, Latest
  <1>4. PICK v \in Roots : v = seq.root + 1
    BY <1>0, <1>3, TypeParts, NextIdentifier
  <1>5. PICK s : s = new
    OBVIOUS
  <1>6. /\ s.epoch = c.epoch /\ s.version > 0 /\ s.size = Maximum(c.size, ops[n].total)
        /\ \A i \in Indices : s.blocks[i] = IF i \in ops[n].touched THEN n ELSE c.blocks[i]
    <2>1. c.version \in Nat
      BY <1>0, <1>2, Fields
    <2> QED BY <1>2, <1>5, <2>1
  <1> HIDE DEF new
  <1>7. /\ files'[f].alive /\ files'[f].snapshot = v /\ snapshots'[v] = s /\ Current(f)' = s
        /\ \A g \in Files : g # f => FileStays(g) /\ files'[g] = files[g]
        /\ \A r \in Roots : r # v => snapshots'[r] = snapshots[r]
        /\ v > seq.root /\ v # 0
        /\ \A h \in Handles : ~handles[h].closed =>
             handles[h].snapshot # v /\ snapshots'[handles[h].snapshot] = snapshots[handles[h].snapshot]
    BY <1>3, <1>4, <1>5, Published
  <1>8. /\ ops'[n].state = "COMMITTED" /\ SameOp(n)
        /\ \A o \in Ops : o # n => OpGoesOn(o)
        /\ \A l \in Locks : LockGoesOn(l)
    BY <1>0, <1>2, <1>3, CommitReleases DEF Preparing
  <1>9. /\ \A h \in Handles : h # x => HandleStays(h) /\ KeepsWrite(h)
        /\ handles'[x].file = f /\ handles'[x].snapshot = v
    <2>1. ReleasedHandles({n}) \in [Handles -> Handle]
      BY <1>0, ReleasedType DEF TypeInv
    <2>2. \A h \in Handles : h # x => handles'[h] = ReleasedHandles({n})[h]
      BY <1>3, <2>1
    <2>3. handles'[x].file = ReleasedHandles({n})[x].file /\ handles'[x].snapshot = v
      BY <1>3, <1>4, <2>1 DEF Handle
    <2>4. \A h \in Handles : h # x => HandleStays(h) /\ KeepsWrite(h)
      BY <1>0, <1>8, <2>2, ReleasedHandlesGoOn
    <2> QED BY <1>0, <1>2, <2>3, <2>4, ReleasedFields
  <1>10. KeepsWrite(x)
    <2>1. handles[x].busy = Writing(n)
      BY <1>0, <1>1, <1>2 DEF OpInv, OwnsHandle
    <2>2. \A o \in Ops : Writing(o) = Writing(n) => o = n
      BY DEF Writing
    <2> QED BY <1>8, <2>1, <2>2 DEF KeepsWrite
  <1>11. /\ seq'.file = seq.file /\ seq'.root = v /\ seq'.handle = seq.handle
         /\ seq'.lock = seq.lock /\ seq'.op = seq.op
    BY <1>0, <1>3, <1>4, TypeParts DEF Counters
  <1>12. 0 \notin Locks /\ n # 0
    BY Constants DEF Locks, Ops
  <1>13. Leaves(n, 0, x, f, v)
    <2>1. CountersGrow
      BY <1>0, <1>4, <1>11, CountersTyped DEF CountersGrow
    <2>2. \A h \in Handles : h # x /\ ~handles'[h].closed /\ handles'[h].ttl > 0 =>
            snapshots'[handles[h].snapshot] = snapshots[handles[h].snapshot]
      BY <1>7, <1>9 DEF HandleStays
    <2>3. ops[n].state # "COMMITTED"
      BY <1>2 DEF Preparing
    <2>4. \A h \in Handles : KeepsWrite(h) /\ (h <= seq.handle => handles'[h].file = handles[h].file)
      BY <1>2, <1>9, <1>10 DEF HandleStays
    <2> QED BY <1>7, <1>8, <1>9, <1>12, <2>1, <2>2, <2>3, <2>4 DEF Leaves
  <1>14. /\ s.size \in Nat /\ c.size \in Nat /\ c.size <= s.size
         /\ ops[n].growing => ops[n].base_size < s.size
         /\ \A i \in ops[n].touched : i * BlockSize < s.size
         /\ \A i \in Indices \ ops[n].touched : i * BlockSize < s.size <=> i * BlockSize < c.size
    <2>1. c = Current(ops[n].file) /\ s.size = Maximum(Current(ops[n].file).size, ops[n].total)
      BY <1>1, <1>6
    <2>2. ops[n].growing => Current(ops[n].file).size = ops[n].base_size
      BY <1>3, <2>1
    <2>3. PICK size : size = s.size
      OBVIOUS
    <2>4. /\ size \in Nat /\ Current(ops[n].file).size <= size
          /\ ops[n].growing => ops[n].base_size < size
          /\ \A i \in ops[n].touched : i * BlockSize < size
          /\ \A i \in Indices \ ops[n].touched :
               i * BlockSize < size <=> i * BlockSize < Current(ops[n].file).size
      BY <1>0, <2>1, <2>2, <2>3, MergedSize
    <2>5. c.size \in Nat
      BY <1>0, <1>2, Fields
    <2> QED BY <2>1, <2>3, <2>4, <2>5
  <1>15. ops[n].touched \subseteq Indices /\ f <= seq.file /\ ops[n].file = f
    BY <1>0, <1>1, Fields DEF OpInv, OpDrawn
  <1>16. \A i \in Indices : c.blocks[i] # 0 =>
           /\ c.blocks[i] \in Ops /\ ops[c.blocks[i]].state = "COMMITTED"
           /\ ops[c.blocks[i]].file = f /\ ops[c.blocks[i]].epoch = c.epoch /\ i \in ops[c.blocks[i]].touched
    <2>1. RootCommitted(files[f].snapshot) /\ BlocksOfEpoch(f)
      BY <1>2 DEF ContentInv, RootInv, FileInv
    <2> QED BY <1>0, <1>1, <1>2, <2>1, Fields DEF RootCommitted, BlocksOfEpoch
  <1>17. RootInv(v)'
    <2>1. RootCommitted(v)'
      BY <1>6, <1>7, <1>8, <1>13, <1>16, CommittedStay DEF RootCommitted
    <2>2. Manifest(files[f].snapshot)
      BY <1>2 DEF ContentInv, RootInv
    <2>3. Manifest(v)'
      <3> SUFFICES ASSUME NEW i \in Indices PROVE (s.blocks[i] # 0) <=> (i * BlockSize < s.size)
        BY <1>7 DEF Manifest
      <3>1. CASE i \in ops[n].touched
        BY <1>6, <1>12, <1>14, <3>1
      <3>2. CASE i \notin ops[n].touched
        <4>1. (c.blocks[i] # 0) <=> (i * BlockSize < c.size)
          BY <1>2, <2>2 DEF Manifest
        <4> QED BY <1>6, <1>14, <3>2, <4>1
      <3> QED BY <3>1, <3>2
    <2> QED BY <2>1, <2>3 DEF RootInv
  <1>18. FileInv(f)'
    <2>1. FilePinned(f)'
      BY <1>6, <1>7 DEF FilePinned, Exists
    <2>2. FileDrawn(f)'
      BY <1>0, <1>7, <1>11, <1>15, Fields, Constants DEF FileDrawn, Files, Roots
    <2>3. BlocksOfEpoch(f)'
      <3> SUFFICES ASSUME NEW i \in Indices, NEW w, w = s.blocks[i], w # 0
                   PROVE  ops'[w].file = f /\ ops'[w].epoch = s.epoch /\ i \in ops'[w].touched
        BY <1>7 DEF BlocksOfEpoch
      <3>1. CASE i \in ops[n].touched
        BY <1>2, <1>6, <1>8, <1>15, <3>1 DEF SameOp
      <3>2. CASE i \notin ops[n].touched
        <4>1. w = c.blocks[i]
          BY <1>6, <3>2
        <4>2. w \in Ops /\ ops[w].state = "COMMITTED"
          BY <1>16, <4>1
        <4>3. SameOp(w)
          BY <1>13, <4>2, CommittedStay
        <4> QED BY <1>6, <1>16, <4>1, <4>3 DEF SameOp
      <3> QED BY <3>1, <3>2
    <2> QED BY <2>1, <2>2, <2>3 DEF FileInv
  <1>19. HandleInv(x)'
    <2>1. HandlePinned(x)'
      BY <1>6, <1>7, <1>9 DEF HandlePinned, Exists
    <2>2. HandleDrawn(x)'
      <3>1. ~(x > seq.handle)
        BY <1>2 DEF ContentInv, HandleInv, HandleDrawn, Usable
      <3> QED BY <1>9, <1>11, <1>15, <3>1, Constants DEF HandleDrawn, Roots
    <2>3. HandleBehind(x)'
      <3>1. s.epoch \in Nat
        BY <1>0, <1>2, <1>6, Fields
      <3> QED BY <1>7, <1>9, <1>14, <3>1 DEF HandleBehind
    <2> QED BY <2>1, <2>2, <2>3 DEF HandleInv
  <1>20. ASSUME NEW h \in Handles, h # x, handles[h].file = f PROVE HandleBehind(h)'
    <2>1. HandleBehind(h) /\ HandleStays(h)
      BY <1>9, <1>20 DEF ContentInv, HandleInv
    <2>2. CASE Usable(h)'
      <3>1. Usable(h) /\ ~handles[h].closed
        BY <2>1, <2>2 DEF Usable, LiveHandle, HandleStays
      <3>2. /\ snapshots[handles[h].snapshot].size \in Nat
            /\ snapshots'[handles[h].snapshot] = snapshots[handles[h].snapshot]
        BY <1>0, <1>7, <3>1, Fields
      <3>3. /\ snapshots[handles[h].snapshot].epoch <= c.epoch
            /\ snapshots[handles[h].snapshot].epoch = c.epoch => snapshots[handles[h].snapshot].size <= c.size
        BY <1>1, <1>2, <1>20, <2>1, <3>1 DEF HandleBehind
      <3> QED BY <1>6, <1>7, <1>14, <1>20, <2>1, <3>2, <3>3 DEF HandleBehind, HandleStays
    <2>3. CASE ~Usable(h)'
      BY <2>3 DEF HandleBehind
    <2> QED BY <2>2, <2>3
  \* Nothing was patched from a write that was not committed.
  <1>21. ASSUME NEW o \in Ops, ops[o].kind = "write", NEW i \in ops[o].touched PROVE ops[o].base[i] # n
    <2>1. BaseCommitted(o)
      BY DEF ContentInv, OpInv
    <2> QED BY <1>2, <1>12, <1>21, <2>1 DEF BaseCommitted, Preparing
  <1>22. ASSUME NEW o \in Ops, o # n, ops[o].file = f PROVE WriteBehind(o)' /\ BaseReplaced(o)' /\ NotLost(o)'
    <2>1. OpInv(o) /\ SameOp(o) /\ (CommittedWrite(o)' => CommittedWrite(o)) /\ ops[o].touched \subseteq Indices
      BY <1>0, <1>8, <1>22, Fields DEF ContentInv, OpGoesOn, SameOp, CommittedWrite
    <2>2. WriteBehind(o)'
      <3>1. ops[o].kind = "write" => ops[o].epoch <= c.epoch
        BY <1>1, <1>2, <1>22, <2>1 DEF OpInv, WriteBehind
      <3> QED BY <1>6, <1>7, <1>22, <2>1, <3>1 DEF WriteBehind, SameOp
    <2>3. CommittedWrite(o)' /\ InEpoch(o)' => CommittedWrite(o) /\ InEpoch(o)
      <3>1. InEpoch(o)' => ops[o].epoch = c.epoch
        BY <1>6, <1>7, <1>22, <2>1 DEF InEpoch, SameOp
      <3>2. ops[o].epoch = c.epoch => InEpoch(o)
        BY <1>1, <1>2, <1>22 DEF InEpoch
      <3> QED BY <2>1, <3>1, <3>2
    <2>4. BaseReplaced(o)'
      <3> SUFFICES ASSUME CommittedWrite(o), InEpoch(o)
                   PROVE  /\ \A i \in ops[o].touched : s.blocks[i] # ops[o].base[i]
                          /\ ops[o].growing => ops[o].base_size < s.size
        BY <1>7, <1>22, <2>1, <2>3 DEF BaseReplaced, SameOp
      <3>1. /\ \A i \in ops[o].touched : c.blocks[i] # ops[o].base[i]
            /\ ops[o].growing => ops[o].base_size < c.size
        BY <1>1, <1>22, <2>1 DEF OpInv, BaseReplaced
      <3>2. ops[o].growing => ops[o].base_size < s.size
        BY <1>0, <1>14, <3>1, Fields
      <3>3. \A i \in ops[o].touched : s.blocks[i] # ops[o].base[i]
        BY <1>6, <1>21, <2>1, <3>1 DEF CommittedWrite
      <3> QED BY <3>2, <3>3
    <2>5. NotLost(o)'
      <3> SUFFICES ASSUME CommittedWrite(o), InEpoch(o), NEW i \in ops[o].touched
                   PROVE  \/ s.blocks[i] = o
                          \/ \E p \in Ops : /\ CommittedWrite(p)' /\ SameContent(o, p)'
                                            /\ i \in ops'[p].touched /\ ops'[p].base[i] = o
        BY <1>7, <1>22, <2>1, <2>3 DEF NotLost, SameOp
      <3>0. i \in Indices
        BY <2>1
      <3>1. \/ c.blocks[i] = o
            \/ \E p \in Ops : /\ CommittedWrite(p) /\ SameContent(o, p)
                              /\ i \in ops[p].touched /\ ops[p].base[i] = o
        BY <1>1, <1>22, <2>1 DEF OpInv, NotLost
      <3>2. CASE c.blocks[i] = o /\ i \in ops[n].touched
        <4>1. CommittedWrite(n)' /\ ops'[n].file = f /\ ops'[n].epoch = c.epoch
          BY <1>2, <1>8, <1>15 DEF CommittedWrite, SameOp, Preparing
        <4>2. ops'[o].file = f /\ ops'[o].epoch = c.epoch
          BY <1>1, <1>22, <2>1 DEF InEpoch, SameOp
        <4>3. i \in ops'[n].touched /\ ops'[n].base[i] = o
          BY <1>3, <1>8, <3>2 DEF SameOp
        <4> QED BY <4>1, <4>2, <4>3 DEF SameContent
      <3>3. CASE c.blocks[i] = o /\ i \notin ops[n].touched
        BY <1>6, <3>0, <3>3
      <3>4. ASSUME NEW p \in Ops, CommittedWrite(p), SameContent(o, p), i \in ops[p].touched, ops[p].base[i] = o
            PROVE  /\ CommittedWrite(p)' /\ SameContent(o, p)'
                   /\ i \in ops'[p].touched /\ ops'[p].base[i] = o
        <4>1. SameOp(p) /\ ops'[p].state = "COMMITTED"
          BY <1>13, <3>4, CommittedStay DEF CommittedWrite
        <4> QED BY <2>1, <3>4, <4>1 DEF CommittedWrite, SameContent, SameOp
      <3> QED BY <3>1, <3>2, <3>3, <3>4
    <2> QED BY <2>2, <2>4, <2>5
  <1>23. OpInv(n)'
    <2>1. OpDrawn(n)'
      <3>1. seq.root \in Nat /\ v \in Nat /\ ops[n].root \in Nat
        BY <1>0, Fields, Constants DEF Roots
      <3>2. ops[n].root <= v
        BY <1>0, <1>4, <3>1 DEF OpInv, OpDrawn
      <3>3. ~(n > seq.op)
        BY <1>0, <1>2 DEF OpInv, OpDrawn, Preparing
      <3> QED BY <1>0, <1>8, <1>11, <3>2, <3>3 DEF OpInv, OpDrawn, SameOp
    <2>2. BaseCommitted(n)'
      <3> SUFFICES ASSUME NEW i \in ops[n].touched, ops[n].base[i] # 0
                   PROVE  ops'[ops[n].base[i]].state = "COMMITTED"
        BY <1>8 DEF BaseCommitted, SameOp
      <3>1. ops[n].base[i] \in Ops /\ ops[ops[n].base[i]].state = "COMMITTED"
        BY <1>0, <1>2, <1>15, Fields DEF OpInv, BaseCommitted, Preparing
      <3> QED BY <1>13, <3>1, CommittedStay
    <2>3. WriteBehind(n)'
      <3>1. c.epoch \in Nat
        BY <1>0, <1>2, Fields
      <3> QED BY <1>2, <1>6, <1>7, <1>8, <1>15, <3>1 DEF WriteBehind, SameOp
    <2>4. BaseReplaced(n)'
      <3>1. \A i \in ops[n].touched : s.blocks[i] = n /\ ops[n].base[i] # n
        BY <1>2, <1>6, <1>15, <1>21 DEF Preparing
      <3> QED BY <1>7, <1>8, <1>14, <1>15, <3>1 DEF BaseReplaced, SameOp
    <2>5. NotLost(n)'
      BY <1>6, <1>7, <1>8, <1>15 DEF NotLost, SameOp
    <2> QED BY <1>8, <2>1, <2>2, <2>3, <2>4, <2>5
       DEF OpInv, OwnsHandle, NewFile, NamesNewFile, Preparing, WriteShaped, UploadShaped, WriteCovered,
           UploadCovered
  <1>24. ASSUME NEW p \in Ops, p # n PROVE Apart(n, p)'
    <2> SUFFICES ASSUME CommittedWrite(p)', SameContent(n, p)' PROVE Apart(n, p)'
      BY DEF Apart
    <2>1. SameOp(p) /\ CommittedWrite(p) /\ OpInv(p)
      BY <1>8, <1>24 DEF ContentInv, OpGoesOn, SameOp, CommittedWrite
    <2>2. InEpoch(p) /\ ops[p].file = f
      BY <1>1, <1>2, <1>8, <1>15, <2>1 DEF SameContent, SameOp, InEpoch
    <2>3. /\ \A i \in ops[p].touched : c.blocks[i] # ops[p].base[i]
          /\ ops[p].growing => ops[p].base_size < c.size
      BY <1>1, <2>1, <2>2 DEF OpInv, BaseReplaced
    <2>4. \A i \in ops[n].touched \cap ops[p].touched : ops[n].base[i] # ops[p].base[i]
      BY <1>3, <2>3
    <2>5. ops[n].growing /\ ops[p].growing => ops[n].base_size # ops[p].base_size
      BY <1>0, <1>3, <1>14, <2>3, Fields
    <2> QED BY <1>8, <2>1, <2>4, <2>5 DEF Apart, SameOp
  <1>25. \A o \in Ops : NamesNewFile(o) => ops[o].file # f
    <2>1. files[f].snapshot # 0
      BY <1>2, Constants DEF Roots
    <2> QED BY <2>1 DEF ContentInv, OpInv, NewFile
  <1>26. ops'[n].file = f
    BY <1>8, <1>15 DEF SameOp
  <1>27. OneFilePerPath'
    BY <1>2, <1>7 DEF ContentInv, OneFilePerPath
  <1> QED BY <1>9, <1>12, <1>13, <1>17, <1>18, <1>19, <1>20, <1>22, <1>23, <1>24, <1>25, <1>26, <1>27, Kept

-----------------------------------------------------------------------------
(* The invariant holds from the start and through every step.               *)

\* A control serving its first request.
LEMMA ContentInit == Init => ContentInv
  <1> SUFFICES ASSUME Init PROVE ContentInv
    OBVIOUS
  <1>0. TypeInv
    BY TypeInit
  <1>1. PICK one \in {0, 1} : one = (IF Preload = 0 THEN 0 ELSE 1)
    OBVIOUS
  <1>2. PICK loaded : loaded = Covered(0, Preload)
    OBVIOUS
  <1>3. /\ files = [f \in Files |-> IF f = one THEN [alive |-> TRUE, snapshot |-> 1]
                                    ELSE [alive |-> FALSE, snapshot |-> 0]]
        /\ snapshots = [r \in Roots |-> IF r = one
             THEN [epoch |-> 1, version |-> 1, size |-> Preload,
                   blocks |-> [i \in Indices |-> IF i \in loaded THEN 1 ELSE 0]]
             ELSE NoSnapshot]
        /\ ops = [o \in Ops |-> IF o = one
             THEN [NoOp EXCEPT !.kind = "upload", !.state = "COMMITTED", !.file = 1, !.epoch = 1,
                               !.total = Preload, !.touched = loaded, !.locks = {1}, !.sealed = TRUE]
             ELSE NoOp]
        /\ handles = [h \in Handles |-> NoHandle] /\ locks = [l \in Locks |-> NoLock]
        /\ seq = [file |-> one, root |-> one, handle |-> 0, lock |-> one, op |-> one, read |-> 0]
    BY <1>1, <1>2 DEF Init
  <1>4. seq.file = one /\ seq.root = one /\ seq.handle = 0 /\ seq.lock = one /\ seq.op = one
    BY <1>3
  <1>5. \A h \in Handles : HandleInv(h)
    <2>1. NoHandle.file = 0 /\ NoHandle.snapshot = 0 /\ NoHandle.closed /\ NoHandle.busy = Idle
      BY DEF NoHandle
    <2>2. \A h \in Handles : handles[h] = NoHandle
      BY <1>3
    <2> QED BY <1>1, <1>4, <2>1, <2>2 DEF HandleInv, HandlePinned, HandleDrawn, HandleBehind, Usable
  <1>6. \A l \in Locks : ~LiveLock(l) /\ locks[l].file = 0
    BY <1>3 DEF LiveLock, NoLock
  <1>7. (\A l \in Locks : LockInv(l)) /\ LockExclusion
    BY <1>1, <1>4, <1>6 DEF LockInv, LockDrawn, LockOwned, LockExclusion
  <1>8. \A f \in Files : /\ f = one => files[f].alive /\ files[f].snapshot = one
                         /\ f # one => ~files[f].alive /\ files[f].snapshot = 0
    BY <1>1, <1>3, Constants DEF Files
  <1>9. OneFilePerPath
    BY <1>8 DEF OneFilePerPath
  <1>10. \A o \in Ops : /\ ops[o].kind # "write" /\ ops[o].root = 0
                        /\ o = one => /\ ops[o].state = "COMMITTED" /\ ops[o].file = one /\ ops[o].epoch = 1
                                      /\ ops[o].touched = loaded /\ ops[o].locks = {one}
                        /\ o # one => /\ ops[o].state = "NONE" /\ ops[o].file = 0 /\ ops[o].locks = {}
    <2> SUFFICES ASSUME NEW o \in Ops
                 PROVE  /\ ops[o].kind # "write" /\ ops[o].root = 0
                        /\ o = one => /\ ops[o].state = "COMMITTED" /\ ops[o].file = one /\ ops[o].epoch = 1
                                      /\ ops[o].touched = loaded /\ ops[o].locks = {one}
                        /\ o # one => /\ ops[o].state = "NONE" /\ ops[o].file = 0 /\ ops[o].locks = {}
      OBVIOUS
    <2>1. CASE o = one
      <3>1. one = 1
        BY <1>1, <2>1, Constants DEF Ops
      <3>2. ops[o] = [NoOp EXCEPT !.kind = "upload", !.state = "COMMITTED", !.file = 1, !.epoch = 1,
                                  !.total = Preload, !.touched = loaded, !.locks = {1}, !.sealed = TRUE]
        BY <1>3, <2>1
      <3>3. ops[o].kind = "upload" /\ ops[o].state = "COMMITTED" /\ ops[o].file = 1
        BY <3>2 DEF NoOp
      <3>4. ops[o].epoch = 1 /\ ops[o].touched = loaded /\ ops[o].locks = {1}
        BY <3>2 DEF NoOp
      <3>5. ops[o].root = 0
        BY <3>2 DEF NoOp
      <3> QED BY <2>1, <3>1, <3>3, <3>4, <3>5
    <2>2. CASE o # one
      BY <1>3, <2>2 DEF NoOp
    <2> QED BY <2>1, <2>2
  <1>11. (\A o \in Ops : OpInv(o)) /\ (\A o, p \in Ops : o # p => Apart(o, p))
    <2>1. \A o \in Ops : OpDrawn(o)
      BY <1>1, <1>4, <1>10, Constants DEF OpDrawn, Ops
    <2> QED BY <1>10, <2>1
       DEF OpInv, OwnsHandle, NewFile, NamesNewFile, Preparing, BaseCommitted, WriteShaped, UploadShaped,
           WriteCovered, UploadCovered, WriteBehind, BaseReplaced, NotLost, CommittedWrite, Apart
  <1>12. \A r \in Roots : /\ r # one => snapshots[r] = NoSnapshot
                          /\ r = one => /\ snapshots[r].epoch = 1 /\ snapshots[r].version = 1
                                        /\ snapshots[r].size = Preload
                                        /\ \A i \in Indices : snapshots[r].blocks[i] = IF i \in loaded THEN 1 ELSE 0
    BY <1>3
  <1>13. one # 0 => one = 1 /\ one \in Ops /\ one \in Roots /\ one \in Files
    BY <1>1, BoundsAssumption DEF Ops, Roots, Files
  <1>14. 0 \notin Roots /\ 0 \notin Files
    BY Constants DEF Roots, Files
  <1>15. ASSUME NEW r \in Roots PROVE RootInv(r)
    <2>1. CASE r # one
      <3>1. \A i \in Indices : ~(i * BlockSize < 0)
        BY BoundsAssumption DEF Indices
      <3> QED BY <1>12, <2>1, <3>1, NothingStored DEF RootInv, RootCommitted, Manifest
    <2>2. CASE r = one
      <3>1. one = 1 /\ one \in Ops
        BY <1>13, <1>14, <2>2
      <3>2. \A i \in Indices : i \in loaded <=> i * BlockSize < Preload
        <4>1. Preload \in Nat
          BY BoundsAssumption
        <4> QED BY <1>2, <4>1, CoveredFromStart
      <3> QED BY <1>10, <1>12, <2>2, <3>1, <3>2 DEF RootInv, RootCommitted, Manifest
    <2> QED BY <2>1, <2>2
  <1>16. ASSUME NEW f \in Files PROVE FileInv(f)
    <2>1. CASE f # one
      BY <1>1, <1>4, <1>8, <2>1 DEF FileInv, FilePinned, FileDrawn, BlocksOfEpoch
    <2>2. CASE f = one
      <3>1. one = 1 /\ one \in Ops /\ one \in Roots /\ files[f].snapshot = one
        BY <1>8, <1>13, <1>14, <2>2
      <3>2. FilePinned(f)
        BY <1>12, <3>1 DEF FilePinned, Exists
      <3>3. FileDrawn(f)
        BY <1>4, <2>2, <3>1 DEF FileDrawn
      <3>4. BlocksOfEpoch(f)
        BY <1>10, <1>12, <2>2, <3>1 DEF BlocksOfEpoch, Current
      <3> QED BY <3>2, <3>3, <3>4 DEF FileInv
    <2> QED BY <2>1, <2>2
  <1> QED BY <1>0, <1>5, <1>7, <1>9, <1>11, <1>15, <1>16 DEF ContentInv

\* The handlers that only change or end what there is.
CalmNext ==
  \/ \E h \in Handles : RenewHandle(h) \/ Close(h) \/ BeginRead(h)
  \/ \E r \in Reads : EndRead(r)
  \/ \E l \in Locks : RenewLock(l) \/ Unlock(l)
  \/ \E o \in Ops : (\E i \in Indices : ReportPatch(o, i)) \/ Abort(o) \/ RenewUpload(o) \/ SealManifest(o)
  \/ \E f \in Files : Remove(f)
  \/ \E S \in SUBSET Ops : DataNodeReboot(S)
  \/ Collect \/ ControlRestart \/ TickLease \/ TickWall \/ UNCHANGED vars

\* All of them leave the content as it is, or remove it.
LEMMA CalmSteps ==
  ASSUME TypeInv, CalmNext
  PROVE  NothingDrawn /\ OpsGoOn /\ LocksGoOn /\ HandlesGoOn /\ ContentShrinks
  BY CalmHandle, CalmEndRead, CalmLock, CalmProgress, CalmAbort, CalmCollect, CalmRestart, CalmTicks DEF CalmNext

\* The handlers that make a handle, a lock or an operation and publish nothing.
RecordNext ==
  \/ \E f \in Files, mode \in Modes : OpenExisting(f, mode)
  \/ \E h \in Handles : LockWhole(h) \/ BeginEmptyWrite(h)
  \/ \E h \in Handles, range \in Ranges :
       LockRange(h, range[1], range[2]) \/ BeginWrite(h, range[1], range[2])
  \/ \E f \in Files, total \in UploadSizes : UploadExisting(f, total)
  \/ \E total \in UploadSizes : UploadNew(total)

\* The handlers that publish.
PublishNext ==
  \/ \E f \in Files, mode \in Modes : OpenTruncate(f, mode)
  \/ \E mode \in Modes : OpenCreate(mode)
  \/ \E o \in Ops : CommitWrite(o) \/ CommitUpload(o)

\* There are no others.
LEMMA NextParts == [Next]_vars => CalmNext \/ RecordNext \/ PublishNext
  BY DEF Next, CalmNext, RecordNext, PublishNext

\* Every handler keeps the invariant.
LEMMA ContentStep == ContentInv /\ [Next]_vars => ContentInv'
  <1> SUFFICES ASSUME ContentInv, [Next]_vars PROVE ContentInv'
    OBVIOUS
  <1>1. TypeInv /\ LockExclusion
    BY DEF ContentInv
  <1>2. TypeInv' /\ LockExclusion'
    BY <1>1, TypeStep, ExclusionStep
  <1>3. CASE CalmNext
    BY <1>1, <1>2, <1>3, CalmSteps, Calm
  <1>4. CASE RecordNext
    <2>1. ASSUME NEW h \in Handles, LockWhole(h) \/ BeginEmptyWrite(h) PROVE ContentInv'
      BY <1>2, <2>1, ContentAcquireLock, ContentBeginEmptyWrite DEF LockWhole
    <2>2. ASSUME NEW h \in Handles, NEW range \in Ranges,
                 LockRange(h, range[1], range[2]) \/ BeginWrite(h, range[1], range[2])
          PROVE  ContentInv'
      BY <1>2, <2>2, ContentAcquireLock, ContentBeginWrite, CoveredType DEF LockRange
    <2> QED BY <1>2, <1>4, <2>1, <2>2, ContentOpenExisting, ContentUploads DEF RecordNext
  <1>5. CASE PublishNext
    BY <1>2, <1>5, ContentOpenTruncate, ContentOpenCreate, ContentCommitWrite, ContentCommitUpload DEF PublishNext
  <1> QED BY <1>3, <1>4, <1>5, NextParts

\* What the handlers of control/access.py keep true together.
THEOREM ContentCorrect == Spec => []ContentInv
  BY ContentInit, ContentStep, PTL DEF Spec

\* collect() never deletes a snapshot that a file publishes or a usable handle reads from.
THEOREM Pinned == Spec => []PinnedSnapshotsExist
  <1>1. ContentInv => PinnedSnapshotsExist
    BY DEF ContentInv, FileInv, FilePinned, HandleInv, HandlePinned, Usable, PinnedSnapshotsExist
  <1> QED BY <1>1, ContentCorrect, PTL

\* Between BeginWrite and its outcome, the handle and the live locks of a write are its own.
THEOREM HandleOwned == Spec => []WriteOwnsHandle
  <1>1. ContentInv => WriteOwnsHandle
    BY DEF ContentInv, OpInv, OwnsHandle, Preparing, WriteOwnsHandle
  <1> QED BY <1>1, ContentCorrect, PTL

\* A path shows one file, made of what its last content epoch wrote, whatever old handles do.
THEOREM Content == Spec => []OneContent
  <1>1. ASSUME ContentInv PROVE PublishedFromEpoch
    <2> SUFFICES ASSUME NEW f \in Files, files[f].alive
                 PROVE  /\ \A i \in Indices : LET v == Current(f).blocks[i] IN
                             v # 0 => /\ ops[v].state = "COMMITTED" /\ ops[v].file = f
                                      /\ ops[v].epoch = Current(f).epoch /\ i \in ops[v].touched
                        /\ \A h \in Handles : HandleOk(h) /\ handles[h].file = f =>
                             snapshots[handles[h].snapshot].epoch <= Current(f).epoch
      BY DEF PublishedFromEpoch
    <2>1. files[f].snapshot \in Roots
      BY <1>1, Fields DEF ContentInv
    <2>2. RootCommitted(files[f].snapshot) /\ BlocksOfEpoch(f)
      BY <1>1, <2>1 DEF ContentInv, RootInv, FileInv
    <2>3. ASSUME NEW h \in Handles, HandleOk(h), handles[h].file = f
          PROVE  snapshots[handles[h].snapshot].epoch <= Current(f).epoch
      <3>1. HandleBehind(h)
        BY <1>1 DEF ContentInv, HandleInv
      <3> QED BY <2>3, <3>1 DEF HandleBehind, HandleOk, Usable
    <2> QED BY <2>2, <2>3 DEF RootCommitted, BlocksOfEpoch, Current
  <1>2. ContentInv => OneContent
    BY <1>1 DEF ContentInv, OneContent
  <1> QED BY <1>2, ContentCorrect, PTL

\* No committed write is lost, and merged contents have no hole.
THEOREM Merged == Spec => []WritesMerged
  <1>1. ASSUME ContentInv PROVE NoLostUpdate
    <2>1. \A o \in Ops : NotLost(o)
      BY <1>1 DEF ContentInv, OpInv
    <2>2. \A o, p \in Ops : o # p => Apart(o, p)
      BY <1>1 DEF ContentInv
    <2> QED BY <2>1, <2>2 DEF NoLostUpdate, NotLost, InEpoch, Apart, SameContent, CommittedWrite
  <1>2. ContentInv => WritesMerged
    BY <1>1 DEF ContentInv, RootInv, Manifest, ManifestMatchesSize, WritesMerged
  <1> QED BY <1>2, ContentCorrect, PTL

-----------------------------------------------------------------------------
(* Content under a lock changes only by its owner.                          *)

\* What LockedContentStable asks of a step for lock l.
KeptByOthers(l) ==
  \/ SameUnderLock(l)
  \/ files[locks[l].file].alive /\ ~files'[locks[l].file].alive
  \/ /\ locks[l].owner.kind = "handle"
     /\ handles'[locks[l].owner.id].snapshot # handles[locks[l].owner.id].snapshot
  \/ /\ locks[l].owner.kind = "op"
     /\ ops[locks[l].owner.id].state # ops'[locks[l].owner.id].state
     /\ ops'[locks[l].owner.id].state = "COMMITTED"

\* The file of a live lock exists as a record and was drawn before.
LEMMA LockedFile ==
  ASSUME ContentInv, NEW l \in Locks, LiveLock(l)
  PROVE  locks[l].file \in Files /\ locks[l].file <= seq.file /\ locks[l].owner # OpenOwner
  <1>1. TypeInv /\ LockInv(l)
    BY DEF ContentInv
  <1>2. locks[l].file # 0 /\ locks[l].owner.kind \in {"handle", "op"} /\ locks[l].file <= seq.file
    BY <1>1 DEF LockInv, LockOwned, LockDrawn
  <1>3. locks[l].file \in 0..MaxFiles
    BY <1>1, Fields
  <1>4. OpenOwner.kind = "open"
    BY DEF OpenOwner
  <1> QED BY <1>2, <1>3, <1>4, Constants DEF Files

\* A step that at most removes the file of the lock.
LEMMA StableFile ==
  ASSUME ContentInv, TypeInv', NEW l \in Locks, LiveLock(l), FileStays(locks[l].file)
  PROVE  KeptByOthers(l)
  <1>1. PICK f \in Files : f = locks[l].file
    BY LockedFile
  <1>2. files[f].alive \in BOOLEAN /\ files'[f].alive \in BOOLEAN
    BY Fields DEF ContentInv, TypeInv, TypeOK
  <1> QED BY <1>1, <1>2 DEF KeptByOthers, SameUnderLock, FileStays, Current

\* Another lock on the file of a live lock, with another owner, covers something else.
LEMMA Disjoint ==
  ASSUME ContentInv, NEW l \in Locks, LiveLock(l), NEW k \in Locks, LiveLock(k),
         locks[k].file = locks[l].file, locks[k].owner # locks[l].owner
  PROVE  /\ ~locks[l].whole /\ ~locks[k].whole /\ ~(locks[l].size /\ locks[k].size)
         /\ \A i \in locks[l].indices : i \notin locks[k].indices
  BY DEF ContentInv, LockExclusion, Conflicts

\* The truncation of open() finds no live lock on the file.
LEMMA StableTruncate ==
  ASSUME ContentInv, TypeInv', NEW l \in Locks, LiveLock(l),
         NEW f \in Files, NEW mode \in Modes, OpenTruncate(f, mode)
  PROVE  KeptByOthers(l)
  <1>0. TypeInv
    BY DEF ContentInv
  <1>1. locks[l].file # f
    BY LockedFile DEF OpenTruncate, CanAcquire, Conflicts
  <1>2. PICK new : Publish(f, seq.root + 1, new) /\ seq.root < MaxRoots
    BY DEF OpenTruncate
  <1>3. PICK v \in Roots : v = seq.root + 1
    BY <1>0, <1>2, TypeParts, NextIdentifier
  <1>4. FileStays(locks[l].file)
    BY <1>1, <1>2, <1>3, LockedFile, Published
  <1> QED BY <1>4, StableFile

\* A file that open() creates is not the file of a lock.
LEMMA StableCreate ==
  ASSUME ContentInv, TypeInv', NEW l \in Locks, LiveLock(l), NEW mode \in Modes, OpenCreate(mode)
  PROVE  KeptByOthers(l)
  <1>0. TypeInv
    BY DEF ContentInv
  <1>1. PICK new : Publish(seq.file + 1, seq.root + 1, new) /\ seq.root < MaxRoots /\ seq.file < MaxFiles
    BY DEF OpenCreate
  <1>2. PICK v \in Roots, f \in Files : v = seq.root + 1 /\ f = seq.file + 1
    BY <1>0, <1>1, TypeParts, NextIdentifier
  <1>3. locks[l].file # f
    BY <1>0, <1>2, LockedFile, Fields, Constants DEF Files
  <1>4. FileStays(locks[l].file)
    BY <1>1, <1>2, <1>3, LockedFile, Published
  <1> QED BY <1>4, StableFile

\* An upload holds a lock of its own on the whole file it commits.
LEMMA StableCommitUpload ==
  ASSUME ContentInv, TypeInv', NEW l \in Locks, LiveLock(l), NEW n \in Ops, CommitUpload(n)
  PROVE  KeptByOthers(l)
  <1>0. TypeInv /\ OpInv(n)
    BY DEF ContentInv
  <1>1. /\ Preparing(n, "upload") /\ \A k \in ops[n].locks : LiveLock(k)
        /\ ops' = [ops EXCEPT ![n] = Settle(ops[n], "COMMITTED")] /\ seq.root < MaxRoots
    BY DEF CommitUpload, UploadOperation, Preparing, Valid
  <1>2. PICK f \in Files : f = ops[n].file
    BY <1>0, <1>1, Fields DEF Preparing
  <1>3. CASE locks[l].file = f
    <2>1. PICK k \in Locks : /\ LiveLock(k) /\ locks[k].whole /\ locks[k].file = f
                             /\ locks[k].owner = OpOwner(n)
      BY <1>0, <1>1, <1>2, Fields DEF OpInv, UploadCovered
    <2>2. locks[l].owner = OpOwner(n)
      BY <1>3, <2>1, Disjoint
    <2>3. OpOwner(n).kind = "op" /\ OpOwner(n).id = n
      BY DEF OpOwner
    <2>4. ops[n].state # "COMMITTED" /\ ops'[n].state = "COMMITTED"
      BY <1>0, <1>1, TypeParts DEF Preparing, Settle, Op
    <2> QED BY <2>2, <2>3, <2>4 DEF KeptByOthers
  <1>4. CASE locks[l].file # f
    <2>1. PICK new : Publish(f, seq.root + 1, new)
      BY <1>2 DEF CommitUpload
    <2>2. PICK v \in Roots : v = seq.root + 1
      BY <1>0, <1>1, TypeParts, NextIdentifier
    <2>3. FileStays(locks[l].file)
      BY <1>4, <2>1, <2>2, LockedFile, Published
    <2> QED BY <2>3, StableFile
  <1> QED BY <1>3, <1>4

\* A write changes what its locks cover, and those are its handle's.
LEMMA StableCommitWrite ==
  ASSUME ContentInv, TypeInv', NEW l \in Locks, LiveLock(l), NEW n \in Ops, CommitWrite(n)
  PROVE  KeptByOthers(l)
  <1>0. TypeInv /\ OpInv(n) /\ WriteOperation(n)
    BY DEF ContentInv, CommitWrite
  <1>f. PICK f \in Files, x \in Handles : f = ops[n].file /\ x = ops[n].handle
    BY <1>0, CommitFinds
  <1>1. PICK c : f = ops[n].file /\ x = ops[n].handle /\ c = Current(f)
    BY <1>f
  <1>2. /\ Preparing(n, "write") /\ Usable(x) /\ ~handles[x].closed /\ handles[x].file = f
        /\ files[f].alive /\ files[f].snapshot \in Roots
    BY <1>0, <1>1, CommitFinds DEF Usable
  <1> DEFINE new == [epoch |-> ops[n].epoch, version |-> c.version + 1,
                     size |-> Maximum(c.size, ops[n].total),
                     blocks |-> [i \in Indices |-> IF i \in ops[n].touched THEN n ELSE c.blocks[i]]]
  <1>3. /\ ops[n].growing => c.size = ops[n].base_size
        /\ seq.root < MaxRoots /\ Publish(f, seq.root + 1, new)
        /\ handles' = [ReleasedHandles({n}) EXCEPT ![x].snapshot = seq.root + 1,
                                                   ![x].revision = ReleasedHandles({n})[x].revision + 1]
    BY <1>1 DEF CommitWrite, Latest
  <1>4. PICK v \in Roots : v = seq.root + 1
    BY <1>0, <1>3, TypeParts, NextIdentifier
  <1>5. PICK s : s = new
    OBVIOUS
  <1>6. /\ s.size = Maximum(c.size, ops[n].total)
        /\ \A i \in Indices : s.blocks[i] = IF i \in ops[n].touched THEN n ELSE c.blocks[i]
    BY <1>5
  <1> HIDE DEF new
  <1>7. /\ files'[f].alive /\ files'[f].snapshot = v /\ snapshots'[v] = s
        /\ \A g \in Files : g # f => FileStays(g)
        /\ handles[x].snapshot # v
    BY <1>2, <1>3, <1>4, <1>5, Published
  <1>8. CASE locks[l].file # f
    BY <1>7, <1>8, LockedFile, StableFile
  <1>9. CASE locks[l].file = f /\ locks[l].owner = HandleOwner(x)
    <2>1. ReleasedHandles({n}) \in [Handles -> Handle]
      BY <1>0, ReleasedType DEF TypeInv
    <2>2. handles'[x].snapshot = v
      BY <1>3, <1>4, <2>1 DEF Handle
    <2>3. HandleOwner(x).kind = "handle" /\ HandleOwner(x).id = x
      BY DEF HandleOwner
    <2> QED BY <1>7, <1>9, <2>2, <2>3 DEF KeptByOthers
  <1>10. CASE locks[l].file = f /\ locks[l].owner # HandleOwner(x)
    <2>1. \A k \in ops[n].locks : k \in Locks /\ LiveLock(k) /\ locks[k].owner = HandleOwner(x)
      BY <1>0, <1>1, <1>2, Fields DEF WriteOperation, Valid, OpInv, OwnsHandle
    <2>2. \A k \in ops[n].locks : locks[k].file = f
      <3>1. HandleOwner(x).kind = "handle" /\ HandleOwner(x).id = x
        BY DEF HandleOwner
      <3>2. \A k \in ops[n].locks : LockOwned(k)
        BY <2>1 DEF ContentInv, LockInv
      <3> QED BY <1>2, <2>1, <3>1, <3>2 DEF LockOwned
    <2>3. ASSUME NEW k \in ops[n].locks
          PROVE  /\ ~locks[l].whole /\ ~locks[k].whole /\ ~(locks[l].size /\ locks[k].size)
                 /\ \A i \in locks[l].indices : i \notin locks[k].indices
      BY <1>10, <2>1, <2>2, Disjoint
    <2>4. /\ \A i \in ops[n].touched : \E k \in ops[n].locks : locks[k].whole \/ i \in locks[k].indices
          /\ ops[n].growing => \E k \in ops[n].locks : locks[k].size
      BY <1>0, <1>2, <2>1 DEF OpInv, WriteCovered
    <2>5. ~locks[l].whole
      <3>1. ops[n].touched # {}
        BY <1>0, <1>2 DEF OpInv, WriteShaped
      <3> QED BY <2>3, <2>4, <3>1
    <2>6. \A i \in locks[l].indices : i \in Indices /\ i \notin ops[n].touched
      BY <1>0, <2>3, <2>4, Fields
    <2>7. locks[l].size => s.size = c.size
      <3>1. locks[l].size => ~ops[n].growing
        BY <2>3, <2>4
      <3>2. c = Current(ops[n].file) /\ s.size = Maximum(Current(ops[n].file).size, ops[n].total)
        BY <1>1, <1>6
      <3>3. ops[n].growing => Current(ops[n].file).size = ops[n].base_size
        BY <1>3, <3>2
      <3>4. PICK size : size = s.size
        OBVIOUS
      <3>5. ~ops[n].growing => size = Current(ops[n].file).size
        BY <1>0, <3>2, <3>3, <3>4, MergedSize
      <3> QED BY <3>1, <3>2, <3>4, <3>5
    <2>8. \A i \in locks[l].indices : s.blocks[i] = c.blocks[i]
      BY <1>6, <2>6
    <2>9. c = snapshots[files[f].snapshot]
      BY <1>1 DEF Current
    <2>10. files'[f].alive = files[f].alive
      <3>1. files[f].alive \in BOOLEAN /\ files'[f].alive \in BOOLEAN
        BY <1>0, Fields DEF TypeInv, TypeOK
      <3> QED BY <1>2, <1>7, <3>1
    <2> QED BY <1>7, <1>10, <2>5, <2>7, <2>8, <2>9, <2>10 DEF KeptByOthers, SameUnderLock, Current
  <1> QED BY <1>8, <1>9, <1>10

\* Every handler respects the locks of the others.
LEMMA StableStep ==
  ASSUME ContentInv, TypeInv', [Next]_vars, NEW l \in Locks, LiveLock(l)
  PROVE  KeptByOthers(l)
  <1>0. TypeInv
    BY DEF ContentInv
  <1>1. CASE CalmNext
    BY <1>0, <1>1, CalmSteps, LockedFile, StableFile DEF ContentShrinks
  <1>2. CASE RecordNext
    <2>1. UNCHANGED <<files, snapshots>>
      <3>1. ASSUME NEW h, NEW a, NEW b, BeginWrite(h, a, b) \/ LockRange(h, a, b)
            PROVE  UNCHANGED <<files, snapshots>>
        BY <3>1 DEF BeginWrite, LockRange, AcquireLock
      <3>2. ASSUME NEW h, LockWhole(h) \/ BeginEmptyWrite(h) PROVE UNCHANGED <<files, snapshots>>
        BY <3>2 DEF LockWhole, AcquireLock, BeginEmptyWrite
      <3>3. ASSUME NEW f, NEW total, UploadExisting(f, total) \/ UploadNew(total)
            PROVE  UNCHANGED <<files, snapshots>>
        BY <3>3 DEF UploadExisting, UploadNew, BeginUpload
      <3>4. ASSUME NEW f, NEW mode, OpenExisting(f, mode) PROVE UNCHANGED <<files, snapshots>>
        BY <3>4 DEF OpenExisting
      <3> QED BY <1>2, <3>1, <3>2, <3>3, <3>4 DEF RecordNext
    <2> QED BY <2>1, RecordsStay, LockedFile, StableFile DEF ContentShrinks
  <1>3. CASE PublishNext
    BY <1>3, StableTruncate, StableCreate, StableCommitUpload, StableCommitWrite DEF PublishNext
  <1> QED BY <1>1, <1>2, <1>3, NextParts

\* While a lock is live, what it covers is published only by its owner, or removed.
THEOREM Locked == Spec => LockedContentStable
  <1> DEFINE Stable == \A l \in Locks : LiveLock(l) => KeptByOthers(l)
  <1>1. ContentInv /\ [Next]_vars => Stable
    BY TypeStep, StableStep DEF ContentInv
  <1>2. Spec => [][Stable]_vars
    BY <1>1, ContentCorrect, PTL DEF Spec
  <1> QED BY <1>2 DEF Stable, KeptByOthers, LockedContentStable

=============================================================================
