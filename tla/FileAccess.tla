----------------------------- MODULE FileAccess -----------------------------
(***************************************************************************)
(* The RF3 access authority: handles, range locks, copy-on-write writes,    *)
(* full uploads, truncating opens, removal, garbage collection of           *)
(* snapshots and restart of the control process, for one path.              *)
(*                                                                          *)
(* Every handler of control/access.py runs inside one write transaction     *)
(* (SQLite BEGIN IMMEDIATE, or the etcd gate, see MetadataGate), so it is   *)
(* one action; a refused request rolls back and changes nothing, so its     *)
(* refusal is the negation of the action's guard.  What interleaves is the  *)
(* sequence of handlers one write or upload needs, with the leases that     *)
(* expire in between.                                                       *)
(*                                                                          *)
(* Identifiers (uid() in the code) are drawn from counters.  A lock is      *)
(* named by its fencing generation, which the code draws from the same kind *)
(* of counter.  A block version is named by the operation that wrote it     *)
(* (its index is its position), 0 being "no block".                         *)
(***************************************************************************)
EXTENDS Integers, FiniteSets

CONSTANTS
  MaxHandles, MaxLocks, MaxOps, MaxRoots, MaxFiles, MaxReads, \* bounds on identifiers
  MaxBlocks, BlockSize,          \* the longest file, in blocks, and their size
  Ranges,                        \* the <<offset, length>> pairs clients lock or write
  UploadSizes,                   \* the sizes of the files clients upload
  Preload,                       \* size of the file the run starts with (0: no file)
  Faults,                        \* which of "reboot", "restart", "remove" happen
  Modes,                         \* the open modes clients use
  LockTTL, HandleTTL, HandleMax, \* lock_lease, handle_lease, handle maximum (ticks)
  UploadTTL, UploadMax           \* upload lease and its maximum (ticks)

ReadModes == {"R", "R+", "W+", "X+"}
WriteModes == {"R+", "W", "W+", "X", "X+"}
CreateModes == {"W", "W+", "X", "X+"}

ASSUME BoundsAssumption ==
  /\ MaxHandles \in Nat /\ MaxLocks \in Nat /\ MaxOps \in Nat
  /\ MaxRoots \in Nat /\ MaxFiles \in Nat /\ MaxReads \in Nat
  /\ MaxBlocks \in Nat \ {0} /\ BlockSize \in Nat \ {0}
  /\ Modes \subseteq ReadModes \cup WriteModes
  /\ \A range \in Ranges : range \in Nat \X (Nat \ {0}) /\ range[1] + range[2] <= MaxBlocks * BlockSize
  /\ UploadSizes \subseteq 0..(MaxBlocks * BlockSize)
  /\ Preload \in 0..(MaxBlocks * BlockSize)
  /\ Preload > 0 => MaxFiles > 0 /\ MaxRoots > 0 /\ MaxLocks > 0 /\ MaxOps > 0

ASSUME LeaseAssumption ==
  /\ LockTTL \in Nat \ {0} /\ HandleTTL \in Nat \ {0} /\ UploadTTL \in Nat \ {0}
  /\ HandleMax \in Nat \ {0} /\ UploadMax \in Nat \ {0}

Handles == 1..MaxHandles
Locks   == 1..MaxLocks
Ops     == 1..MaxOps
Roots   == 1..MaxRoots
Files   == 1..MaxFiles
Reads   == 1..MaxReads
Indices == 0..(MaxBlocks - 1)
MaxSize == MaxBlocks * BlockSize       \* max_file_bytes

VARIABLES
  files,     \* node records: alive, and the published snapshot (0: not created yet)
  snapshots, \* snapshot records by manifest root
  handles, locks, ops, reads,
  seq        \* last identifier drawn, per kind of record

vars == <<files, snapshots, handles, locks, ops, reads, seq>>

-----------------------------------------------------------------------------
(* Records.                                                                 *)

Minimum(a, b) == IF a < b THEN a ELSE b
Maximum(a, b) == IF a < b THEN b ELSE a

NoBlocks == [i \in Indices |-> 0]

\* A snapshot: content epoch, file version, size in bytes, manifest.
Snapshot == [epoch : Nat, version : Nat, size : 0..MaxSize, blocks : [Indices -> 0..MaxOps]]
NoSnapshot == [epoch |-> 0, version |-> 0, size |-> 0, blocks |-> NoBlocks]

Owner == [kind : {"none", "handle", "op", "open"}, id : Nat]
NoOne == [kind |-> "none", id |-> 0]
HandleOwner(h) == [kind |-> "handle", id |-> h]
OpOwner(o) == [kind |-> "op", id |-> o]
OpenOwner == [kind |-> "open", id |-> 0]

Busy == [kind : {"idle", "write", "read"}, id : Nat]
Idle == [kind |-> "idle", id |-> 0]
Writing(o) == [kind |-> "write", id |-> o]
Reading(r) == [kind |-> "read", id |-> r]

Lock == [file : 0..MaxFiles, owner : Owner, indices : SUBSET Indices, whole : BOOLEAN,
         size : BOOLEAN, automatic : BOOLEAN, active : SUBSET Ops, ttl : Nat]
NoLock == [file |-> 0, owner |-> NoOne, indices |-> {}, whole |-> FALSE,
           size |-> FALSE, automatic |-> FALSE, active |-> {}, ttl |-> 0]

Handle == [file : 0..MaxFiles, snapshot : 0..MaxRoots, mode : Modes \cup {"none"},
           closed : BOOLEAN, revision : Nat, busy : Busy, ttl : Nat, max : Nat]
NoHandle == [file |-> 0, snapshot |-> 0, mode |-> "none", closed |-> TRUE,
             revision |-> 0, busy |-> Idle, ttl |-> 0, max |-> 0]

States == {"NONE", "PREPARING", "COMMITTED", "ABORTED", "EXPIRED"}

\* An operation: kind "write" (BeginWrite) or "upload" (BeginUpload).  touched is
\* the set of indices it replaces and base the versions it patches; stored holds
\* the indices whose durable receipt arrived.
Op == [kind : {"none", "write", "upload"}, state : States, file : 0..MaxFiles,
       handle : 0..MaxHandles, revision : Nat, root : 0..MaxRoots, epoch : Nat,
       growing : BOOLEAN, base_size : 0..MaxSize, total : 0..MaxSize,
       touched : SUBSET Indices, base : [Indices -> 0..MaxOps], locks : SUBSET Locks,
       stored : SUBSET Indices, sealed : BOOLEAN, expires : Nat, max : Nat]
NoOp == [kind |-> "none", state |-> "NONE", file |-> 0, handle |-> 0, revision |-> 0,
         root |-> 0, epoch |-> 0, growing |-> FALSE, base_size |-> 0, total |-> 0,
         touched |-> {}, base |-> NoBlocks, locks |-> {}, stored |-> {},
         sealed |-> FALSE, expires |-> 0, max |-> 0]

Read == [handle : 0..MaxHandles, closed : BOOLEAN]

TypeOK ==
  /\ files \in [Files -> [alive : BOOLEAN, snapshot : 0..MaxRoots]]
  /\ snapshots \in [Roots -> Snapshot]
  /\ handles \in [Handles -> Handle]
  /\ locks \in [Locks -> Lock]
  /\ ops \in [Ops -> Op]
  /\ reads \in [Reads -> Read]
  /\ seq \in [file : 0..MaxFiles, root : 0..MaxRoots, handle : 0..MaxHandles,
              lock : 0..MaxLocks, op : 0..MaxOps, read : 0..MaxReads]

\* The block indices a byte range covers: offset // size .. (end - 1) // size.
Covered(offset, length) ==
  {i \in Indices : i * BlockSize < offset + length /\ offset < (i + 1) * BlockSize}

\* A control serving its first request: no file at all, or one file of Preload bytes
\* that an earlier upload committed.
Init ==
  LET one == IF Preload = 0 THEN 0 ELSE 1
      loaded == Covered(0, Preload)
  IN  /\ files = [f \in Files |-> IF f = one THEN [alive |-> TRUE, snapshot |-> 1]
                                  ELSE [alive |-> FALSE, snapshot |-> 0]]
      /\ snapshots = [r \in Roots |-> IF r = one
           THEN [epoch |-> 1, version |-> 1, size |-> Preload,
                 blocks |-> [i \in Indices |-> IF i \in loaded THEN 1 ELSE 0]]
           ELSE NoSnapshot]
      /\ handles = [h \in Handles |-> NoHandle]
      /\ locks = [l \in Locks |-> NoLock]
      /\ ops = [o \in Ops |-> IF o = one
           THEN [NoOp EXCEPT !.kind = "upload", !.state = "COMMITTED", !.file = 1, !.epoch = 1,
                             !.total = Preload, !.touched = loaded, !.locks = {1}, !.sealed = TRUE]
           ELSE NoOp]
      /\ reads = [r \in Reads |-> [handle |-> 0, closed |-> TRUE]]
      /\ seq = [file |-> one, root |-> one, handle |-> 0, lock |-> one, op |-> one, read |-> 0]

-----------------------------------------------------------------------------
(* Guards and helpers shared by the handlers.                               *)

\* live(): the lease has not run out.  The restart of the process deletes every
\* lock and closes every handle of earlier control epochs (ControlRestart).
LiveLock(l) == locks[l].ttl > 0
LiveHandle(h) == handles[h].ttl > 0

Exists(r) == r # 0 /\ snapshots[r].version > 0
Current(f) == snapshots[files[f].snapshot]

\* handle(): open, live, and its snapshot is still stored.
HandleOk(h) == ~handles[h].closed /\ LiveHandle(h) /\ Exists(handles[h].snapshot)

\* Mutant: writable() does not look at the content epoch.
WritableAnyEpoch(h) ==
  HandleOk(h) /\ handles[h].mode \in WriteModes /\ files[handles[h].file].alive

\* writable(): a write mode on a file that still exists, in the content epoch the
\* handle was opened in.
Writable(h) ==
  /\ HandleOk(h)
  /\ handles[h].mode \in WriteModes
  /\ files[handles[h].file].alive
  /\ Current(handles[h].file).epoch = snapshots[handles[h].snapshot].epoch

\* acquire(): a live lock of another owner on the same file stands in the way.
Conflicts(l, file, owner, indices, whole, size) ==
  /\ LiveLock(l)
  /\ locks[l].file = file
  /\ locks[l].owner # owner
  /\ \/ whole \/ locks[l].whole
     \/ size /\ locks[l].size
     \/ indices \cap locks[l].indices # {}

\* Mutant: acquire() compares block indices only.
CanAcquireIndices(file, owner, indices, whole, size) ==
  /\ seq.lock < MaxLocks
  /\ \A l \in Locks : ~(/\ LiveLock(l) /\ locks[l].file = file /\ locks[l].owner # owner
                        /\ indices \cap locks[l].indices # {})

CanAcquire(file, owner, indices, whole, size) ==
  /\ seq.lock < MaxLocks
  /\ \A l \in Locks : ~Conflicts(l, file, owner, indices, whole, size)

NewLock(file, owner, indices, whole, size, automatic, active, ttl) ==
  [file |-> file, owner |-> owner, indices |-> indices, whole |-> whole, size |-> size,
   automatic |-> automatic, active |-> active, ttl |-> ttl]

\* Mutant: validate() finds the lock and does not ask whether it expired.
ValidAtAnyAge(l) == locks[l].owner # NoOne

\* validate(): the fence still names a live lock (identifier, generation and
\* contents are one thing here, see the head of the module).
Valid(l) == LiveLock(l)

\* release_operation() of every operation in S: automatic locks go, explicit ones
\* only lose the operation, the handle is no longer busy with it.
ReleasedLocks(S) ==
  [l \in Locks |->
     LET done == {o \in S \cap locks[l].active : l \in ops[o].locks}
     IN  IF done = {} THEN locks[l]
         ELSE IF locks[l].automatic THEN NoLock
         ELSE [locks[l] EXCEPT !.active = @ \ done]]

ReleasedHandles(S) ==
  [h \in Handles |->
     IF handles[h].busy.kind = "write" /\ handles[h].busy.id \in S
     THEN [handles[h] EXCEPT !.busy = Idle] ELSE handles[h]]

\* An operation that is no longer being prepared; nothing reads its expiry again.
Settle(op, state) == [op EXCEPT !.state = state, !.expires = 0, !.max = 0]

\* A closed handle; nothing reads its lease again.
Shut(handle) == [handle EXCEPT !.closed = TRUE, !.ttl = 0, !.max = 0]

\* reserved(): some operation on this path is being prepared and not past its
\* wall-clock expiry.
Reserved == \E o \in Ops : ops[o].state = "PREPARING" /\ ops[o].expires > 0

\* The path names nothing.
NameFree == \A g \in Files : ~files[g].alive

Publish(f, root, snapshot) ==
  /\ snapshots' = [snapshots EXCEPT ![root] = snapshot]
  /\ files' = [files EXCEPT ![f] = [alive |-> TRUE, snapshot |-> root]]

-----------------------------------------------------------------------------
(* Handles.                                                                 *)

NewHandle(f, root, mode) ==
  [file |-> f, snapshot |-> root, mode |-> mode, closed |-> FALSE, revision |-> 1,
   busy |-> Idle, ttl |-> Minimum(HandleTTL, HandleMax), max |-> HandleMax]

\* Open in mode r or r+.
OpenExisting(f, mode) ==
  /\ mode \in Modes \ CreateModes
  /\ files[f].alive
  /\ seq.handle < MaxHandles
  /\ handles' = [handles EXCEPT ![seq.handle + 1] = NewHandle(f, files[f].snapshot, mode)]
  /\ seq' = [seq EXCEPT !.handle = @ + 1]
  /\ UNCHANGED <<files, snapshots, locks, ops, reads>>

\* Open in mode w or w+ of an existing file: the truncation takes a whole-file lock
\* under an owner of its own and deletes it in the same transaction.
OpenTruncate(f, mode) ==
  LET root == seq.root + 1
      old  == Current(f)
  IN  /\ mode \in Modes \cap {"W", "W+"}
      /\ files[f].alive
      /\ ~Reserved
      /\ CanAcquire(f, OpenOwner, {}, TRUE, TRUE)
      /\ seq.handle < MaxHandles /\ seq.root < MaxRoots
      /\ Publish(f, root, [epoch |-> old.epoch + 1, version |-> old.version + 1,
                           size |-> 0, blocks |-> NoBlocks])
      /\ handles' = [handles EXCEPT ![seq.handle + 1] = NewHandle(f, root, mode)]
      /\ seq' = [seq EXCEPT !.handle = @ + 1, !.root = root, !.lock = @ + 1]
      /\ UNCHANGED <<locks, ops, reads>>

\* Open in a creating mode when the path names nothing.
OpenCreate(mode) ==
  LET f    == seq.file + 1
      root == seq.root + 1
  IN  /\ mode \in Modes \cap CreateModes
      /\ NameFree
      /\ ~Reserved
      /\ seq.file < MaxFiles /\ seq.root < MaxRoots /\ seq.handle < MaxHandles
      /\ Publish(f, root, [epoch |-> 1, version |-> 1, size |-> 0, blocks |-> NoBlocks])
      /\ handles' = [handles EXCEPT ![seq.handle + 1] = NewHandle(f, root, mode)]
      /\ seq' = [seq EXCEPT !.file = f, !.root = root, !.handle = @ + 1]
      /\ UNCHANGED <<locks, ops, reads>>

\* RenewHandle also extends the wall-clock expiry of the write the handle is in.
RenewHandle(h) ==
  LET ttl == Minimum(HandleTTL, handles[h].max)
      o   == handles[h].busy.id
  IN  /\ HandleOk(h)
      /\ handles' = [handles EXCEPT ![h].ttl = ttl]
      /\ ops' = IF handles[h].busy.kind = "write" /\ ops[o].state = "PREPARING"
                THEN [ops EXCEPT ![o].expires = ttl] ELSE ops
      /\ UNCHANGED <<files, snapshots, locks, reads, seq>>

\* Mutant: Close does not look whether the handle is busy.
CloseBusy(h) ==
  /\ ~handles[h].closed
  /\ handles' = [handles EXCEPT ![h] =
                  [Shut(handles[h]) EXCEPT !.revision = handles[h].revision + 1]]
  /\ locks' = [l \in Locks |-> IF locks[l].owner = HandleOwner(h) THEN NoLock ELSE locks[l]]
  /\ UNCHANGED <<files, snapshots, ops, reads, seq>>

\* Close does not ask for a live lease; it deletes the locks of the handle.
Close(h) ==
  /\ ~handles[h].closed
  /\ handles[h].busy = Idle
  /\ handles' = [handles EXCEPT ![h] =
                  [Shut(handles[h]) EXCEPT !.revision = handles[h].revision + 1]]
  /\ locks' = [l \in Locks |-> IF locks[l].owner = HandleOwner(h) THEN NoLock ELSE locks[l]]
  /\ UNCHANGED <<files, snapshots, ops, reads, seq>>

BeginRead(h) ==
  LET r == seq.read + 1
  IN  /\ HandleOk(h)
      /\ handles[h].mode \in ReadModes
      /\ handles[h].busy = Idle
      /\ seq.read < MaxReads
      /\ reads' = [reads EXCEPT ![r] = [handle |-> h, closed |-> FALSE]]
      /\ handles' = [handles EXCEPT ![h].busy = Reading(r)]
      /\ seq' = [seq EXCEPT !.read = r]
      /\ UNCHANGED <<files, snapshots, locks, ops>>

\* EndRead may be repeated or arrive late: only the read the handle is in is ended.
EndRead(r) ==
  LET h == reads[r].handle
  IN  /\ h # 0
      /\ reads' = [reads EXCEPT ![r].closed = TRUE]
      /\ handles' = IF handles[h].busy = Reading(r)
                    THEN [handles EXCEPT ![h].busy = Idle] ELSE handles
      /\ UNCHANGED <<files, snapshots, locks, ops, seq>>

-----------------------------------------------------------------------------
(* Explicit locks.                                                          *)

AcquireLock(h, indices, whole) ==
  LET l == seq.lock + 1
      f == handles[h].file
  IN  /\ Writable(h)
      /\ handles[h].busy = Idle
      /\ CanAcquire(f, HandleOwner(h), indices, whole, whole)
      /\ locks' = [locks EXCEPT ![l] =
                     NewLock(f, HandleOwner(h), indices, whole, whole, FALSE, {}, LockTTL)]
      /\ seq' = [seq EXCEPT !.lock = l]
      /\ UNCHANGED <<files, snapshots, handles, ops, reads>>

LockWhole(h) == AcquireLock(h, {}, TRUE)
LockRange(h, offset, length) == AcquireLock(h, Covered(offset, length), FALSE)

RenewLock(l) ==
  /\ locks[l].owner.kind = "handle"
  /\ Writable(locks[l].owner.id)
  /\ Valid(l)
  /\ locks' = [locks EXCEPT ![l].ttl = LockTTL]
  /\ UNCHANGED <<files, snapshots, handles, ops, reads, seq>>

Unlock(l) ==
  /\ Valid(l)
  /\ locks[l].active = {}
  /\ locks' = [locks EXCEPT ![l] = NoLock]
  /\ UNCHANGED <<files, snapshots, handles, ops, reads, seq>>

-----------------------------------------------------------------------------
(* Copy-on-write writes.                                                    *)

\* The live explicit locks of the handle, whether or not the client sent them.
OwnLocks(h) ==
  {l \in Locks : LiveLock(l) /\ locks[l].owner = HandleOwner(h) /\ ~locks[l].automatic}

BeginWrite(h, offset, length) ==
  LET o        == seq.op + 1
      l        == seq.lock + 1
      f        == handles[h].file
      base     == snapshots[handles[h].snapshot]
      touched  == Covered(offset, length)
      growing  == offset + length > base.size
      own      == OwnLocks(h)
      missing  == {i \in touched : \A k \in own : ~locks[k].whole /\ i \notin locks[k].indices}
      needSize == growing /\ \A k \in own : ~locks[k].size
      extra    == IF missing # {} \/ needSize THEN {l} ELSE {}
  IN  /\ Writable(h)
      /\ handles[h].busy = Idle
      /\ length > 0
      /\ offset <= base.size
      /\ offset + length <= MaxSize
      /\ growing => Current(f).size = base.size
      /\ \A i \in touched : base.blocks[i] = Current(f).blocks[i]
      /\ seq.op < MaxOps
      /\ extra # {} => CanAcquire(f, HandleOwner(h), missing, FALSE, needSize)
      /\ ops' = [ops EXCEPT ![o] =
           [kind |-> "write", state |-> "PREPARING", file |-> f, handle |-> h,
            revision |-> handles[h].revision, root |-> handles[h].snapshot,
            epoch |-> base.epoch, growing |-> growing, base_size |-> base.size,
            total |-> Maximum(base.size, offset + length), touched |-> touched,
            base |-> [i \in Indices |-> IF i \in touched THEN base.blocks[i] ELSE 0],
            locks |-> own \cup extra, stored |-> {}, sealed |-> FALSE,
            expires |-> handles[h].ttl, max |-> 0]]
      /\ locks' = [k \in Locks |->
           IF k \in extra
           THEN NewLock(f, HandleOwner(h), missing, FALSE, needSize, TRUE, {o}, LockTTL)
           ELSE IF k \in own THEN [locks[k] EXCEPT !.active = @ \cup {o}] ELSE locks[k]]
      /\ handles' = [handles EXCEPT ![h].busy = Writing(o)]
      /\ seq' = [seq EXCEPT !.op = o, !.lock = IF extra = {} THEN @ ELSE l]
      /\ UNCHANGED <<files, snapshots, reads>>

\* A write of no bytes is committed at once: it publishes nothing and its locks
\* are released in the same transaction.
BeginEmptyWrite(h) ==
  LET o == seq.op + 1
      base == snapshots[handles[h].snapshot]
  IN  /\ Writable(h)
      /\ handles[h].busy = Idle
      /\ seq.op < MaxOps
      /\ ops' = [ops EXCEPT ![o] =
           [NoOp EXCEPT !.kind = "write", !.state = "COMMITTED", !.file = handles[h].file,
                        !.handle = h, !.revision = handles[h].revision,
                        !.root = handles[h].snapshot, !.epoch = base.epoch,
                        !.base_size = base.size, !.total = base.size,
                        !.locks = OwnLocks(h)]]
      /\ seq' = [seq EXCEPT !.op = o]
      /\ UNCHANGED <<files, snapshots, handles, locks, reads>>

\* write_operation(): what PatchBlock's authorization, its receipt and CommitWrite
\* all check again.
WriteOperation(o) ==
  LET h == ops[o].handle
  IN  /\ ops[o].kind = "write"
      /\ ops[o].state = "PREPARING"
      /\ Writable(h)
      /\ handles[h].busy = Writing(o)
      /\ handles[h].revision = ops[o].revision
      /\ \A l \in ops[o].locks : Valid(l)

\* report_patch: the DataNode's durable receipt for one replaced block.
ReportPatch(o, i) ==
  /\ WriteOperation(o)
  /\ i \in ops[o].touched
  /\ ops' = [ops EXCEPT ![o].stored = @ \cup {i}]
  /\ UNCHANGED <<files, snapshots, handles, locks, reads, seq>>

\* Mutant: the commit is merged with the snapshot the write started from.
LatestKnown(o) == snapshots[ops[o].root]

\* The published snapshot a commit is compared and merged with.
Latest(o) == Current(ops[o].file)

CommitWrite(o) ==
  LET h    == ops[o].handle
      f    == ops[o].file
      cur  == Latest(o)
      root == seq.root + 1
  IN  /\ WriteOperation(o)
      /\ ops[o].stored = ops[o].touched
      /\ \A i \in ops[o].touched : cur.blocks[i] = ops[o].base[i]
      /\ ops[o].growing => cur.size = ops[o].base_size
      /\ seq.root < MaxRoots
      /\ Publish(f, root,
           [epoch |-> ops[o].epoch, version |-> cur.version + 1,
            size |-> Maximum(cur.size, ops[o].total),
            blocks |-> [i \in Indices |-> IF i \in ops[o].touched THEN o ELSE cur.blocks[i]]])
      /\ handles' = [ReleasedHandles({o}) EXCEPT ![h].snapshot = root, ![h].revision = @ + 1]
      /\ locks' = ReleasedLocks({o})
      /\ ops' = [ops EXCEPT ![o] = Settle(@, "COMMITTED")]
      /\ seq' = [seq EXCEPT !.root = root]
      /\ UNCHANGED reads

\* AbortWrite and AbortUpload: whatever is not committed can be aborted, at any time
\* and more than once.
Abort(o) ==
  /\ ops[o].state \notin {"NONE", "COMMITTED"}
  /\ ops' = [ops EXCEPT ![o] = Settle(@, "ABORTED")]
  /\ locks' = ReleasedLocks({o})
  /\ handles' = ReleasedHandles({o})
  /\ UNCHANGED <<files, snapshots, reads, seq>>

-----------------------------------------------------------------------------
(* Full uploads.  Allocating, storing and staging the blocks of the new     *)
(* content is the subject of BlockGC; here SealManifest stands for the last *)
(* of these steps.                                                          *)

BeginUpload(f, base, total) ==
  LET o == seq.op + 1
      l == seq.lock + 1
  IN  /\ ~Reserved
      /\ CanAcquire(f, OpOwner(o), {}, TRUE, TRUE)
      /\ seq.op < MaxOps
      /\ ops' = [ops EXCEPT ![o] =
           [NoOp EXCEPT !.kind = "upload", !.state = "PREPARING", !.file = f, !.root = base,
                        !.epoch = IF base = 0 THEN 1 ELSE snapshots[base].epoch + 1,
                        !.total = total, !.touched = Covered(0, total), !.locks = {l},
                        !.expires = UploadTTL, !.max = UploadMax]]
      /\ locks' = [locks EXCEPT ![l] =
                     NewLock(f, OpOwner(o), {}, TRUE, TRUE, TRUE, {o}, UploadTTL)]
      /\ UNCHANGED <<files, snapshots, handles, reads>>

\* Overwrite of the file the path names.
UploadExisting(f, total) ==
  /\ files[f].alive
  /\ BeginUpload(f, files[f].snapshot, total)
  /\ seq' = [seq EXCEPT !.op = @ + 1, !.lock = @ + 1]

\* Upload of a name that does not exist: the identifier of the file is fresh.
UploadNew(total) ==
  /\ NameFree
  /\ seq.file < MaxFiles
  /\ BeginUpload(seq.file + 1, 0, total)
  /\ seq' = [seq EXCEPT !.file = @ + 1, !.op = @ + 1, !.lock = @ + 1]

\* operation(): the guard of every handler of an upload.
UploadOperation(o) ==
  /\ ops[o].kind = "upload"
  /\ ops[o].state = "PREPARING"
  /\ ops[o].expires > 0
  /\ ops[o].root # 0 => files[ops[o].file].alive /\ files[ops[o].file].snapshot = ops[o].root
  /\ \A l \in ops[o].locks : Valid(l)

RenewUpload(o) ==
  LET ttl == Minimum(UploadTTL, ops[o].max)
  IN  /\ UploadOperation(o)
      /\ ops' = [ops EXCEPT ![o].expires = ttl]
      /\ locks' = [l \in Locks |->
                     IF l \in ops[o].locks THEN [locks[l] EXCEPT !.ttl = ttl] ELSE locks[l]]
      /\ UNCHANGED <<files, snapshots, handles, reads, seq>>

SealManifest(o) ==
  /\ UploadOperation(o)
  /\ ops' = [ops EXCEPT ![o].sealed = TRUE]
  /\ UNCHANGED <<files, snapshots, handles, locks, reads, seq>>

CommitUpload(o) ==
  LET f    == ops[o].file
      root == seq.root + 1
  IN  /\ UploadOperation(o)
      /\ ops[o].sealed
      /\ ops[o].root = 0 => NameFree
      /\ seq.root < MaxRoots
      /\ Publish(f, root,
           [epoch |-> ops[o].epoch,
            version |-> IF ops[o].root = 0 THEN 1 ELSE snapshots[ops[o].root].version + 1,
            size |-> ops[o].total,
            blocks |-> [i \in Indices |-> IF i \in ops[o].touched THEN o ELSE 0]])
      /\ locks' = ReleasedLocks({o})
      /\ handles' = ReleasedHandles({o})
      /\ ops' = [ops EXCEPT ![o] = Settle(@, "COMMITTED")]
      /\ seq' = [seq EXCEPT !.root = root]
      /\ UNCHANGED reads

-----------------------------------------------------------------------------
(* Removal, failures and maintenance.                                       *)

\* Mutant: aborted operations are taken to have released what they held.
SettledExpired(state) == {o \in Ops : state[o].state \in {"COMMITTED", "EXPIRED"}}

\* The operations with an outcome, whose locks and handles are to be released.
Settled(state) == {o \in Ops : state[o].state \notin {"NONE", "PREPARING"}}

\* Remove asks for no lock: it aborts what is being prepared on the file and then
\* releases every operation that is not being prepared.
Remove(f) ==
  LET doomed == {o \in Ops : ops[o].file = f /\ ops[o].state = "PREPARING"}
      after  == [o \in Ops |-> IF o \in doomed THEN Settle(ops[o], "ABORTED") ELSE ops[o]]
  IN  /\ "remove" \in Faults
      /\ files[f].alive
      /\ files' = [files EXCEPT ![f].alive = FALSE]
      /\ ops' = after
      /\ locks' = ReleasedLocks(Settled(after))
      /\ handles' = ReleasedHandles(Settled(after))
      /\ UNCHANGED <<snapshots, reads, seq>>

\* RegisterNode with a newer boot generation aborts the operations with blocks
\* assigned to that DataNode (any of them, placement being abstract here) and does
\* not release them: locks and handles wait for the next collect().
DataNodeReboot(S) ==
  /\ "reboot" \in Faults
  /\ S # {}
  /\ \A o \in S : ops[o].state = "PREPARING" /\ ops[o].touched # {}
  /\ ops' = [o \in Ops |-> IF o \in S THEN Settle(ops[o], "ABORTED") ELSE ops[o]]
  /\ UNCHANGED <<files, snapshots, handles, locks, reads, seq>>

\* Mutant: open handles pin nothing.
PinsOfFiles(H) == {files[f].snapshot : f \in {g \in Files : files[g].alive}}

\* The snapshots pinned by alive files and by the open, live handles among H.
Pins(H) ==
  {files[f].snapshot : f \in {g \in Files : files[g].alive}} \cup
  {handles[h].snapshot : h \in {k \in H : ~handles[k].closed /\ LiveHandle(k)}}

Pruned(pins) == [r \in Roots |-> IF r \in pins THEN snapshots[r] ELSE NoSnapshot]

\* collect() of the maintenance thread, every ten seconds.
Collect ==
  LET lapsed(o) == /\ ops[o].kind = "write" /\ ops[o].state = "PREPARING"
                   /\ \/ ~LiveHandle(ops[o].handle)
                      \/ \E l \in ops[o].locks : ~LiveLock(l)
      late(o)   == /\ ops[o].state = "PREPARING"
                   /\ IF ops[o].kind = "write" THEN handles[ops[o].handle].closed
                      ELSE ops[o].expires = 0
      first     == [o \in Ops |-> IF lapsed(o) THEN Settle(ops[o], "EXPIRED") ELSE ops[o]]
  IN  /\ ops' = [o \in Ops |-> IF late(o) THEN Settle(ops[o], "EXPIRED") ELSE first[o]]
      /\ locks' = ReleasedLocks(Settled(first))
      /\ handles' = [h \in Handles |->
           IF LiveHandle(h) THEN ReleasedHandles(Settled(first))[h]
           ELSE Shut(ReleasedHandles(Settled(first))[h])]
      /\ snapshots' = Pruned(Pins(Handles))
      /\ UNCHANGED <<files, reads, seq>>

\* A restarted control aborts what was being prepared, prunes, and opens a new
\* control epoch: every handle is closed and every lock deleted before it serves.
ControlRestart ==
  /\ "restart" \in Faults
  /\ ops' = [o \in Ops |-> IF ops[o].state = "PREPARING"
                           THEN Settle(ops[o], "ABORTED") ELSE ops[o]]
  /\ snapshots' = Pruned(Pins(Handles))
  /\ handles' = [h \in Handles |-> Shut(handles[h])]
  /\ locks' = [l \in Locks |-> NoLock]
  /\ UNCHANGED <<files, reads, seq>>

\* What is left of a lease after a tick.
Less(n) == IF n > 0 THEN n - 1 ELSE 0

\* The monotonic clock of the lease authority advances.
TickLease ==
  /\ \/ \E l \in Locks : locks[l].ttl > 0
     \/ \E h \in Handles : handles[h].max > 0
  /\ locks' = [l \in Locks |-> [locks[l] EXCEPT !.ttl = Less(@)]]
  /\ handles' = [h \in Handles |-> [handles[h] EXCEPT !.ttl = Less(@), !.max = Less(@)]]
  /\ UNCHANGED <<files, snapshots, ops, reads, seq>>

\* The wall clock, which dates the expiry of operations, advances on its own.
TickWall ==
  /\ \E o \in Ops : ops[o].expires > 0 \/ ops[o].max > 0
  /\ ops' = [o \in Ops |-> [ops[o] EXCEPT !.expires = Less(@), !.max = Less(@)]]
  /\ UNCHANGED <<files, snapshots, handles, locks, reads, seq>>

-----------------------------------------------------------------------------

Next ==
  \/ \E f \in Files, mode \in Modes : OpenExisting(f, mode) \/ OpenTruncate(f, mode)
  \/ \E mode \in Modes : OpenCreate(mode)
  \/ \E h \in Handles : RenewHandle(h) \/ Close(h) \/ BeginRead(h) \/ LockWhole(h) \/ BeginEmptyWrite(h)
  \/ \E r \in Reads : EndRead(r)
  \/ \E h \in Handles, range \in Ranges :
       LockRange(h, range[1], range[2]) \/ BeginWrite(h, range[1], range[2])
  \/ \E l \in Locks : RenewLock(l) \/ Unlock(l)
  \/ \E o \in Ops : \/ \E i \in Indices : ReportPatch(o, i)
                    \/ CommitWrite(o) \/ Abort(o)
                    \/ RenewUpload(o) \/ SealManifest(o) \/ CommitUpload(o)
  \/ \E f \in Files, total \in UploadSizes : UploadExisting(f, total)
  \/ \E total \in UploadSizes : UploadNew(total)
  \/ \E f \in Files : Remove(f)
  \/ \E S \in SUBSET Ops : DataNodeReboot(S)
  \/ Collect \/ ControlRestart \/ TickLease \/ TickWall

Spec == Init /\ [][Next]_vars

\* The maintenance thread runs collect() for as long as the process lives, and
\* time passes.  Nothing is assumed of clients, DataNodes or restarts.
Fairness == WF_vars(Collect) /\ WF_vars(TickLease) /\ WF_vars(TickWall)

FairSpec == Spec /\ Fairness

-----------------------------------------------------------------------------
(* Safety.                                                                  *)

\* Two live locks of different owners on one file never conflict, whatever was
\* renewed, expired or taken over in between (leases.acquire, RenewLock).
LockExclusion ==
  \A l \in Locks : LiveLock(l) =>
    \A k \in Locks : ~Conflicts(k, locks[l].file, locks[l].owner, locks[l].indices,
                                locks[l].whole, locks[l].size)

\* No committed write is lost: its blocks are in the published content of its epoch
\* or were replaced by a committed write that had read them, and no two committed
\* writes replaced the same version of a block or grew the file from the same size
\* (CommitWrite's comparison and merge with the latest manifest).
NoLostUpdate ==
  LET committed == {o \in Ops : ops[o].kind = "write" /\ ops[o].state = "COMMITTED"}
      same(o, p) == ops[o].file = ops[p].file /\ ops[o].epoch = ops[p].epoch
  IN  \A o \in committed :
        /\ LET f == ops[o].file IN
             files[f].alive /\ Current(f).epoch = ops[o].epoch =>
               \A i \in ops[o].touched :
                 \/ Current(f).blocks[i] = o
                 \/ \E p \in committed : same(o, p) /\ i \in ops[p].touched /\ ops[p].base[i] = o
        /\ \A p \in committed : o # p /\ same(o, p) =>
             /\ \A i \in ops[o].touched \cap ops[p].touched : ops[o].base[i] # ops[p].base[i]
             /\ ops[o].growing /\ ops[p].growing => ops[o].base_size # ops[p].base_size

\* The manifest of a stored snapshot has a block exactly where its size says, so a
\* growing write and a concurrent write elsewhere leave no hole (CommitWrite).
ManifestMatchesSize ==
  \A r \in Roots : \A i \in Indices :
    (snapshots[r].blocks[i] # 0) <=> (i * BlockSize < snapshots[r].size)

\* Concurrent writes are merged: none is lost and the merged content has no hole (CommitWrite).
WritesMerged == NoLostUpdate /\ ManifestMatchesSize

\* The published content of an existing file is made of blocks that committed operations of
\* its own content epoch wrote, and no open handle has seen a later epoch: what was truncated
\* or overwritten never comes back through an old handle (writable(), CommitUpload).
PublishedFromEpoch ==
  \A f \in Files : files[f].alive =>
    /\ \A i \in Indices : LET v == Current(f).blocks[i] IN
         v # 0 => /\ ops[v].state = "COMMITTED" /\ ops[v].file = f
                  /\ ops[v].epoch = Current(f).epoch /\ i \in ops[v].touched
    /\ \A h \in Handles : HandleOk(h) /\ handles[h].file = f =>
         snapshots[handles[h].snapshot].epoch <= Current(f).epoch

\* collect() never deletes a snapshot an existing file publishes or an open handle
\* with a live lease reads from.
PinnedSnapshotsExist ==
  /\ \A f \in Files : files[f].alive => Exists(files[f].snapshot)
  /\ \A h \in Handles : ~handles[h].closed /\ LiveHandle(h) => Exists(handles[h].snapshot)

\* A write being prepared on an open handle owns that handle, at the revision it
\* started from, and every lock it still holds knows of it: so no Close, Unlock,
\* read or second write can slip in between BeginWrite and its outcome.
WriteOwnsHandle ==
  \A o \in Ops : ops[o].kind = "write" /\ ops[o].state = "PREPARING" =>
    LET h == ops[o].handle IN
      /\ handles[h].busy = Writing(o) /\ handles[h].revision = ops[o].revision
      /\ handles[h].snapshot = ops[o].root /\ handles[h].file = ops[o].file
      /\ \A l \in ops[o].locks : LiveLock(l) =>
           o \in locks[l].active /\ locks[l].owner = HandleOwner(h)

\* One path names at most one file, though opens and uploads race to create it.
OneFilePerPath == \A f, g \in Files : files[f].alive /\ files[g].alive => f = g

\* What a path shows is one file, in its last content epoch: opens that create it, uploads
\* that replace it and old handles that write to it never bring two contents together
\* (OpenFile, writable(), CommitUpload).
OneContent == OneFilePerPath /\ PublishedFromEpoch

-----------------------------------------------------------------------------
(* What a step may never do.                                                *)

\* The part of file f that a lock covers keeps its published content.
SameUnderLock(l) ==
  LET f   == locks[l].file
      new == snapshots'[files'[f].snapshot]
  IN  /\ files'[f].alive = files[f].alive
      /\ locks[l].whole => files'[f].snapshot = files[f].snapshot
      /\ files[f].alive =>
           /\ locks[l].size => new.size = Current(f).size
           /\ \A i \in locks[l].indices : new.blocks[i] = Current(f).blocks[i]

\* While a lock is live, what it covers is published only by its owner: a handle by
\* its own write, an upload by its own commit.  Removal is the exception, remove()
\* asks for no lock.
LockedContentStable ==
  [][\A l \in Locks :
       LiveLock(l) =>
         \/ SameUnderLock(l)
         \/ files[locks[l].file].alive /\ ~files'[locks[l].file].alive
         \/ /\ locks[l].owner.kind = "handle"
            /\ handles'[locks[l].owner.id].snapshot # handles[locks[l].owner.id].snapshot
         \/ /\ locks[l].owner.kind = "op"
            /\ ops[locks[l].owner.id].state # ops'[locks[l].owner.id].state
            /\ ops'[locks[l].owner.id].state = "COMMITTED"]_vars

-----------------------------------------------------------------------------
(* Liveness, under Fairness.                                                *)

\* A handle whose client goes away, or renews it for ever, is closed in the end.
HandlesEnd == \A h \in Handles : []<>handles[h].closed

\* Operation o has no outcome, or still keeps a handle busy or a lock pinned.
Unfinished(o) ==
  \/ ops[o].state = "PREPARING"
  \/ \E h \in Handles : handles[h].busy = Writing(o)
  \/ \E l \in Locks : o \in locks[l].active

\* Every write and upload reaches an outcome and lets go of its handle and its locks,
\* even one that a DataNode's reboot or a restart aborted without releasing them.
OpsReleased == \A o \in Ops : []<>~Unfinished(o)
=============================================================================
