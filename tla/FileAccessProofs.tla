-------------------------- MODULE FileAccessProofs --------------------------
(***************************************************************************)
(* Theorems about FileAccess, for every number of handles, locks, writes,   *)
(* blocks and files and for every lease length.                             *)
(***************************************************************************)
EXTENDS FileAccess, TLAPS

(***************************************************************************)
(* What the records refer to, besides having their types: the version and   *)
(* the epoch of the current snapshot are read through these references.     *)
(***************************************************************************)
FileRefs == \A f \in Files : files[f].alive => files[f].snapshot # 0
HandleRefs ==
  \A h \in Handles : ~handles[h].closed => handles[h].file # 0 /\ handles[h].snapshot # 0
OpRefs ==
  \A o \in Ops : ops[o].state = "PREPARING" =>
    /\ ops[o].file # 0
    /\ ops[o].kind = "write" => files[ops[o].file].snapshot # 0
References == FileRefs /\ HandleRefs /\ OpRefs

FileType == [alive : BOOLEAN, snapshot : 0..MaxRoots]
Counters == [file : 0..MaxFiles, root : 0..MaxRoots, handle : 0..MaxHandles,
             lock : 0..MaxLocks, op : 0..MaxOps, read : 0..MaxReads]

TypeInv == TypeOK /\ References

-----------------------------------------------------------------------------
\* The bounds and the lease lengths are naturals, and files can hold bytes.
LEMMA Constants ==
  /\ MaxHandles \in Nat /\ MaxLocks \in Nat /\ MaxOps \in Nat
  /\ MaxRoots \in Nat /\ MaxFiles \in Nat /\ MaxReads \in Nat
  /\ LockTTL \in Nat \ {0} /\ HandleTTL \in Nat \ {0} /\ UploadTTL \in Nat \ {0}
  /\ HandleMax \in Nat \ {0} /\ UploadMax \in Nat \ {0}
  /\ MaxSize \in Nat /\ 0 \in 0..MaxSize
  BY BoundsAssumption, LeaseAssumption DEF MaxSize

(* The helpers return records of their types.                               *)

\* Covered() yields block indices.
LEMMA CoveredType == \A a, b : Covered(a, b) \in SUBSET Indices
  BY DEF Covered

\* The initial, absent records are records.
LEMMA EmptyType ==
  /\ NoBlocks \in [Indices -> 0..MaxOps]
  /\ NoSnapshot \in Snapshot /\ NoLock \in Lock /\ NoHandle \in Handle /\ NoOp \in Op
  <1>1. NoBlocks \in [Indices -> 0..MaxOps]
    BY BoundsAssumption DEF NoBlocks
  <1>2. NoSnapshot \in Snapshot
    BY <1>1, BoundsAssumption DEF NoSnapshot, Snapshot, MaxSize
  <1>3. NoLock \in Lock
    BY BoundsAssumption DEF NoLock, Lock, NoOne, Owner
  <1>4. NoHandle \in Handle
    BY BoundsAssumption DEF NoHandle, Handle, Idle, Busy
  <1>5. NoOp \in Op
    BY <1>1, BoundsAssumption DEF NoOp, Op, States, MaxSize
  <1> QED BY <1>1, <1>2, <1>3, <1>4, <1>5

\* release_operation() leaves locks and handles well formed.
LEMMA ReleasedType ==
  ASSUME TypeOK, NEW S
  PROVE  /\ ReleasedLocks(S) \in [Locks -> Lock]
         /\ ReleasedHandles(S) \in [Handles -> Handle]
  <1>1. ASSUME NEW l \in Locks PROVE ReleasedLocks(S)[l] \in Lock
    BY <1>1, EmptyType DEF TypeOK, ReleasedLocks, Lock
  <1>2. ASSUME NEW h \in Handles PROVE ReleasedHandles(S)[h] \in Handle
    <2>1. Idle \in Busy
      BY DEF Idle, Busy
    <2>2. handles[h] \in Handle
      BY <1>2 DEF TypeOK
    <2>3. [handles[h] EXCEPT !.busy = Idle] \in Handle
      BY <2>1, <2>2 DEF Handle
    <2> QED BY <1>2, <2>2, <2>3 DEF ReleasedHandles
  <1> QED BY <1>1, <1>2 DEF ReleasedLocks, ReleasedHandles

\* An operation stays well formed when it settles, a handle when it is closed.
LEMMA SettleType ==
  /\ \A op \in Op, state \in States : Settle(op, state) \in Op
  /\ \A handle \in Handle : Shut(handle) \in Handle
  BY DEF Settle, Shut, Op, Handle

\* Counting down stays in the naturals, and so does the lesser of two lease lengths.
LEMMA TimeType ==
  /\ \A n \in Nat : Less(n) \in Nat
  /\ \A a, b \in Nat : Minimum(a, b) \in Nat
  BY DEF Less, Minimum

\* The first state is well formed.
LEMMA TypeInit == Init => TypeInv
  <1> SUFFICES ASSUME Init PROVE TypeInv
    OBVIOUS
  <1> USE BoundsAssumption, EmptyType
  <1> DEFINE one == IF Preload = 0 THEN 0 ELSE 1
             loaded == Covered(0, Preload)
             first == [NoOp EXCEPT !.kind = "upload", !.state = "COMMITTED", !.file = 1, !.epoch = 1,
                             !.total = Preload, !.touched = loaded, !.locks = {1}, !.sealed = TRUE]
  <1>1. files \in [Files -> [alive : BOOLEAN, snapshot : 0..MaxRoots]]
    BY DEF Init, Files
  <1>2. snapshots \in [Roots -> Snapshot]
    <2>1. ASSUME NEW r \in Roots, r = one PROVE snapshots[r] \in Snapshot
      BY <2>1 DEF Init, Roots, Snapshot, MaxSize
    <2>2. ASSUME NEW r \in Roots, r # one PROVE snapshots[r] \in Snapshot
      BY <2>2 DEF Init
    <2> QED BY <2>1, <2>2 DEF Init
  <1>3. ops \in [Ops -> Op]
    <2>1. one = 1 => first \in Op
      <3>1. loaded \in SUBSET Indices /\ Preload \in 0..MaxSize
        BY CoveredType DEF MaxSize
      <3>2. one = 1 => {1} \in SUBSET Locks /\ 1 \in 0..MaxFiles
        BY DEF Locks
      <3>3. "upload" \in {"none", "write", "upload"} /\ "COMMITTED" \in States
        BY DEF States
      <3> HIDE DEF loaded
      <3> QED BY <3>1, <3>2, <3>3 DEF Op
    <2> QED BY <2>1 DEF Init, Ops
  <1>4. handles \in [Handles -> Handle] /\ locks \in [Locks -> Lock]
    BY DEF Init
  <1>5. reads \in [Reads -> Read] /\ seq \in
           [file : 0..MaxFiles, root : 0..MaxRoots, handle : 0..MaxHandles,
            lock : 0..MaxLocks, op : 0..MaxOps, read : 0..MaxReads]
    BY DEF Init, Read
  <1>6. References
    BY DEF Init, References, FileRefs, HandleRefs, OpRefs, NoHandle, NoOp
  <1> QED BY <1>1, <1>2, <1>3, <1>4, <1>5, <1>6 DEF TypeInv, TypeOK

\* The type invariant, taken apart and put together.
LEMMA TypeParts ==
  ASSUME TypeInv
  PROVE  /\ files \in [Files -> FileType] /\ snapshots \in [Roots -> Snapshot]
         /\ handles \in [Handles -> Handle] /\ locks \in [Locks -> Lock]
         /\ ops \in [Ops -> Op] /\ reads \in [Reads -> Read] /\ seq \in Counters
         /\ FileRefs /\ HandleRefs /\ OpRefs
  BY DEF TypeInv, TypeOK, References, FileType, Counters

\* The next state is well typed when each of its parts is: the converse of
\* TypeParts, primed.
LEMMA TypeWhole ==
  ASSUME files' \in [Files -> FileType], snapshots' \in [Roots -> Snapshot],
         handles' \in [Handles -> Handle], locks' \in [Locks -> Lock],
         ops' \in [Ops -> Op], reads' \in [Reads -> Read], seq' \in Counters,
         FileRefs', HandleRefs', OpRefs'
  PROVE  TypeInv'
  BY DEF TypeInv, TypeOK, References, FileType, Counters

\* A record with one field replaced by a value of its type.
LEMMA UpdateType ==
  /\ \A op \in Op, n \in Nat : [op EXCEPT !.expires = n] \in Op
  /\ \A op \in Op : [op EXCEPT !.sealed = TRUE] \in Op
  /\ \A op \in Op, S \in SUBSET Indices : [op EXCEPT !.stored = S] \in Op
  /\ \A handle \in Handle, n \in Nat : [handle EXCEPT !.ttl = n] \in Handle
  /\ \A handle \in Handle, n \in Nat : [handle EXCEPT !.revision = n] \in Handle
  /\ \A handle \in Handle, b \in Busy : [handle EXCEPT !.busy = b] \in Handle
  /\ \A handle \in Handle, m, n \in Nat : [handle EXCEPT !.ttl = m, !.max = n] \in Handle
  /\ \A handle \in Handle, r \in 0..MaxRoots, n \in Nat :
       [handle EXCEPT !.snapshot = r, !.revision = n] \in Handle
  /\ \A lock \in Lock, n \in Nat : [lock EXCEPT !.ttl = n] \in Lock
  /\ \A lock \in Lock, S \in SUBSET Ops : [lock EXCEPT !.active = S] \in Lock
  /\ \A op \in Op, m, n \in Nat : [op EXCEPT !.expires = m, !.max = n] \in Op
  /\ \A read \in Read : [read EXCEPT !.closed = TRUE] \in Read
  <1>1. /\ \A op \in Op, n \in Nat : [op EXCEPT !.expires = n] \in Op
        /\ \A op \in Op : [op EXCEPT !.sealed = TRUE] \in Op
        /\ \A op \in Op, S \in SUBSET Indices : [op EXCEPT !.stored = S] \in Op
    BY DEF Op
  <1>2. \A op \in Op, m, n \in Nat : [op EXCEPT !.expires = m, !.max = n] \in Op
    BY DEF Op
  <1>3. /\ \A handle \in Handle, n \in Nat : [handle EXCEPT !.ttl = n] \in Handle
        /\ \A handle \in Handle, n \in Nat : [handle EXCEPT !.revision = n] \in Handle
        /\ \A handle \in Handle, b \in Busy : [handle EXCEPT !.busy = b] \in Handle
    BY DEF Handle
  <1>4. /\ \A handle \in Handle, m, n \in Nat : [handle EXCEPT !.ttl = m, !.max = n] \in Handle
        /\ \A handle \in Handle, r \in 0..MaxRoots, n \in Nat :
             [handle EXCEPT !.snapshot = r, !.revision = n] \in Handle
    BY DEF Handle
  <1>5. /\ \A lock \in Lock, n \in Nat : [lock EXCEPT !.ttl = n] \in Lock
        /\ \A lock \in Lock, S \in SUBSET Ops : [lock EXCEPT !.active = S] \in Lock
    BY DEF Lock
  <1>6. \A read \in Read : [read EXCEPT !.closed = TRUE] \in Read
    BY DEF Read
  <1> QED BY <1>1, <1>2, <1>3, <1>4, <1>5, <1>6

\* Drawing identifiers: the next one is in range and the counters stay so.
LEMMA NextIdentifier ==
  ASSUME seq \in Counters
  PROVE  /\ seq.file < MaxFiles => seq.file + 1 \in Files
         /\ seq.root < MaxRoots => seq.root + 1 \in Roots
         /\ seq.handle < MaxHandles => seq.handle + 1 \in Handles
         /\ seq.lock < MaxLocks => seq.lock + 1 \in Locks
         /\ seq.op < MaxOps => seq.op + 1 \in Ops
         /\ seq.read < MaxReads => seq.read + 1 \in Reads
  BY Constants DEF Counters, Files, Roots, Handles, Locks, Ops, Reads

\* Drawing one or more identifiers keeps the record of counters well typed.
LEMMA CountersType ==
  ASSUME NEW c \in Counters
  PROVE  /\ \A h \in Handles, r \in Roots, l \in Locks :
              [c EXCEPT !.handle = h, !.root = r, !.lock = l] \in Counters
         /\ \A f \in Files, r \in Roots, h \in Handles :
              [c EXCEPT !.file = f, !.root = r, !.handle = h] \in Counters
         /\ \A f \in Files, o \in Ops, l \in Locks :
              [c EXCEPT !.file = f, !.op = o, !.lock = l] \in Counters
         /\ \A o \in Ops, l \in Locks \cup {c.lock} : [c EXCEPT !.op = o, !.lock = l] \in Counters
         /\ \A h \in Handles : [c EXCEPT !.handle = h] \in Counters
         /\ \A r \in Roots : [c EXCEPT !.root = r] \in Counters
         /\ \A o \in Ops : [c EXCEPT !.op = o] \in Counters
         /\ \A d \in Reads : [c EXCEPT !.read = d] \in Counters
         /\ \A l \in Locks : [c EXCEPT !.lock = l] \in Counters
  <1>1. /\ Files \subseteq 0..MaxFiles /\ Roots \subseteq 0..MaxRoots
        /\ Handles \subseteq 0..MaxHandles /\ Locks \cup {c.lock} \subseteq 0..MaxLocks
        /\ Ops \subseteq 0..MaxOps /\ Reads \subseteq 0..MaxReads
    BY Constants DEF Counters, Files, Roots, Handles, Locks, Ops, Reads
  <1> QED BY <1>1 DEF Counters

\* References survive when records keep what they refer to.
LEMMA FileRefsKept ==
  ASSUME TypeInv,
         \A f \in Files : files'[f].alive => files[f].alive /\ files'[f].snapshot = files[f].snapshot
  PROVE  FileRefs'
  BY TypeParts DEF FileRefs

\* A step that opens no handle and moves none to another file or snapshot keeps
\* the handles' references.
LEMMA HandleRefsKept ==
  ASSUME TypeInv,
         \A h \in Handles : ~handles'[h].closed =>
           /\ ~handles[h].closed
           /\ handles'[h].file = handles[h].file /\ handles'[h].snapshot = handles[h].snapshot
  PROVE  HandleRefs'
  BY TypeParts DEF HandleRefs

\* A step that starts no operation and keeps the counters from falling keeps the
\* operations' references.
LEMMA OpRefsKept ==
  ASSUME TypeInv,
         \A o \in Ops : ops'[o].state = "PREPARING" =>
           /\ ops[o].state = "PREPARING"
           /\ ops'[o].file = ops[o].file /\ ops'[o].kind = ops[o].kind,
         \A f \in Files : files[f].snapshot # 0 => files'[f].snapshot # 0
  PROVE  OpRefs'
  <1>1. OpRefs /\ ops \in [Ops -> Op]
    BY TypeParts
  <1>2. \A op \in Op : op.file # 0 => op.file \in Files
    BY Constants DEF Op, Files
  <1> QED BY <1>1, <1>2 DEF OpRefs

\* What Open, the uploads and the writes publish is a snapshot of a file.
LEMMA PublishType ==
  ASSUME TypeInv, NEW f \in Files, NEW root \in Roots, NEW snapshot \in Snapshot,
         Publish(f, root, snapshot)
  PROVE  /\ files' \in [Files -> FileType]
         /\ snapshots' \in [Roots -> Snapshot]
         /\ FileRefs'
         /\ \A g \in Files : files[g].snapshot # 0 => files'[g].snapshot # 0
  BY TypeParts, Constants DEF FileRefs, FileType, Publish, Roots

\* A new handle on a published snapshot.
LEMMA NewHandleType ==
  ASSUME TypeInv, NEW f \in Files, NEW root \in Roots, NEW mode \in Modes,
         handles' = [handles EXCEPT ![seq.handle + 1] = NewHandle(f, root, mode)]
  PROVE  handles' \in [Handles -> Handle] /\ HandleRefs'
  <1>1. NewHandle(f, root, mode) \in Handle
    BY Constants, TimeType DEF NewHandle, Handle, Files, Roots, Idle, Busy
  <1>2. handles \in [Handles -> Handle] /\ HandleRefs
    BY TypeParts
  <1>3. NewHandle(f, root, mode).file # 0 /\ NewHandle(f, root, mode).snapshot # 0
    BY Constants DEF NewHandle, Files, Roots
  <1>4. handles' \in [Handles -> Handle]
    BY <1>1, <1>2
  <1>5. HandleRefs'
    BY <1>2, <1>3 DEF HandleRefs
  <1> QED BY <1>4, <1>5

\* The actions that open handles keep the records well formed.
LEMMA TypeOpenExisting ==
  ASSUME TypeInv, NEW f \in Files, NEW mode \in Modes, OpenExisting(f, mode)
  PROVE  TypeInv'
  <1>1. /\ files[f].alive /\ seq.handle < MaxHandles
        /\ handles' = [handles EXCEPT ![seq.handle + 1] = NewHandle(f, files[f].snapshot, mode)]
        /\ seq' = [seq EXCEPT !.handle = seq.handle + 1]
        /\ UNCHANGED <<files, snapshots, locks, ops, reads>>
    BY DEF OpenExisting
  <1>2. files[f].snapshot \in Roots
    BY <1>1, TypeParts, Constants DEF FileRefs, FileType, Roots
  <1>3. handles' \in [Handles -> Handle] /\ HandleRefs'
    BY <1>1, <1>2, NewHandleType
  <1>4. seq' \in Counters
    BY <1>1, TypeParts, NextIdentifier, CountersType
  <1>5. FileRefs' /\ OpRefs'
    BY <1>1, FileRefsKept, OpRefsKept
  <1> QED BY <1>1, <1>3, <1>4, <1>5, TypeParts, TypeWhole

\* Open that truncates: a snapshot of the next content epoch and a handle on it
\* (access.Open).
LEMMA TypeOpenTruncate ==
  ASSUME TypeInv, NEW f \in Files, NEW mode \in Modes, OpenTruncate(f, mode)
  PROVE  TypeInv'
  <1> DEFINE root == seq.root + 1
             snapshot == [epoch |-> Current(f).epoch + 1, version |-> Current(f).version + 1,
                          size |-> 0, blocks |-> NoBlocks]
  <1>1. /\ files[f].alive
        /\ seq.handle < MaxHandles /\ seq.root < MaxRoots /\ seq.lock < MaxLocks
        /\ Publish(f, root, snapshot)
        /\ handles' = [handles EXCEPT ![seq.handle + 1] = NewHandle(f, root, mode)]
        /\ seq' = [seq EXCEPT !.handle = seq.handle + 1, !.root = root, !.lock = seq.lock + 1]
        /\ UNCHANGED <<locks, ops, reads>>
    BY DEF OpenTruncate, CanAcquire
  <1>2. root \in Roots /\ files[f].snapshot \in Roots
    BY <1>1, TypeParts, NextIdentifier, Constants DEF FileRefs, FileType, Roots
  <1>3. Current(f) \in Snapshot
    BY <1>2, TypeParts DEF Current
  <1>4. snapshot \in Snapshot
    BY <1>3, EmptyType, Constants DEF Snapshot
  <1>5. handles' \in [Handles -> Handle] /\ HandleRefs'
    BY <1>1, <1>2, NewHandleType
  <1>6. seq.handle + 1 \in Handles /\ seq.lock + 1 \in Locks
    BY <1>1, TypeParts, NextIdentifier
  <1> HIDE DEF snapshot, root
  <1>7. /\ files' \in [Files -> FileType] /\ snapshots' \in [Roots -> Snapshot] /\ FileRefs'
        /\ OpRefs'
    BY <1>1, <1>2, <1>4, PublishType, OpRefsKept
  <1>8. seq' \in Counters
    BY <1>1, <1>2, <1>6, TypeParts, CountersType
  <1> QED BY <1>1, <1>5, <1>7, <1>8, TypeParts, TypeWhole

\* Open that creates a file with an empty snapshot (access.Open).
LEMMA TypeOpenCreate ==
  ASSUME TypeInv, NEW mode \in Modes, OpenCreate(mode)
  PROVE  TypeInv'
  <1> DEFINE f == seq.file + 1
             root == seq.root + 1
             snapshot == [epoch |-> 1, version |-> 1, size |-> 0, blocks |-> NoBlocks]
  <1>1. /\ seq.handle < MaxHandles /\ seq.root < MaxRoots /\ seq.file < MaxFiles
        /\ Publish(f, root, snapshot)
        /\ handles' = [handles EXCEPT ![seq.handle + 1] = NewHandle(f, root, mode)]
        /\ seq' = [seq EXCEPT !.file = f, !.root = root, !.handle = seq.handle + 1]
        /\ UNCHANGED <<locks, ops, reads>>
    BY DEF OpenCreate
  <1>2. root \in Roots /\ f \in Files /\ seq.handle + 1 \in Handles
    BY <1>1, TypeParts, NextIdentifier
  <1>3. snapshot \in Snapshot
    BY EmptyType, Constants DEF Snapshot
  <1> HIDE DEF snapshot, root, f
  <1>4. handles' \in [Handles -> Handle] /\ HandleRefs'
    BY <1>1, <1>2, NewHandleType
  <1>5. /\ files' \in [Files -> FileType] /\ snapshots' \in [Roots -> Snapshot] /\ FileRefs'
        /\ OpRefs'
    BY <1>1, <1>2, <1>3, PublishType, OpRefsKept
  <1>6. seq' \in Counters
    BY <1>1, <1>2, TypeParts, CountersType
  <1> QED BY <1>1, <1>4, <1>5, <1>6, TypeParts, TypeWhole

\* The other actions on handles and reads keep the records well formed.
LEMMA TypeRenewHandle ==
  ASSUME TypeInv, NEW h \in Handles, RenewHandle(h)
  PROVE  TypeInv'
  <1> DEFINE ttl == Minimum(HandleTTL, handles[h].max)
             o == handles[h].busy.id
  <1>1. /\ handles' = [handles EXCEPT ![h].ttl = ttl]
        /\ ops' = ops \/ ops' = [ops EXCEPT ![o].expires = ttl]
        /\ UNCHANGED <<files, snapshots, locks, reads, seq>>
    BY DEF RenewHandle
  <1>2. ttl \in Nat
    BY TypeParts, TimeType, Constants DEF Handle
  <1> HIDE DEF ttl, o
  <1>3. handles' \in [Handles -> Handle]
    BY <1>1, <1>2, TypeParts, UpdateType
  <1>4. ops' \in [Ops -> Op] /\ OpRefs'
    <2>1. CASE ops' = ops
      BY <1>1, <2>1, TypeParts, OpRefsKept
    <2>2. CASE ops' = [ops EXCEPT ![o].expires = ttl]
      <3>1. ops \in [Ops -> Op]
        BY TypeParts
      <3>2. \A op \in Op : [op EXCEPT !.expires = ttl] \in Op
        BY <1>2, UpdateType
      <3>3. ops' \in [Ops -> Op]
        BY <2>2, <3>1, <3>2
      <3>4. \A x \in Ops : /\ ops'[x].state = ops[x].state /\ ops'[x].file = ops[x].file
                           /\ ops'[x].kind = ops[x].kind
        BY <2>2, <3>1 DEF Op
      <3> QED BY <1>1, <3>3, <3>4, OpRefsKept
    <2> QED BY <1>1, <2>1, <2>2
  <1>5. FileRefs'
    BY <1>1, FileRefsKept
  <1>6. HandleRefs'
    BY <1>1, TypeParts, HandleRefsKept
  <1> QED BY <1>1, <1>3, <1>4, <1>5, <1>6, TypeParts, TypeWhole

\* Close shuts the handle and deletes its locks (access.Close).
LEMMA TypeClose ==
  ASSUME TypeInv, NEW h \in Handles, Close(h)
  PROVE  TypeInv'
  <1>1. /\ handles' = [handles EXCEPT ![h] =
                         [Shut(handles[h]) EXCEPT !.revision = handles[h].revision + 1]]
        /\ locks' = [l \in Locks |-> IF locks[l].owner = HandleOwner(h) THEN NoLock ELSE locks[l]]
        /\ UNCHANGED <<files, snapshots, ops, reads, seq>>
    BY DEF Close
  <1>2. Shut(handles[h]) \in Handle /\ handles[h].revision + 1 \in Nat
    BY TypeParts, SettleType DEF Handle
  <1>3. handles' \in [Handles -> Handle]
    BY <1>1, <1>2, TypeParts, UpdateType
  <1>4. locks' \in [Locks -> Lock]
    BY <1>1, TypeParts, EmptyType
  <1>5. HandleRefs'
    <2>1. [Shut(handles[h]) EXCEPT !.revision = handles[h].revision + 1].closed
      BY TypeParts DEF Shut, Handle
    <2> QED BY <1>1, <2>1, TypeParts, HandleRefsKept
  <1>6. FileRefs' /\ OpRefs'
    BY <1>1, FileRefsKept, OpRefsKept
  <1> QED BY <1>1, <1>3, <1>4, <1>5, <1>6, TypeParts, TypeWhole

\* BeginRead draws a read and marks the handle busy with it (access.BeginRead).
LEMMA TypeBeginRead ==
  ASSUME TypeInv, NEW h \in Handles, BeginRead(h)
  PROVE  TypeInv'
  <1> DEFINE r == seq.read + 1
  <1>1. /\ seq.read < MaxReads
        /\ reads' = [reads EXCEPT ![r] = [handle |-> h, closed |-> FALSE]]
        /\ handles' = [handles EXCEPT ![h].busy = Reading(r)]
        /\ seq' = [seq EXCEPT !.read = r]
        /\ UNCHANGED <<files, snapshots, locks, ops>>
    BY DEF BeginRead
  <1>2. r \in Reads
    BY <1>1, TypeParts, NextIdentifier
  <1>3. Reading(r) \in Busy /\ [handle |-> h, closed |-> FALSE] \in Read
    BY <1>2, Constants DEF Reading, Busy, Reads, Read, Handles
  <1> HIDE DEF r
  <1>4. handles' \in [Handles -> Handle]
    BY <1>1, <1>3, TypeParts, UpdateType
  <1>5. reads' \in [Reads -> Read]
    BY <1>1, <1>3, TypeParts
  <1>6. seq' \in Counters
    BY <1>1, <1>2, TypeParts, CountersType
  <1>7. HandleRefs'
    BY <1>1, TypeParts, HandleRefsKept
  <1>8. FileRefs' /\ OpRefs'
    BY <1>1, FileRefsKept, OpRefsKept
  <1> QED BY <1>1, <1>4, <1>5, <1>6, <1>7, <1>8, TypeParts, TypeWhole

\* EndRead closes the read and, if it is the handle's, frees the handle
\* (access.EndRead).
LEMMA TypeEndRead ==
  ASSUME TypeInv, NEW r \in Reads, EndRead(r)
  PROVE  TypeInv'
  <1> DEFINE h == reads[r].handle
  <1>1. /\ reads' = [reads EXCEPT ![r].closed = TRUE]
        /\ handles' = handles \/ handles' = [handles EXCEPT ![h].busy = Idle]
        /\ UNCHANGED <<files, snapshots, locks, ops, seq>>
    BY DEF EndRead
  <1>2. Idle \in Busy
    BY DEF Idle, Busy
  <1> HIDE DEF h
  <1>3. handles' \in [Handles -> Handle] /\ HandleRefs'
    <2>1. CASE handles' = handles
      BY <2>1, TypeParts, HandleRefsKept
    <2>2. CASE handles' = [handles EXCEPT ![h].busy = Idle]
      <3>1. handles \in [Handles -> Handle]
        BY TypeParts
      <3>2. \A handle \in Handle : [handle EXCEPT !.busy = Idle] \in Handle
        BY <1>2, UpdateType
      <3>3. handles' \in [Handles -> Handle]
        BY <2>2, <3>1, <3>2
      <3>4. \A x \in Handles : /\ handles'[x].closed = handles[x].closed
                               /\ handles'[x].file = handles[x].file
                               /\ handles'[x].snapshot = handles[x].snapshot
        BY <2>2, <3>1 DEF Handle
      <3> QED BY <3>3, <3>4, HandleRefsKept
    <2> QED BY <1>1, <2>1, <2>2
  <1>4. reads' \in [Reads -> Read]
    BY <1>1, TypeParts, UpdateType
  <1>6. FileRefs' /\ OpRefs'
    BY <1>1, FileRefsKept, OpRefsKept
  <1> QED BY <1>1, <1>3, <1>4, <1>6, TypeParts, TypeWhole

\* The actions on explicit locks keep the records well formed.
LEMMA NewLockType ==
  ASSUME NEW file \in 0..MaxFiles, NEW owner \in Owner, NEW indices \in SUBSET Indices,
         NEW whole \in BOOLEAN, NEW size \in BOOLEAN, NEW automatic \in BOOLEAN,
         NEW active \in SUBSET Ops, NEW ttl \in Nat
  PROVE  NewLock(file, owner, indices, whole, size, automatic, active, ttl) \in Lock
  BY DEF NewLock, Lock

\* Handles and operations are owners of locks.
LEMMA OwnerType ==
  /\ \A h \in Handles : HandleOwner(h) \in Owner
  /\ \A o \in Ops : OpOwner(o) \in Owner
  BY Constants DEF HandleOwner, OpOwner, Owner, Handles, Ops

\* A lock a client asks for, on a range or the whole file (access.Lock).
LEMMA TypeAcquireLock ==
  ASSUME TypeInv, NEW h \in Handles, NEW indices \in SUBSET Indices, NEW whole \in BOOLEAN,
         AcquireLock(h, indices, whole)
  PROVE  TypeInv'
  <1> DEFINE l == seq.lock + 1
             new == NewLock(handles[h].file, HandleOwner(h), indices, whole, whole, FALSE, {}, LockTTL)
  <1>1. /\ seq.lock < MaxLocks
        /\ locks' = [locks EXCEPT ![l] = new]
        /\ seq' = [seq EXCEPT !.lock = l]
        /\ UNCHANGED <<files, snapshots, handles, ops, reads>>
    BY DEF AcquireLock, CanAcquire
  <1>2. l \in Locks
    BY <1>1, TypeParts, NextIdentifier
  <1>3. handles[h].file \in 0..MaxFiles
    BY TypeParts DEF Handle
  <1>4. new \in Lock
    BY <1>3, OwnerType, NewLockType, Constants
  <1> HIDE DEF l, new
  <1>5. locks' \in [Locks -> Lock]
    BY <1>1, <1>4, TypeParts
  <1>6. seq' \in Counters
    BY <1>1, <1>2, TypeParts, CountersType
  <1>7. FileRefs' /\ HandleRefs' /\ OpRefs'
    BY <1>1, FileRefsKept, HandleRefsKept, OpRefsKept
  <1> QED BY <1>1, <1>5, <1>6, <1>7, TypeParts, TypeWhole

\* Renewal and release of a lock (access.RenewLock, access.Unlock).
LEMMA TypeLocks ==
  ASSUME TypeInv, NEW l \in Locks, RenewLock(l) \/ Unlock(l)
  PROVE  TypeInv'
  <1>1. UNCHANGED <<files, snapshots, handles, ops, reads, seq>>
    BY DEF RenewLock, Unlock
  <1>2. locks' \in [Locks -> Lock]
    <2>1. CASE locks' = [locks EXCEPT ![l].ttl = LockTTL]
      BY <2>1, TypeParts, UpdateType, Constants
    <2>2. CASE locks' = [locks EXCEPT ![l] = NoLock]
      BY <2>2, TypeParts, EmptyType
    <2> QED BY <2>1, <2>2 DEF RenewLock, Unlock
  <1>3. FileRefs' /\ HandleRefs' /\ OpRefs'
    BY <1>1, FileRefsKept, HandleRefsKept, OpRefsKept
  <1> QED BY <1>1, <1>2, <1>3, TypeParts, TypeWhole

\* The actions of writes keep the records well formed.
LEMMA TypeBeginWrite ==
  ASSUME TypeInv, NEW h \in Handles, NEW range \in Ranges, BeginWrite(h, range[1], range[2])
  PROVE  TypeInv'
  <1> DEFINE offset == range[1]
             length == range[2]
             o == seq.op + 1
             l == seq.lock + 1
             f == handles[h].file
             base == snapshots[handles[h].snapshot]
             touched == Covered(offset, length)
             growing == offset + length > base.size
             own == OwnLocks(h)
             missing == {i \in touched : \A k \in own : ~locks[k].whole /\ i \notin locks[k].indices}
             needSize == growing /\ \A k \in own : ~locks[k].size
             extra == IF missing # {} \/ needSize THEN {l} ELSE {}
             new == NewLock(f, HandleOwner(h), missing, FALSE, needSize, TRUE, {o}, LockTTL)
             op == [kind |-> "write", state |-> "PREPARING", file |-> f, handle |-> h,
                    revision |-> handles[h].revision, root |-> handles[h].snapshot,
                    epoch |-> base.epoch, growing |-> growing, base_size |-> base.size,
                    total |-> Maximum(base.size, offset + length), touched |-> touched,
                    base |-> [i \in Indices |-> IF i \in touched THEN base.blocks[i] ELSE 0],
                    locks |-> own \cup extra, stored |-> {}, sealed |-> FALSE,
                    expires |-> handles[h].ttl, max |-> 0]
  <1>1. /\ Writable(h) /\ seq.op < MaxOps
        /\ offset + length <= MaxSize
        /\ extra # {} => seq.lock < MaxLocks
        /\ ops' = [ops EXCEPT ![o] = op]
        /\ locks' = [k \in Locks |-> IF k \in extra THEN new
                       ELSE IF k \in own THEN [locks[k] EXCEPT !.active = locks[k].active \cup {o}]
                       ELSE locks[k]]
        /\ handles' = [handles EXCEPT ![h].busy = Writing(o)]
        /\ seq' = [seq EXCEPT !.op = o, !.lock = IF extra = {} THEN seq.lock ELSE l]
        /\ UNCHANGED <<files, snapshots, reads>>
    BY DEF BeginWrite, CanAcquire
  <1>2. o \in Ops /\ extra \subseteq Locks /\ own \subseteq Locks
    BY <1>1, TypeParts, NextIdentifier DEF OwnLocks
  <1>3. offset \in Nat /\ length \in Nat
    BY BoundsAssumption
  <1>4. /\ handles[h] \in Handle /\ ~handles[h].closed /\ f \in Files
        /\ handles[h].snapshot \in Roots /\ files[f].alive
    <2>1. handles[h] \in Handle /\ HandleRefs
      BY TypeParts
    <2>2. ~handles[h].closed /\ files[f].alive
      BY <1>1 DEF Writable, HandleOk
    <2>3. f # 0 /\ handles[h].snapshot # 0
      BY <2>1, <2>2 DEF HandleRefs
    <2> QED BY <2>1, <2>2, <2>3, Constants DEF Handle, Files, Roots
  <1>5. base \in Snapshot
    BY <1>4, TypeParts
  <1>6. touched \in SUBSET Indices /\ missing \in SUBSET Indices
    BY CoveredType
  <1>7. growing \in BOOLEAN /\ needSize \in BOOLEAN
    OBVIOUS
  <1>8. op \in Op
    <2>1. Maximum(base.size, offset + length) \in 0..MaxSize
      BY <1>1, <1>3, <1>5, Constants DEF Maximum, Snapshot
    <2>2. [i \in Indices |-> IF i \in touched THEN base.blocks[i] ELSE 0] \in [Indices -> 0..MaxOps]
      BY <1>5, Constants DEF Snapshot
    <2>3. /\ base.epoch \in Nat /\ base.size \in 0..MaxSize /\ handles[h].revision \in Nat
          /\ handles[h].ttl \in Nat /\ f \in 0..MaxFiles /\ handles[h].snapshot \in 0..MaxRoots
          /\ h \in 0..MaxHandles
      BY <1>4, <1>5, Constants DEF Snapshot, Handle, Handles
    <2>4. "PREPARING" \in States
      BY DEF States
    <2> HIDE DEF base, touched, growing, own, extra, f, offset, length
    <2> QED BY <1>2, <1>6, <1>7, <2>1, <2>2, <2>3, <2>4, Constants DEF Op
  <1>9. new \in Lock
    <2>1. f \in 0..MaxFiles /\ LockTTL \in Nat
      BY <1>4, Constants DEF Handle
    <2> HIDE DEF missing, needSize, f
    <2> QED BY <1>2, <1>6, <1>7, <2>1, OwnerType, NewLockType
  <1>10. op.file = f /\ op.state = "PREPARING" /\ op.kind = "write"
    OBVIOUS
  <1> HIDE DEF op, new, extra, own, base, touched, missing, growing, needSize, offset, length, o, l
  <1>11. locks' \in [Locks -> Lock]
    <2>1. \A k \in Locks : [locks[k] EXCEPT !.active = locks[k].active \cup {o}] \in Lock
      <3>1. \A k \in Locks : locks[k] \in Lock /\ locks[k].active \cup {o} \in SUBSET Ops
        BY <1>2, TypeParts DEF Lock
      <3> QED BY <3>1, UpdateType
    <2> QED BY <1>1, <1>9, <2>1, TypeParts
  <1>12. handles' \in [Handles -> Handle]
    <2>1. Writing(o) \in Busy
      BY <1>2, Constants DEF Writing, Busy, Ops
    <2> QED BY <1>1, <2>1, TypeParts, UpdateType
  <1>13. ops' \in [Ops -> Op]
    BY <1>1, <1>8, TypeParts
  <1>14. seq' \in Counters
    <2>1. (IF extra = {} THEN seq.lock ELSE l) \in Locks \cup {seq.lock}
      BY <1>2 DEF extra
    <2> QED BY <1>1, <1>2, <2>1, TypeParts, CountersType
  <1>15. HandleRefs'
    BY <1>1, TypeParts, HandleRefsKept
  <1>16. OpRefs'
    BY <1>1, <1>4, <1>10, TypeParts, Constants DEF OpRefs, FileRefs, Files
  <1>17. FileRefs'
    BY <1>1, FileRefsKept
  <1> QED BY <1>1, <1>11, <1>12, <1>13, <1>14, <1>15, <1>16, <1>17, TypeParts, TypeWhole

\* A write of no bytes is recorded as committed at once and takes no lock
\* (access.BeginWrite).
LEMMA TypeBeginEmptyWrite ==
  ASSUME TypeInv, NEW h \in Handles, BeginEmptyWrite(h)
  PROVE  TypeInv'
  <1> DEFINE o == seq.op + 1
             base == snapshots[handles[h].snapshot]
             op == [NoOp EXCEPT !.kind = "write", !.state = "COMMITTED", !.file = handles[h].file,
                        !.handle = h, !.revision = handles[h].revision,
                        !.root = handles[h].snapshot, !.epoch = base.epoch,
                        !.base_size = base.size, !.total = base.size,
                        !.locks = OwnLocks(h)]
  <1>1. /\ Writable(h) /\ seq.op < MaxOps
        /\ ops' = [ops EXCEPT ![o] = op]
        /\ seq' = [seq EXCEPT !.op = o]
        /\ UNCHANGED <<files, snapshots, handles, locks, reads>>
    BY DEF BeginEmptyWrite
  <1>2. o \in Ops
    BY <1>1, TypeParts, NextIdentifier
  <1>3. handles[h] \in Handle /\ handles[h].snapshot \in Roots
    BY <1>1, TypeParts, Constants DEF Writable, HandleOk, HandleRefs, Handle, Roots
  <1>4. /\ handles[h].file \in 0..MaxFiles /\ h \in 0..MaxHandles /\ handles[h].revision \in Nat
        /\ handles[h].snapshot \in 0..MaxRoots
        /\ base.epoch \in Nat /\ base.size \in 0..MaxSize /\ OwnLocks(h) \in SUBSET Locks
    BY <1>3, TypeParts, Constants DEF Handle, Snapshot, Handles, OwnLocks
  <1>5. op \in Op /\ op.state # "PREPARING"
    <2>1. "write" \in {"none", "write", "upload"} /\ "COMMITTED" \in States
      BY DEF States
    <2> HIDE DEF base
    <2>2. op \in Op
      BY <1>4, <2>1, EmptyType DEF Op
    <2>3. op.state = "COMMITTED"
      BY EmptyType DEF Op
    <2> QED BY <2>2, <2>3
  <1> HIDE DEF op, o
  <1>6. ops' \in [Ops -> Op]
    BY <1>1, <1>5, TypeParts
  <1>7. seq' \in Counters
    BY <1>1, <1>2, TypeParts, CountersType
  <1>8. OpRefs'
    BY <1>1, <1>5, TypeParts, OpRefsKept
  <1>9. FileRefs' /\ HandleRefs'
    BY <1>1, FileRefsKept, HandleRefsKept
  <1> QED BY <1>1, <1>6, <1>7, <1>8, <1>9, TypeParts, TypeWhole

\* A receipt or a sealed manifest only adds to its operation (ReportPatch,
\* SealManifest).
LEMMA TypeReport ==
  ASSUME TypeInv, NEW o \in Ops, SealManifest(o) \/ \E i \in Indices : ReportPatch(o, i)
  PROVE  TypeInv'
  <1>1. UNCHANGED <<files, snapshots, handles, locks, reads, seq>>
    BY DEF ReportPatch, SealManifest
  <1>2. ops' \in [Ops -> Op] /\ OpRefs'
    <2>1. CASE SealManifest(o)
      <3>1. ops' = [ops EXCEPT ![o].sealed = TRUE]
        BY <2>1 DEF SealManifest
      <3>2. ops' \in [Ops -> Op]
        BY <3>1, TypeParts, UpdateType
      <3>3. OpRefs'
        BY <1>1, <3>1, TypeParts, OpRefsKept
      <3> QED BY <3>2, <3>3
    <2>2. ASSUME NEW i \in Indices, ReportPatch(o, i)
          PROVE  ops' \in [Ops -> Op] /\ OpRefs'
      <3>1. ops' = [ops EXCEPT ![o].stored = ops[o].stored \cup {i}]
        BY <2>2 DEF ReportPatch
      <3>2. ops[o].stored \cup {i} \in SUBSET Indices
        BY TypeParts DEF Op
      <3>3. ops' \in [Ops -> Op]
        BY <3>1, <3>2, TypeParts, UpdateType
      <3>4. OpRefs'
        BY <1>1, <3>1, TypeParts, OpRefsKept
      <3> QED BY <3>3, <3>4
    <2> QED BY <2>1, <2>2
  <1>3. FileRefs' /\ HandleRefs'
    BY <1>1, FileRefsKept, HandleRefsKept
  <1> QED BY <1>1, <1>2, <1>3, TypeParts, TypeWhole

\* release_operation() and settling touch no reference.
LEMMA ReleasedRefs ==
  ASSUME TypeInv, NEW S, NEW h \in Handles
  PROVE  /\ ReleasedHandles(S)[h].closed = handles[h].closed
         /\ ReleasedHandles(S)[h].file = handles[h].file
         /\ ReleasedHandles(S)[h].snapshot = handles[h].snapshot
  BY TypeParts DEF ReleasedHandles, Handle

\* Giving some operations an outcome keeps them well typed and leaves the others
\* alone.
LEMMA SettleOps ==
  ASSUME TypeInv, NEW S, NEW state \in States \ {"PREPARING"},
         ops' = [o \in Ops |-> IF o \in S THEN Settle(ops[o], state) ELSE ops[o]]
  PROVE  /\ ops' \in [Ops -> Op]
         /\ \A o \in Ops : ops'[o].state = "PREPARING" => ops'[o] = ops[o]
  <1>1. \A o \in Ops : ops[o] \in Op /\ Settle(ops[o], state) \in Op
    BY TypeParts, SettleType
  <1>2. \A o \in Ops : Settle(ops[o], state).state = state
    BY TypeParts DEF Settle, Op
  <1> QED BY <1>1, <1>2

\* An operation settled and released, nothing published.
LEMMA TypeAbort ==
  ASSUME TypeInv, NEW o \in Ops, Abort(o)
  PROVE  TypeInv'
  <1>1. /\ ops' = [ops EXCEPT ![o] = Settle(ops[o], "ABORTED")]
        /\ locks' = ReleasedLocks({o}) /\ handles' = ReleasedHandles({o})
        /\ UNCHANGED <<files, snapshots, reads, seq>>
    BY DEF Abort
  <1>2. ops' = [x \in Ops |-> IF x \in {o} THEN Settle(ops[x], "ABORTED") ELSE ops[x]]
    BY <1>1, TypeParts
  <1>3. /\ ops' \in [Ops -> Op]
        /\ \A x \in Ops : ops'[x].state = "PREPARING" => ops'[x] = ops[x]
    BY <1>2, SettleOps DEF States
  <1>4. locks' \in [Locks -> Lock] /\ handles' \in [Handles -> Handle]
    BY <1>1, ReleasedType DEF TypeInv
  <1>5. HandleRefs'
    BY <1>1, ReleasedRefs, HandleRefsKept
  <1>6. OpRefs' /\ FileRefs'
    BY <1>1, <1>3, OpRefsKept, FileRefsKept
  <1> QED BY <1>1, <1>3, <1>4, <1>5, <1>6, TypeParts, TypeWhole

\* CommitWrite publishes the merged manifest and moves the handle on to it
\* (access.CommitWrite).
LEMMA TypeCommitWrite ==
  ASSUME TypeInv, NEW o \in Ops, CommitWrite(o)
  PROVE  TypeInv'
  <1> DEFINE h == ops[o].handle
             f == ops[o].file
             cur == Current(f)
             root == seq.root + 1
             snapshot == [epoch |-> ops[o].epoch, version |-> cur.version + 1,
                          size |-> Maximum(cur.size, ops[o].total),
                          blocks |-> [i \in Indices |-> IF i \in ops[o].touched THEN o ELSE cur.blocks[i]]]
  <1>1. /\ WriteOperation(o) /\ seq.root < MaxRoots
        /\ Publish(f, root, snapshot)
        /\ handles' = [ReleasedHandles({o}) EXCEPT ![h].snapshot = root,
                         ![h].revision = ReleasedHandles({o})[h].revision + 1]
        /\ locks' = ReleasedLocks({o})
        /\ ops' = [ops EXCEPT ![o] = Settle(ops[o], "COMMITTED")]
        /\ seq' = [seq EXCEPT !.root = root]
        /\ UNCHANGED reads
    BY DEF CommitWrite, Latest
  <1>2. ops[o] \in Op /\ f \in Files /\ files[f].snapshot \in Roots /\ root \in Roots
    <2>1. ops[o] \in Op /\ OpRefs /\ files \in [Files -> FileType]
      BY TypeParts
    <2>2. f # 0 /\ files[f].snapshot # 0
      BY <1>1, <2>1 DEF WriteOperation, OpRefs
    <2>3. f \in Files
      BY <2>1, <2>2, Constants DEF Op, Files
    <2>4. root \in Roots
      BY <1>1, TypeParts, NextIdentifier
    <2> QED BY <2>1, <2>2, <2>3, <2>4, Constants DEF FileType, Roots
  <1>3. cur \in Snapshot
    BY <1>2, TypeParts DEF Current
  <1>4. snapshot \in Snapshot
    <2>1. cur.version + 1 \in Nat /\ ops[o].epoch \in Nat
      BY <1>2, <1>3 DEF Snapshot, Op
    <2>2. Maximum(cur.size, ops[o].total) \in 0..MaxSize
      BY <1>2, <1>3, Constants DEF Snapshot, Op, Maximum
    <2>3. [i \in Indices |-> IF i \in ops[o].touched THEN o ELSE cur.blocks[i]] \in [Indices -> 0..MaxOps]
      BY <1>2, <1>3, Constants DEF Snapshot, Ops
    <2> HIDE DEF cur
    <2> QED BY <2>1, <2>2, <2>3 DEF Snapshot
  <1>5. ops' = [x \in Ops |-> IF x \in {o} THEN Settle(ops[x], "COMMITTED") ELSE ops[x]]
    BY <1>1, TypeParts
  <1>6. /\ ops' \in [Ops -> Op]
        /\ \A x \in Ops : ops'[x].state = "PREPARING" => ops'[x] = ops[x]
    BY <1>5, SettleOps DEF States
  <1>7. locks' \in [Locks -> Lock] /\ ReleasedHandles({o}) \in [Handles -> Handle]
    BY <1>1, ReleasedType DEF TypeInv
  <1> HIDE DEF snapshot, cur, root
  <1>8. /\ files' \in [Files -> FileType] /\ snapshots' \in [Roots -> Snapshot] /\ FileRefs'
        /\ \A g \in Files : files[g].snapshot # 0 => files'[g].snapshot # 0
    BY <1>1, <1>2, <1>4, PublishType
  <1>9. OpRefs'
    BY <1>6, <1>8, OpRefsKept
  <1>10. seq' \in Counters
    BY <1>1, <1>2, TypeParts, CountersType
  <1>11. handles' \in [Handles -> Handle]
    <2>1. root \in 0..MaxRoots
      BY <1>2, Constants DEF Roots
    <2>2. ASSUME NEW x \in Handles PROVE handles'[x] \in Handle
      <3>1. CASE x # h
        BY <1>1, <1>7, <2>2, <3>1
      <3>2. CASE x = h
        <4>1. ReleasedHandles({o})[h] \in Handle /\ ReleasedHandles({o})[h].revision + 1 \in Nat
          BY <1>7, <2>2, <3>2 DEF Handle
        <4>2. handles'[h] = [ReleasedHandles({o})[h] EXCEPT !.snapshot = root,
                               !.revision = ReleasedHandles({o})[h].revision + 1]
          BY <1>1, <1>7, <2>2, <3>2
        <4>3. \A handle \in Handle, n \in Nat :
                [handle EXCEPT !.snapshot = root, !.revision = n] \in Handle
          BY <2>1, UpdateType
        <4> QED BY <3>2, <4>1, <4>2, <4>3
      <3> QED BY <3>1, <3>2
    <2> QED BY <1>1, <1>7, <2>2
  <1>12. HandleRefs'
    <2>1. root # 0
      BY <1>2, Constants DEF Roots
    <2>2. ASSUME NEW x \in Handles
          PROVE  /\ handles'[x].closed = handles[x].closed
                 /\ handles'[x].file = handles[x].file
                 /\ handles'[x].snapshot \in {handles[x].snapshot, root}
      <3>1. ReleasedHandles({o})[x] \in Handle
        BY <1>7
      <3>2. /\ handles'[x].closed = ReleasedHandles({o})[x].closed
            /\ handles'[x].file = ReleasedHandles({o})[x].file
            /\ handles'[x].snapshot \in {ReleasedHandles({o})[x].snapshot, root}
        <4>1. CASE x # h
          BY <1>1, <1>7, <4>1
        <4>2. CASE x = h
          <5>1. handles'[x] = [ReleasedHandles({o})[x] EXCEPT !.snapshot = root,
                                 !.revision = ReleasedHandles({o})[x].revision + 1]
            BY <1>1, <1>7, <4>2
          <5> QED BY <3>1, <5>1 DEF Handle
        <4> QED BY <4>1, <4>2
      <3> QED BY <3>2, ReleasedRefs
    <2> QED BY <2>1, <2>2, TypeParts DEF HandleRefs
  <1> QED BY <1>1, <1>6, <1>7, <1>8, <1>9, <1>10, <1>11, <1>12, TypeParts, TypeWhole

\* The actions of uploads keep the records well formed.
LEMMA TypeBeginUpload ==
  ASSUME TypeInv, NEW f \in Files, NEW base \in 0..MaxRoots, NEW total \in UploadSizes,
         BeginUpload(f, base, total),
         seq' \in {[seq EXCEPT !.op = seq.op + 1, !.lock = seq.lock + 1],
                  [seq EXCEPT !.file = f, !.op = seq.op + 1, !.lock = seq.lock + 1]}
  PROVE  TypeInv'
  <1> DEFINE o == seq.op + 1
             l == seq.lock + 1
             epoch == IF base = 0 THEN 1 ELSE snapshots[base].epoch + 1
             op == [NoOp EXCEPT !.kind = "upload", !.state = "PREPARING", !.file = f, !.root = base,
                        !.epoch = epoch, !.total = total, !.touched = Covered(0, total), !.locks = {l},
                        !.expires = UploadTTL, !.max = UploadMax]
             new == NewLock(f, OpOwner(o), {}, TRUE, TRUE, TRUE, {o}, UploadTTL)
  <1>1. /\ seq.op < MaxOps /\ seq.lock < MaxLocks
        /\ ops' = [ops EXCEPT ![o] = op]
        /\ locks' = [locks EXCEPT ![l] = new]
        /\ UNCHANGED <<files, snapshots, handles, reads>>
    BY DEF BeginUpload, CanAcquire
  <1>2. o \in Ops /\ l \in Locks
    BY <1>1, TypeParts, NextIdentifier
  <1>3. /\ epoch \in Nat /\ total \in 0..MaxSize /\ f \in 0..MaxFiles
        /\ Covered(0, total) \in SUBSET Indices /\ UploadTTL \in Nat /\ UploadMax \in Nat
    <2>1. base # 0 => snapshots[base] \in Snapshot
      BY TypeParts, Constants DEF Roots
    <2>2. epoch \in Nat
      BY <2>1 DEF Snapshot
    <2>3. total \in 0..MaxSize
      BY BoundsAssumption DEF MaxSize
    <2> QED BY <2>2, <2>3, CoveredType, Constants DEF Files
  <1>4. op \in Op /\ op.file = f /\ op.kind = "upload"
    <2>1. "upload" \in {"none", "write", "upload"} /\ "PREPARING" \in States
      BY DEF States
    <2>2. {l} \in SUBSET Locks
      BY <1>2
    <2> HIDE DEF epoch, l
    <2>3. op \in Op
      BY <1>3, <2>1, <2>2, EmptyType DEF Op
    <2>4. op.file = f /\ op.kind = "upload"
      BY EmptyType DEF Op
    <2> QED BY <2>3, <2>4
  <1>5. new \in Lock
    BY <1>2, <1>3, OwnerType, NewLockType
  <1> HIDE DEF op, new, o, l
  <1>6. ops' \in [Ops -> Op] /\ locks' \in [Locks -> Lock]
    BY <1>1, <1>4, <1>5, TypeParts
  <1>7. seq' \in Counters
    <2>1. seq \in Counters /\ (\/ seq' = [seq EXCEPT !.op = o, !.lock = l]
                              \/ seq' = [seq EXCEPT !.file = f, !.op = o, !.lock = l])
      BY TypeParts DEF o, l
    <2>2. CASE seq' = [seq EXCEPT !.op = o, !.lock = l]
      BY <1>2, <2>1, <2>2, CountersType
    <2>3. CASE seq' = [seq EXCEPT !.file = f, !.op = o, !.lock = l]
      BY <1>2, <2>1, <2>3, CountersType
    <2> QED BY <2>1, <2>2, <2>3
  <1>8. OpRefs'
    BY <1>1, <1>4, TypeParts, Constants DEF OpRefs, Files
  <1>9. FileRefs' /\ HandleRefs'
    BY <1>1, FileRefsKept, HandleRefsKept
  <1> QED BY <1>1, <1>6, <1>7, <1>8, <1>9, TypeParts, TypeWhole

\* BeginUpload on an existing file and on a free name (access.BeginUpload).
LEMMA TypeUploads ==
  ASSUME TypeInv
  PROVE  /\ \A f \in Files, total \in UploadSizes : UploadExisting(f, total) => TypeInv'
         /\ \A total \in UploadSizes : UploadNew(total) => TypeInv'
  <1>1. ASSUME NEW f \in Files, NEW total \in UploadSizes, UploadExisting(f, total)
        PROVE  TypeInv'
    <2>1. files[f].snapshot \in 0..MaxRoots
      BY TypeParts DEF FileType
    <2>2. /\ BeginUpload(f, files[f].snapshot, total)
          /\ seq' = [seq EXCEPT !.op = seq.op + 1, !.lock = seq.lock + 1]
      BY <1>1 DEF UploadExisting
    <2> QED BY <2>1, <2>2, TypeBeginUpload
  <1>2. ASSUME NEW total \in UploadSizes, UploadNew(total)
        PROVE  TypeInv'
    <2>1. /\ seq.file < MaxFiles
          /\ BeginUpload(seq.file + 1, 0, total)
          /\ seq' = [seq EXCEPT !.file = seq.file + 1, !.op = seq.op + 1, !.lock = seq.lock + 1]
      BY <1>2 DEF UploadNew
    <2>2. seq.file + 1 \in Files /\ 0 \in 0..MaxRoots
      BY <2>1, TypeParts, NextIdentifier, Constants
    <2> QED BY <2>1, <2>2, TypeBeginUpload
  <1> QED BY <1>1, <1>2

\* Renewal of an upload and of its lock (access.RenewUpload).
LEMMA TypeRenewUpload ==
  ASSUME TypeInv, NEW o \in Ops, RenewUpload(o)
  PROVE  TypeInv'
  <1> DEFINE ttl == Minimum(UploadTTL, ops[o].max)
  <1>1. /\ ops' = [ops EXCEPT ![o].expires = ttl]
        /\ locks' = [l \in Locks |->
                       IF l \in ops[o].locks THEN [locks[l] EXCEPT !.ttl = ttl] ELSE locks[l]]
        /\ UNCHANGED <<files, snapshots, handles, reads, seq>>
    BY DEF RenewUpload
  <1>2. ttl \in Nat
    BY TypeParts, TimeType, Constants DEF Op
  <1> HIDE DEF ttl
  <1>3. ops' \in [Ops -> Op]
    BY <1>1, <1>2, TypeParts, UpdateType
  <1>4. locks' \in [Locks -> Lock]
    BY <1>1, <1>2, TypeParts, UpdateType
  <1>5. OpRefs'
    BY <1>1, TypeParts, OpRefsKept
  <1>6. FileRefs' /\ HandleRefs'
    BY <1>1, FileRefsKept, HandleRefsKept
  <1> QED BY <1>1, <1>3, <1>4, <1>5, <1>6, TypeParts, TypeWhole

\* CommitUpload publishes a whole new content (commands.CommitUpload).
LEMMA TypeCommitUpload ==
  ASSUME TypeInv, NEW o \in Ops, CommitUpload(o)
  PROVE  TypeInv'
  <1> DEFINE f == ops[o].file
             root == seq.root + 1
             version == IF ops[o].root = 0 THEN 1 ELSE snapshots[ops[o].root].version + 1
             snapshot == [epoch |-> ops[o].epoch, version |-> version, size |-> ops[o].total,
                          blocks |-> [i \in Indices |-> IF i \in ops[o].touched THEN o ELSE 0]]
  <1>1. /\ UploadOperation(o) /\ seq.root < MaxRoots
        /\ Publish(f, root, snapshot)
        /\ locks' = ReleasedLocks({o}) /\ handles' = ReleasedHandles({o})
        /\ ops' = [ops EXCEPT ![o] = Settle(ops[o], "COMMITTED")]
        /\ seq' = [seq EXCEPT !.root = root]
        /\ UNCHANGED reads
    BY DEF CommitUpload
  <1>2. ops[o] \in Op /\ f \in Files /\ root \in Roots
    <2>1. ops[o] \in Op /\ OpRefs
      BY TypeParts
    <2>2. f # 0
      BY <1>1, <2>1 DEF UploadOperation, OpRefs
    <2>3. f \in Files
      BY <2>1, <2>2, Constants DEF Op, Files
    <2> QED BY <1>1, <2>1, <2>3, TypeParts, NextIdentifier
  <1>3. snapshot \in Snapshot
    <2>1. ops[o].root # 0 => snapshots[ops[o].root] \in Snapshot
      BY <1>2, TypeParts, Constants DEF Op, Roots
    <2>2. version \in Nat
      BY <2>1 DEF Snapshot
    <2>3. /\ [i \in Indices |-> IF i \in ops[o].touched THEN o ELSE 0] \in [Indices -> 0..MaxOps]
          /\ ops[o].epoch \in Nat /\ ops[o].total \in 0..MaxSize
      BY <1>2, Constants DEF Op, Ops
    <2> HIDE DEF version
    <2> QED BY <2>2, <2>3 DEF Snapshot
  <1>4. ops' = [x \in Ops |-> IF x \in {o} THEN Settle(ops[x], "COMMITTED") ELSE ops[x]]
    BY <1>1, TypeParts
  <1>5. /\ ops' \in [Ops -> Op]
        /\ \A x \in Ops : ops'[x].state = "PREPARING" => ops'[x] = ops[x]
    BY <1>4, SettleOps DEF States
  <1>6. locks' \in [Locks -> Lock] /\ handles' \in [Handles -> Handle]
    BY <1>1, ReleasedType DEF TypeInv
  <1>7. HandleRefs'
    BY <1>1, ReleasedRefs, HandleRefsKept
  <1> HIDE DEF snapshot, root
  <1>8. /\ files' \in [Files -> FileType] /\ snapshots' \in [Roots -> Snapshot] /\ FileRefs'
        /\ \A g \in Files : files[g].snapshot # 0 => files'[g].snapshot # 0
    BY <1>1, <1>2, <1>3, PublishType
  <1>9. OpRefs'
    BY <1>5, <1>8, OpRefsKept
  <1>10. seq' \in Counters
    BY <1>1, <1>2, TypeParts, CountersType
  <1> QED BY <1>1, <1>5, <1>6, <1>7, <1>8, <1>9, <1>10, TypeParts, TypeWhole

\* Removal, failures and maintenance keep the records well formed.
LEMMA TypeRemove ==
  ASSUME TypeInv, NEW f \in Files, Remove(f)
  PROVE  TypeInv'
  <1> DEFINE doomed == {o \in Ops : ops[o].file = f /\ ops[o].state = "PREPARING"}
  <1>1. /\ files' = [files EXCEPT ![f].alive = FALSE]
        /\ ops' = [o \in Ops |-> IF o \in doomed THEN Settle(ops[o], "ABORTED") ELSE ops[o]]
        /\ \E S : locks' = ReleasedLocks(S) /\ handles' = ReleasedHandles(S)
        /\ UNCHANGED <<snapshots, reads, seq>>
    BY DEF Remove
  <1> HIDE DEF doomed
  <1>2. files' \in [Files -> FileType] /\ FileRefs'
    BY <1>1, TypeParts DEF FileType, FileRefs
  <1>3. \A g \in Files : files[g].snapshot # 0 => files'[g].snapshot # 0
    BY <1>1, TypeParts DEF FileType
  <1>4. /\ ops' \in [Ops -> Op]
        /\ \A x \in Ops : ops'[x].state = "PREPARING" => ops'[x] = ops[x]
    BY <1>1, SettleOps DEF States
  <1>5. OpRefs'
    BY <1>3, <1>4, OpRefsKept
  <1>6. locks' \in [Locks -> Lock] /\ handles' \in [Handles -> Handle]
    BY <1>1, ReleasedType DEF TypeInv
  <1>7. HandleRefs'
    BY <1>1, ReleasedRefs, HandleRefsKept
  <1> QED BY <1>1, <1>2, <1>4, <1>5, <1>6, <1>7, TypeParts, TypeWhole

\* The reboot of a DataNode aborts operations and touches nothing else
\* (distributed.RegisterNode).
LEMMA TypeReboot ==
  ASSUME TypeInv, NEW S \in SUBSET Ops, DataNodeReboot(S)
  PROVE  TypeInv'
  <1>1. /\ ops' = [o \in Ops |-> IF o \in S THEN Settle(ops[o], "ABORTED") ELSE ops[o]]
        /\ UNCHANGED <<files, snapshots, handles, locks, reads, seq>>
    BY DEF DataNodeReboot
  <1>2. /\ ops' \in [Ops -> Op]
        /\ \A x \in Ops : ops'[x].state = "PREPARING" => ops'[x] = ops[x]
    BY <1>1, SettleOps DEF States
  <1>3. FileRefs' /\ HandleRefs' /\ OpRefs'
    BY <1>1, <1>2, FileRefsKept, HandleRefsKept, OpRefsKept
  <1> QED BY <1>1, <1>2, <1>3, TypeParts, TypeWhole

\* Pruning keeps the stored snapshots well formed.
LEMMA PrunedType ==
  ASSUME TypeInv, NEW pins
  PROVE  Pruned(pins) \in [Roots -> Snapshot]
  BY TypeParts, EmptyType DEF Pruned

\* A shut handle is closed.
LEMMA ShutRefs == \A handle \in Handle : Shut(handle).closed
  BY DEF Shut, Handle

\* collect() gives outcomes, releases, closes handles and prunes snapshots
\* (monolith.collect).
LEMMA TypeCollect ==
  ASSUME TypeInv, Collect
  PROVE  TypeInv'
  <1>1. /\ \A o \in Ops : ops'[o] \in {ops[o], Settle(ops[o], "EXPIRED")}
        /\ \E f : ops' = [o \in Ops |-> f[o]]
        /\ \E S : /\ locks' = ReleasedLocks(S)
                 /\ handles' = [h \in Handles |-> IF LiveHandle(h) THEN ReleasedHandles(S)[h]
                                                  ELSE Shut(ReleasedHandles(S)[h])]
        /\ snapshots' = Pruned(Pins(Handles))
        /\ UNCHANGED <<files, reads, seq>>
    BY DEF Collect
  <1>2. \A o \in Ops : ops[o] \in Op /\ Settle(ops[o], "EXPIRED") \in Op
                       /\ Settle(ops[o], "EXPIRED").state = "EXPIRED"
    <2>1. \A op \in Op : Settle(op, "EXPIRED").state = "EXPIRED"
      BY DEF Settle, Op
    <2>2. \A op \in Op : Settle(op, "EXPIRED") \in Op
      BY SettleType DEF States
    <2> QED BY <2>1, <2>2, TypeParts
  <1>3. ops' \in [Ops -> Op]
    BY <1>1, <1>2
  <1>4. OpRefs'
    BY <1>1, <1>2, OpRefsKept
  <1>5. PICK S : /\ locks' = ReleasedLocks(S)
                 /\ handles' = [h \in Handles |-> IF LiveHandle(h) THEN ReleasedHandles(S)[h]
                                                  ELSE Shut(ReleasedHandles(S)[h])]
    BY <1>1
  <1>6. locks' \in [Locks -> Lock] /\ ReleasedHandles(S) \in [Handles -> Handle]
    BY <1>5, ReleasedType DEF TypeInv
  <1>7. handles' \in [Handles -> Handle]
    BY <1>5, <1>6, SettleType
  <1>8. HandleRefs'
    BY <1>5, <1>6, ShutRefs, ReleasedRefs, HandleRefsKept
  <1>9. FileRefs'
    BY <1>1, FileRefsKept
  <1>10. snapshots' \in [Roots -> Snapshot]
    BY <1>1, PrunedType
  <1> QED BY <1>1, <1>3, <1>4, <1>6, <1>7, <1>8, <1>9, <1>10, TypeParts, TypeWhole

\* A restart aborts what was being prepared and starts without locks or handles.
LEMMA TypeRestart ==
  ASSUME TypeInv, ControlRestart
  PROVE  TypeInv'
  <1> DEFINE S == {o \in Ops : ops[o].state = "PREPARING"}
  <1>1. /\ ops' = [o \in Ops |-> IF o \in S THEN Settle(ops[o], "ABORTED") ELSE ops[o]]
        /\ snapshots' = Pruned(Pins(Handles))
        /\ handles' = [h \in Handles |-> Shut(handles[h])]
        /\ locks' = [l \in Locks |-> NoLock]
        /\ UNCHANGED <<files, reads, seq>>
    BY DEF ControlRestart
  <1> HIDE DEF S
  <1>2. /\ ops' \in [Ops -> Op]
        /\ \A x \in Ops : ops'[x].state = "PREPARING" => ops'[x] = ops[x]
    BY <1>1, SettleOps DEF States
  <1>3. handles' \in [Handles -> Handle]
    BY <1>1, TypeParts, SettleType
  <1>4. HandleRefs'
    BY <1>1, TypeParts, ShutRefs, HandleRefsKept
  <1>5. FileRefs' /\ OpRefs'
    BY <1>1, <1>2, FileRefsKept, OpRefsKept
  <1>6. snapshots' \in [Roots -> Snapshot] /\ locks' \in [Locks -> Lock]
    BY <1>1, PrunedType, EmptyType
  <1> QED BY <1>1, <1>2, <1>3, <1>4, <1>5, <1>6, TypeParts, TypeWhole

\* The passing of time only shortens leases.
LEMMA TypeTicks ==
  ASSUME TypeInv, TickLease \/ TickWall
  PROVE  TypeInv'
  <1>1. CASE TickLease
    <2>1. /\ locks' = [l \in Locks |-> [locks[l] EXCEPT !.ttl = Less(locks[l].ttl)]]
          /\ handles' = [h \in Handles |-> [handles[h] EXCEPT !.ttl = Less(handles[h].ttl),
                                                              !.max = Less(handles[h].max)]]
          /\ UNCHANGED <<files, snapshots, ops, reads, seq>>
      BY <1>1 DEF TickLease
    <2>2. \A l \in Locks : locks[l] \in Lock /\ Less(locks[l].ttl) \in Nat
      BY TypeParts, TimeType DEF Lock
    <2>3. \A h \in Handles : /\ handles[h] \in Handle
                             /\ Less(handles[h].ttl) \in Nat /\ Less(handles[h].max) \in Nat
      BY TypeParts, TimeType DEF Handle
    <2>4. locks' \in [Locks -> Lock]
      BY <2>1, <2>2, UpdateType
    <2>5. handles' \in [Handles -> Handle]
      BY <2>1, <2>3, UpdateType
    <2>6. HandleRefs'
      BY <2>1, <2>3, HandleRefsKept DEF Handle
    <2>7. FileRefs' /\ OpRefs'
      BY <2>1, FileRefsKept, OpRefsKept
    <2> QED BY <2>1, <2>4, <2>5, <2>6, <2>7, TypeParts, TypeWhole
  <1>2. CASE TickWall
    <2>1. /\ ops' = [o \in Ops |-> [ops[o] EXCEPT !.expires = Less(ops[o].expires),
                                                  !.max = Less(ops[o].max)]]
          /\ UNCHANGED <<files, snapshots, handles, locks, reads, seq>>
      BY <1>2 DEF TickWall
    <2>2. \A o \in Ops : /\ ops[o] \in Op
                         /\ Less(ops[o].expires) \in Nat /\ Less(ops[o].max) \in Nat
      BY TypeParts, TimeType DEF Op
    <2>3. ops' \in [Ops -> Op]
      BY <2>1, <2>2, UpdateType
    <2>4. OpRefs'
      BY <2>1, <2>2, OpRefsKept DEF Op
    <2>5. FileRefs' /\ HandleRefs'
      BY <2>1, FileRefsKept, HandleRefsKept
    <2> QED BY <2>1, <2>3, <2>4, <2>5, TypeParts, TypeWhole
  <1> QED BY <1>1, <1>2

-----------------------------------------------------------------------------

\* Every step keeps the records well formed.
LEMMA TypeStep == TypeInv /\ [Next]_vars => TypeInv'
  <1> SUFFICES ASSUME TypeInv, [Next]_vars PROVE TypeInv'
    OBVIOUS
  <1>1. CASE UNCHANGED vars
    BY <1>1 DEF vars, TypeInv, TypeOK, References, FileRefs, HandleRefs, OpRefs
  <1>2. ASSUME NEW f \in Files, NEW mode \in Modes, OpenExisting(f, mode) \/ OpenTruncate(f, mode)
        PROVE  TypeInv'
    BY <1>2, TypeOpenExisting, TypeOpenTruncate
  <1>3. ASSUME NEW h \in Handles,
               RenewHandle(h) \/ Close(h) \/ BeginRead(h) \/ LockWhole(h) \/ BeginEmptyWrite(h)
        PROVE  TypeInv'
    BY <1>3, TypeRenewHandle, TypeClose, TypeBeginRead, TypeAcquireLock, TypeBeginEmptyWrite
       DEF LockWhole
  <1>4. ASSUME NEW h \in Handles, NEW range \in Ranges,
               LockRange(h, range[1], range[2]) \/ BeginWrite(h, range[1], range[2])
        PROVE  TypeInv'
    BY <1>4, TypeAcquireLock, TypeBeginWrite, CoveredType DEF LockRange
  <1>5. ASSUME NEW o \in Ops,
               \/ \E i \in Indices : ReportPatch(o, i)
               \/ CommitWrite(o) \/ Abort(o)
               \/ RenewUpload(o) \/ SealManifest(o) \/ CommitUpload(o)
        PROVE  TypeInv'
    BY <1>5, TypeReport, TypeCommitWrite, TypeAbort, TypeRenewUpload, TypeCommitUpload
  <1>6. CASE Collect \/ ControlRestart \/ TickLease \/ TickWall
    BY <1>6, TypeCollect, TypeRestart, TypeTicks
  <1> QED BY <1>1, <1>2, <1>3, <1>4, <1>5, <1>6, TypeOpenCreate, TypeEndRead, TypeLocks,
             TypeUploads, TypeRemove, TypeReboot DEF Next

\* Every record keeps its shape, whatever the handlers of control/access.py do.
THEOREM TypeCorrect == Spec => []TypeOK
  <1>1. Init => TypeInv
    BY TypeInit
  <1>2. TypeInv /\ [Next]_vars => TypeInv'
    BY TypeStep
  <1>3. TypeInv => TypeOK
    BY DEF TypeInv
  <1> QED BY <1>1, <1>2, <1>3, PTL DEF Spec

-----------------------------------------------------------------------------
(* Range locks exclude each other.                                          *)

\* Lock l is live after the step only if it was live before, with the same claim.
KeepsClaim(l) ==
  locks'[l].ttl > 0 =>
    /\ locks[l].ttl > 0
    /\ locks'[l].file = locks[l].file /\ locks'[l].owner = locks[l].owner
    /\ locks'[l].indices = locks[l].indices
    /\ locks'[l].whole = locks[l].whole /\ locks'[l].size = locks[l].size

\* A step that adds at most lock n, after acquire() found no conflict, keeps exclusion.
LEMMA ExclusionKept ==
  ASSUME LockExclusion, NEW n, \A l \in Locks : l # n => KeepsClaim(l),
         n \in Locks => \A k \in Locks : ~Conflicts(k, locks'[n].file, locks'[n].owner,
                              locks'[n].indices, locks'[n].whole, locks'[n].size)
  PROVE  LockExclusion'
  <1> SUFFICES ASSUME NEW l \in Locks, NEW k \in Locks, locks'[l].ttl > 0, locks'[k].ttl > 0,
                      locks'[k].file = locks'[l].file, locks'[k].owner # locks'[l].owner,
                      \/ locks'[l].whole \/ locks'[k].whole
                      \/ locks'[l].size /\ locks'[k].size
                      \/ locks'[l].indices \cap locks'[k].indices # {}
               PROVE  FALSE
    BY DEF LockExclusion, Conflicts, LiveLock
  <1>1. CASE l # n /\ k # n
    BY <1>1 DEF KeepsClaim, LockExclusion, Conflicts, LiveLock
  <1>2. CASE l = n /\ k # n
    BY <1>2 DEF KeepsClaim, Conflicts, LiveLock
  <1>3. CASE l # n /\ k = n
    <2>1. locks'[l].indices \cap locks'[k].indices = locks'[k].indices \cap locks'[l].indices
      OBVIOUS
    <2> QED BY <1>3, <2>1 DEF KeepsClaim, Conflicts, LiveLock
  <1> QED BY <1>1, <1>2, <1>3

\* A deleted lock is not live.
LEMMA DeletedLock == ~(NoLock.ttl > 0)
  BY DEF NoLock

\* release_operation() creates no lock and changes no claim.
LEMMA ReleasedClaims ==
  ASSUME TypeInv, NEW S, locks' = ReleasedLocks(S), NEW l \in Locks
  PROVE  KeepsClaim(l)
  <1>1. locks[l] \in Lock
    BY TypeParts
  <1>2. \/ locks'[l] = NoLock
        \/ \E A : locks'[l] = [locks[l] EXCEPT !.active = A]
        \/ locks'[l] = locks[l]
    BY DEF ReleasedLocks
  <1>3. CASE locks'[l] = NoLock
    BY <1>3, DeletedLock DEF KeepsClaim
  <1>4. CASE \E A : locks'[l] = [locks[l] EXCEPT !.active = A]
    BY <1>1, <1>4 DEF KeepsClaim, Lock
  <1>5. CASE locks'[l] = locks[l]
    BY <1>5 DEF KeepsClaim
  <1> QED BY <1>2, <1>3, <1>4, <1>5

\* Each step keeps the live locks of one file compatible.
LEMMA ExclusionStep == TypeInv /\ LockExclusion /\ [Next]_vars => LockExclusion'
  <1> SUFFICES ASSUME TypeInv, LockExclusion, [Next]_vars PROVE LockExclusion'
    OBVIOUS
  <1>0. 0 \notin Locks
    BY Constants DEF Locks
  <1>1. ASSUME \A l \in Locks : KeepsClaim(l) PROVE LockExclusion'
    BY <1>0, <1>1, ExclusionKept
  <1>2. ASSUME UNCHANGED locks PROVE LockExclusion'
    BY <1>2 DEF LockExclusion, Conflicts, LiveLock
  <1>3. ASSUME NEW S, locks' = ReleasedLocks(S) PROVE LockExclusion'
    BY <1>1, <1>3, ReleasedClaims
  <1>4. ASSUME NEW h \in Handles, Close(h) PROVE LockExclusion'
    <2>1. locks' = [l \in Locks |-> IF locks[l].owner = HandleOwner(h) THEN NoLock ELSE locks[l]]
      BY <1>4 DEF Close
    <2>2. \A l \in Locks : KeepsClaim(l)
      BY <2>1, DeletedLock DEF KeepsClaim
    <2> QED BY <1>1, <2>2
  <1>5. ASSUME NEW h \in Handles, NEW indices \in SUBSET Indices, NEW whole \in BOOLEAN,
               AcquireLock(h, indices, whole)
        PROVE  LockExclusion'
    <2> DEFINE n == seq.lock + 1
               new == NewLock(handles[h].file, HandleOwner(h), indices, whole, whole, FALSE, {}, LockTTL)
    <2>1. /\ CanAcquire(handles[h].file, HandleOwner(h), indices, whole, whole)
          /\ locks' = [locks EXCEPT ![n] = new]
      BY <1>5 DEF AcquireLock
    <2>2. locks \in [Locks -> Lock]
      BY TypeParts
    <2> HIDE DEF n
    <2>3. \A l \in Locks : l # n => KeepsClaim(l)
      BY <2>1, <2>2 DEF KeepsClaim
    <2>4. n \in Locks => /\ locks'[n].file = handles[h].file /\ locks'[n].owner = HandleOwner(h)
                         /\ locks'[n].indices = indices /\ locks'[n].whole = whole
                         /\ locks'[n].size = whole
      BY <2>1, <2>2 DEF NewLock
    <2> QED BY <2>1, <2>3, <2>4, ExclusionKept DEF CanAcquire
  <1>6. ASSUME NEW l \in Locks, RenewLock(l) \/ Unlock(l) PROVE LockExclusion'
    <2>1. \A k \in Locks : KeepsClaim(k)
      <3>1. locks \in [Locks -> Lock] /\ locks[l] \in Lock
        BY TypeParts
      <3>2. CASE RenewLock(l)
        <4>1. locks[l].ttl > 0 /\ locks' = [locks EXCEPT ![l].ttl = LockTTL]
          BY <3>2 DEF RenewLock, Valid, LiveLock
        <4> QED BY <3>1, <4>1 DEF KeepsClaim, Lock
      <3>3. CASE Unlock(l)
        <4>1. locks' = [locks EXCEPT ![l] = NoLock]
          BY <3>3 DEF Unlock
        <4> QED BY <3>1, <4>1, DeletedLock DEF KeepsClaim
      <3> QED BY <1>6, <3>2, <3>3
    <2> QED BY <1>1, <2>1
  <1>7. ASSUME NEW h \in Handles, NEW range \in Ranges, BeginWrite(h, range[1], range[2])
        PROVE  LockExclusion'
    <2> DEFINE n == seq.lock + 1
               o == seq.op + 1
               f == handles[h].file
               touched == Covered(range[1], range[2])
               own == OwnLocks(h)
               missing == {i \in touched : \A k \in own : ~locks[k].whole /\ i \notin locks[k].indices}
               needSize == /\ range[1] + range[2] > snapshots[handles[h].snapshot].size
                           /\ \A k \in own : ~locks[k].size
               extra == IF missing # {} \/ needSize THEN {n} ELSE {}
    <2>1.   /\ extra \in {{}, {n}}
            /\ extra # {} => CanAcquire(f, HandleOwner(h), missing, FALSE, needSize)
            /\ locks' = [k \in Locks |->
                 IF k \in extra
                 THEN NewLock(f, HandleOwner(h), missing, FALSE, needSize, TRUE, {o}, LockTTL)
                 ELSE IF k \in own THEN [locks[k] EXCEPT !.active = locks[k].active \cup {o}]
                 ELSE locks[k]]
      BY <1>7 DEF BeginWrite
    <2>2. \A k \in Locks : locks[k] \in Lock
      BY TypeParts
    <2> HIDE DEF n, o, f, touched, own, missing, needSize, extra
    <2>3. \A k \in Locks : k \notin extra => KeepsClaim(k)
      BY <2>1, <2>2 DEF KeepsClaim, Lock
    <2>4. CASE extra = {}
      BY <1>1, <2>3, <2>4
    <2>5. CASE extra = {n}
      <3>1. n \in Locks => /\ locks'[n].file = f /\ locks'[n].owner = HandleOwner(h)
                           /\ locks'[n].indices = missing /\ locks'[n].whole = FALSE
                           /\ locks'[n].size = needSize
        BY <2>1, <2>5 DEF NewLock
      <3>2. \A k \in Locks : k # n => KeepsClaim(k)
        BY <2>3, <2>5
      <3>3. n \in Locks => \A k \in Locks : ~Conflicts(k, locks'[n].file, locks'[n].owner,
                              locks'[n].indices, locks'[n].whole, locks'[n].size)
        BY <2>1, <2>5, <3>1 DEF CanAcquire
      <3> QED BY <3>2, <3>3, ExclusionKept
    <2> QED BY <2>1, <2>4, <2>5
  <1>8. ASSUME NEW f, NEW base, NEW total, BeginUpload(f, base, total) PROVE LockExclusion'
    <2> DEFINE n == seq.lock + 1
               o == seq.op + 1
               new == NewLock(f, OpOwner(o), {}, TRUE, TRUE, TRUE, {o}, UploadTTL)
    <2>1. CanAcquire(f, OpOwner(o), {}, TRUE, TRUE) /\ locks' = [locks EXCEPT ![n] = new]
      BY <1>8 DEF BeginUpload
    <2>2. locks \in [Locks -> Lock]
      BY TypeParts
    <2> HIDE DEF n, o
    <2>3. \A l \in Locks : l # n => KeepsClaim(l)
      BY <2>1, <2>2 DEF KeepsClaim
    <2>4. n \in Locks => /\ locks'[n].file = f /\ locks'[n].owner = OpOwner(o)
                         /\ locks'[n].indices = {} /\ locks'[n].whole = TRUE
                         /\ locks'[n].size = TRUE
      BY <2>1, <2>2 DEF NewLock
    <2> QED BY <2>1, <2>3, <2>4, ExclusionKept DEF CanAcquire
  <1>9. ASSUME NEW o \in Ops, RenewUpload(o) PROVE LockExclusion'
    <2> DEFINE ttl == Minimum(UploadTTL, ops[o].max)
    <2>1. /\ \A l \in ops[o].locks : locks[l].ttl > 0
          /\ locks' = [l \in Locks |->
                IF l \in ops[o].locks THEN [locks[l] EXCEPT !.ttl = ttl] ELSE locks[l]]
      BY <1>9 DEF RenewUpload, UploadOperation, Valid, LiveLock
    <2>2. \A l \in Locks : locks[l] \in Lock
      BY TypeParts
    <2> HIDE DEF ttl
    <2>3. \A l \in Locks : KeepsClaim(l)
      BY <2>1, <2>2 DEF KeepsClaim, Lock
    <2> QED BY <1>1, <2>3
  <1>10. CASE ControlRestart
    <2>1. locks' = [l \in Locks |-> NoLock]
      BY <1>10 DEF ControlRestart
    <2>2. \A l \in Locks : KeepsClaim(l)
      BY <2>1, DeletedLock DEF KeepsClaim
    <2> QED BY <1>1, <2>2
  <1>11. CASE TickLease
    <2>1. locks' = [l \in Locks |-> [locks[l] EXCEPT !.ttl = Less(locks[l].ttl)]]
      BY <1>11 DEF TickLease
    <2>2. \A l \in Locks : locks[l] \in Lock /\ (Less(locks[l].ttl) > 0 => locks[l].ttl > 0)
      BY TypeParts DEF Lock, Less
    <2>3. \A l \in Locks : KeepsClaim(l)
      BY <2>1, <2>2 DEF KeepsClaim, Lock
    <2> QED BY <1>1, <2>3
  <1>12. ASSUME NEW f \in Files, NEW mode \in Modes, OpenExisting(f, mode) \/ OpenTruncate(f, mode)
         PROVE  LockExclusion'
    BY <1>2, <1>12 DEF OpenExisting, OpenTruncate
  <1>13. ASSUME NEW h \in Handles,
                RenewHandle(h) \/ Close(h) \/ BeginRead(h) \/ LockWhole(h) \/ BeginEmptyWrite(h)
         PROVE  LockExclusion'
    BY <1>2, <1>4, <1>5, <1>13 DEF RenewHandle, BeginRead, LockWhole, BeginEmptyWrite
  <1>14. ASSUME NEW h \in Handles, NEW range \in Ranges,
                LockRange(h, range[1], range[2]) \/ BeginWrite(h, range[1], range[2])
         PROVE  LockExclusion'
    BY <1>5, <1>7, <1>14, CoveredType DEF LockRange
  <1>15. ASSUME NEW o \in Ops,
               \/ \E i \in Indices : ReportPatch(o, i)
               \/ CommitWrite(o) \/ Abort(o)
               \/ RenewUpload(o) \/ SealManifest(o) \/ CommitUpload(o)
        PROVE  LockExclusion'
    BY <1>2, <1>3, <1>9, <1>15 DEF ReportPatch, CommitWrite, Abort, SealManifest, CommitUpload
  <1>16. ASSUME \/ \E mode \in Modes : OpenCreate(mode)
                \/ \E r \in Reads : EndRead(r)
                \/ \E S \in SUBSET Ops : DataNodeReboot(S)
                \/ TickWall \/ UNCHANGED vars
         PROVE  LockExclusion'
    BY <1>2, <1>16 DEF OpenCreate, EndRead, DataNodeReboot, TickWall, vars
  <1>17. ASSUME \/ \E f \in Files, total \in UploadSizes : UploadExisting(f, total)
                \/ \E total \in UploadSizes : UploadNew(total)
         PROVE  LockExclusion'
    BY <1>8, <1>17 DEF UploadExisting, UploadNew
  <1>18. ASSUME Collect \/ \E f \in Files : Remove(f) PROVE LockExclusion'
    BY <1>3, <1>18 DEF Collect, Remove
  <1> QED BY <1>6, <1>10, <1>11, <1>12, <1>13, <1>14, <1>15, <1>16, <1>17, <1>18 DEF Next

\* Live locks of different owners never conflict: two handles, or a handle and an
\* upload, never both hold the right to change one block, the size, or the file.
THEOREM Exclusion == Spec => []LockExclusion
  <1>1. Init => TypeInv /\ LockExclusion
    BY TypeInit DEF Init, LockExclusion, LiveLock, NoLock
  <1>2. TypeInv /\ LockExclusion /\ [Next]_vars => TypeInv' /\ LockExclusion'
    BY TypeStep, ExclusionStep
  <1> QED BY <1>1, <1>2, PTL DEF Spec
=============================================================================
