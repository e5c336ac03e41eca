----------------------------- MODULE MetaUnit ------------------------------
(***************************************************************************)
(* A unit of work on the metadata, in both stores.  In etcd (EtcdUnit) it    *)
(* is a root read at the start, an overlay of what the unit has put and      *)
(* deleted, and the leases that go with some records, published by one       *)
(* transaction; in SQLite (SQLiteUnit) it is a transaction on a table, which *)
(* says what a unit promises.  The code above calls both in the same way, so *)
(* each unit runs here on the two of them side by side.                      *)
(*                                                                           *)
(* The identities of the model fall into one shard of their kind.  How the   *)
(* publication is sent, lost and repeated is MetadataGate; the pages behind  *)
(* the root are PageStore.                                                   *)
(***************************************************************************)
EXTENDS Integers, FiniteSets, Functions

CONSTANTS
  Plain,       \* records without a lease (a node of the tree, a snapshot, ...)
  Handles,     \* handles, locks and sessions: opened once, renewed, closed
  Registered,  \* DataNodes: registered again and again
  Threads,     \* threads with a unit of work
  MaxUnits,    \* units of work
  MaxUnitOps,  \* calls in a unit
  MaxLeases,   \* leases granted
  MaxGuards    \* lease keys that a publication may compare, or change

Leased == Handles \cup Registered

\* A record is of one kind with a lease or without, and each of those that have one has its
\* own at the start.
ASSUME UnitAssumption ==
  /\ {MaxUnits, MaxUnitOps, MaxLeases, MaxGuards} \subseteq Nat
  /\ Plain \cap Leased = {} /\ IsFiniteSet(Leased) /\ Cardinality(Leased) <= MaxLeases

Ids == Plain \cup Leased
Kinds == {"plain", "handle", "datanode"}
KindOf(i) == IF i \in Plain THEN "plain" ELSE IF i \in Handles THEN "handle" ELSE "datanode"

\* What is told apart of a record: the owner of its lease key (0: none), whether it is closed
\* (of a plain one: which of two contents it has), and its deadline.
LeaseRecord(owner, closed, deadline) == [owner |-> owner, closed |-> closed, deadline |-> deadline]
NoRecord == LeaseRecord(0, FALSE, -1)
MetaRecords == [owner : 0..MaxLeases, closed : BOOLEAN, deadline : -1..1]

VARIABLES
  metaRoot,    \* the root in etcd: of each kind, the identities in its page and their records
  metaRev,     \* its revision
  unitGate,    \* the unit that has the gate, or 0
  leaseKeys,   \* the owner in the lease key of each record, or 0
  alive,       \* leases that have not run out
  granted,     \* leases granted
  begun,       \* units begun
  work,        \* the unit of each thread
  rows         \* the table of SQLite

unitVars == <<metaRoot, metaRev, unitGate, leaseKeys, alive, granted, begun, work, rows>>

\* A unit of work: its number, the root it has read, what it has put or deleted, the lease keys
\* it has read, those that must not change, those it changes; and the table as it has left it.
NoUnit == [number |-> 0, base |-> [k \in Kinds |-> <<>>], rev |-> 0, pending |-> <<>>, reads |-> <<>>,
           guards |-> <<>>, effects |-> <<>>, ops |-> 0, table |-> [i \in Ids |-> NoRecord]]

PartialTo(S) == UNION {[d -> S] : d \in SUBSET Leased}
UnitTypeOK ==
  /\ metaRev \in 0..MaxUnits /\ unitGate \in 0..MaxUnits /\ begun \in 0..MaxUnits
  /\ leaseKeys \in [Leased -> 0..MaxLeases] /\ alive \subseteq 1..MaxLeases /\ granted \in 0..MaxLeases
  /\ rows \in [Ids -> MetaRecords]
  /\ \A w \in Threads :
       /\ work[w].number \in 0..MaxUnits /\ work[w].ops \in 0..MaxUnitOps
       /\ work[w].reads \in PartialTo(0..MaxLeases) /\ work[w].effects \in PartialTo(0..MaxLeases)
       /\ work[w].guards \in PartialTo(1..MaxLeases)
       /\ Range(work[w].pending) \subseteq MetaRecords /\ DOMAIN work[w].pending \subseteq Ids

\* An earlier unit has put the records that have a lease, each with its own.
FirstLeases == CHOOSE f \in [Leased -> 1..Cardinality(Leased)] : IsInjective(f)
FirstRows == [i \in Ids |-> IF i \in Leased THEN LeaseRecord(FirstLeases[i], FALSE, 0) ELSE NoRecord]

UnitInit ==
  /\ metaRoot = [k \in Kinds |-> [i \in {j \in Leased : KindOf(j) = k} |-> FirstRows[i]]]
  /\ rows = FirstRows
  /\ leaseKeys = FirstLeases /\ alive = Range(FirstLeases) /\ granted = Cardinality(Leased)
  /\ metaRev = 0 /\ unitGate = 0 /\ begun = 0
  /\ work = [w \in Threads |-> NoUnit]

-----------------------------------------------------------------------------
(* What a unit reads.                                                       *)

Bucket(u, kind) == u.base[kind]

\* A dictionary with an item set.
Entered(d, i, value) == [j \in DOMAIN d \cup {i} |-> IF j = i THEN value ELSE d[j]]

\* Mutant: what the unit has changed itself is not seen by it.
GetPublished(u, i) ==
  IF i \in DOMAIN Bucket(u, KindOf(i)) THEN Bucket(u, KindOf(i))[i] ELSE NoRecord
\* EtcdUnit.get: what is pending, or else what the root had.
Get(u, i) ==
  IF i \in DOMAIN u.pending THEN u.pending[i]
  ELSE IF i \in DOMAIN Bucket(u, KindOf(i)) THEN Bucket(u, KindOf(i))[i]
  ELSE NoRecord

\* EtcdUnit.all
All(u, kind) ==
  {i \in DOMAIN Bucket(u, kind) \cup {j \in DOMAIN u.pending : KindOf(j) = kind} : Get(u, i) # NoRecord}

\* SQLiteUnit.get and all
RowGet(u, i) == u.table[i]
RowAll(u, kind) == {i \in Ids : KindOf(i) = kind /\ u.table[i] # NoRecord}

\* lease_live: a key that the unit is to put, one it has read before, or the one in etcd.
OwnPut(u, i) == i \in DOMAIN u.effects /\ u.effects[i] # 0
LiveIn(u, i, owner) ==
  /\ owner # 0
  /\ IF OwnPut(u, i) THEN u.effects[i] = owner
     ELSE (IF i \in DOMAIN u.reads THEN u.reads[i] ELSE leaseKeys[i]) = owner

\* What lease_live leaves behind: the key as it was read, and a guard if it was the owner's.
AskedFor(u, i, owner) ==
  IF owner = 0 \/ OwnPut(u, i) THEN u
  ELSE [u EXCEPT !.reads = IF i \in DOMAIN @ THEN @ ELSE Entered(@, i, leaseKeys[i]),
                 !.guards = IF LiveIn(u, i, owner) /\ i \notin DOMAIN @ THEN Entered(@, i, owner) ELSE @]

-----------------------------------------------------------------------------
(* The calls of a unit.                                                     *)

BeginUnit(w) ==
  /\ work[w].number = 0 /\ unitGate = 0 /\ begun < MaxUnits
  /\ begun' = begun + 1 /\ unitGate' = begun'
  /\ work' = [work EXCEPT ![w] = [NoUnit EXCEPT !.number = begun', !.base = metaRoot, !.rev = metaRev,
                                                !.table = rows]]
  /\ UNCHANGED <<metaRoot, metaRev, leaseKeys, alive, granted, rows>>

Active(w) == work[w].number # 0 /\ work[w].ops < MaxUnitOps

\* put, in both: the record is pending, and is in the row.
Keep(u, i, record) ==
  [u EXCEPT !.pending = Entered(@, i, record), !.table[i] = record, !.ops = @ + 1]

\* A lease is granted at once, whatever becomes of the unit; its key is put by the publication.
KeepWithLease(w, u, i, closed, deadline) ==
  /\ granted < MaxLeases
  /\ granted' = granted + 1 /\ alive' = alive \cup {granted'}
  /\ work' = [work EXCEPT ![w] = [Keep(u, i, LeaseRecord(granted', closed, deadline))
                                    EXCEPT !.effects = Entered(@, i, granted')]]

PutPlain(w, i, closed) ==
  /\ Active(w)
  /\ work' = [work EXCEPT ![w] = Keep(work[w], i, LeaseRecord(0, closed, 0))]
  /\ UNCHANGED <<metaRoot, metaRev, unitGate, leaseKeys, alive, granted, begun, rows>>

\* A handle, a lock or a session that is new.
PutNew(w, i) ==
  /\ Active(w) /\ Get(work[w], i) = NoRecord
  /\ KeepWithLease(w, work[w], i, FALSE, 0)
  /\ UNCHANGED <<metaRoot, metaRev, unitGate, leaseKeys, begun, rows>>

\* The keepalive of a lease that has run out fails.
CanRenew(w, i, owner) == LiveIn(work[w], i, owner) /\ owner \in alive

\* Its deadline is put off: only while its lease is live, and the lease is renewed.
PutRenewed(w, i) ==
  LET old == Get(work[w], i)
  IN /\ Active(w) /\ old # NoRecord /\ ~old.closed /\ old.deadline = 0
     /\ CanRenew(w, i, old.owner)
     /\ work' = [work EXCEPT ![w] = Keep(AskedFor(work[w], i, old.owner), i, LeaseRecord(old.owner, FALSE, 1))]
     /\ UNCHANGED <<metaRoot, metaRev, unitGate, leaseKeys, alive, granted, begun, rows>>

\* It is closed or revoked: the lease and its key are left to run out.
PutClosed(w, i) ==
  LET old == Get(work[w], i)
  IN /\ Active(w) /\ old # NoRecord /\ ~old.closed
     /\ work' = [work EXCEPT ![w] = Keep(work[w], i, [old EXCEPT !.closed = TRUE])]
     /\ UNCHANGED <<metaRoot, metaRev, unitGate, leaseKeys, alive, granted, begun, rows>>

\* A DataNode: its deadline is put off each time, and it has a new lease when the last has gone.
PutNode(w, i) ==
  LET old   == Get(work[w], i)
      asked == AskedFor(work[w], i, old.owner)
  IN /\ Active(w)
     /\ IF LiveIn(work[w], i, old.owner)
        THEN /\ old.owner \in alive
             /\ work' = [work EXCEPT ![w] = Keep(asked, i, LeaseRecord(old.owner, FALSE, 1))]
             /\ UNCHANGED <<alive, granted>>
        ELSE KeepWithLease(w, asked, i, FALSE, 1)
     /\ UNCHANGED <<metaRoot, metaRev, unitGate, leaseKeys, begun, rows>>

\* delete, in both: the lease key of what was there goes too.
Delete(w, i) ==
  LET old == Get(work[w], i)
      u   == Keep(work[w], i, NoRecord)
  IN /\ Active(w)
     /\ work' = [work EXCEPT ![w] = IF old.owner = 0 THEN u ELSE [u EXCEPT !.effects = Entered(@, i, 0)]]
     /\ UNCHANGED <<metaRoot, metaRev, unitGate, leaseKeys, alive, granted, begun, rows>>

-----------------------------------------------------------------------------
(* The end of a unit.                                                       *)

\* flush: the page of each kind, with what is pending put in it and taken out of it.
Flush(u) ==
  [k \in Kinds |->
     LET mine == {i \in DOMAIN u.pending : KindOf(i) = k}
         kept == (DOMAIN Bucket(u, k) \cup mine) \ {i \in mine : u.pending[i] = NoRecord}
     IN [i \in kept |-> IF i \in mine THEN u.pending[i] ELSE Bucket(u, k)[i]]]

\* The compares of the publication, and the leases of the keys it puts, which etcd must know.
Publishable(u) ==
  /\ unitGate = u.number /\ metaRev = u.rev
  /\ Cardinality(DOMAIN u.guards) <= MaxGuards /\ Cardinality(DOMAIN u.effects) <= MaxGuards
  /\ \A i \in DOMAIN u.guards : leaseKeys[i] = u.guards[i]
  /\ \A i \in DOMAIN u.effects : u.effects[i] \in alive \cup {0}

\* The root, the lease keys and the gate change at once, or nothing does; SQLite commits.
CommitUnit(w) ==
  LET u == work[w]
  IN /\ u.number # 0 /\ Publishable(u)
     /\ metaRoot' = Flush(u)
     /\ metaRev' = IF metaRoot' = metaRoot THEN metaRev ELSE metaRev + 1
     /\ leaseKeys' = [i \in Leased |-> IF i \in DOMAIN u.effects THEN u.effects[i] ELSE leaseKeys[i]]
     /\ unitGate' = 0
     /\ rows' = u.table
     /\ work' = [work EXCEPT ![w] = NoUnit]
     /\ UNCHANGED <<alive, granted, begun>>

\* A call fails (LOCK_EXPIRED, no such record, ...), or the publication is refused: nothing of
\* the unit is left but the leases it was granted; SQLite rolls back.
RollBack(w) ==
  /\ work[w].number # 0
  /\ unitGate' = IF unitGate = work[w].number THEN 0 ELSE unitGate
  /\ work' = [work EXCEPT ![w] = NoUnit]
  /\ UNCHANGED <<metaRoot, metaRev, leaseKeys, alive, granted, begun, rows>>

\* A lease runs out, and its key with it.
LeaseRunsOut(l) ==
  /\ l \in alive
  /\ alive' = alive \ {l}
  /\ leaseKeys' = [i \in Leased |-> IF leaseKeys[i] = l THEN 0 ELSE leaseKeys[i]]
  /\ UNCHANGED <<metaRoot, metaRev, unitGate, granted, begun, work, rows>>

UnitGateLapses ==
  /\ unitGate # 0
  /\ unitGate' = 0
  /\ UNCHANGED <<metaRoot, metaRev, leaseKeys, alive, granted, begun, work, rows>>

UnitNext ==
  \/ \E w \in Threads :
       \/ BeginUnit(w) \/ CommitUnit(w) \/ RollBack(w)
       \/ \E i \in Plain, closed \in BOOLEAN : PutPlain(w, i, closed)
       \/ \E i \in Handles : PutNew(w, i) \/ PutRenewed(w, i) \/ PutClosed(w, i)
       \/ \E i \in Registered : PutNode(w, i)
       \/ \E i \in Ids : Delete(w, i)
  \/ \E l \in alive : LeaseRunsOut(l)
  \/ UnitGateLapses

UnitSpec == UnitInit /\ [][UnitNext]_unitVars

-----------------------------------------------------------------------------
(* Property.                                                                *)

\* A unit of work on etcd is a transaction on a table: it reads what the same calls leave in
\* SQLite, and what it publishes is what SQLite commits; nothing of a unit that was rolled
\* back, lost its gate or found a lease gone is seen.
UnitAtomic ==
  /\ \A w \in Threads : work[w].number # 0 =>
       /\ \A i \in Ids : Get(work[w], i) = RowGet(work[w], i)
       /\ \A k \in Kinds : All(work[w], k) = RowAll(work[w], k)
  /\ \A i \in Ids : rows[i] = IF i \in DOMAIN metaRoot[KindOf(i)] THEN metaRoot[KindOf(i)][i] ELSE NoRecord

\* A lease key belongs to a record of the root, and to the owner that the record names, so that
\* a record is live only by a lease that was granted for it: also when the record was deleted
\* and made again, when its lease ran out while a unit was using it, or when the unit failed
\* after the lease was granted (EtcdUnit.put and delete, lease_live).
LeasesNamed == \A i \in Leased : leaseKeys[i] # 0 => rows[i].owner = leaseKeys[i]

\* Units of work are atomic, and so are the leases that go with their records (EtcdUnit,
\* EtcdMetadataStore.transaction).
UnitExact == UnitAtomic /\ LeasesNamed
=============================================================================
