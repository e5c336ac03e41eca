------------------------- MODULE ReplicationProofs -------------------------
(***************************************************************************)
(* What the control counts as a copy is one, and committed content          *)
(* survives: Replication for every number of nodes, tasks and faults.       *)
(*                                                                          *)
(* The control and the DataNodes know of each other only by reports that    *)
(* may be late, so most of the invariant says what is still true of a node  *)
(* when a report, a verdict or a permission of its past is used.            *)
(***************************************************************************)
EXTENDS Replication, TLAPS, FiniteSetTheorems, NaturalsInduction

-----------------------------------------------------------------------------
(* The inductive invariant.                                                 *)

\* Before the upload is allocated there is nothing of the block anywhere.
Untouched ==
  op = "none" =>
    /\ ~record /\ ~retired
    /\ \A t \in Tasks : tasks[t].kind = "none"
    /\ \A n \in Nodes : /\ put[n] = 0 /\ jobs[n] = NoJob /\ disk[n] = "none"
                        /\ stored[n] = NoReceipt /\ link[n].receipt = NoReceipt

\* The control hears of boots late, and of a boot before its inventory.
BootsOrdered ==
  \A n \in Nodes :
    /\ 1 <= registry[n].boot /\ registry[n].boot <= boot[n]
    /\ locations[n].inventory <= registry[n].boot
    /\ link[n].phase # "new" => registry[n].boot = boot[n]
    /\ link[n].phase \in {"registered", "read"} => ~registry[n].reconciled

\* Identifiers in use stand for one task for good; a copy is planned only once the
\* client's put is recorded; a copy written by a task is deleted only when the block is
\* of no use any more.
TasksSound ==
  /\ \A t \in Tasks :
       /\ tasks[t].kind = "none" =>
            outcome[t] = "NONE" /\ \A m \in requests : m.task # t
       /\ tasks[t].kind # "none" => tasks[t].dest \in Nodes
       /\ tasks[t].kind = "copy" => record \/ retired
       /\ tasks[t].expected.by \in Tasks => op = "ended" \/ retired
  /\ \A m \in requests : m.expected.by \in Tasks => op = "ended" \/ retired
  /\ \A n \in Nodes : retirement[n] # 0 => tasks[retirement[n]].kind = "delete"
  /\ record \/ retired => assigned.node \in Nodes /\ put[assigned.node] # 0

\* The copy counts, whenever its node is served from.
Counted(n) == locations[n].health = "VERIFIED" /\ locations[n].inventory = registry[n].boot

\* The file is there and recorded.
Held(n) == disk[n] # "none" /\ stored[n] # NoReceipt

\* What the pinned job of a node has done so far.
PutJob(n) ==
  jobs[n].kind = "put" =>
    /\ assigned.node = n /\ put[n] = 0
    /\ jobs[n].step \in {"pinned", "written"}
    /\ jobs[n].step = "written" => disk[n] # "none"

CopyJob(n) ==
  jobs[n].kind = "copy" =>
    LET t == jobs[n].task
    IN  /\ t \in Tasks /\ tasks[t].kind = "copy" /\ tasks[t].dest = n
        /\ boot[n] = tasks[t].dest_boot /\ outcome[t] = "ACCEPTED"
        /\ jobs[n].step \in {"pinned", "moved", "emptied", "written", "recorded"}
        /\ jobs[n].step = "written" => disk[n] # "none"
        /\ jobs[n].step = "recorded" => Held(n)
        /\ jobs[n].step \in {"moved", "emptied"} =>
             /\ disk[n] = "none" /\ ~Counted(n)
             /\ link[n].phase = "read" => link[n].receipt = NoReceipt
        /\ jobs[n].step = "emptied" => stored[n] = NoReceipt

\* A deletion under way: no copy that anybody can still come to count on.
DeleteJob(n) ==
  jobs[n].kind = "delete" =>
    /\ jobs[n].task \in Tasks /\ tasks[jobs[n].task].kind = "delete"
    /\ ~Located(n) /\ ~(op = "preparing" /\ assigned.node = n)
    /\ \A t \in Tasks : tasks[t].kind = "copy" /\ tasks[t].dest = n /\ Running(t)
                          => outcome[t] # "FINISHED"
    /\ Useful /\ ~retired => /\ stored[n].by \notin Tasks
                             /\ link[n].phase = "read" => link[n].receipt.by \notin Tasks

\* No job of node n will write the receipt r any more.
Old(n, r) ==
  /\ r # NoReceipt
  /\ r.by = 0 => put[n] # 0
  /\ r.by \in Tasks =>
       /\ tasks[r.by].kind = "copy" /\ tasks[r.by].dest = n /\ r.boot = tasks[r.by].dest_boot
       /\ \/ outcome[r.by] = "FINISHED" \/ boot[n] > r.boot
          \/ jobs[n].kind = "copy" /\ jobs[n].task = r.by /\ jobs[n].step = "recorded"

\* The file of the receipt r is lost: node n will never again hold a good file under it.
Lost(n, r) == Old(n, r) /\ r.by # Unknown /\ (stored[n] = r => disk[n] # "good")

\* Receipts at a node, on their way to the control and in its locations are old ones, and
\* those the control takes for bad ones, or is about to, are lost.
ReceiptsOld ==
  \A n \in Nodes :
    /\ stored[n] # NoReceipt => Old(n, stored[n])
    /\ link[n].receipt # NoReceipt => Old(n, link[n].receipt)
    /\ Located(n) => Old(n, locations[n].receipt) /\ locations[n].receipt.by # Unknown

BadAreLost ==
  \A n \in Nodes :
    /\ locations[n].health \in {"CORRUPT", "MISSING"} => Lost(n, locations[n].receipt)
    /\ link[n].phase = "read" /\ Located(n) /\ locations[n].inventory # registry[n].boot
         /\ locations[n].receipt # link[n].receipt => Lost(n, locations[n].receipt)

\* A scrub under way.
ScrubSound ==
  maint.step = "judge" =>
    LET n == maint.node
    IN  /\ n \in Nodes /\ Old(n, maint.receipt) /\ maint.receipt.by # Unknown
        /\ maint.health \in {"CORRUPT", "MISSING"} => Lost(n, maint.receipt)
        /\ \/ locations[n].health \in {"NONE", "VERIFIED"}
           \/ locations[n].health = "MISSING" /\ locations[n].inventory < registry[n].boot

\* What was read of a node's inventory is there until it is reported.
ReportsHold ==
  \A n \in Nodes : link[n].phase = "read" =>
    /\ link[n].receipt.by \in Tasks /\ Useful /\ ~retired => Held(n) /\ stored[n].by \in Tasks
    /\ link[n].receipt # NoReceipt /\ Located(n) => Held(n)

\* A recorded put is there until the control confirms it.
PutHolds ==
  op = "preparing" /\ ~record /\ ~retired =>
    \A n \in Nodes : assigned.node = n /\ put[n] # 0 => Held(n)

\* Copies under way: one to a node; a finished one is there until it is reported; what one
\* replaces is lost, and neither counted nor about to be.
CopiesSound ==
  \A t \in Tasks : tasks[t].kind = "copy" /\ Running(t) =>
    LET n == tasks[t].dest
        r == tasks[t].replace
    IN  /\ \A u \in Tasks : tasks[u].kind = "copy" /\ Running(u) /\ tasks[u].dest = n => u = t
        /\ outcome[t] = "FINISHED" => Held(n)
        /\ r # NoReceipt =>
             /\ Lost(n, r)
             /\ link[n].phase = "read" /\ link[n].receipt # NoReceipt => stored[n] # r
             /\ Counted(n) => stored[n] # r

CountedHeld == \A n \in Nodes : Counted(n) => Held(n)

JobsSound == \A n \in Nodes : PutJob(n) /\ CopyJob(n) /\ DeleteJob(n)

CopiesInv ==
  /\ TypeOK /\ RetiredForEver /\ Untouched /\ BootsOrdered /\ TasksSound
  /\ JobsSound /\ ReceiptsOld /\ BadAreLost /\ ScrubSound /\ ReportsHold /\ PutHolds
  /\ CopiesSound /\ CountedHeld

\* Rotten files, and good ones that the control knows of.
Rotten == {n \in Nodes : disk[n] = "bad"}
Good == {n \in Nodes : disk[n] = "good" /\ Located(n)}

\* Of the W copies that committed the block, only those that rot are lost.
GoodKept ==
  /\ Cardinality(Rotten) <= corrupted
  /\ op = "committed" => Cardinality(Good) + corrupted >= W

-----------------------------------------------------------------------------
(* What the types say of the parts of the state.                            *)

\* Nodes, receipts and tasks have their parts.
LEMMA TypeFacts ==
  ASSUME TypeOK
  PROVE  /\ \A n \in Nodes :
              /\ locations[n] \in Location /\ locations[n].receipt \in Receipt
              /\ locations[n].inventory \in Nat /\ locations[n].health \in Healths
              /\ registry[n].boot \in Nat /\ registry[n].reconciled \in BOOLEAN
              /\ stored[n] \in Receipt /\ boot[n] \in Nat /\ link[n].receipt \in Receipt
              /\ put[n] \in Nat /\ jobs[n] \in Job /\ jobs[n].task \in 0..MaxTasks
              /\ retirement[n] \in 0..MaxTasks
         /\ \A t \in Tasks :
              /\ tasks[t] \in Task /\ tasks[t].dest_boot \in Nat /\ tasks[t].replace \in Receipt
              /\ tasks[t].expected \in Receipt /\ tasks[t].dest \in Nodes \cup {NoNode}
         /\ \A m \in requests : m.task \in Tasks /\ m.expected \in Receipt
         /\ maint.receipt \in Receipt /\ maint.health \in Healths
         /\ Tasks \subseteq Nat \ {0} /\ MaxTasks \in Nat /\ Unknown \notin Tasks
         /\ NoReceipt.by = 0 /\ 0 \notin Tasks
<1> USE ReplicationAssumption
<1>1. \A n \in Nodes :
        /\ locations[n] \in Location /\ locations[n].receipt \in Receipt
        /\ locations[n].inventory \in Nat /\ locations[n].health \in Healths
  BY DEF TypeOK, Location
<1>2. \A n \in Nodes :
        /\ registry[n].boot \in Nat /\ registry[n].reconciled \in BOOLEAN
        /\ stored[n] \in Receipt /\ boot[n] \in Nat /\ link[n].receipt \in Receipt
        /\ put[n] \in Nat /\ retirement[n] \in 0..MaxTasks
  BY DEF TypeOK
<1>3. \A n \in Nodes : jobs[n] \in Job /\ jobs[n].task \in 0..MaxTasks
  BY DEF TypeOK, Job
<1>4. \A t \in Tasks :
        /\ tasks[t] \in Task /\ tasks[t].dest_boot \in Nat /\ tasks[t].replace \in Receipt
        /\ tasks[t].expected \in Receipt /\ tasks[t].dest \in Nodes \cup {NoNode}
  BY DEF TypeOK, Task
<1>5. /\ \A m \in requests : m.task \in Tasks /\ m.expected \in Receipt
      /\ maint.receipt \in Receipt /\ maint.health \in Healths
  BY DEF TypeOK
<1>6. /\ Tasks \subseteq Nat \ {0} /\ MaxTasks \in Nat /\ Unknown \notin Tasks
      /\ NoReceipt.by = 0 /\ 0 \notin Tasks
  BY DEF Tasks, Unknown, NoReceipt
<1> QED BY <1>1, <1>2, <1>3, <1>4, <1>5, <1>6

\* Jobs are jobs.
LEMMA JobTypes ==
  /\ NoJob \in Job
  /\ \A k \in {"put", "copy", "delete"}, t \in 0..MaxTasks :
       [kind |-> k, task |-> t, step |-> "pinned"] \in Job
  /\ \A j \in Job : \A s \in {"moved", "emptied", "written", "recorded", "unlinked"} :
       [j EXCEPT !.step = s] \in Job
BY ReplicationAssumption DEF Job, NoJob

\* Old and lost receipts stay so, and a node records no other: what is known of receipts
\* carries over a step that leaves the control's view and the reports alone.
LEMMA ReceiptsCarry ==
  ASSUME CopiesInv, UNCHANGED <<locations, registry, link, maint>>,
         \A n \in Nodes, r \in Receipt : (Old(n, r) => Old(n, r)') /\ (Lost(n, r) => Lost(n, r)'),
         (\A n \in Nodes : stored[n] # NoReceipt => Old(n, stored[n]))'
  PROVE  (ReceiptsOld /\ BadAreLost /\ ScrubSound)'
<1>1. ReceiptsOld'
  BY TypeFacts DEF ReceiptsOld, CopiesInv, Located
<1>2. BadAreLost'
  BY TypeFacts DEF BadAreLost, CopiesInv, Located
<1>3. ScrubSound'
  BY TypeFacts DEF ScrubSound, CopiesInv, TypeOK
<1> QED BY <1>1, <1>2, <1>3

\* Records of nodes are records of nodes.
NodeRecord == [boot : Nat, reconciled : BOOLEAN, seen : {"fresh", "late", "gone"}]

LEMMA RegistryTypes ==
  ASSUME TypeOK
  PROVE  /\ registry \in [Nodes -> NodeRecord]
         /\ \A n \in Nodes, s \in {"fresh", "late", "gone"} : [registry[n] EXCEPT !.seen = s] \in NodeRecord
         /\ \A n \in Nodes, b \in BOOLEAN, s \in {"fresh", "late", "gone"} :
              [registry[n] EXCEPT !.reconciled = b, !.seen = s] \in NodeRecord
         /\ \A n \in Nodes : [boot |-> boot[n], reconciled |-> FALSE, seen |-> "fresh"] \in NodeRecord
<1>1. registry \in [Nodes -> NodeRecord] /\ boot \in [Nodes -> Nat]
  BY DEF TypeOK, NodeRecord
<1> QED BY <1>1 DEF NodeRecord

-----------------------------------------------------------------------------
(* The upload.                                                              *)

\* Until the put of the assigned node is recorded there is no copy task, and the node has
\* no receipt but those of unknown files.
LEMMA BeforePut ==
  ASSUME CopiesInv, NEW n \in Nodes, put[n] = 0, assigned.node = n
  PROVE  /\ ~record /\ ~retired /\ \A t \in Tasks : tasks[t].kind # "copy"
         /\ \A r \in Receipt : Old(n, r) => r.by = Unknown
<1>1. ~record /\ ~retired
  BY DEF CopiesInv, TasksSound
<1>2. \A t \in Tasks : tasks[t].kind # "copy"
  BY <1>1 DEF CopiesInv, TasksSound
<1>3. \A r \in Receipt : r.by = 0 \/ r.by \in Tasks \/ r.by = Unknown
  BY ReplicationAssumption DEF Receipt, Tasks, Unknown
<1> QED BY <1>1, <1>2, <1>3 DEF Old

\* The upload is placed on a node: nothing is there yet.
LEMMA AllocateInv == ASSUME CopiesInv, NEW n \in Nodes, Allocate(n) PROVE CopiesInv'
<1> USE DEF Allocate, control, catalog, world, node
<1>1. TypeOK'
  <2>1. registry[n].boot \in Nat
    BY TypeFacts DEF CopiesInv
  <2> QED BY <2>1 DEF CopiesInv, TypeOK
<1>2. (RetiredForEver /\ Untouched /\ BootsOrdered /\ TasksSound)'
  BY TypeFacts DEF CopiesInv, RetiredForEver, Untouched, BootsOrdered, TasksSound, Located
<1>3. JobsSound'
  BY TypeFacts DEF CopiesInv, JobsSound, PutJob, CopyJob, DeleteJob, Located, Held, Counted, Useful,
    Running, NoJob, TypeOK, Untouched
<1>4. \A m \in Nodes, r \in Receipt : Old(m, r) => Old(m, r)'
  BY TypeFacts DEF Old, CopiesInv, NoJob, TypeOK
<1>5. \A m \in Nodes, r \in Receipt : Lost(m, r) => Lost(m, r)'
  BY <1>4, TypeFacts DEF Lost, CopiesInv, TypeOK
<1>6. (ReceiptsOld /\ BadAreLost /\ ScrubSound)'
  <2>1. (\A m \in Nodes : stored[m] # NoReceipt => Old(m, stored[m]))'
    BY <1>4, TypeFacts DEF CopiesInv, ReceiptsOld
  <2> QED BY <1>4, <1>5, <2>1, ReceiptsCarry
<1>7. (ReportsHold /\ PutHolds /\ CountedHeld)'
  BY TypeFacts DEF ReportsHold, PutHolds, CountedHeld, CopiesInv, Located, Held, Counted, Useful, TypeOK, Untouched
<1>8. CopiesSound'
  BY SMTT(30), <1>4, <1>5, TypeFacts DEF CopiesSound, CopiesInv, Running, Held, Counted, TasksSound, TypeOK
<1> QED BY <1>1, <1>2, <1>3, <1>6, <1>7, <1>8 DEF CopiesInv

\* The block is of no use any more.
LEMMA DropInv == ASSUME CopiesInv, Drop PROVE CopiesInv'
<1> USE DEF Drop, control, catalog, world, node
<1>1. TypeOK'
  BY DEF CopiesInv, TypeOK
<1>2. (RetiredForEver /\ Untouched /\ BootsOrdered /\ TasksSound)'
  BY TypeFacts DEF CopiesInv, RetiredForEver, Untouched, BootsOrdered, TasksSound, Located, Useful
<1>3. JobsSound'
  BY TypeFacts DEF CopiesInv, JobsSound, PutJob, CopyJob, DeleteJob, Located, Held, Counted, Useful,
    Running, NoJob, TypeOK
<1>4. \A m \in Nodes, r \in Receipt : Old(m, r) => Old(m, r)'
  BY TypeFacts DEF Old, CopiesInv, NoJob, TypeOK
<1>5. \A m \in Nodes, r \in Receipt : Lost(m, r) => Lost(m, r)'
  BY <1>4, TypeFacts DEF Lost, CopiesInv, TypeOK
<1>6. (ReceiptsOld /\ BadAreLost /\ ScrubSound)'
  <2>1. (\A m \in Nodes : stored[m] # NoReceipt => Old(m, stored[m]))'
    BY <1>4, TypeFacts DEF CopiesInv, ReceiptsOld
  <2> QED BY <1>4, <1>5, <2>1, ReceiptsCarry
<1>7. (ReportsHold /\ PutHolds /\ CountedHeld)'
  BY TypeFacts DEF ReportsHold, PutHolds, CountedHeld, CopiesInv, Located, Held, Counted, Useful, TypeOK
<1>8. CopiesSound'
  BY <1>4, <1>5, TypeFacts DEF CopiesSound, CopiesInv, Running, Held, Counted, TasksSound, TypeOK
<1> QED BY <1>1, <1>2, <1>3, <1>6, <1>7, <1>8 DEF CopiesInv

\* The content is committed.
LEMMA CommitInv == ASSUME CopiesInv, Commit PROVE CopiesInv'
<1> USE DEF Commit, control, catalog, world, node
<1>1. TypeOK'
  BY DEF CopiesInv, TypeOK
<1>2. (RetiredForEver /\ Untouched /\ BootsOrdered /\ TasksSound)'
  BY TypeFacts DEF CopiesInv, RetiredForEver, Untouched, BootsOrdered, TasksSound, Located, Useful
<1>3. JobsSound'
  BY TypeFacts DEF CopiesInv, JobsSound, PutJob, CopyJob, DeleteJob, Located, Held, Counted, Useful,
    Running, NoJob, TypeOK
<1>4. \A m \in Nodes, r \in Receipt : Old(m, r) => Old(m, r)'
  BY TypeFacts DEF Old, CopiesInv, NoJob, TypeOK
<1>5. \A m \in Nodes, r \in Receipt : Lost(m, r) => Lost(m, r)'
  BY <1>4, TypeFacts DEF Lost, CopiesInv, TypeOK
<1>6. (ReceiptsOld /\ BadAreLost /\ ScrubSound)'
  <2>1. (\A m \in Nodes : stored[m] # NoReceipt => Old(m, stored[m]))'
    BY <1>4, TypeFacts DEF CopiesInv, ReceiptsOld
  <2> QED BY <1>4, <1>5, <2>1, ReceiptsCarry
<1>7. (ReportsHold /\ PutHolds /\ CountedHeld)'
  BY TypeFacts DEF ReportsHold, PutHolds, CountedHeld, CopiesInv, Located, Held, Counted, Useful, TypeOK
<1>8. CopiesSound'
  BY <1>4, <1>5, TypeFacts DEF CopiesSound, CopiesInv, Running, Held, Counted, TasksSound, TypeOK
<1> QED BY <1>1, <1>2, <1>3, <1>6, <1>7, <1>8 DEF CopiesInv

\* The pin is taken for a put.
LEMMA PutBeginInv == ASSUME CopiesInv, NEW n \in Nodes, PutBegin(n) PROVE CopiesInv'
<1> USE DEF PutBegin, control, catalog, world, node
<1>1. TypeOK'
  <2>1. [kind |-> "put", task |-> 0, step |-> "pinned"] \in Job
    BY ReplicationAssumption DEF Job
  <2> QED BY <2>1 DEF CopiesInv, TypeOK
<1>2. (RetiredForEver /\ Untouched /\ BootsOrdered /\ TasksSound)'
  BY TypeFacts DEF CopiesInv, RetiredForEver, Untouched, BootsOrdered, TasksSound, Located
<1>3. JobsSound'
  BY TypeFacts DEF CopiesInv, JobsSound, PutJob, CopyJob, DeleteJob, Located, Held, Counted, Useful,
    Running, NoJob, TypeOK
<1>4. \A m \in Nodes, r \in Receipt : Old(m, r) => Old(m, r)'
  BY TypeFacts DEF Old, CopiesInv, NoJob, TypeOK
<1>5. \A m \in Nodes, r \in Receipt : Lost(m, r) => Lost(m, r)'
  BY <1>4, TypeFacts DEF Lost, CopiesInv, TypeOK
<1>6. (ReceiptsOld /\ BadAreLost /\ ScrubSound)'
  <2>1. (\A m \in Nodes : stored[m] # NoReceipt => Old(m, stored[m]))'
    BY <1>4, TypeFacts DEF CopiesInv, ReceiptsOld
  <2> QED BY <1>4, <1>5, <2>1, ReceiptsCarry
<1>7. (ReportsHold /\ PutHolds /\ CountedHeld)'
  BY TypeFacts DEF ReportsHold, PutHolds, CountedHeld, CopiesInv, Located, Held, Counted, Useful, TypeOK
<1>8. CopiesSound'
  BY <1>4, <1>5, TypeFacts DEF CopiesSound, CopiesInv, Running, Held, Counted, TasksSound, TypeOK
<1> QED BY <1>1, <1>2, <1>3, <1>6, <1>7, <1>8 DEF CopiesInv

\* The put fails before anything is written.
LEMMA PutFailInv == ASSUME CopiesInv, NEW n \in Nodes, PutFail(n) PROVE CopiesInv'
<1> USE DEF PutFail, control, catalog, world, node
<1>1. TypeOK'
  BY JobTypes DEF CopiesInv, TypeOK
<1>2. (RetiredForEver /\ Untouched /\ BootsOrdered /\ TasksSound)'
  BY TypeFacts DEF CopiesInv, RetiredForEver, Untouched, BootsOrdered, TasksSound, Located
<1>3. JobsSound'
  BY TypeFacts DEF CopiesInv, JobsSound, PutJob, CopyJob, DeleteJob, Located, Held, Counted, Useful,
    Running, NoJob, TypeOK
<1>4. \A m \in Nodes, r \in Receipt : Old(m, r) => Old(m, r)'
  BY TypeFacts DEF Old, CopiesInv, NoJob, TypeOK
<1>5. \A m \in Nodes, r \in Receipt : Lost(m, r) => Lost(m, r)'
  BY <1>4, TypeFacts DEF Lost, CopiesInv, TypeOK
<1>6. (ReceiptsOld /\ BadAreLost /\ ScrubSound)'
  <2>1. (\A m \in Nodes : stored[m] # NoReceipt => Old(m, stored[m]))'
    BY <1>4, TypeFacts DEF CopiesInv, ReceiptsOld
  <2> QED BY <1>4, <1>5, <2>1, ReceiptsCarry
<1>7. (ReportsHold /\ PutHolds /\ CountedHeld)'
  BY TypeFacts DEF ReportsHold, PutHolds, CountedHeld, CopiesInv, Located, Held, Counted, Useful, TypeOK
<1>8. CopiesSound'
  BY <1>4, <1>5, TypeFacts DEF CopiesSound, CopiesInv, Running, Held, Counted, TasksSound, TypeOK
<1> QED BY <1>1, <1>2, <1>3, <1>6, <1>7, <1>8 DEF CopiesInv

\* The file of the put appears.
LEMMA PutWriteInv == ASSUME CopiesInv, NEW n \in Nodes, PutWrite(n) PROVE CopiesInv'
<1> USE DEF PutWrite, control, catalog, world, node
<1>0. put[n] = 0 /\ assigned.node = n
  BY DEF CopiesInv, JobsSound, PutJob
<1>1. TypeOK'
  BY JobTypes DEF CopiesInv, TypeOK
<1>2. (RetiredForEver /\ Untouched /\ BootsOrdered /\ TasksSound)'
  BY TypeFacts DEF CopiesInv, RetiredForEver, Untouched, BootsOrdered, TasksSound, Located, JobsSound, PutJob, NoJob
<1>3. JobsSound'
  BY TypeFacts DEF CopiesInv, JobsSound, PutJob, CopyJob, DeleteJob, Located, Held, Counted, Useful,
    Running, NoJob, TypeOK
<1>4. \A m \in Nodes, r \in Receipt : Old(m, r) => Old(m, r)'
  BY TypeFacts DEF Old, CopiesInv, NoJob, TypeOK
<1>5. \A m \in Nodes, r \in Receipt : Lost(m, r) => Lost(m, r)'
  <2>1. \A r \in Receipt : ~Lost(n, r)
    BY <1>0, BeforePut DEF Lost
  <2> QED BY <1>4, <2>1, TypeFacts DEF Lost, CopiesInv, TypeOK
<1>6. (ReceiptsOld /\ BadAreLost /\ ScrubSound)'
  <2>1. (\A m \in Nodes : stored[m] # NoReceipt => Old(m, stored[m]))'
    BY <1>4, TypeFacts DEF CopiesInv, ReceiptsOld
  <2> QED BY <1>4, <1>5, <2>1, ReceiptsCarry
<1>7. (ReportsHold /\ PutHolds /\ CountedHeld)'
  BY TypeFacts DEF ReportsHold, PutHolds, CountedHeld, CopiesInv, Located, Held, Counted, Useful, TypeOK
<1>8. CopiesSound'
  <2>1. \A t \in Tasks : tasks[t].kind # "copy"
    BY <1>0, BeforePut
  <2> QED BY <2>1 DEF CopiesSound
<1> QED BY <1>1, <1>2, <1>3, <1>6, <1>7, <1>8 DEF CopiesInv

\* The put is recorded.
LEMMA PutRecordInv == ASSUME CopiesInv, NEW n \in Nodes, PutRecord(n) PROVE CopiesInv'
<1> USE DEF PutRecord, control, catalog, world, node
<1>0. put[n] = 0 /\ assigned.node = n
  BY DEF CopiesInv, JobsSound, PutJob
<1>b. boot[n] \in Nat /\ boot[n] # 0 /\ disk[n] # "none"
  BY TypeFacts DEF CopiesInv, BootsOrdered, JobsSound, PutJob
<1>c. [by |-> 0, boot |-> boot[n]] \in Receipt /\ [by |-> 0, boot |-> boot[n]] # NoReceipt
  BY <1>b, ReplicationAssumption DEF Receipt, NoReceipt, Unknown
<1>1. TypeOK'
  BY JobTypes, <1>b, <1>c DEF CopiesInv, TypeOK
<1>2. (RetiredForEver /\ Untouched /\ BootsOrdered /\ TasksSound)'
  <2>1. op # "none"
    BY DEF CopiesInv, Untouched, NoJob
  <2> QED BY <1>b, <2>1, TypeFacts DEF CopiesInv, RetiredForEver, Untouched, BootsOrdered, TasksSound,
        Located, TypeOK
<1>3. JobsSound'
  BY TypeFacts DEF CopiesInv, JobsSound, PutJob, CopyJob, DeleteJob, Located, Held, Counted, Useful,
    Running, NoJob, TypeOK
<1>4. \A m \in Nodes, r \in Receipt : Old(m, r) => Old(m, r)'
  BY <1>b, TypeFacts DEF Old, CopiesInv, NoJob, TypeOK
<1>5. \A m \in Nodes, r \in Receipt : Lost(m, r) => Lost(m, r)'
  <2>1. \A r \in Receipt : ~Lost(n, r)
    BY <1>0, BeforePut DEF Lost
  <2> QED BY <1>4, <2>1, TypeFacts DEF Lost, CopiesInv, TypeOK
<1>6. (ReceiptsOld /\ BadAreLost /\ ScrubSound)'
  <2>1. (\A m \in Nodes : stored[m] # NoReceipt => Old(m, stored[m]))'
    BY <1>b, <1>c, <1>4, TypeFacts DEF CopiesInv, ReceiptsOld, TypeOK, Old
  <2> QED BY <1>4, <1>5, <2>1, ReceiptsCarry
<1>7. (ReportsHold /\ PutHolds /\ CountedHeld)'
  <2>1. link[n].receipt.by \notin Tasks
    BY <1>0, BeforePut, TypeFacts DEF CopiesInv, ReceiptsOld
  <2> QED BY <1>b, <1>c, <2>1, TypeFacts DEF ReportsHold, PutHolds, CountedHeld, CopiesInv, Located, Held,
        Counted, Useful, TypeOK
<1>8. CopiesSound'
  <2>1. \A t \in Tasks : tasks[t].kind # "copy"
    BY <1>0, BeforePut
  <2> QED BY <2>1 DEF CopiesSound
<1> QED BY <1>1, <1>2, <1>3, <1>6, <1>7, <1>8 DEF CopiesInv

\* The put is confirmed: it is the first copy that counts.
LEMMA ReportDurableInv == ASSUME CopiesInv, NEW n \in Nodes, ReportDurable(n) PROVE CopiesInv'
<1> USE DEF ReportDurable, control, catalog, world, node, Confirm
<1>a. Held(n) /\ \A t \in Tasks : tasks[t].kind # "copy"
  BY DEF CopiesInv, PutHolds, TasksSound
<1>b. [by |-> 0, boot |-> put[n]] \in Receipt /\ [by |-> 0, boot |-> put[n]] # NoReceipt
  BY TypeFacts, ReplicationAssumption DEF CopiesInv, Receipt, NoReceipt, Unknown
<1>1. TypeOK'
  <2>1. [health |-> "VERIFIED", receipt |-> [by |-> 0, boot |-> put[n]], inventory |-> registry[n].boot]
          \in Location
    BY <1>b, TypeFacts DEF CopiesInv, Location, Healths
  <2> QED BY <2>1 DEF CopiesInv, TypeOK
<1>2. (RetiredForEver /\ Untouched /\ BootsOrdered /\ TasksSound)'
  BY TypeFacts DEF CopiesInv, RetiredForEver, Untouched, BootsOrdered, TasksSound, Located, TypeOK
<1>3. JobsSound'
  BY <1>a, TypeFacts DEF CopiesInv, JobsSound, PutJob, CopyJob, DeleteJob, Located, Held, Counted, Useful,
    Running, NoJob, TypeOK
<1>4. \A m \in Nodes, r \in Receipt : Old(m, r) => Old(m, r)'
  BY TypeFacts DEF Old, CopiesInv, NoJob, TypeOK
<1>5. \A m \in Nodes, r \in Receipt : Lost(m, r) => Lost(m, r)'
  BY <1>4, TypeFacts DEF Lost, CopiesInv, TypeOK
<1>6. (ReceiptsOld /\ BadAreLost /\ ScrubSound)'
  <2>0. Old(n, [by |-> 0, boot |-> put[n]])'
    BY <1>b, TypeFacts DEF Old, CopiesInv
  <2>1. ReceiptsOld'
    BY <1>b, <1>4, <2>0, TypeFacts DEF ReceiptsOld, Unknown, CopiesInv, Located, TypeOK
  <2>2. BadAreLost'
    BY <1>4, <1>5, TypeFacts DEF BadAreLost, CopiesInv, Located, TypeOK
  <2>3. ScrubSound'
    BY <1>4, <1>5, TypeFacts DEF ScrubSound, CopiesInv, TypeOK
  <2> QED BY <2>1, <2>2, <2>3
<1>7. (ReportsHold /\ PutHolds /\ CountedHeld)'
  BY <1>a, TypeFacts DEF ReportsHold, PutHolds, CountedHeld, CopiesInv, Located, Held, Counted, Useful, TypeOK
<1>8. CopiesSound'
  BY <1>a DEF CopiesSound
<1> QED BY <1>1, <1>2, <1>3, <1>6, <1>7, <1>8 DEF CopiesInv

-----------------------------------------------------------------------------
(* Steps that take up nothing new.                                          *)

\* Tasks in use keep their kind, destination and receipt, and do not start again.
TasksEvolve ==
  \A t \in Tasks : tasks[t].kind # "none" =>
    /\ tasks'[t].kind = tasks[t].kind /\ tasks'[t].dest = tasks[t].dest
    /\ tasks'[t].dest_boot = tasks[t].dest_boot /\ tasks'[t].replace = tasks[t].replace
    /\ Running(t)' => Running(t)

\* The files, receipts, jobs and statuses of the nodes are left alone, a report is at most
\* given up, and the control at most forgets the copies, the use and the record of the block.
NothingNew ==
  /\ UNCHANGED <<assigned, put, jobs, outcome, boot, disk, stored>> /\ TasksEvolve
  /\ op' = op \/ op' = "ended"
  /\ record \/ retired <=> record' \/ retired'
  /\ retired => retired'
  /\ \A n \in Nodes :
       /\ locations'[n] = locations[n] \/ locations'[n] = NoLocation
       /\ registry'[n].boot = registry[n].boot
       /\ \/ link'[n] = link[n]
          \/ link'[n].receipt = NoReceipt /\ link'[n].phase \in {"new", "ready"}
  /\ maint' = maint \/ maint'.step # "judge"

\* Receipts that are old or lost stay so.
LEMMA OldCarries ==
  ASSUME CopiesInv, NothingNew
  PROVE  \A n \in Nodes, r \in Receipt : (Old(n, r) => Old(n, r)') /\ (Lost(n, r) => Lost(n, r)')
<1>1. \A n \in Nodes, r \in Receipt : Old(n, r) => Old(n, r)'
  BY TypeFacts DEF NothingNew, TasksEvolve, Old
<1>2. \A n \in Nodes, r \in Receipt : Lost(n, r) => Lost(n, r)'
  BY <1>1 DEF NothingNew, Lost
<1> QED BY <1>1, <1>2

\* What holds of jobs, receipts, reports and counted copies holds after such a step.
LEMMA NothingNewCarries ==
  ASSUME CopiesInv, NothingNew
  PROVE  (JobsSound /\ ReceiptsOld /\ BadAreLost /\ ScrubSound /\ ReportsHold /\ PutHolds /\ CountedHeld)'
<1> USE DEF NothingNew, CopiesInv
<1>1. JobsSound'
  <2> SUFFICES ASSUME NEW n \in Nodes PROVE (PutJob(n) /\ CopyJob(n) /\ DeleteJob(n))'
    BY DEF JobsSound
  <2>1. PutJob(n)'
    BY DEF JobsSound, PutJob
  <2>2. CopyJob(n)'
    BY TypeFacts DEF JobsSound, CopyJob, Held, Counted, TasksEvolve, NoLocation
  <2>3. DeleteJob(n)'
    <3>1. \A t \in Tasks : tasks[t].kind = "none" => outcome[t] = "NONE"
      BY DEF TasksSound
    <3> QED BY <3>1, TypeFacts DEF JobsSound, DeleteJob, TasksEvolve, NoLocation, Located, Useful
  <2> QED BY <2>1, <2>2, <2>3
<1>2. ReceiptsOld'
  BY OldCarries, TypeFacts DEF ReceiptsOld, Located, NoLocation
<1>3. BadAreLost'
  BY OldCarries, TypeFacts DEF BadAreLost, Located, NoLocation
<1>4. ScrubSound'
  <2> SUFFICES ASSUME maint' = maint, maint.step = "judge" PROVE ScrubSound'
    BY DEF ScrubSound
  <2>1. maint.node \in Nodes /\ maint.receipt \in Receipt
    BY TypeFacts DEF ScrubSound
  <2> QED BY <2>1, OldCarries DEF ScrubSound, NoLocation
<1>5. (ReportsHold /\ PutHolds /\ CountedHeld)'
  BY TypeFacts DEF ReportsHold, PutHolds, CountedHeld, Located, Held, Counted, Useful, NoLocation
<1> QED BY <1>1, <1>2, <1>3, <1>4, <1>5

\* And so does what holds of the copies under way, if none is planned.
LEMMA CopiesCarry ==
  ASSUME CopiesInv, NothingNew,
         \A t \in Tasks : tasks[t].kind = "none" => tasks'[t].kind # "copy"
  PROVE  CopiesSound'
<1> USE DEF NothingNew, CopiesInv
<1>1. \A t \in Tasks : (tasks[t].kind = "copy" /\ Running(t))' =>
        /\ tasks[t].kind = "copy" /\ Running(t) /\ tasks[t].dest \in Nodes
        /\ tasks'[t].dest = tasks[t].dest /\ tasks'[t].replace = tasks[t].replace
  BY DEF TasksEvolve, TasksSound
<1>2. \A n \in Nodes : (Counted(n) => Counted(n)) /\ (Counted(n)' => Counted(n))
  BY DEF Counted, NoLocation
<1>3. \A n \in Nodes : (Held(n) => Held(n)')
  BY DEF Held
<1> QED BY <1>1, <1>2, <1>3, OldCarries, TypeFacts DEF CopiesSound

-----------------------------------------------------------------------------
(* Registration and inventory.                                              *)

\* A node is heard of.
LEMMA HeartbeatInv == ASSUME CopiesInv, NEW n \in Nodes, Heartbeat(n) PROVE CopiesInv'
<1> USE DEF Heartbeat, control, catalog, world, node
<1>1. TypeOK'
  <2>1. registry' \in [Nodes -> NodeRecord]
    BY RegistryTypes DEF CopiesInv
  <2> QED BY <2>1 DEF CopiesInv, TypeOK, NodeRecord
<1>2. (RetiredForEver /\ Untouched /\ BootsOrdered /\ TasksSound)'
  BY TypeFacts DEF CopiesInv, RetiredForEver, Untouched, BootsOrdered, TasksSound, Located, TypeOK
<1>3. NothingNew
  BY DEF CopiesInv, TypeOK, NothingNew, TasksEvolve, Running
<1>4. CopiesSound'
  BY <1>3, CopiesCarry
<1> QED BY <1>1, <1>2, <1>3, <1>4, NothingNewCarries DEF CopiesInv

\* A node is not heard of.
LEMMA SilenceInv == ASSUME CopiesInv, NEW n \in Nodes, Silence(n) PROVE CopiesInv'
<1> USE DEF Silence, control, catalog, world, node, Fault
<1>1. TypeOK'
  <2>1. registry' \in [Nodes -> NodeRecord]
    BY ZenonT(30), RegistryTypes DEF CopiesInv
  <2> QED BY <2>1, ReplicationAssumption DEF CopiesInv, TypeOK, NodeRecord
<1>2. (RetiredForEver /\ Untouched /\ BootsOrdered /\ TasksSound)'
  BY TypeFacts DEF CopiesInv, RetiredForEver, Untouched, BootsOrdered, TasksSound, Located, TypeOK
<1>3. NothingNew
  BY DEF CopiesInv, TypeOK, NothingNew, TasksEvolve, Running
<1>4. CopiesSound'
  BY <1>3, CopiesCarry
<1> QED BY <1>1, <1>2, <1>3, <1>4, NothingNewCarries DEF CopiesInv

\* A node registers again: what it had read is given up.
LEMMA RefusedInv == ASSUME CopiesInv, NEW n \in Nodes, Refused(n) PROVE CopiesInv'
<1> USE DEF Refused, control, catalog, world, node
<1>1. TypeOK'
  <2>1. [phase |-> "new", receipt |-> NoReceipt] \in [phase : {"new", "registered", "read", "ready"}, receipt : Receipt]
    BY ReplicationAssumption DEF NoReceipt, Receipt, Unknown
  <2> QED BY <2>1 DEF CopiesInv, TypeOK
<1>2. (RetiredForEver /\ Untouched /\ BootsOrdered /\ TasksSound)'
  BY TypeFacts DEF CopiesInv, RetiredForEver, Untouched, BootsOrdered, TasksSound, Located, TypeOK
<1>3. NothingNew
  BY DEF CopiesInv, TypeOK, NothingNew, TasksEvolve, Running
<1>4. CopiesSound'
  BY <1>3, CopiesCarry
<1> QED BY <1>1, <1>2, <1>3, <1>4, NothingNewCarries DEF CopiesInv

\* So it is when a call of the registration is lost.
LEMMA ReregisterInv == ASSUME CopiesInv, NEW n \in Nodes, Reregister(n) PROVE CopiesInv'
<1> USE DEF Reregister, control, catalog, world, node
<1>1. TypeOK'
  <2>1. [phase |-> "new", receipt |-> NoReceipt] \in [phase : {"new", "registered", "read", "ready"}, receipt : Receipt]
    BY ReplicationAssumption DEF NoReceipt, Receipt, Unknown
  <2> QED BY <2>1, ReplicationAssumption DEF CopiesInv, TypeOK
<1>2. (RetiredForEver /\ Untouched /\ BootsOrdered /\ TasksSound)'
  BY TypeFacts DEF CopiesInv, RetiredForEver, Untouched, BootsOrdered, TasksSound, Located, TypeOK
<1>3. NothingNew
  BY DEF CopiesInv, TypeOK, NothingNew, TasksEvolve, Running
<1>4. CopiesSound'
  BY <1>3, CopiesCarry
<1> QED BY <1>1, <1>2, <1>3, <1>4, NothingNewCarries DEF CopiesInv

\* The control learns of a boot: what it knew of the earlier one counts no more.
LEMMA RegisterInv == ASSUME CopiesInv, NEW n \in Nodes, Register(n) PROVE CopiesInv'
<1> USE DEF Register, control, catalog, world, node
<1>1. TypeOK'
  <2>1. registry' \in [Nodes -> NodeRecord]
    BY RegistryTypes DEF CopiesInv
  <2>2. [link[n] EXCEPT !.phase = "registered"] \in [phase : {"new", "registered", "read", "ready"}, receipt : Receipt]
    BY DEF CopiesInv, TypeOK
  <2>3. op' \in {"none", "preparing", "committed", "ended"}
    BY DEF CopiesInv, TypeOK
  <2> QED BY <2>1, <2>2, <2>3 DEF CopiesInv, TypeOK, NodeRecord
<1>2. (RetiredForEver /\ Untouched /\ BootsOrdered /\ TasksSound)'
  BY TypeFacts DEF CopiesInv, RetiredForEver, Untouched, BootsOrdered, TasksSound, Located, TypeOK
<1>3. JobsSound'
  BY TypeFacts DEF CopiesInv, JobsSound, PutJob, CopyJob, DeleteJob, Located, Held, Counted, Useful,
    Running, NoJob, TypeOK, BootsOrdered
<1>4. \A m \in Nodes, r \in Receipt : Old(m, r) => Old(m, r)'
  BY TypeFacts DEF Old, CopiesInv, NoJob, TypeOK
<1>5. \A m \in Nodes, r \in Receipt : Lost(m, r) => Lost(m, r)'
  BY <1>4, TypeFacts DEF Lost, CopiesInv, TypeOK
<1>6. (ReceiptsOld /\ BadAreLost /\ ScrubSound)'
  <2>1. ReceiptsOld'
    BY <1>4, TypeFacts DEF ReceiptsOld, CopiesInv, Located, TypeOK
  <2>2. BadAreLost'
    BY <1>4, <1>5, TypeFacts DEF BadAreLost, CopiesInv, Located, TypeOK
  <2>3. ScrubSound'
    BY <1>4, <1>5, TypeFacts DEF ScrubSound, CopiesInv, TypeOK, BootsOrdered
  <2> QED BY <2>1, <2>2, <2>3
<1>7. (ReportsHold /\ PutHolds /\ CountedHeld)'
  BY TypeFacts DEF ReportsHold, PutHolds, CountedHeld, CopiesInv, Located, Held, Counted, Useful, TypeOK, BootsOrdered
<1>8. CopiesSound'
  <2>1. \A m \in Nodes : Counted(m)' => Counted(m)
    <3>1. \A m \in Nodes : registry'[m].boot = IF m = n THEN boot[n] ELSE registry[m].boot
      BY DEF CopiesInv, TypeOK
    <3>2. /\ locations[n].inventory <= registry[n].boot /\ registry[n].boot <= boot[n]
          /\ locations[n].inventory \in Nat /\ registry[n].boot \in Nat /\ boot[n] \in Nat
      BY TypeFacts DEF CopiesInv, BootsOrdered
    <3> QED BY <3>1, <3>2 DEF Counted
  <2> QED BY <1>4, <1>5, <2>1, TypeFacts DEF CopiesSound, CopiesInv, Running, Held, TasksSound, TypeOK
<1> QED BY <1>1, <1>2, <1>3, <1>6, <1>7, <1>8 DEF CopiesInv

\* The inventory is read.
LEMMA ReadInventoryInv == ASSUME CopiesInv, NEW n \in Nodes, ReadInventory(n) PROVE CopiesInv'
<1> USE DEF ReadInventory, control, catalog, world, node
<1>1. TypeOK'
  <2>1. NoReceipt \in Receipt /\ stored[n] \in Receipt
    BY ReplicationAssumption, TypeFacts DEF NoReceipt, Receipt, Unknown, CopiesInv
  <2> QED BY <2>1 DEF CopiesInv, TypeOK
<1>2. (RetiredForEver /\ Untouched /\ BootsOrdered /\ TasksSound)'
  BY TypeFacts DEF CopiesInv, RetiredForEver, Untouched, BootsOrdered, TasksSound, Located, TypeOK
<1>3. JobsSound'
  BY TypeFacts DEF CopiesInv, JobsSound, PutJob, CopyJob, DeleteJob, Located, Held, Counted, Useful,
    Running, NoJob, TypeOK, NoReceipt
<1>4. \A m \in Nodes, r \in Receipt : Old(m, r) => Old(m, r)'
  BY TypeFacts DEF Old, CopiesInv, NoJob, TypeOK
<1>5. \A m \in Nodes, r \in Receipt : Lost(m, r) => Lost(m, r)'
  BY <1>4, TypeFacts DEF Lost, CopiesInv, TypeOK
<1>6. (ReceiptsOld /\ BadAreLost /\ ScrubSound)'
  <2>1. ReceiptsOld'
    BY <1>4, TypeFacts DEF ReceiptsOld, CopiesInv, Located, TypeOK
  <2>2. BadAreLost'
    BY <1>4, <1>5, TypeFacts DEF BadAreLost, CopiesInv, Located, TypeOK, ReceiptsOld, Lost
  <2>3. ScrubSound'
    BY <1>4, <1>5, TypeFacts DEF ScrubSound, CopiesInv, TypeOK
  <2> QED BY <2>1, <2>2, <2>3
<1>7. (ReportsHold /\ PutHolds /\ CountedHeld)'
  BY TypeFacts DEF ReportsHold, PutHolds, CountedHeld, CopiesInv, Located, Held, Counted, Useful, TypeOK, NoReceipt
<1>8. CopiesSound'
  BY <1>4, <1>5, TypeFacts DEF CopiesSound, CopiesInv, Running, Held, Counted, TasksSound, TypeOK, Lost
<1> QED BY <1>1, <1>2, <1>3, <1>6, <1>7, <1>8 DEF CopiesInv

-----------------------------------------------------------------------------
(* New and changed tasks.                                                   *)

\* Identifiers that were free may now stand for a deletion, and what deletions expect at
\* their nodes may have changed, to a receipt of a copy only when the block is useless.
DeletionsOnly ==
  /\ \A t \in Tasks : tasks[t].kind = "none" =>
       tasks'[t].kind = "none" \/ (tasks'[t].kind = "delete" /\ tasks'[t].dest \in Nodes)
  /\ \A t \in Tasks : tasks'[t].expected.by \in Tasks =>
       tasks[t].expected.by \in Tasks \/ op' = "ended" \/ retired'
  /\ \A n \in Nodes : retirement'[n] # 0 => tasks'[retirement'[n]].kind = "delete"

\* A deletion is a task.
LEMMA TaskTypes ==
  /\ NoReceipt \in Receipt /\ NoTask \in Task /\ NoLocation \in Location
  /\ \A n \in Nodes, e \in Receipt : DeleteTask(n, e) \in Task
  /\ \A n \in Nodes, e \in Receipt :
       DeleteTask(n, e).kind = "delete" /\ DeleteTask(n, e).dest = n /\ DeleteTask(n, e).expected = e
  /\ \A t \in Task, e \in Receipt : [t EXCEPT !.expected = e] \in Task
<1>1. NoReceipt \in Receipt
  BY ReplicationAssumption DEF NoReceipt, Receipt, Unknown
<1>2. NoTask \in Task
  BY <1>1 DEF NoTask, Task
<1>3. NoLocation \in Location
  BY <1>1 DEF NoLocation, Location, Healths
<1>4. \A n \in Nodes, e \in Receipt :
        /\ DeleteTask(n, e) \in Task
        /\ DeleteTask(n, e).kind = "delete" /\ DeleteTask(n, e).dest = n /\ DeleteTask(n, e).expected = e
  BY <1>1 DEF NoTask, DeleteTask, Task
<1>5. \A t \in Task, e \in Receipt : [t EXCEPT !.expected = e] \in Task
  BY DEF Task
<1> QED BY <1>1, <1>2, <1>3, <1>4, <1>5

\* What is known of tasks carries over when only deletions are new.
LEMMA TasksCarry ==
  ASSUME CopiesInv, NothingNew, DeletionsOnly, requests' = requests
  PROVE  TasksSound'
<1> USE DEF CopiesInv, NothingNew, DeletionsOnly, TasksEvolve
<1>1. ASSUME NEW t \in Tasks
      PROVE  (/\ tasks[t].kind = "none" =>
                   outcome[t] = "NONE" /\ \A m \in requests : m.task # t
              /\ tasks[t].kind # "none" => tasks[t].dest \in Nodes
              /\ tasks[t].kind = "copy" => record \/ retired)'
  <2>1. CASE tasks[t].kind = "none"
    <3>1. outcome'[t] = "NONE" /\ \A m \in requests' : m.task # t
      BY <2>1 DEF TasksSound
    <3>2. tasks'[t].kind = "none" \/ (tasks'[t].kind = "delete" /\ tasks'[t].dest \in Nodes)
      BY <2>1
    <3> QED BY <3>1, <3>2
  <2>2. CASE tasks[t].kind # "none"
    BY <2>2 DEF TasksSound
  <2> QED BY <2>1, <2>2
<1>2. \A t \in Tasks : (tasks[t].expected.by \in Tasks => op = "ended" \/ retired)'
  BY DEF TasksSound
<1>3. (\A m \in requests : m.expected.by \in Tasks => op = "ended" \/ retired)'
  BY DEF TasksSound
<1>4. (record \/ retired => assigned.node \in Nodes /\ put[assigned.node] # 0)'
  BY DEF TasksSound
<1> QED BY <1>1, <1>2, <1>3, <1>4 DEF TasksSound

\* A task table that differs from the present one at most in what was checked.
Unaltered(before) ==
  \A t \in Tasks :
    /\ before[t].kind = tasks[t].kind /\ before[t].dest = tasks[t].dest
    /\ before[t].dest_boot = tasks[t].dest_boot /\ before[t].replace = tasks[t].replace
    /\ before[t].state = tasks[t].state /\ before[t].live = tasks[t].live
    /\ before[t].expected = tasks[t].expected

\* retire_copy() makes or changes one deletion.
LEMMA RetireCopyTasks ==
  ASSUME CopiesInv, NEW n \in Nodes, NEW e \in Receipt, e.by \in Tasks => op' = "ended" \/ retired',
         NEW before \in [Tasks -> Task], RetireCopy(n, e, before), Unaltered(before)
  PROVE  /\ tasks' \in [Tasks -> Task] /\ retirement' \in [Nodes -> 0..MaxTasks]
         /\ TasksEvolve /\ DeletionsOnly
<1>1. Unaltered(before)
  OBVIOUS
<1>2. retirement \in [Nodes -> 0..MaxTasks] /\ Tasks = 1..MaxTasks /\ MaxTasks \in Nat
  BY ReplicationAssumption DEF CopiesInv, TypeOK, Tasks
<1>3. \A m \in Nodes : retirement[m] # 0 => retirement[m] \in Tasks /\ tasks[retirement[m]].kind = "delete"
  BY <1>2 DEF CopiesInv, TasksSound
<1>4. CASE Unretired(n)
  <2>1. PICK f \in NewIds({n}) : /\ tasks' = [before EXCEPT ![f[n]] = DeleteTask(n, e)]
                                 /\ retirement' = [retirement EXCEPT ![n] = f[n]]
    BY <1>4 DEF RetireCopy
  <2>2. f[n] \in Tasks /\ tasks[f[n]].kind = "none"
    BY DEF NewIds, Fresh
  <2>3. /\ DeleteTask(n, e) \in Task /\ DeleteTask(n, e).kind = "delete"
        /\ DeleteTask(n, e).dest = n /\ DeleteTask(n, e).expected = e
    BY TaskTypes
  <2>4. tasks' \in [Tasks -> Task] /\ retirement' \in [Nodes -> 0..MaxTasks]
    BY <1>2, <2>1, <2>2, <2>3
  <2>5. TasksEvolve
    BY <1>1, <2>1, <2>2 DEF TasksEvolve, Running, Unaltered
  <2>6. DeletionsOnly
    BY <1>1, <1>2, <1>3, <2>1, <2>2, <2>3 DEF DeletionsOnly, Unaltered
  <2> QED BY <2>4, <2>5, <2>6
<1>5. CASE ~Unretired(n)
  <2>1. /\ tasks' = [before EXCEPT ![retirement[n]].expected = e] /\ retirement' = retirement
        /\ retirement[n] # 0
    BY <1>5 DEF RetireCopy, Unretired
  <2>2. retirement[n] \in Tasks /\ tasks[retirement[n]].kind = "delete"
    BY <1>3, <2>1
  <2>3. [before[retirement[n]] EXCEPT !.expected = e] \in Task
    BY <2>2, TaskTypes
  <2>4. tasks' \in [Tasks -> Task]
    BY <2>1, <2>2, <2>3
  <2>5. \A t \in Tasks :
          /\ tasks'[t].kind = tasks[t].kind /\ tasks'[t].dest = tasks[t].dest
          /\ tasks'[t].dest_boot = tasks[t].dest_boot /\ tasks'[t].replace = tasks[t].replace
          /\ tasks'[t].state = tasks[t].state /\ tasks'[t].live = tasks[t].live
          /\ tasks'[t].expected = IF t = retirement[n] THEN e ELSE tasks[t].expected
    BY <1>1, <2>1, <2>2 DEF Task, Unaltered
  <2>6. TasksEvolve /\ DeletionsOnly
    BY <1>3, <2>1, <2>2, <2>5 DEF TasksEvolve, DeletionsOnly, Running
  <2> QED BY <1>2, <2>1, <2>4, <2>6
<1> QED BY <1>4, <1>5

\* After a step that takes up nothing new the rest of the invariant is as it was.
LEMMA TakesNothing ==
  ASSUME CopiesInv, NothingNew, DeletionsOnly, requests' = requests
  PROVE  (/\ TasksSound /\ JobsSound /\ ReceiptsOld /\ BadAreLost /\ ScrubSound /\ ReportsHold
          /\ PutHolds /\ CopiesSound /\ CountedHeld)'
<1>1. \A t \in Tasks : tasks[t].kind = "none" => tasks'[t].kind # "copy"
  BY DEF DeletionsOnly
<1> QED BY <1>1, TasksCarry, CopiesCarry, NothingNewCarries

\* The task table stays as it is.
LEMMA TasksAlone ==
  ASSUME CopiesInv, UNCHANGED <<tasks, retirement>>
  PROVE  TasksEvolve /\ DeletionsOnly
<1>1. TasksEvolve
  BY DEF TasksEvolve, Running
<1>2. DeletionsOnly
  BY DEF CopiesInv, TasksSound, DeletionsOnly
<1> QED BY <1>1, <1>2

\* The report of an inventory.
LEMMA BlockReportInv == ASSUME CopiesInv, NEW n \in Nodes, BlockReport(n) PROVE CopiesInv'
<1> DEFINE r == link[n].receipt
           same == Located(n) /\ locations[n].receipt = r
           lost == Located(n) /\ locations[n].inventory # registry[n].boot
<1>1. /\ link[n].phase = "read" /\ boot[n] = registry[n].boot
      /\ registry' = [registry EXCEPT ![n].reconciled = TRUE, ![n].seen = "fresh"]
      /\ link' = [link EXCEPT ![n] = [phase |-> "ready", receipt |-> NoReceipt]]
      /\ UNCHANGED <<op, assigned, record, retired, maint, disk, stored, boot, put, jobs, outcome,
                     requests, faults, corrupted>>
  BY DEF BlockReport, world
<1>2. /\ registry' \in [Nodes -> NodeRecord]
      /\ \A m \in Nodes : registry'[m].boot = registry[m].boot
                          /\ (m # n => registry'[m] = registry[m])
  <2>1. registry \in [Nodes -> NodeRecord] /\ [registry[n] EXCEPT !.reconciled = TRUE, !.seen = "fresh"] \in NodeRecord
    BY RegistryTypes DEF CopiesInv
  <2>2. registry' = [registry EXCEPT ![n] = [registry[n] EXCEPT !.reconciled = TRUE, !.seen = "fresh"]]
    BY <1>1, <2>1 DEF NodeRecord
  <2> QED BY <2>1, <2>2 DEF NodeRecord
<1>3. /\ link' \in [Nodes -> [phase : {"new", "registered", "read", "ready"}, receipt : Receipt]]
      /\ \A m \in Nodes : link'[m] = IF m = n THEN [phase |-> "ready", receipt |-> NoReceipt] ELSE link[m]
  BY <1>1, TaskTypes DEF CopiesInv, TypeOK
<1>4. r \in Receipt /\ n \in Nodes
  BY TypeFacts DEF CopiesInv
<1>5. BootsOrdered' <=> \A m \in Nodes : locations'[m].inventory <= registry[m].boot
  BY <1>1, <1>2, <1>3, TypeFacts DEF CopiesInv, BootsOrdered
<1>6. ASSUME UNCHANGED <<tasks, retirement>>
      PROVE  /\ TasksSound'
             /\ \A m \in Nodes, s \in Receipt : (Old(m, s) => Old(m, s)') /\ (Lost(m, s) => Lost(m, s)')
             /\ (\A m \in Nodes : PutJob(m))'
             /\ \A t \in Tasks : Running(t)' <=> Running(t)
  BY <1>1, <1>6 DEF CopiesInv, TasksSound, Old, Lost, JobsSound, PutJob, Running
\* A copy counts that did not, or not in this boot: it is there, and no copy replaces it.
<1>7. ASSUME UNCHANGED <<tasks, retirement>>, Held(n), ~retired, history' \subseteq Nodes, r # NoReceipt,
             NEW s \in Receipt, Old(n, s), s.by # Unknown, jobs[n].kind # "delete",
             locations' \in [Nodes -> Location], \A m \in Nodes : m # n => locations'[m] = locations[m],
             locations'[n].health = "VERIFIED", locations'[n].receipt = s,
             locations'[n].inventory = registry[n].boot
      PROVE  CopiesInv'
  <2>1. TypeOK'
    BY <1>1, <1>2, <1>3, <1>7 DEF CopiesInv, TypeOK, NodeRecord
  <2>3. (RetiredForEver /\ Untouched /\ BootsOrdered)'
    BY <1>1, <1>2, <1>3, <1>5, <1>7, TypeFacts DEF CopiesInv, RetiredForEver, Untouched, BootsOrdered, Located
  <2>4. JobsSound'
    BY <1>1, <1>2, <1>3, <1>6, <1>7, TypeFacts
    DEF CopiesInv, JobsSound, CopyJob, DeleteJob, Located, Held, Counted, Useful
  <2>5. (ReceiptsOld /\ BadAreLost)'
    BY <1>1, <1>2, <1>3, <1>6, <1>7, TypeFacts DEF CopiesInv, ReceiptsOld, BadAreLost, Located
  <2>6. ScrubSound'
    BY <1>1, <1>2, <1>6, <1>7, TypeFacts DEF CopiesInv, ScrubSound
  <2>7. (ReportsHold /\ PutHolds /\ CountedHeld)'
    BY <1>1, <1>2, <1>3, <1>7, TypeFacts
    DEF CopiesInv, ReportsHold, PutHolds, CountedHeld, Located, Held, Counted, Useful
  <2>8. CopiesSound'
    BY <1>1, <1>2, <1>3, <1>6, <1>7, TypeFacts DEF CopiesInv, CopiesSound, Held, Counted, TasksSound
  <2> QED BY <1>6, <1>7, <2>1, <2>3, <2>4, <2>5, <2>6, <2>7, <2>8 DEF CopiesInv
<1>8. CASE /\ r # NoReceipt /\ Recovered(r) /\ ~retired
           /\ Confirm(n, r) /\ UNCHANGED <<tasks, retirement>>
  <2>1. Held(n) /\ jobs[n].kind # "delete"
    BY <1>1, <1>8 DEF CopiesInv, ReportsHold, Recovered, JobsSound, DeleteJob
  <2>2. Old(n, r) /\ r.by # Unknown
    BY <1>8, TypeFacts DEF CopiesInv, ReceiptsOld, Recovered
  <2>3. history' \subseteq Nodes
    BY <1>8 DEF CopiesInv, TypeOK, Confirm
  <2>4. [health |-> "VERIFIED", receipt |-> r, inventory |-> registry[n].boot] \in Location
    BY <1>4, TypeFacts DEF CopiesInv, Location, Healths
  <2>5. /\ locations' \in [Nodes -> Location] /\ \A m \in Nodes : m # n => locations'[m] = locations[m]
        /\ locations'[n].health = "VERIFIED" /\ locations'[n].receipt = r
        /\ locations'[n].inventory = registry[n].boot
    BY <1>8, <2>4 DEF CopiesInv, TypeOK, Confirm
  <2> QED BY <1>4, <1>7, <1>8, <2>1, <2>2, <2>3, <2>5
<1>9. CASE /\ r # NoReceipt /\ same /\ ~retired
           /\ locations' = [locations EXCEPT ![n].health = "VERIFIED", ![n].inventory = registry[n].boot]
           /\ UNCHANGED <<history, tasks, retirement>>
  <2>1. Held(n) /\ jobs[n].kind # "delete"
    BY <1>1, <1>9 DEF CopiesInv, ReportsHold, JobsSound, DeleteJob
  <2>2. Old(n, r) /\ r.by # Unknown
    BY <1>9, TypeFacts DEF CopiesInv, ReceiptsOld
  <2>3. /\ locations' \in [Nodes -> Location] /\ \A m \in Nodes : m # n => locations'[m] = locations[m]
        /\ locations'[n].health = "VERIFIED" /\ locations'[n].receipt = r
        /\ locations'[n].inventory = registry[n].boot
    <3>1. locations' = [locations EXCEPT ![n] =
            [locations[n] EXCEPT !.health = "VERIFIED", !.inventory = registry[n].boot]]
      BY <1>9 DEF CopiesInv, TypeOK, Location
    <3>2. [locations[n] EXCEPT !.health = "VERIFIED", !.inventory = registry[n].boot] \in Location
      BY TypeFacts DEF CopiesInv, Location, Healths
    <3>3. locations'[n] = [locations[n] EXCEPT !.health = "VERIFIED", !.inventory = registry[n].boot]
      BY <3>1 DEF CopiesInv, TypeOK
    <3>4. locations'[n].health = "VERIFIED" /\ locations'[n].receipt = r /\ locations'[n].inventory = registry[n].boot
      BY ZenonT(30), <1>9, <3>3, TypeFacts DEF CopiesInv, Location
    <3> QED BY <3>1, <3>2, <3>4 DEF CopiesInv, TypeOK
  <2>4. history' \subseteq Nodes
    BY <1>9 DEF CopiesInv, TypeOK
  <2> QED BY <1>4, <1>7, <1>9, <2>1, <2>2, <2>3, <2>4
<1>10. CASE /\ r # NoReceipt /\ ~(Recovered(r) /\ ~retired) /\ RetireCopy(n, r, tasks)
            /\ UNCHANGED <<locations, history>>
  <2>1. r.by \in Tasks => op' = "ended" \/ retired'
    <3> SUFFICES ASSUME r.by \in Tasks, ~retired PROVE op = "ended"
      BY <1>1
    <3>1. tasks[r.by].kind = "copy" /\ record
      BY <1>10, TypeFacts DEF CopiesInv, ReceiptsOld, Old, TasksSound
    <3>2. op \notin {"none", "preparing", "committed"}
      BY <1>10, <3>1 DEF CopiesInv, Untouched, Recovered, Useful
    <3> QED BY <3>2 DEF CopiesInv, TypeOK
  <2>2. tasks' \in [Tasks -> Task] /\ retirement' \in [Nodes -> 0..MaxTasks] /\ TasksEvolve /\ DeletionsOnly
    <3>1. tasks \in [Tasks -> Task]
      BY DEF CopiesInv, TypeOK
    <3>2. Unaltered(tasks)
      BY DEF Unaltered, CopiesInv, TasksSound
    <3> HIDE DEF r
    <3> QED BY <1>4, <1>10, <2>1, <3>1, <3>2, RetireCopyTasks
  <2>3. NothingNew
    BY <1>1, <1>2, <1>3, <1>10, <2>2 DEF NothingNew
  <2>4. TypeOK'
    BY <1>1, <1>2, <1>3, <1>10, <2>2 DEF CopiesInv, TypeOK, NodeRecord
  <2>5. (RetiredForEver /\ BootsOrdered)'
    BY <1>1, <1>5, <1>10 DEF CopiesInv, RetiredForEver, Located, BootsOrdered
  <2>6. Untouched'
    BY <1>1, <1>10 DEF CopiesInv, Untouched
  <2> QED BY <1>1, <2>2, <2>3, <2>4, <2>5, <2>6, TakesNothing DEF CopiesInv
<1>11. CASE /\ r = NoReceipt \/ (Located(n) /\ ~(same /\ ~retired))
            /\ locations' = IF lost THEN [locations EXCEPT ![n].health = "MISSING"] ELSE locations
            /\ UNCHANGED <<history, tasks, retirement>>
  <2>1. CASE ~lost
    <3>1. NothingNew /\ DeletionsOnly
      BY <1>1, <1>2, <1>3, <1>11, <2>1, TasksAlone DEF NothingNew
    <3>2. TypeOK'
      BY <1>1, <1>2, <1>3, <1>11, <2>1 DEF CopiesInv, TypeOK, NodeRecord
    <3>3. (RetiredForEver /\ BootsOrdered)'
      BY <1>1, <1>5, <1>11, <2>1 DEF CopiesInv, RetiredForEver, Located, BootsOrdered
    <3>4. Untouched'
      BY <1>1, <1>3, <1>11 DEF CopiesInv, Untouched
    <3> QED BY <1>1, <3>1, <3>2, <3>3, <3>4, TakesNothing DEF CopiesInv
  <2>2. CASE lost
    <3>1. ~retired /\ Lost(n, locations[n].receipt) /\ locations[n].inventory < registry[n].boot
      <4>1. ~retired
        BY <2>2 DEF CopiesInv, RetiredForEver
      <4>2. locations[n].receipt # r
        <5>1. Old(n, locations[n].receipt)
          BY <2>2 DEF CopiesInv, ReceiptsOld
        <5>2. locations[n].receipt # NoReceipt
          BY <5>1 DEF Old
        <5> QED BY <1>11, <4>1, <5>2
      <4>3. Lost(n, locations[n].receipt)
        BY <1>1, <2>2, <4>2 DEF CopiesInv, BadAreLost
      <4>4. /\ locations[n].inventory \in Nat /\ registry[n].boot \in Nat
            /\ locations[n].inventory <= registry[n].boot /\ locations[n].inventory # registry[n].boot
        BY <2>2, TypeFacts DEF CopiesInv, BootsOrdered
      <4> QED BY <4>1, <4>3, <4>4
    <3>2. /\ locations' \in [Nodes -> Location]
          /\ \A m \in Nodes : m # n => locations'[m] = locations[m]
          /\ locations'[n].health = "MISSING" /\ locations'[n].receipt = locations[n].receipt
          /\ locations'[n].inventory = locations[n].inventory
      BY SMTT(30), <1>11, <2>2 DEF CopiesInv, TypeOK, Location, Healths
    <3>3. TypeOK'
      BY <1>1, <1>2, <1>3, <1>11, <3>2 DEF CopiesInv, TypeOK, NodeRecord
    <3>4. (RetiredForEver /\ Untouched /\ BootsOrdered)'
      <4>1. RetiredForEver'
        BY <1>1, <3>1 DEF RetiredForEver
      <4>2. Untouched'
        BY <1>1, <1>3, <1>11 DEF CopiesInv, Untouched
      <4>3. BootsOrdered'
        BY <1>1, <1>5, <3>2, TypeFacts DEF CopiesInv, BootsOrdered
      <4> QED BY <4>1, <4>2, <4>3
    <3>5. JobsSound'
      BY <1>1, <1>2, <1>3, <1>6, <1>11, <2>2, <3>1, <3>2, TypeFacts
      DEF CopiesInv, JobsSound, CopyJob, DeleteJob, Located, Held, Counted, Useful
    <3>6. (ReceiptsOld /\ BadAreLost)'
      BY <1>1, <1>2, <1>3, <1>6, <1>11, <2>2, <3>1, <3>2, TypeFacts DEF CopiesInv, ReceiptsOld, BadAreLost, Located
    <3>7. ScrubSound'
      BY <1>1, <1>2, <1>6, <1>11, <3>1, <3>2, TypeFacts DEF CopiesInv, ScrubSound
    <3>8. (ReportsHold /\ PutHolds /\ CountedHeld)'
      BY <1>1, <1>2, <1>3, <2>2, <3>2, TypeFacts
      DEF CopiesInv, ReportsHold, PutHolds, CountedHeld, Located, Held, Counted, Useful
    <3>9. CopiesSound'
      BY SMTT(30), <1>1, <1>2, <1>3, <1>6, <1>11, <3>2, TypeFacts DEF CopiesInv, CopiesSound, Held, Counted, TasksSound
    <3> QED BY <1>6, <1>11, <3>3, <3>4, <3>5, <3>6, <3>7, <3>8, <3>9 DEF CopiesInv
  <2> QED BY <2>1, <2>2
<1> QED
  <2>1. BlockReport(n) => \/ /\ r # NoReceipt /\ Recovered(r) /\ ~retired
                             /\ Confirm(n, r) /\ UNCHANGED <<tasks, retirement>>
                          \/ /\ r # NoReceipt /\ same /\ ~retired
                             /\ locations' = [locations EXCEPT ![n].health = "VERIFIED", ![n].inventory = registry[n].boot]
                             /\ UNCHANGED <<history, tasks, retirement>>
                          \/ /\ r # NoReceipt /\ ~(Recovered(r) /\ ~retired) /\ RetireCopy(n, r, tasks)
                             /\ UNCHANGED <<locations, history>>
                          \/ /\ r = NoReceipt \/ (Located(n) /\ ~(same /\ ~retired))
                             /\ locations' = IF lost THEN [locations EXCEPT ![n].health = "MISSING"] ELSE locations
                             /\ UNCHANGED <<history, tasks, retirement>>
    BY DEF BlockReport
  <2> QED BY <1>8, <1>9, <1>10, <1>11, <2>1

-----------------------------------------------------------------------------
(* The maintenance thread.                                                  *)

\* Steps of the loop that find nothing to do.
LEMMA IdleInv == ASSUME CopiesInv, NoScrub \/ NoClean PROVE CopiesInv'
<1> USE DEF NoScrub, NoClean, Step, catalog, node, world
<1>1. /\ UNCHANGED <<catalog, registry, tasks, retirement, node, world>>
      /\ maint' \in [step : Steps, node : Nodes \cup {NoNode}, receipt : Receipt, health : Healths]
      /\ maint'.step # "judge"
  BY DEF CopiesInv, TypeOK, Steps
<1>2. TypeOK'
  BY <1>1 DEF CopiesInv, TypeOK
<1>3. NothingNew /\ DeletionsOnly
  BY <1>1, TasksAlone DEF NothingNew
<1>4. (RetiredForEver /\ Untouched /\ BootsOrdered)'
  BY <1>1 DEF CopiesInv, RetiredForEver, Untouched, BootsOrdered, Located
<1> QED BY <1>1, <1>2, <1>3, <1>4, TakesNothing DEF CopiesInv

\* Tasks of the same kind, place and receipts, which at most stop running.
LEMMA TasksStop ==
  ASSUME CopiesInv, retirement' \in {retirement, [n \in Nodes |-> 0]},
         \A t \in Tasks :
           /\ tasks'[t].kind = tasks[t].kind /\ tasks'[t].dest = tasks[t].dest
           /\ tasks'[t].dest_boot = tasks[t].dest_boot /\ tasks'[t].replace = tasks[t].replace
           /\ tasks'[t].expected = tasks[t].expected
           /\ Running(t)' => Running(t)
  PROVE  TasksEvolve /\ DeletionsOnly
<1>1. TasksEvolve
  BY DEF TasksEvolve
<1>2. \A n \in Nodes : retirement[n] # 0 => retirement[n] \in Tasks
  BY TypeFacts, ReplicationAssumption DEF CopiesInv, Tasks
<1>3. DeletionsOnly
  BY <1>2 DEF CopiesInv, TasksSound, DeletionsOnly
<1> QED BY <1>1, <1>3

\* Hopeless copies fail.
LEMMA CollectTasksInv == ASSUME CopiesInv, CollectTasks PROVE CopiesInv'
<1> USE DEF CollectTasks, Step, catalog, node, world
<1>1. /\ maint' \in [step : Steps, node : Nodes \cup {NoNode}, receipt : Receipt, health : Healths]
      /\ maint'.step # "judge"
  BY DEF CopiesInv, TypeOK, Steps
<1>2. \A t \in Tasks : [tasks[t] EXCEPT !.state = "FAILED", !.live = FALSE] \in Task /\ tasks[t] \in Task
  BY ZenonT(30), TypeFacts DEF CopiesInv, Task
<1>3. tasks' \in [Tasks -> Task]
  BY <1>2
<1>4. TypeOK'
  BY <1>1, <1>3 DEF CopiesInv, TypeOK
<1>5. TasksEvolve /\ DeletionsOnly
  <2>1. \A t \in Tasks : tasks'[t] = IF Hopeless(t)
          THEN [tasks[t] EXCEPT !.state = "FAILED", !.live = FALSE] ELSE tasks[t]
    OBVIOUS
  <2>2. \A t \in Tasks :
          /\ tasks'[t].kind = tasks[t].kind /\ tasks'[t].dest = tasks[t].dest
          /\ tasks'[t].dest_boot = tasks[t].dest_boot /\ tasks'[t].replace = tasks[t].replace
          /\ tasks'[t].expected = tasks[t].expected /\ (Running(t)' => Running(t))
    BY ZenonT(30), <1>2, <2>1 DEF Task, Running
  <2> QED BY <2>2, TasksStop
<1>6. NothingNew
  BY <1>1, <1>5 DEF NothingNew
<1>7. (RetiredForEver /\ Untouched /\ BootsOrdered)'
  BY <1>5 DEF CopiesInv, RetiredForEver, Untouched, BootsOrdered, Located, TasksEvolve, Hopeless
<1> QED BY <1>4, <1>5, <1>6, <1>7, TakesNothing DEF CopiesInv

\* Five minutes pass over a task.
LEMMA TaskExpiresInv == ASSUME CopiesInv, NEW t \in Tasks, TaskExpires(t) PROVE CopiesInv'
<1> USE DEF TaskExpires, Fault, catalog, node
<1>1. [tasks[t] EXCEPT !.live = FALSE] \in Task /\ tasks[t] \in Task /\ tasks \in [Tasks -> Task]
  <2>1. tasks[t] \in Task /\ tasks \in [Tasks -> Task]
    BY TypeFacts DEF CopiesInv, TypeOK
  <2> QED BY <2>1 DEF Task
<1>2. tasks' = [tasks EXCEPT ![t] = [tasks[t] EXCEPT !.live = FALSE]] /\ tasks' \in [Tasks -> Task]
  BY <1>1 DEF Task
<1>3. TypeOK'
  BY <1>2, ReplicationAssumption DEF CopiesInv, TypeOK
<1>4. TasksEvolve /\ DeletionsOnly
  <2>1. \A u \in Tasks :
          /\ tasks'[u].kind = tasks[u].kind /\ tasks'[u].dest = tasks[u].dest
          /\ tasks'[u].dest_boot = tasks[u].dest_boot /\ tasks'[u].replace = tasks[u].replace
          /\ tasks'[u].expected = tasks[u].expected /\ (Running(u)' => Running(u))
    BY <1>1, <1>2 DEF Task, Running
  <2> QED BY <2>1, TasksStop
<1>5. NothingNew
  BY <1>4 DEF NothingNew
<1>6. (RetiredForEver /\ Untouched /\ BootsOrdered)'
  BY <1>1, <1>2 DEF CopiesInv, RetiredForEver, Untouched, BootsOrdered, Located, Task
<1> QED BY <1>3, <1>4, <1>5, <1>6, TakesNothing DEF CopiesInv

\* The block is retired when nothing retains it.
LEMMA CollectBlocksInv == ASSUME CopiesInv, CollectBlocks PROVE CopiesInv'
<1> USE DEF CollectBlocks, Step, node, world
<1>1. /\ maint' \in [step : Steps, node : Nodes \cup {NoNode}, receipt : Receipt, health : Healths]
      /\ maint'.step # "judge"
  BY DEF CopiesInv, TypeOK, Steps
<1>2. CASE UNCHANGED <<record, retired, locations, tasks, retirement>>
  <2>1. TypeOK'
    BY <1>1, <1>2 DEF CopiesInv, TypeOK
  <2>2. NothingNew /\ DeletionsOnly
    BY <1>1, <1>2, TasksAlone DEF NothingNew
  <2>3. (RetiredForEver /\ Untouched /\ BootsOrdered)'
    BY <1>2 DEF CopiesInv, RetiredForEver, Untouched, BootsOrdered, Located
  <2> QED BY <2>1, <2>2, <2>3, TakesNothing DEF CopiesInv
<1>3. CASE record /\ Unretained /\ RetireBlock
  <2> DEFINE doomed == {n \in Nodes : Located(n) /\ Unretired(n)}
  <2>1. /\ locations' = [n \in Nodes |-> NoLocation]
        /\ record' = FALSE /\ retired' = TRUE
    BY <1>3 DEF RetireBlock
  <2>2. PICK f \in NewIds(doomed) :
          /\ tasks' = [t \in Tasks |->
               IF \E n \in doomed : f[n] = t
               THEN LET n == CHOOSE m \in doomed : f[m] = t
                    IN  DeleteTask(n, locations[n].receipt)
               ELSE tasks[t]]
          /\ retirement' = [n \in Nodes |-> IF n \in doomed THEN f[n] ELSE retirement[n]]
    BY <1>3 DEF RetireBlock
  <2>3. \A n \in doomed : f[n] \in Tasks /\ tasks[f[n]].kind = "none"
    BY DEF NewIds, Fresh
  <2>4. \A t \in Tasks :
          \/ tasks'[t] = tasks[t] /\ ~\E n \in doomed : f[n] = t
          \/ /\ tasks[t].kind = "none" /\ \E n \in doomed : f[n] = t
             /\ tasks'[t] \in Task /\ tasks'[t].kind = "delete" /\ tasks'[t].dest \in Nodes
    <3> SUFFICES ASSUME NEW t \in Tasks, NEW n \in doomed, f[n] = t
                 PROVE  /\ tasks[t].kind = "none" /\ tasks'[t] \in Task
                        /\ tasks'[t].kind = "delete" /\ tasks'[t].dest \in Nodes
      BY <2>2
    <3>1. PICK m \in doomed : tasks'[t] = DeleteTask(m, locations[m].receipt)
      <4>1. (CHOOSE m \in doomed : f[m] = t) \in doomed
        OBVIOUS
      <4> QED BY <2>2, <4>1
    <3>2. m \in Nodes /\ locations[m].receipt \in Receipt
      BY TypeFacts DEF CopiesInv
    <3> QED BY <2>3, <3>1, <3>2, TaskTypes
  <2>5. tasks' \in [Tasks -> Task] /\ retirement' \in [Nodes -> 0..MaxTasks]
    <3>1. DOMAIN tasks' = Tasks /\ tasks' = [t \in Tasks |-> tasks'[t]]
      BY <2>2
    <3>2. \A t \in Tasks : tasks'[t] \in Task
      BY <2>4, TypeFacts DEF CopiesInv
    <3>3. Tasks \subseteq 0..MaxTasks /\ \A n \in Nodes : retirement[n] \in 0..MaxTasks
      BY TypeFacts, ReplicationAssumption DEF CopiesInv, Tasks
    <3>4. \A n \in Nodes : (IF n \in doomed THEN f[n] ELSE retirement[n]) \in 0..MaxTasks
      BY <2>3, <3>3
    <3> QED BY <2>2, <3>1, <3>2, <3>4
  <2>6. TypeOK'
    <3>1. locations' \in [Nodes -> Location]
      BY <2>1, TaskTypes
    <3> QED BY <1>1, <2>1, <2>5, <3>1 DEF CopiesInv, TypeOK
  <2>7. TasksEvolve
    BY <2>4 DEF TasksEvolve, Running
  <2>8. DeletionsOnly
    <3>1. \A n \in Nodes : retirement[n] # 0 => retirement[n] \in Tasks /\ tasks[retirement[n]].kind = "delete"
      BY TypeFacts, ReplicationAssumption DEF CopiesInv, Tasks, TasksSound
    <3>2. \A n \in Nodes : retirement'[n] # 0 => tasks'[retirement'[n]].kind = "delete"
      <4> SUFFICES ASSUME NEW n \in Nodes, retirement'[n] # 0 PROVE tasks'[retirement'[n]].kind = "delete"
        OBVIOUS
      <4>1. CASE n \in doomed
        BY <2>2, <2>3, <2>4, <4>1
      <4>2. CASE n \notin doomed
        BY <2>2, <2>4, <3>1, <4>2
      <4> QED BY <4>1, <4>2
    <3>3. \A t \in Tasks : tasks[t].kind = "none" =>
            tasks'[t].kind = "none" \/ (tasks'[t].kind = "delete" /\ tasks'[t].dest \in Nodes)
      BY <2>4 DEF CopiesInv, TasksSound
    <3> QED BY <2>1, <3>2, <3>3 DEF DeletionsOnly
  <2>9. NothingNew
    BY <1>1, <1>3, <2>1, <2>7 DEF NothingNew, CopiesInv, TypeOK
  <2>10. (RetiredForEver /\ Untouched /\ BootsOrdered)'
    BY <1>3, <2>1, TypeFacts DEF CopiesInv, RetiredForEver, Untouched, BootsOrdered, Located, NoLocation
  <2> QED BY <2>6, <2>8, <2>9, <2>10, TakesNothing DEF CopiesInv
<1> QED BY <1>2, <1>3

\* scrub() asks: a verdict that condemns is of a lost receipt.
LEMMA ScrubInv == ASSUME CopiesInv, NEW n \in Nodes, Scrub(n) PROVE CopiesInv'
<1> USE DEF Scrub, catalog, node, world
<1>1. Verdict(n, locations[n].receipt) \in Healths /\ locations[n].receipt \in Receipt
  BY TypeFacts DEF CopiesInv, Verdict, Healths
<1>2. TypeOK'
  BY <1>1 DEF CopiesInv, TypeOK, Steps
<1>3. Old(n, locations[n].receipt) /\ locations[n].receipt.by # Unknown
  BY DEF CopiesInv, ReceiptsOld, Located
<1>4. Verdict(n, locations[n].receipt) \in {"CORRUPT", "MISSING"} => Lost(n, locations[n].receipt)
  <2>1. locations[n].receipt # NoReceipt
    BY <1>3 DEF Old
  <2> QED BY <1>3, <2>1 DEF Verdict, Lost
<1>5. \A m \in Nodes, r \in Receipt : (Old(m, r) => Old(m, r)') /\ (Lost(m, r) => Lost(m, r)')
  BY DEF Old, Lost
<1>6. ScrubSound'
  BY <1>1, <1>3, <1>4, <1>5 DEF ScrubSound
<1>7. (/\ RetiredForEver /\ Untouched /\ BootsOrdered /\ TasksSound /\ JobsSound /\ ReportsHold
       /\ PutHolds /\ CountedHeld)'
  BY DEF CopiesInv, RetiredForEver, Untouched, BootsOrdered, TasksSound, JobsSound, PutJob, CopyJob,
    DeleteJob, ReportsHold, PutHolds, CountedHeld, Located, Held, Counted, Useful, Running
<1>8. (ReceiptsOld /\ BadAreLost)'
  BY <1>5, TypeFacts DEF CopiesInv, ReceiptsOld, BadAreLost, Located
<1>9. CopiesSound'
  BY <1>5, TypeFacts DEF CopiesInv, CopiesSound, TasksSound, Held, Counted, Running
<1> QED BY <1>2, <1>6, <1>7, <1>8, <1>9 DEF CopiesInv

\* The verdict is applied: it condemns only lost receipts, and absolves no copy into those
\* that count.
LEMMA JudgeInv == ASSUME CopiesInv, Judge PROVE CopiesInv'
<1> DEFINE n == maint.node
           hit == maint.health # "NONE" /\ Located(n) /\ locations[n].receipt = maint.receipt
<1> USE DEF node, world
<1>1. /\ n \in Nodes /\ maint.step = "judge"
      /\ UNCHANGED <<op, assigned, record, retired, history, registry, tasks, retirement, node, world>>
      /\ maint' = [step |-> "reconcile", node |-> NoNode, receipt |-> NoReceipt, health |-> "NONE"]
  BY DEF CopiesInv, ScrubSound, Judge
<1>2. /\ locations' \in [Nodes -> Location]
      /\ \A m \in Nodes : /\ locations'[m].receipt = locations[m].receipt
                          /\ locations'[m].inventory = locations[m].inventory
                          /\ locations'[m].health = IF hit /\ m = n THEN maint.health ELSE locations[m].health
  <2>1. maint.health \in Healths /\ locations \in [Nodes -> Location]
    BY TypeFacts DEF CopiesInv, TypeOK
  <2>2. CASE hit
    <3>1. locations' = [locations EXCEPT ![n].health = maint.health]
      BY <2>2 DEF Judge
    <3> QED BY <1>1, <2>1, <2>2, <3>1 DEF Location
  <2>3. CASE ~hit
    <3>1. locations' = locations
      BY <2>3 DEF Judge
    <3> QED BY <2>1, <2>3, <3>1 DEF Location
  <2> QED BY <2>2, <2>3
<1>3. TypeOK'
  BY <1>1, <1>2, TaskTypes DEF CopiesInv, TypeOK, Steps, Healths
<1>4. \A m \in Nodes : (Located(m)' <=> Located(m)) /\ (Counted(m)' => Counted(m)) /\ (Held(m)' <=> Held(m))
  <2>1. \A m \in Nodes : Located(m)' <=> Located(m)
    BY <1>2 DEF Located
  <2>2. \A m \in Nodes : Counted(m)' => Counted(m)
    <3>1. hit => locations[n].health = "VERIFIED" \/ locations[n].inventory < registry[n].boot
      BY <1>1 DEF CopiesInv, ScrubSound, Located
    <3>2. \A m \in Nodes : locations[m].inventory \in Nat /\ registry[m].boot \in Nat
      BY TypeFacts DEF CopiesInv
    <3> QED BY <1>1, <1>2, <3>1, <3>2 DEF Counted
  <2> QED BY <1>1, <2>1, <2>2 DEF Held
<1>5. \A m \in Nodes, r \in Receipt : (Old(m, r) => Old(m, r)') /\ (Lost(m, r) => Lost(m, r)')
  BY <1>1 DEF Old, Lost
<1>6. (RetiredForEver /\ Untouched /\ BootsOrdered /\ TasksSound)'
  BY <1>1, <1>2, <1>4 DEF CopiesInv, RetiredForEver, Untouched, BootsOrdered, TasksSound
<1>7. JobsSound'
  BY <1>1, <1>4 DEF CopiesInv, JobsSound, PutJob, CopyJob, DeleteJob, Useful, Running
<1>8. ReceiptsOld'
  BY <1>1, <1>2, <1>4, <1>5, TypeFacts DEF CopiesInv, ReceiptsOld
<1>9. BadAreLost'
  <2>1. hit /\ maint.health \in {"CORRUPT", "MISSING"} => Lost(n, locations[n].receipt)
    BY <1>1 DEF CopiesInv, ScrubSound
  <2>2. \A m \in Nodes : locations'[m].health \in {"CORRUPT", "MISSING"} => Lost(m, locations[m].receipt)
    BY <1>2, <2>1 DEF CopiesInv, BadAreLost
  <2> QED BY <1>1, <1>2, <1>4, <1>5, <2>2, TypeFacts DEF CopiesInv, BadAreLost
<1>10. (ScrubSound /\ ReportsHold /\ PutHolds /\ CountedHeld)'
  BY <1>1, <1>4 DEF CopiesInv, ScrubSound, ReportsHold, PutHolds, CountedHeld, Useful
<1>11. CopiesSound'
  BY <1>1, <1>4, <1>5, TypeFacts DEF CopiesInv, CopiesSound, TasksSound, Running
<1> QED BY <1>3, <1>6, <1>7, <1>8, <1>9, <1>10, <1>11 DEF CopiesInv

\* reconcile() plans at most one copy to a node, and none that replaces a copy that counts.
LEMMA ReconcileInv == ASSUME CopiesInv, Reconcile PROVE CopiesInv'
<1> USE DEF catalog, node, world
<1>1. /\ maint' \in [step : Steps, node : Nodes \cup {NoNode}, receipt : Receipt, health : Healths]
      /\ maint'.step # "judge"
      /\ UNCHANGED <<catalog, registry, retirement, node, world>>
  BY DEF Reconcile, Step, CopiesInv, TypeOK, Steps
<1>2. PICK D \in SUBSET {n \in Nodes : Ready(n) /\ n \notin Covered} :
        /\ D # {} => /\ Useful /\ record /\ ~retired /\ Eligible # {}
                     /\ Cardinality(Covered) + Cardinality(D) <= R
        /\ \E f \in NewIds(D), s \in IF D = {} THEN {NoNode} ELSE Eligible :
             tasks' = [t \in Tasks |->
               IF \E n \in D : f[n] = t THEN CopyTask(s, CHOOSE n \in D : f[n] = t) ELSE tasks[t]]
  BY DEF Reconcile
<1>3. PICK f \in NewIds(D), s \in IF D = {} THEN {NoNode} ELSE Eligible :
        tasks' = [t \in Tasks |->
          IF \E n \in D : f[n] = t THEN CopyTask(s, CHOOSE n \in D : f[n] = t) ELSE tasks[t]]
  BY <1>2
<1>4. \A n \in D : /\ f[n] \in Tasks /\ tasks[f[n]].kind = "none" /\ n \in Nodes
                   /\ \A m \in D : f[m] = f[n] => m = n
  BY <1>2 DEF NewIds, Fresh
<1>5. ASSUME NEW n \in D
      PROVE  LET c == CopyTask(s, n) IN
             /\ c \in Task /\ c.kind = "copy" /\ c.dest = n /\ c.expected = NoReceipt
             /\ c.replace = IF locations[n].health \in {"CORRUPT", "MISSING"}
                            THEN locations[n].receipt ELSE NoReceipt
  <2>1. s \in Nodes /\ n \in Nodes
    BY <1>3, <1>4, <1>5 DEF Eligible
  <2>2. /\ registry[s].boot \in Nat /\ registry[n].boot \in Nat /\ locations[n].receipt \in Receipt
        /\ NoReceipt \in Receipt
    BY <2>1, TypeFacts, TaskTypes DEF CopiesInv
  <2> QED BY <2>1, <2>2 DEF CopyTask, NoTask, Task
<1>6. \A t \in Tasks :
        \/ tasks'[t] = tasks[t]
        \/ tasks[t].kind = "none" /\ \E n \in D : f[n] = t /\ tasks'[t] = CopyTask(s, n)
  <2> SUFFICES ASSUME NEW t \in Tasks, NEW n \in D, f[n] = t
               PROVE  tasks[t].kind = "none" /\ tasks'[t] = CopyTask(s, n)
    BY <1>3
  <2>1. (CHOOSE m \in D : f[m] = t) = n
    BY <1>4
  <2> QED BY <1>3, <1>4, <2>1
<1>7. TypeOK'
  <2>1. \A t \in Tasks : tasks'[t] \in Task
    BY <1>5, <1>6, TypeFacts DEF CopiesInv
  <2>2. tasks' = [t \in Tasks |-> tasks'[t]]
    BY <1>3
  <2>3. tasks' \in [Tasks -> Task]
    BY <2>1, <2>2
  <2> QED BY <1>1, <2>3 DEF CopiesInv, TypeOK
<1>8. NothingNew
  <2>1. TasksEvolve
    BY <1>6 DEF TasksEvolve, Running
  <2> QED BY <1>1, <2>1 DEF NothingNew
<1>9. D # {} => op # "none" /\ record
  BY <1>2 DEF Useful
<1>10. (RetiredForEver /\ Untouched /\ BootsOrdered)'
  BY <1>1, <1>6, <1>9 DEF CopiesInv, RetiredForEver, Untouched, BootsOrdered, Located
<1>11. TasksSound'
  <2>1. ASSUME NEW t \in Tasks
        PROVE  (/\ tasks[t].kind = "none" =>
                     outcome[t] = "NONE" /\ \A m \in requests : m.task # t
                /\ tasks[t].kind # "none" => tasks[t].dest \in Nodes
                /\ tasks[t].kind = "copy" => record \/ retired
                /\ tasks[t].expected.by \in Tasks => op = "ended" \/ retired)'
    <3>1. CASE tasks'[t] = tasks[t]
      BY <1>1, <3>1 DEF CopiesInv, TasksSound
    <3>2. CASE \E n \in D : tasks'[t] = CopyTask(s, n)
      BY <1>1, <1>4, <1>5, <1>9, <3>2, TypeFacts DEF CopiesInv
    <3> QED BY <1>6, <3>1, <3>2
  <2>2. (\A m \in requests : m.expected.by \in Tasks => op = "ended" \/ retired)'
    BY <1>1 DEF CopiesInv, TasksSound
  <2>3. (\A n \in Nodes : retirement[n] # 0 => tasks[retirement[n]].kind = "delete")'
    <3>1. \A n \in Nodes : retirement[n] # 0 => retirement[n] \in Tasks /\ tasks[retirement[n]].kind = "delete"
      BY TypeFacts, ReplicationAssumption DEF CopiesInv, Tasks, TasksSound
    <3> QED BY <1>1, <1>6, <3>1
  <2>4. (record \/ retired => assigned.node \in Nodes /\ put[assigned.node] # 0)'
    BY <1>1 DEF CopiesInv, TasksSound
  <2> QED BY <2>1, <2>2, <2>3, <2>4 DEF TasksSound
<1>12. CopiesSound'
  <2> SUFFICES ASSUME NEW t \in Tasks, (tasks[t].kind = "copy" /\ Running(t))'
               PROVE  (LET n == tasks[t].dest
                           r == tasks[t].replace
                       IN  /\ \A u \in Tasks : tasks[u].kind = "copy" /\ Running(u) /\ tasks[u].dest = n => u = t
                           /\ outcome[t] = "FINISHED" => Held(n)
                           /\ r # NoReceipt =>
                                /\ Lost(n, r)
                                /\ link[n].phase = "read" /\ link[n].receipt # NoReceipt => stored[n] # r
                                /\ Counted(n) => stored[n] # r)'
    BY DEF CopiesSound
  <2>1. \A m \in Nodes : (Counted(m)' <=> Counted(m)) /\ (Held(m)' <=> Held(m))
    BY <1>1 DEF Counted, Held
  <2>2. \A u \in Tasks : tasks'[u] = tasks[u] => (Running(u)' <=> Running(u))
    BY DEF Running
  <2>3. CASE tasks'[t] = tasks[t]
    <3>1. tasks[t].kind = "copy" /\ Running(t) /\ tasks[t].dest \in Nodes /\ tasks[t].replace \in Receipt
      BY <2>2, <2>3, TypeFacts DEF CopiesInv, TasksSound
    <3>2. ASSUME NEW u \in Tasks, (tasks[u].kind = "copy" /\ Running(u) /\ tasks[u].dest = tasks[t].dest)'
          PROVE  u = t
      <4>1. CASE tasks'[u] = tasks[u]
        BY <2>2, <2>3, <3>1, <3>2, <4>1 DEF CopiesInv, CopiesSound
      <4>2. CASE \E n \in D : tasks'[u] = CopyTask(s, n)
        <5>1. PICK n \in D : tasks'[u] = CopyTask(s, n)
          BY <4>2
        <5>2. n = tasks[t].dest
          BY <1>5, <2>3, <3>2, <5>1
        <5>3. n \in Covered
          BY <1>4, <3>1, <5>2 DEF Covered, CopyingTo
        <5> QED BY <1>2, <5>3
      <4> QED BY <1>6, <4>1, <4>2
    <3> QED BY <1>1, <1>8, <2>1, <2>3, <3>1, <3>2, OldCarries DEF CopiesInv, CopiesSound
  <2>4. CASE \E n \in D : f[n] = t /\ tasks[t].kind = "none" /\ tasks'[t] = CopyTask(s, n)
    <3>1. PICK n \in D : f[n] = t /\ tasks[t].kind = "none" /\ tasks'[t] = CopyTask(s, n)
      BY <2>4
    <3>2. n \in Nodes /\ Ready(n) /\ n \notin Covered /\ tasks'[t].dest = n
      BY <1>2, <1>5, <3>1
    <3>3. ASSUME NEW u \in Tasks, (tasks[u].kind = "copy" /\ Running(u) /\ tasks[u].dest = n)' PROVE u = t
      <4>1. CASE tasks'[u] = tasks[u]
        BY <2>2, <3>2, <3>3, <4>1 DEF Covered, CopyingTo
      <4>2. CASE \E m \in D : f[m] = u /\ tasks'[u] = CopyTask(s, m)
        BY <1>5, <3>1, <3>3, <4>2
      <4> QED BY <1>6, <4>1, <4>2
    <3>4. outcome'[t] # "FINISHED"
      BY <1>1, <3>1 DEF CopiesInv, TasksSound
    <3>5. tasks'[t].replace # NoReceipt =>
            /\ locations[n].health \in {"CORRUPT", "MISSING"} /\ tasks'[t].replace = locations[n].receipt
            /\ Lost(n, locations[n].receipt) /\ locations[n].receipt \in Receipt
      BY <1>5, <3>1, <3>2, TypeFacts DEF CopiesInv, BadAreLost
    <3>6. link'[n].phase # "read"
      BY <1>1, <3>2 DEF CopiesInv, BootsOrdered, Ready
    <3> QED BY <1>8, <2>1, <3>2, <3>3, <3>4, <3>5, <3>6, OldCarries DEF Counted
  <2> QED BY <1>6, <2>3, <2>4
<1> QED BY <1>7, <1>8, <1>10, <1>11, <1>12, NothingNewCarries DEF CopiesInv

\* A set of tasks that is not empty has a first one.
LEMMA FirstOf == ASSUME NEW S \in SUBSET Tasks, S # {} PROVE First(S) \in S
<1>1. S \subseteq Nat
  BY ReplicationAssumption DEF Tasks
<1>2. PICK x \in S : \A y \in S : ~(<<y, x>> \in OpToRel(<, Nat))
  BY <1>1, NatLessThanWellFounded, WFMin
<1>3. \A y \in S : x <= y
  <2> SUFFICES ASSUME NEW y \in S, y < x PROVE FALSE
    BY <1>1
  <2>1. <<y, x>> \in OpToRel(<, Nat)
    BY <1>1 DEF OpToRel
  <2> QED BY <1>2, <2>1
<1> QED BY <1>3 DEF First

\* A copy of a useless block was finished: it is to be deleted.
LEMMA CleanOrphanInv == ASSUME CopiesInv, CleanOrphan PROVE CopiesInv'
<1> DEFINE t == First(Orphans)
           n == tasks[t].dest
           e == [by |-> t, boot |-> tasks[t].dest_boot]
           checked == [tasks EXCEPT ![t].checked = TRUE]
<1> USE DEF catalog, node, world
<1>1. /\ maint' \in [step : Steps, node : Nodes \cup {NoNode}, receipt : Receipt, health : Healths]
      /\ maint'.step # "judge"
      /\ UNCHANGED <<catalog, registry, node, world>> /\ Orphans # {}
  BY DEF CleanOrphan, Step, CopiesInv, TypeOK, Steps
<1>2. t \in Tasks /\ tasks[t].kind = "copy" /\ ~Useful
  <2>1. t \in Orphans
    BY <1>1, FirstOf DEF Orphans
  <2> QED BY <2>1 DEF Orphans
<1>3. n \in Nodes /\ e \in Receipt
  BY <1>2, TypeFacts, ReplicationAssumption DEF CopiesInv, TasksSound, Receipt, Tasks, Unknown
<1>4. op = "ended"
  <2>1. op # "none"
    BY <1>2 DEF CopiesInv, Untouched
  <2> QED BY <1>2, <2>1 DEF CopiesInv, TypeOK, Useful
<1>5. checked \in [Tasks -> Task] /\ Unaltered(checked)
  <2>1. [tasks[t] EXCEPT !.checked = TRUE] \in Task /\ tasks[t] \in Task
    <3>1. tasks[t] \in Task
      BY <1>2, TypeFacts DEF CopiesInv
    <3> QED BY <3>1 DEF Task
  <2>2. checked = [tasks EXCEPT ![t] = [tasks[t] EXCEPT !.checked = TRUE]] /\ tasks \in [Tasks -> Task]
    BY DEF CopiesInv, TypeOK, Task
  <2>3. checked \in [Tasks -> Task]
    BY <2>1, <2>2
  <2>4. \A u \in Tasks : u # t => checked[u] = tasks[u]
    BY <2>2
  <2>5. checked[t] = [tasks[t] EXCEPT !.checked = TRUE]
    BY <1>2, <2>2
  <2>6. /\ checked[t].kind = tasks[t].kind /\ checked[t].dest = tasks[t].dest
        /\ checked[t].dest_boot = tasks[t].dest_boot /\ checked[t].replace = tasks[t].replace
        /\ checked[t].state = tasks[t].state /\ checked[t].live = tasks[t].live
        /\ checked[t].expected = tasks[t].expected
    BY <2>1, <2>5 DEF Task
  <2> HIDE DEF checked, t
  <2> QED BY <1>2, <2>3, <2>4, <2>6 DEF Unaltered, CopiesInv, TasksSound
<1>6. /\ tasks' \in [Tasks -> Task] /\ retirement' \in [Nodes -> 0..MaxTasks]
      /\ TasksEvolve /\ DeletionsOnly
  <2>1. CASE RetireCopy(n, e, checked)
    <3> HIDE DEF checked, n, e
    <3> QED BY <1>1, <1>3, <1>4, <1>5, <2>1, RetireCopyTasks
  <2>2. CASE tasks' = checked /\ UNCHANGED retirement
    <3>1. \A u \in Tasks :
           /\ tasks'[u].kind = tasks[u].kind /\ tasks'[u].dest = tasks[u].dest
           /\ tasks'[u].dest_boot = tasks[u].dest_boot /\ tasks'[u].replace = tasks[u].replace
           /\ tasks'[u].expected = tasks[u].expected
           /\ Running(u)' => Running(u)
      <4> HIDE DEF checked
      <4> QED BY <1>5, <2>2 DEF Unaltered, Running
    <3>2. TasksEvolve /\ DeletionsOnly
      BY <2>2, <3>1, TasksStop
    <3>3. tasks' \in [Tasks -> Task]
      BY <1>5, <2>2
    <3>4. retirement' \in [Nodes -> 0..MaxTasks]
      BY <2>2 DEF CopiesInv, TypeOK
    <3> QED BY <3>2, <3>3, <3>4
  <2> QED BY <2>1, <2>2 DEF CleanOrphan
<1>7. TypeOK'
  BY <1>1, <1>6 DEF CopiesInv, TypeOK
<1>8. NothingNew
  BY <1>1, <1>6 DEF NothingNew
<1>9. (RetiredForEver /\ Untouched /\ BootsOrdered)'
  BY <1>1, <1>4 DEF CopiesInv, RetiredForEver, Untouched, BootsOrdered, Located
<1> QED BY <1>1, <1>6, <1>7, <1>8, <1>9, TakesNothing DEF CopiesInv

\* The first copy and the first deletion are sent to their nodes.
LEMMA DispatchInv == ASSUME CopiesInv, Dispatch PROVE CopiesInv'
<1> USE DEF catalog, node, world
<1>1. /\ maint' \in [step : Steps, node : Nodes \cup {NoNode}, receipt : Receipt, health : Healths]
      /\ maint'.step # "judge"
      /\ UNCHANGED <<catalog, registry, retirement, node, faults, corrupted>>
  BY DEF Dispatch, Step, CopiesInv, TypeOK, Steps
<1>2. PICK S \in SUBSET {t \in Heads : Ready(tasks[t].dest)} :
        /\ requests' = requests \cup {[task |-> t, expected |-> tasks[t].expected] : t \in S}
        /\ tasks' = [t \in Tasks |-> IF t \in S THEN [tasks[t] EXCEPT !.dispatched = TRUE] ELSE tasks[t]]
  BY DEF Dispatch
<1>3. \A t \in S : t \in Tasks /\ tasks[t].kind \in {"copy", "delete"}
  <2> DEFINE copies == {t \in Tasks : tasks[t].kind = "copy" /\ Running(t)}
             deletes == {t \in Tasks : tasks[t].kind = "delete" /\ Running(t)}
  <2>1. ASSUME NEW t \in S PROVE \E H \in {Sent, copies, deletes} : H # {} /\ t = First(H)
    BY <1>2, <2>1 DEF Heads
  <2>2. \A H \in {Sent, copies, deletes} : H # {} => First(H) \in H
    BY FirstOf DEF Sent
  <2> QED BY <2>1, <2>2 DEF Sent
<1>4. \A t \in Tasks : tasks[t] \in Task /\ [tasks[t] EXCEPT !.dispatched = TRUE] \in Task
  BY ZenonT(30), TypeFacts DEF CopiesInv, Task
<1>5. tasks' \in [Tasks -> Task]
  BY <1>2, <1>4
<1>6. \A m \in requests' : m \in requests \/ \E t \in S : m = [task |-> t, expected |-> tasks[t].expected]
  BY <1>2
<1>7. TypeOK'
  <2>1. \A t \in S : [task |-> t, expected |-> tasks[t].expected] \in [task : Tasks, expected : Receipt]
    BY <1>3, TypeFacts DEF CopiesInv
  <2>2. requests' \subseteq [task : Tasks, expected : Receipt]
    BY <1>6, <2>1 DEF CopiesInv, TypeOK
  <2> QED BY <1>1, <1>5, <2>2 DEF CopiesInv, TypeOK
<1>8. \A t \in Tasks :
        /\ tasks'[t].kind = tasks[t].kind /\ tasks'[t].dest = tasks[t].dest
        /\ tasks'[t].dest_boot = tasks[t].dest_boot /\ tasks'[t].replace = tasks[t].replace
        /\ tasks'[t].expected = tasks[t].expected
        /\ Running(t)' => Running(t)
  <2>1. \A t \in Tasks : tasks'[t] = IF t \in S THEN [tasks[t] EXCEPT !.dispatched = TRUE] ELSE tasks[t]
    BY <1>2
  <2>2. \A t \in Tasks :
          /\ tasks'[t].kind = tasks[t].kind /\ tasks'[t].dest = tasks[t].dest
          /\ tasks'[t].dest_boot = tasks[t].dest_boot /\ tasks'[t].replace = tasks[t].replace
          /\ tasks'[t].expected = tasks[t].expected
          /\ tasks'[t].state = tasks[t].state /\ tasks'[t].live = tasks[t].live
    BY ZenonT(30), <1>4, <2>1 DEF Task
  <2> QED BY <2>2 DEF Running
<1>9. NothingNew
  BY <1>1, <1>8, TasksStop DEF NothingNew
<1>10. CopiesSound'
  BY <1>8, <1>9, CopiesCarry
<1>11. (RetiredForEver /\ Untouched /\ BootsOrdered)'
  BY <1>1, <1>8 DEF CopiesInv, RetiredForEver, Untouched, BootsOrdered, Located
<1>12. TasksSound'
  <2>1. \A t \in Tasks : (/\ tasks[t].kind = "none" => outcome[t] = "NONE"
                          /\ tasks[t].kind # "none" => tasks[t].dest \in Nodes
                          /\ tasks[t].kind = "copy" => record \/ retired
                          /\ tasks[t].expected.by \in Tasks => op = "ended" \/ retired)'
    BY <1>1, <1>8 DEF CopiesInv, TasksSound
  <2>2. \A m \in requests' : tasks[m.task].kind # "none" /\ (m.expected.by \in Tasks => op = "ended" \/ retired)
    <3>1. \A m \in requests : tasks[m.task].kind # "none" /\ (m.expected.by \in Tasks => op = "ended" \/ retired)
      BY TypeFacts DEF CopiesInv, TasksSound
    <3>2. \A t \in S : tasks[t].kind # "none" /\ (tasks[t].expected.by \in Tasks => op = "ended" \/ retired)
      BY <1>3 DEF CopiesInv, TasksSound
    <3> QED BY <1>6, <3>1, <3>2
  <2>3. \A n \in Nodes : (retirement[n] # 0 => tasks[retirement[n]].kind = "delete")'
    <3>1. \A n \in Nodes : retirement[n] # 0 => retirement[n] \in Tasks /\ tasks[retirement[n]].kind = "delete"
      BY TypeFacts, ReplicationAssumption DEF CopiesInv, Tasks, TasksSound
    <3> QED BY <1>1, <1>8, <3>1
  <2>4. (record \/ retired => assigned.node \in Nodes /\ put[assigned.node] # 0)'
    BY <1>1 DEF CopiesInv, TasksSound
  <2> QED BY <1>1, <1>8, <2>1, <2>2, <2>3, <2>4 DEF TasksSound
<1> QED BY <1>7, <1>9, <1>10, <1>11, <1>12, NothingNewCarries DEF CopiesInv

\* The control starts again: tasks stop, and a block that nothing keeps is retired.
LEMMA ControlRestartInv == ASSUME CopiesInv, ControlRestart PROVE CopiesInv'
<1> DEFINE after == IF op = "preparing" THEN "ended" ELSE op
           drop == record /\ after # "committed" /\ ~\E n \in Nodes : CopyingTo(n)
<1>1. /\ maint'.step # "judge"
      /\ maint' \in [step : Steps, node : Nodes \cup {NoNode}, receipt : Receipt, health : Healths]
  BY TaskTypes DEF Steps, Healths, ControlRestart
<1>2. /\ tasks' \in [Tasks -> Task]
      /\ \A t \in Tasks :
           /\ tasks'[t].kind = tasks[t].kind /\ tasks'[t].dest = tasks[t].dest
           /\ tasks'[t].dest_boot = tasks[t].dest_boot /\ tasks'[t].replace = tasks[t].replace
           /\ tasks'[t].expected = tasks[t].expected /\ tasks'[t].state \notin Active
  <2> DEFINE c(t) == [tasks[t] EXCEPT !.owned = FALSE, !.state = IF @ \in Active THEN "FAILED" ELSE @,
                                      !.live = @ /\ tasks[t].state \notin Active]
  <2>1. ASSUME NEW t \in Tasks
        PROVE  /\ c(t) \in Task /\ c(t).kind = tasks[t].kind /\ c(t).dest = tasks[t].dest
               /\ c(t).dest_boot = tasks[t].dest_boot /\ c(t).replace = tasks[t].replace
               /\ c(t).expected = tasks[t].expected /\ c(t).state \notin Active
    <3>1. tasks[t] \in Task
      BY TypeFacts DEF CopiesInv
    <3> QED BY <3>1 DEF Task, Active
  <2>2. tasks' = [t \in Tasks |-> c(t)]
    BY DEF ControlRestart
  <2> HIDE DEF c
  <2> QED BY <2>1, <2>2
<1>3. /\ op' = after /\ record' = (record /\ ~drop) /\ retired' = (retired \/ drop)
      /\ locations' = IF drop THEN [n \in Nodes |-> NoLocation] ELSE locations
      /\ retirement' = [n \in Nodes |-> 0] /\ faults < MaxFaults /\ faults' = faults + 1
      /\ UNCHANGED <<assigned, history, node, requests, corrupted>>
  BY DEF ControlRestart, Fault
<1>4. /\ registry' \in [Nodes -> NodeRecord]
      /\ \A n \in Nodes : registry'[n].boot = registry[n].boot /\ registry'[n].reconciled = FALSE
  <2>1. registry \in [Nodes -> NodeRecord]
    BY RegistryTypes DEF CopiesInv
  <2>2. registry' = [n \in Nodes |-> [registry[n] EXCEPT !.reconciled = FALSE, !.seen = "gone"]]
    BY DEF ControlRestart
  <2> QED BY <2>1, <2>2 DEF NodeRecord
<1>5. drop \in BOOLEAN /\ (drop => record)
  BY DEF CopiesInv, TypeOK
<1> HIDE DEF drop
<1>6. TasksEvolve /\ DeletionsOnly
  BY <1>2, <1>3, TasksStop DEF Running
<1>7. TypeOK'
  <2>1. op' \in {"none", "preparing", "committed", "ended"} /\ record' \in BOOLEAN /\ retired' \in BOOLEAN
    BY <1>3 DEF CopiesInv, TypeOK
  <2>2. locations' \in [Nodes -> Location]
    BY <1>3, TaskTypes DEF CopiesInv, TypeOK
  <2>3. retirement' \in [Nodes -> 0..MaxTasks] /\ faults' \in 0..MaxFaults
    BY <1>3, ReplicationAssumption DEF CopiesInv, TypeOK
  <2> QED BY <1>1, <1>2, <1>3, <1>4, <2>1, <2>2, <2>3 DEF CopiesInv, TypeOK, NodeRecord, node
<1>8. NothingNew
  <2>1. \A n \in Nodes : locations'[n] = locations[n] \/ locations'[n] = NoLocation
    BY <1>3
  <2>2. op' = op \/ op' = "ended"
    BY <1>3
  <2>3. (record \/ retired <=> record' \/ retired') /\ (retired => retired')
    BY <1>3, <1>5 DEF CopiesInv, TypeOK
  <2> QED BY <1>1, <1>3, <1>4, <1>6, <2>1, <2>2, <2>3 DEF NothingNew, node
<1>9. RetiredForEver'
  <2>1. CASE drop
    BY <1>3, <2>1 DEF RetiredForEver, Located, NoLocation
  <2>2. CASE ~drop
    BY <1>3, <2>2 DEF CopiesInv, RetiredForEver, Located
  <2> QED BY <2>1, <2>2
<1>10. Untouched'
  <2>1. op' = "none" => op = "none" /\ ~drop
    BY <1>3, <1>5 DEF CopiesInv, Untouched
  <2> QED BY <1>2, <1>3, <2>1 DEF CopiesInv, Untouched, node
<1>11. BootsOrdered'
  <2>1. \A n \in Nodes : /\ registry[n].boot \in Nat /\ NoLocation.inventory = 0
                         /\ locations[n].inventory <= registry[n].boot
    BY TypeFacts DEF CopiesInv, BootsOrdered, NoLocation
  <2>2. \A n \in Nodes : locations'[n].inventory <= registry[n].boot
    BY <1>3, <2>1
  <2> QED BY <1>3, <1>4, <2>2 DEF CopiesInv, BootsOrdered, node
<1> QED BY <1>3, <1>6, <1>7, <1>8, <1>9, <1>10, <1>11, TakesNothing DEF CopiesInv

-----------------------------------------------------------------------------
(* Tasks at a DataNode.                                                     *)

\* A copy task has a destination.
LEMMA CopyDest ==
  ASSUME CopiesInv, NEW t \in Tasks, tasks[t].kind = "copy"
  PROVE  tasks[t].dest \in Nodes /\ op # "none"
BY DEF CopiesInv, TasksSound, Untouched

\* The job of a copy under way.
LEMMA CopyUnderWay ==
  ASSUME CopiesInv, NEW t \in Tasks, NEW step \in {"pinned", "moved", "emptied", "written", "recorded"}, Copying(t, step)
  PROVE  LET n == tasks[t].dest IN
         /\ n \in Nodes /\ tasks[t].kind = "copy" /\ op # "none"
         /\ jobs[n] = [kind |-> "copy", task |-> t, step |-> step]
         /\ jobs[n].kind = "copy" /\ jobs[n].task = t /\ jobs[n].step = step
         /\ boot[n] = tasks[t].dest_boot /\ outcome[t] = "ACCEPTED"
         /\ \A r \in Receipt : r.by = t /\ Old(n, r) => step = "recorded"
<1> DEFINE n == tasks[t].dest
<1>1. n \in Nodes /\ tasks[t].kind = "copy" /\ op # "none"
  BY CopyDest DEF Copying
<1>2. /\ jobs[n] = [kind |-> "copy", task |-> t, step |-> step]
      /\ jobs[n].kind = "copy" /\ jobs[n].task = t /\ jobs[n].step = step
  BY DEF Copying
<1>3. boot[n] = tasks[t].dest_boot /\ outcome[t] = "ACCEPTED"
  BY <1>1, <1>2 DEF CopiesInv, JobsSound, CopyJob
<1>4. ASSUME NEW r \in Receipt, r.by = t, Old(n, r) PROVE step = "recorded"
  <2>1. r.boot = boot[n] /\ boot[n] \in Nat
    BY <1>1, <1>3, <1>4, TypeFacts DEF Old, CopiesInv
  <2>2. jobs[n].step = "recorded"
    BY <1>3, <1>4, <2>1 DEF Old
  <2> QED BY <1>2, <2>2
<1> QED BY <1>1, <1>2, <1>3, <1>4

\* A copy is accepted.
LEMMA AcceptCopyInv == ASSUME CopiesInv, NEW t \in Tasks, AcceptCopy(t) PROVE CopiesInv'
<1> USE DEF AcceptCopy, control, catalog, world, node
<1>1. TypeOK'
  BY DEF CopiesInv, TypeOK
<1>2. (RetiredForEver /\ Untouched /\ BootsOrdered /\ TasksSound)'
  <2>1. op # "none"
    BY CopyDest
  <2> QED BY <2>1, TypeFacts DEF CopiesInv, RetiredForEver, Untouched, BootsOrdered, TasksSound, Located, TypeOK
<1>3. JobsSound'
  BY TypeFacts DEF CopiesInv, JobsSound, PutJob, CopyJob, DeleteJob, Located, Held, Counted, Useful,
    Running, NoJob, TypeOK
<1>4. \A m \in Nodes, r \in Receipt : Old(m, r) => Old(m, r)'
  BY TypeFacts DEF Old, CopiesInv, NoJob, TypeOK
<1>5. \A m \in Nodes, r \in Receipt : Lost(m, r) => Lost(m, r)'
  BY <1>4, TypeFacts DEF Lost, CopiesInv, TypeOK
<1>6. (ReceiptsOld /\ BadAreLost /\ ScrubSound)'
  <2>1. (\A m \in Nodes : stored[m] # NoReceipt => Old(m, stored[m]))'
    BY <1>4, TypeFacts DEF CopiesInv, ReceiptsOld
  <2> QED BY <1>4, <1>5, <2>1, ReceiptsCarry
<1>7. (ReportsHold /\ PutHolds /\ CountedHeld)'
  BY TypeFacts DEF ReportsHold, PutHolds, CountedHeld, CopiesInv, Located, Held, Counted, Useful, TypeOK
<1>8. CopiesSound'
  <2>1. \A m \in Nodes : (Counted(m)' <=> Counted(m)) /\ (Held(m) <=> Held(m)')
    BY DEF Counted, Held
  <2>2. \A u \in Tasks : Running(u)' <=> Running(u)
    BY DEF Running
  <2>3. \A u \in Tasks : outcome'[u] = "FINISHED" => outcome[u] = "FINISHED"
    BY DEF CopiesInv, TypeOK
  <2> QED BY <1>4, <1>5, <2>1, <2>2, <2>3, TypeFacts DEF CopiesSound, CopiesInv, TasksSound
<1> QED BY <1>1, <1>2, <1>3, <1>6, <1>7, <1>8 DEF CopiesInv

\* The pin is taken for a copy.
LEMMA CopyBeginInv == ASSUME CopiesInv, NEW t \in Tasks, CopyBegin(t) PROVE CopiesInv'
<1> USE DEF CopyBegin, control, catalog, world, node
<1> DEFINE n == tasks[t].dest
<1>0. n \in Nodes /\ op # "none" /\ t \in 0..MaxTasks
  BY CopyDest, ReplicationAssumption DEF Tasks
<1> HIDE DEF n
<1>1. TypeOK'
  <2>1. [kind |-> "copy", task |-> t, step |-> "pinned"] \in Job
    BY <1>0 DEF Job
  <2> QED BY <2>1 DEF CopiesInv, TypeOK, n
<1>2. (RetiredForEver /\ Untouched /\ BootsOrdered /\ TasksSound)'
  BY <1>0, TypeFacts DEF CopiesInv, RetiredForEver, Untouched, BootsOrdered, TasksSound, Located, TypeOK
<1>3. JobsSound'
  BY <1>0, TypeFacts DEF CopiesInv, JobsSound, PutJob, CopyJob, DeleteJob, Located, Held, Counted, Useful,
    Running, NoJob, TypeOK, n
<1>4. \A m \in Nodes, r \in Receipt : Old(m, r) => Old(m, r)'
  BY TypeFacts DEF Old, CopiesInv, NoJob, TypeOK, n
<1>5. \A m \in Nodes, r \in Receipt : Lost(m, r) => Lost(m, r)'
  BY <1>4, TypeFacts DEF Lost, CopiesInv, TypeOK
<1>6. (ReceiptsOld /\ BadAreLost /\ ScrubSound)'
  <2>1. (\A m \in Nodes : stored[m] # NoReceipt => Old(m, stored[m]))'
    BY <1>4, TypeFacts DEF CopiesInv, ReceiptsOld
  <2> QED BY <1>4, <1>5, <2>1, ReceiptsCarry
<1>7. (ReportsHold /\ PutHolds /\ CountedHeld)'
  BY TypeFacts DEF ReportsHold, PutHolds, CountedHeld, CopiesInv, Located, Held, Counted, Useful, TypeOK
<1>8. CopiesSound'
  BY <1>4, <1>5, TypeFacts DEF CopiesSound, CopiesInv, Running, Held, Counted, TasksSound, TypeOK
<1> QED BY <1>1, <1>2, <1>3, <1>6, <1>7, <1>8 DEF CopiesInv

\* The bad file is moved aside: nothing counted on it.
LEMMA CopyQuarantineInv == ASSUME CopiesInv, NEW t \in Tasks, CopyQuarantine(t) PROVE CopiesInv'
<1> USE DEF CopyQuarantine, control, catalog, world, node
<1> DEFINE n == tasks[t].dest
<1>0. /\ n \in Nodes /\ tasks[t].kind = "copy" /\ op # "none" /\ jobs[n].kind = "copy" /\ jobs[n].task = t
      /\ jobs[n].step = "pinned" /\ boot[n] = tasks[t].dest_boot /\ outcome[t] = "ACCEPTED"
      /\ \A r \in Receipt : r.by = t => ~Old(n, r)
  <2>1. Copying(t, "pinned")
    OBVIOUS
  <2> QED BY ZenonT(30), <2>1, CopyUnderWay
<1>a. /\ Running(t) /\ disk[n] # "good" /\ ~Counted(n)
      /\ link[n].phase = "read" => link[n].receipt = NoReceipt
      /\ \A u \in Tasks : tasks[u].kind = "copy" /\ Running(u) /\ tasks[u].dest = n => u = t
  BY <1>0 DEF CopiesInv, CopiesSound, Authorized, Permitted, Lost
<1>b. record \/ retired
  BY <1>0 DEF CopiesInv, TasksSound
<1>1. TypeOK'
  BY <1>0, JobTypes DEF CopiesInv, TypeOK
<1>2. (RetiredForEver /\ Untouched /\ BootsOrdered /\ TasksSound)'
  BY <1>0, TypeFacts DEF CopiesInv, RetiredForEver, Untouched, BootsOrdered, TasksSound, Located, TypeOK
<1>3. JobsSound'
  BY SMTT(30), <1>0, <1>a, TypeFacts DEF CopiesInv, JobsSound, PutJob, CopyJob, DeleteJob, Located, Held, Counted, Useful,
    Running, TypeOK
<1>4. \A m \in Nodes, r \in Receipt : Old(m, r) => Old(m, r)'
  BY <1>0, TypeFacts DEF Old, CopiesInv, TypeOK
<1>5. \A m \in Nodes, r \in Receipt : Lost(m, r) => Lost(m, r)'
  BY <1>0, <1>4, TypeFacts DEF Lost, CopiesInv, TypeOK
<1>6. (ReceiptsOld /\ BadAreLost /\ ScrubSound)'
  <2>1. (\A m \in Nodes : stored[m] # NoReceipt => Old(m, stored[m]))'
    BY <1>4, TypeFacts DEF CopiesInv, ReceiptsOld
  <2> QED BY <1>4, <1>5, <2>1, ReceiptsCarry
<1>7. (ReportsHold /\ PutHolds /\ CountedHeld)'
  BY <1>0, <1>a, <1>b, TypeFacts DEF ReportsHold, PutHolds, CountedHeld, CopiesInv, Located, Held, Counted,
    Useful, TypeOK, NoReceipt
<1>8. CopiesSound'
  BY <1>0, <1>a, <1>4, <1>5, TypeFacts DEF CopiesSound, CopiesInv, Held, Counted, TasksSound, TypeOK, Running
<1> QED BY <1>1, <1>2, <1>3, <1>6, <1>7, <1>8 DEF CopiesInv

\* And its receipt is forgotten.
LEMMA CopyForgetInv == ASSUME CopiesInv, NEW t \in Tasks, CopyForget(t) PROVE CopiesInv'
<1> USE DEF CopyForget, control, catalog, world, node
<1> DEFINE n == tasks[t].dest
<1>0. /\ n \in Nodes /\ tasks[t].kind = "copy" /\ op # "none" /\ jobs[n].kind = "copy" /\ jobs[n].task = t
      /\ jobs[n].step = "moved" /\ boot[n] = tasks[t].dest_boot /\ outcome[t] = "ACCEPTED"
      /\ \A r \in Receipt : r.by = t => ~Old(n, r)
  <2>1. Copying(t, "moved")
    OBVIOUS
  <2> QED BY ZenonT(30), <2>1, CopyUnderWay
<1>a. /\ disk[n] = "none" /\ ~Counted(n) /\ (link[n].phase = "read" => link[n].receipt = NoReceipt)
  BY <1>0 DEF CopiesInv, JobsSound, CopyJob
<1>b. record \/ retired
  BY <1>0 DEF CopiesInv, TasksSound
<1>c. NoReceipt \in Receipt
  BY TaskTypes
<1>1. TypeOK'
  BY <1>0, <1>c, JobTypes DEF CopiesInv, TypeOK
<1>2. (RetiredForEver /\ Untouched /\ BootsOrdered /\ TasksSound)'
  BY <1>0, TypeFacts DEF CopiesInv, RetiredForEver, Untouched, BootsOrdered, TasksSound, Located, TypeOK
<1>3. JobsSound'
  BY <1>0, <1>a, TypeFacts DEF CopiesInv, JobsSound, PutJob, CopyJob, DeleteJob, Located, Held, Counted, Useful,
    Running, TypeOK
<1>4. \A m \in Nodes, r \in Receipt : Old(m, r) => Old(m, r)'
  BY <1>0, TypeFacts DEF Old, CopiesInv, TypeOK
<1>5. \A m \in Nodes, r \in Receipt : Lost(m, r) => Lost(m, r)'
  <2>1. \A m \in Nodes, r \in Receipt : Old(m, r) => r # NoReceipt
    BY DEF Old
  <2> QED BY <1>0, <1>4, <2>1, TypeFacts DEF Lost, CopiesInv, TypeOK
<1>6. (ReceiptsOld /\ BadAreLost /\ ScrubSound)'
  <2>1. (\A m \in Nodes : stored[m] # NoReceipt => Old(m, stored[m]))'
    BY <1>0, <1>4, TypeFacts DEF CopiesInv, ReceiptsOld, TypeOK
  <2> QED BY <1>4, <1>5, <2>1, ReceiptsCarry
<1>7. (ReportsHold /\ PutHolds /\ CountedHeld)'
  BY <1>0, <1>a, <1>b, TypeFacts DEF ReportsHold, PutHolds, CountedHeld, CopiesInv, Located, Held, Counted,
    Useful, TypeOK, NoReceipt
<1>8. CopiesSound'
  <2>1. \A m \in Nodes : (Counted(m)' <=> Counted(m)) /\ (m # n => (Held(m)' <=> Held(m)) /\ stored'[m] = stored[m])
    BY <1>0 DEF Counted, Held, CopiesInv, TypeOK
  <2>2. \A u \in Tasks : Running(u)' <=> Running(u)
    BY DEF Running
  <2>3. ~Held(n)
    BY <1>a DEF Held
  <2> QED BY <1>0, <1>a, <1>4, <1>5, <2>1, <2>2, <2>3, TypeFacts DEF CopiesSound, CopiesInv, TasksSound
<1> QED BY <1>1, <1>2, <1>3, <1>6, <1>7, <1>8 DEF CopiesInv

\* The file of the copy appears.
LEMMA CopyImportInv == ASSUME CopiesInv, NEW t \in Tasks, CopyImport(t) PROVE CopiesInv'
<1> USE DEF CopyImport, control, catalog, world, node
<1> DEFINE n == tasks[t].dest
<1>0. /\ n \in Nodes /\ tasks[t].kind = "copy" /\ op # "none" /\ jobs[n].kind = "copy" /\ jobs[n].task = t
      /\ jobs[n].step \in {"emptied", "pinned"} /\ boot[n] = tasks[t].dest_boot /\ outcome[t] = "ACCEPTED"
      /\ \A r \in Receipt : r.by = t => ~Old(n, r)
  <2>1. PICK step \in {"emptied", "pinned"} : Copying(t, step)
    OBVIOUS
  <2> QED BY <2>1, CopyUnderWay
<1>a. stored[n] = NoReceipt /\ disk[n] = "none"
  BY <1>0 DEF CopiesInv, JobsSound, CopyJob, Copying
<1>1. TypeOK'
  BY <1>0, JobTypes DEF CopiesInv, TypeOK
<1>2. (RetiredForEver /\ Untouched /\ BootsOrdered /\ TasksSound)'
  BY <1>0, TypeFacts DEF CopiesInv, RetiredForEver, Untouched, BootsOrdered, TasksSound, Located, TypeOK
<1>3. JobsSound'
  BY <1>0, TypeFacts DEF CopiesInv, JobsSound, PutJob, CopyJob, DeleteJob, Located, Held, Counted, Useful,
    Running, TypeOK
<1>4. \A m \in Nodes, r \in Receipt : Old(m, r) => Old(m, r)'
  BY <1>0, TypeFacts DEF Old, CopiesInv, TypeOK
<1>5. \A m \in Nodes, r \in Receipt : Lost(m, r) => Lost(m, r)'
  <2>1. \A m \in Nodes, r \in Receipt : Old(m, r) => r # NoReceipt
    BY DEF Old
  <2> QED BY <1>0, <1>a, <1>4, <2>1, TypeFacts DEF Lost, CopiesInv, TypeOK
<1>6. (ReceiptsOld /\ BadAreLost /\ ScrubSound)'
  <2>1. (\A m \in Nodes : stored[m] # NoReceipt => Old(m, stored[m]))'
    BY <1>4, TypeFacts DEF CopiesInv, ReceiptsOld
  <2> QED BY <1>4, <1>5, <2>1, ReceiptsCarry
<1>7. (ReportsHold /\ PutHolds /\ CountedHeld)'
  BY <1>0, TypeFacts DEF ReportsHold, PutHolds, CountedHeld, CopiesInv, Located, Held, Counted, Useful, TypeOK
<1>8. CopiesSound'
  <2>1. \A m \in Nodes : (Counted(m)' <=> Counted(m)) /\ (Held(m) => Held(m)')
    BY <1>0 DEF Counted, Held, CopiesInv, TypeOK
  <2>2. \A u \in Tasks : Running(u)' <=> Running(u)
    BY DEF Running
  <2> QED BY <1>0, <1>4, <1>5, <2>1, <2>2, TypeFacts DEF CopiesSound, CopiesInv, TasksSound
<1> QED BY <1>1, <1>2, <1>3, <1>6, <1>7, <1>8 DEF CopiesInv

\* The copy is recorded, under a receipt that nobody has seen.
LEMMA CopyRecordInv == ASSUME CopiesInv, NEW t \in Tasks, CopyRecord(t) PROVE CopiesInv'
<1> USE DEF CopyRecord, control, catalog, world, node
<1> DEFINE n == tasks[t].dest
<1>0. /\ n \in Nodes /\ tasks[t].kind = "copy" /\ op # "none" /\ jobs[n].kind = "copy" /\ jobs[n].task = t
      /\ jobs[n].step \in {"written", "pinned"} /\ boot[n] = tasks[t].dest_boot /\ outcome[t] = "ACCEPTED"
      /\ \A r \in Receipt : r.by = t => ~Old(n, r)
  <2>1. PICK step \in {"written", "pinned"} : Copying(t, step)
    OBVIOUS
  <2> QED BY ZenonT(30), <2>1, CopyUnderWay
<1>a. disk[n] # "none"
  BY <1>0 DEF CopiesInv, JobsSound, CopyJob, Copying
<1>b. [by |-> t, boot |-> boot[n]] \in Receipt /\ [by |-> t, boot |-> boot[n]] # NoReceipt /\ t # 0
  BY <1>0, TypeFacts, ReplicationAssumption DEF CopiesInv, Receipt, NoReceipt, Unknown, Tasks
<1>c. stored'[n] = [by |-> t, boot |-> boot[n]] /\ \A m \in Nodes : m # n => stored'[m] = stored[m]
  BY <1>0 DEF CopiesInv, TypeOK
<1>d. jobs'[n].kind = "copy" /\ jobs'[n].task = t /\ jobs'[n].step = "recorded"
  BY <1>0 DEF CopiesInv, TypeOK, Job
<1>1. TypeOK'
  BY <1>0, <1>b, JobTypes DEF CopiesInv, TypeOK
<1>2. (RetiredForEver /\ Untouched /\ BootsOrdered /\ TasksSound)'
  BY <1>0, TypeFacts DEF CopiesInv, RetiredForEver, Untouched, BootsOrdered, TasksSound, Located, TypeOK
<1>3. JobsSound'
  BY SMTT(30), <1>0, <1>a, <1>b, <1>c, TypeFacts DEF CopiesInv, JobsSound, PutJob, CopyJob, DeleteJob, Located, Held, Counted,
    Useful, Running, TypeOK
<1>4. \A m \in Nodes, r \in Receipt : Old(m, r) => Old(m, r)'
  BY <1>0, TypeFacts DEF Old, CopiesInv, TypeOK
<1>5. \A m \in Nodes, r \in Receipt : Lost(m, r) => Lost(m, r)'
  <2>1. \A r \in Receipt : Lost(n, r) => r # [by |-> t, boot |-> boot[n]]
    BY <1>0, <1>b DEF Lost
  <2> QED BY <1>0, <1>c, <1>4, <2>1 DEF Lost
<1>6. (ReceiptsOld /\ BadAreLost /\ ScrubSound)'
  <2>1. Old(n, [by |-> t, boot |-> boot[n]])'
    BY <1>0, <1>b, <1>d DEF Old
  <2>2. (\A m \in Nodes : stored[m] # NoReceipt => Old(m, stored[m]))'
    BY <1>c, <1>4, <2>1, TypeFacts DEF CopiesInv, ReceiptsOld
  <2> QED BY <1>4, <1>5, <2>2, ReceiptsCarry
<1>7. (ReportsHold /\ PutHolds /\ CountedHeld)'
  BY <1>0, <1>a, <1>b, <1>c, TypeFacts DEF ReportsHold, PutHolds, CountedHeld, CopiesInv, Located, Held, Counted,
    Useful
<1>8. CopiesSound'
  <2>1. \A m \in Nodes : (Counted(m)' <=> Counted(m)) /\ (Held(m) => Held(m)')
    BY <1>b, <1>c DEF Counted, Held
  <2>2. \A u \in Tasks : Running(u)' <=> Running(u)
    BY DEF Running
  <2>3. \A r \in Receipt : Lost(n, r) => stored'[n] # r
    BY <1>0, <1>b, <1>c DEF Lost
  <2> QED BY <1>0, <1>c, <1>4, <1>5, <2>1, <2>2, <2>3, TypeFacts DEF CopiesSound, CopiesInv, TasksSound
<1> QED BY <1>1, <1>2, <1>3, <1>6, <1>7, <1>8 DEF CopiesInv

\* The copy is finished.
LEMMA CopyFinishInv == ASSUME CopiesInv, NEW t \in Tasks, CopyFinish(t) PROVE CopiesInv'
<1> USE DEF CopyFinish, control, catalog, world, node
<1> DEFINE n == tasks[t].dest
<1>0. /\ n \in Nodes /\ tasks[t].kind = "copy" /\ op # "none" /\ jobs[n].kind = "copy" /\ jobs[n].task = t
      /\ jobs[n].step = "recorded" /\ boot[n] = tasks[t].dest_boot /\ outcome[t] = "ACCEPTED"
  <2>1. Copying(t, "recorded")
    OBVIOUS
  <2> QED BY <2>1, CopyUnderWay
<1>a. Held(n)
  BY <1>0 DEF CopiesInv, JobsSound, CopyJob
<1>1. TypeOK'
  BY <1>0, JobTypes DEF CopiesInv, TypeOK
<1>2. (RetiredForEver /\ Untouched /\ BootsOrdered /\ TasksSound)'
  BY <1>0, TypeFacts DEF CopiesInv, RetiredForEver, Untouched, BootsOrdered, TasksSound, Located, TypeOK
<1>3. JobsSound'
  BY <1>0, TypeFacts DEF CopiesInv, JobsSound, PutJob, CopyJob, DeleteJob, Located, Held, Counted, Useful,
    Running, TypeOK, NoJob
<1>4. \A m \in Nodes, r \in Receipt : Old(m, r) => Old(m, r)'
  BY <1>0, TypeFacts DEF Old, CopiesInv, TypeOK, NoJob
<1>5. \A m \in Nodes, r \in Receipt : Lost(m, r) => Lost(m, r)'
  BY <1>0, <1>4, TypeFacts DEF Lost, CopiesInv, TypeOK
<1>6. (ReceiptsOld /\ BadAreLost /\ ScrubSound)'
  <2>1. (\A m \in Nodes : stored[m] # NoReceipt => Old(m, stored[m]))'
    BY <1>4, TypeFacts DEF CopiesInv, ReceiptsOld
  <2> QED BY <1>4, <1>5, <2>1, ReceiptsCarry
<1>7. (ReportsHold /\ PutHolds /\ CountedHeld)'
  BY <1>0, TypeFacts DEF ReportsHold, PutHolds, CountedHeld, CopiesInv, Located, Held, Counted, Useful, TypeOK
<1>8. CopiesSound'
  <2>1. \A m \in Nodes : (Counted(m)' <=> Counted(m)) /\ (Held(m) <=> Held(m)')
    BY DEF Counted, Held
  <2>2. \A u \in Tasks : Running(u)' <=> Running(u)
    BY DEF Running
  <2>3. \A u \in Tasks : u # t => outcome'[u] = outcome[u]
    BY DEF CopiesInv, TypeOK
  <2> QED BY <1>0, <1>a, <1>4, <1>5, <2>1, <2>2, <2>3, TypeFacts DEF CopiesSound, CopiesInv, TasksSound
<1> QED BY <1>1, <1>2, <1>3, <1>6, <1>7, <1>8 DEF CopiesInv

\* The copy fails, and leaves the node as it is.
LEMMA CopyFailInv == ASSUME CopiesInv, NEW t \in Tasks, CopyFail(t) PROVE CopiesInv'
<1> USE DEF CopyFail, control, catalog, world, node
<1> DEFINE n == tasks[t].dest
<1>0. n \in Nodes /\ op # "none"
  BY CopyDest
<1>a. /\ jobs' \in [Nodes -> Job] /\ \A m \in Nodes : m # n => jobs'[m] = jobs[m]
      /\ \/ jobs'[n] = jobs[n] /\ ~(jobs[n].kind = "copy" /\ jobs[n].task = t)
         \/ jobs'[n] = NoJob /\ jobs[n].kind = "copy" /\ jobs[n].task = t /\ jobs[n].step # "recorded"
  <2>1. CASE jobs[n].kind = "copy" /\ jobs[n].task = t
    <3>1. jobs[n].step # "recorded"
      <4>1. jobs[n] \in Job
        BY <1>0, TypeFacts DEF CopiesInv
      <4> QED BY <2>1, <4>1 DEF Copying, Job
    <3> QED BY <1>0, <2>1, <3>1, JobTypes DEF CopiesInv, TypeOK
  <2>2. CASE ~(jobs[n].kind = "copy" /\ jobs[n].task = t)
    BY <1>0, <2>2 DEF CopiesInv, TypeOK
  <2> QED BY <2>1, <2>2
<1>b. \A u \in Tasks : outcome'[u] = IF u = t THEN "FAILED" ELSE outcome[u]
  BY DEF CopiesInv, TypeOK
<1>c. \A m \in Nodes : jobs[m].kind = "copy" /\ jobs[m].task = t => m = n
  BY DEF CopiesInv, JobsSound, CopyJob
<1>1. TypeOK'
  BY <1>a DEF CopiesInv, TypeOK
<1>2. (RetiredForEver /\ Untouched /\ BootsOrdered /\ TasksSound)'
  BY <1>0, <1>b, TypeFacts DEF CopiesInv, RetiredForEver, Untouched, BootsOrdered, TasksSound, Located
<1>3. JobsSound'
  <2>1. \A m \in Nodes : (Counted(m)' <=> Counted(m)) /\ (Held(m) <=> Held(m)') /\ (Located(m)' <=> Located(m))
    BY DEF Counted, Held, Located
  <2>2. NoJob.kind = "none" /\ \A u \in Tasks : Running(u)' <=> Running(u)
    BY DEF Running, NoJob
  <2>3. \A m \in Nodes : PutJob(m)'
    BY <1>0, <1>a, <2>2 DEF CopiesInv, JobsSound, PutJob
  <2>4. \A m \in Nodes : CopyJob(m)'
    <3>1. \A m \in Nodes : jobs'[m].kind = "copy" => jobs'[m] = jobs[m] /\ jobs[m].task # t
      BY <1>0, <1>a, <1>c, <2>2
    <3> QED BY <1>b, <2>1, <3>1 DEF CopiesInv, JobsSound, CopyJob
  <2>5. \A m \in Nodes : DeleteJob(m)'
    <3>1. \A m \in Nodes : jobs'[m].kind = "delete" => jobs'[m] = jobs[m]
      BY <1>0, <1>a, <2>2
    <3> QED BY <1>b, <2>1, <2>2, <3>1 DEF CopiesInv, JobsSound, DeleteJob, Useful
  <2> QED BY <2>3, <2>4, <2>5 DEF JobsSound
<1>4. \A m \in Nodes, r \in Receipt : Old(m, r) => Old(m, r)'
  BY <1>0, <1>a, <1>b, <1>c, TypeFacts DEF Old, CopiesInv
<1>5. \A m \in Nodes, r \in Receipt : Lost(m, r) => Lost(m, r)'
  BY <1>4 DEF Lost
<1>6. (ReceiptsOld /\ BadAreLost /\ ScrubSound)'
  <2>1. (\A m \in Nodes : stored[m] # NoReceipt => Old(m, stored[m]))'
    BY <1>4, TypeFacts DEF CopiesInv, ReceiptsOld
  <2> QED BY <1>4, <1>5, <2>1, ReceiptsCarry
<1>7. (ReportsHold /\ PutHolds /\ CountedHeld)'
  BY DEF ReportsHold, PutHolds, CountedHeld, CopiesInv, Located, Held, Counted, Useful
<1>8. CopiesSound'
  <2>1. \A m \in Nodes : (Counted(m)' <=> Counted(m)) /\ (Held(m) <=> Held(m)')
    BY DEF Counted, Held
  <2>2. \A u \in Tasks : Running(u)' <=> Running(u)
    BY DEF Running
  <2> QED BY <1>0, <1>b, <1>4, <1>5, <2>1, <2>2, TypeFacts DEF CopiesSound, CopiesInv, TasksSound
<1> QED BY <1>1, <1>2, <1>3, <1>6, <1>7, <1>8 DEF CopiesInv

-----------------------------------------------------------------------------
(* Deletions at a DataNode.                                                 *)

\* The pin is taken for a deletion, of a file that nobody counts on or can come to count on.
LEMMA DeleteBeginInv == ASSUME CopiesInv, NEW q \in requests, DeleteBegin(q) PROVE CopiesInv'
<1>0. q.task \in Tasks /\ q.task \in 0..MaxTasks /\ q.expected \in Receipt /\ tasks[q.task].dest \in Nodes
  BY TypeFacts, ReplicationAssumption DEF DeleteBegin, CopiesInv, TasksSound, Tasks
<1>2. PICK t \in Tasks, n \in Nodes : t = q.task /\ n = tasks[t].dest /\ t \in 0..MaxTasks
  BY <1>0
<1>1. /\ tasks[t].kind = "delete" /\ jobs[n] = NoJob /\ Authorized(t)
      /\ stored[n] = NoReceipt \/ stored[n] = q.expected
      /\ jobs' = [jobs EXCEPT ![n] = [kind |-> "delete", task |-> t, step |-> "pinned"]]
      /\ UNCHANGED <<op, assigned, record, retired, locations, history, registry, tasks, retirement, maint>>
      /\ UNCHANGED <<disk, stored, boot, link, put, outcome, requests, faults, corrupted>>
  BY <1>2 DEF DeleteBegin, control, catalog, world
<1>3. op # "none"
  BY <1>1, <1>2 DEF CopiesInv, Untouched
<1>4. /\ jobs' \in [Nodes -> Job] /\ \A m \in Nodes : m # n => jobs'[m] = jobs[m]
      /\ jobs'[n].kind = "delete" /\ jobs'[n].task = t /\ jobs'[n].step = "pinned"
  <2>1. [kind |-> "delete", task |-> t, step |-> "pinned"] \in Job
    BY <1>2 DEF Job
  <2> QED BY <1>1, <1>2, <2>1 DEF CopiesInv, TypeOK
<1>5. RetiredAt(n) /\ (Useful /\ ~retired => stored[n].by \notin Tasks)
  <2>1. RetiredAt(n)
    BY <1>1, <1>2 DEF Authorized, Permitted
  <2>2. q.expected.by \in Tasks => op = "ended" \/ retired
    BY DEF CopiesInv, TasksSound
  <2>3. Useful /\ ~retired => stored[n].by \notin Tasks
    BY <1>0, <1>1, <2>2, TypeFacts DEF CopiesInv, Useful, NoReceipt, Tasks
  <2> QED BY <2>1, <2>3
<1>6. DeleteJob(n)'
  <2>1. ~Located(n) /\ ~(op = "preparing" /\ assigned.node = n)
    BY <1>5 DEF RetiredAt
  <2>2. \A u \in Tasks : ~(tasks[u].kind = "copy" /\ tasks[u].dest = n /\ Running(u))
    BY <1>5 DEF RetiredAt, CopyingTo
  <2>3. Useful /\ ~retired => (link[n].phase = "read" => link[n].receipt.by \notin Tasks)
    BY <1>2, <1>5 DEF CopiesInv, ReportsHold
  <2> QED BY <1>1, <1>2, <1>4, <1>5, <2>1, <2>2, <2>3 DEF DeleteJob, Located, Useful, Running
<1>7. JobsSound'
  <2>1. \A m \in Nodes : m # n => PutJob(m)'
    BY <1>1, <1>4 DEF CopiesInv, JobsSound, PutJob
  <2>2. \A m \in Nodes : m # n => CopyJob(m)'
    BY <1>1, <1>4 DEF CopiesInv, JobsSound, CopyJob, Held, Counted
  <2>3. \A m \in Nodes : m # n => DeleteJob(m)'
    BY <1>1, <1>4 DEF CopiesInv, JobsSound, DeleteJob, Located, Useful, Running
  <2>4. PutJob(n)' /\ CopyJob(n)'
    BY <1>4 DEF PutJob, CopyJob
  <2> QED BY <1>6, <2>1, <2>2, <2>3, <2>4 DEF JobsSound
<1>8. \A m \in Nodes, r \in Receipt : (Old(m, r) => Old(m, r)') /\ (Lost(m, r) => Lost(m, r)')
  <2>1. \A m \in Nodes, r \in Receipt : Old(m, r) => Old(m, r)'
    BY <1>1, <1>2, <1>4 DEF Old, NoJob
  <2> QED BY <1>1, <2>1 DEF Lost
<1>9. (ReceiptsOld /\ BadAreLost /\ ScrubSound)'
  <2>1. (\A m \in Nodes : stored[m] # NoReceipt => Old(m, stored[m]))'
    BY <1>1, <1>8, TypeFacts DEF CopiesInv, ReceiptsOld
  <2> QED BY <1>1, <1>8, <2>1, ReceiptsCarry
<1>10. TypeOK'
  BY <1>1, <1>4 DEF CopiesInv, TypeOK
<1>11. (RetiredForEver /\ Untouched /\ BootsOrdered /\ TasksSound)'
  BY <1>1, <1>3 DEF CopiesInv, RetiredForEver, Untouched, BootsOrdered, TasksSound, Located
<1>12. (ReportsHold /\ PutHolds /\ CountedHeld)'
  BY <1>1 DEF ReportsHold, PutHolds, CountedHeld, CopiesInv, Located, Held, Counted, Useful
<1>13. CopiesSound'
  BY <1>1, <1>8, TypeFacts DEF CopiesSound, CopiesInv, TasksSound, Held, Counted, Running
<1> QED BY <1>7, <1>9, <1>10, <1>11, <1>12, <1>13 DEF CopiesInv

\* The file is unlinked.
LEMMA DeleteUnlinkInv == ASSUME CopiesInv, NEW n \in Nodes, DeleteUnlink(n) PROVE CopiesInv'
<1> USE DEF DeleteUnlink, control, catalog, world, node
<1>0. /\ jobs[n].task \in Tasks /\ tasks[jobs[n].task].kind = "delete" /\ op # "none"
      /\ ~Located(n) /\ ~Counted(n) /\ ~(op = "preparing" /\ assigned.node = n)
      /\ \A t \in Tasks : tasks[t].kind = "copy" /\ tasks[t].dest = n /\ Running(t) => outcome[t] # "FINISHED"
      /\ Useful /\ ~retired => /\ stored[n].by \notin Tasks
                               /\ link[n].phase = "read" => link[n].receipt.by \notin Tasks
  BY DEF CopiesInv, JobsSound, DeleteJob, Untouched, NoJob, Counted, Located
<1>1. TypeOK'
  BY JobTypes DEF CopiesInv, TypeOK
<1>2. (RetiredForEver /\ Untouched /\ BootsOrdered /\ TasksSound)'
  BY <1>0, TypeFacts DEF CopiesInv, RetiredForEver, Untouched, BootsOrdered, TasksSound, Located, TypeOK
<1>3. JobsSound'
  BY <1>0, TypeFacts DEF CopiesInv, JobsSound, PutJob, CopyJob, DeleteJob, Located, Held, Counted, Useful,
    Running, TypeOK
<1>4. \A m \in Nodes, r \in Receipt : Old(m, r) => Old(m, r)'
  BY <1>0, TypeFacts DEF Old, CopiesInv, TypeOK
<1>5. \A m \in Nodes, r \in Receipt : Lost(m, r) => Lost(m, r)'
  BY <1>4, TypeFacts DEF Lost, CopiesInv, TypeOK
<1>6. (ReceiptsOld /\ BadAreLost /\ ScrubSound)'
  <2>1. (\A m \in Nodes : stored[m] # NoReceipt => Old(m, stored[m]))'
    BY <1>4, TypeFacts DEF CopiesInv, ReceiptsOld
  <2> QED BY <1>4, <1>5, <2>1, ReceiptsCarry
<1>7. (ReportsHold /\ PutHolds /\ CountedHeld)'
  BY <1>0, TypeFacts DEF ReportsHold, PutHolds, CountedHeld, CopiesInv, Located, Held, Counted, Useful, TypeOK
<1>8. CopiesSound'
  <2>1. \A m \in Nodes : (Counted(m)' <=> Counted(m)) /\ (m # n => (Held(m) <=> Held(m)'))
    BY DEF Counted, Held, CopiesInv, TypeOK
  <2>2. \A u \in Tasks : Running(u)' <=> Running(u)
    BY DEF Running
  <2> QED BY <1>0, <1>4, <1>5, <2>1, <2>2, TypeFacts DEF CopiesSound, CopiesInv, TasksSound, TypeOK
<1> QED BY <1>1, <1>2, <1>3, <1>6, <1>7, <1>8 DEF CopiesInv

\* The receipt is forgotten and the deletion is finished.
LEMMA DeleteForgetInv == ASSUME CopiesInv, NEW n \in Nodes, DeleteForget(n) PROVE CopiesInv'
<1> USE DEF DeleteForget, control, catalog, world, node
<1>0. /\ jobs[n].task \in Tasks /\ tasks[jobs[n].task].kind = "delete" /\ op # "none"
      /\ ~Located(n) /\ ~Counted(n) /\ ~(op = "preparing" /\ assigned.node = n)
      /\ \A t \in Tasks : tasks[t].kind = "copy" /\ tasks[t].dest = n /\ Running(t) => outcome[t] # "FINISHED"
      /\ Useful /\ ~retired => /\ stored[n].by \notin Tasks
                               /\ link[n].phase = "read" => link[n].receipt.by \notin Tasks
  BY DEF CopiesInv, JobsSound, DeleteJob, Untouched, NoJob, Counted, Located
<1>a. NoReceipt \in Receipt
  BY TaskTypes
<1>b. \A u \in Tasks : tasks[u].kind = "copy" \/ tasks[u].kind = "none" => outcome'[u] = outcome[u]
  BY <1>0 DEF CopiesInv, TypeOK
<1>1. TypeOK'
  BY <1>a, JobTypes DEF CopiesInv, TypeOK
<1>2. (RetiredForEver /\ Untouched /\ BootsOrdered /\ TasksSound)'
  BY <1>0, <1>b, TypeFacts DEF CopiesInv, RetiredForEver, Untouched, BootsOrdered, TasksSound, Located
<1>3. JobsSound'
  <2>1. \A m \in Nodes : m # n => jobs'[m] = jobs[m] /\ stored'[m] = stored[m]
    BY DEF CopiesInv, TypeOK
  <2>2. jobs'[n].kind = "none"
    BY DEF CopiesInv, TypeOK, NoJob
  <2> QED BY <1>0, <1>b, <2>1, <2>2, TypeFacts DEF CopiesInv, JobsSound, PutJob, CopyJob, DeleteJob, Located, Held,
        Counted, Useful, Running
<1>4. \A m \in Nodes, r \in Receipt : Old(m, r) => Old(m, r)'
  BY <1>0, <1>b, TypeFacts DEF Old, CopiesInv, TypeOK
<1>5. \A m \in Nodes, r \in Receipt : Lost(m, r) => Lost(m, r)'
  <2>1. \A m \in Nodes, r \in Receipt : Old(m, r) => r # NoReceipt
    BY DEF Old
  <2> QED BY <1>4, <2>1 DEF Lost, CopiesInv, TypeOK
<1>6. (ReceiptsOld /\ BadAreLost /\ ScrubSound)'
  <2>1. (\A m \in Nodes : stored[m] # NoReceipt => Old(m, stored[m]))'
    BY <1>4, TypeFacts DEF CopiesInv, ReceiptsOld, TypeOK
  <2> QED BY <1>4, <1>5, <2>1, ReceiptsCarry
<1>7. (ReportsHold /\ PutHolds /\ CountedHeld)'
  BY <1>0, TypeFacts DEF ReportsHold, PutHolds, CountedHeld, CopiesInv, Located, Held, Counted, Useful, TypeOK
<1>8. CopiesSound'
  <2>1. \A m \in Nodes : (Counted(m)' <=> Counted(m)) /\ (m # n => (Held(m) <=> Held(m)'))
    BY DEF Counted, Held, CopiesInv, TypeOK
  <2>2. \A u \in Tasks : Running(u)' <=> Running(u)
    BY DEF Running
  <2>3. \A m \in Nodes, r \in Receipt : Lost(m, r) /\ stored[m] # r => stored'[m] # r
    BY DEF Lost, Old, CopiesInv, TypeOK
  <2>4. \A m \in Nodes, r \in Receipt : Lost(m, r) => stored'[n] # r
    BY DEF Lost, Old, CopiesInv, TypeOK
  <2> QED BY <1>0, <1>b, <1>4, <1>5, <2>1, <2>2, <2>3, <2>4, TypeFacts DEF CopiesSound, CopiesInv, TasksSound, TypeOK
<1> QED BY <1>1, <1>2, <1>3, <1>6, <1>7, <1>8 DEF CopiesInv

-----------------------------------------------------------------------------
(* Faults of nodes.                                                         *)

\* A file rots: it is there, and it is lost.
LEMMA RotInv == ASSUME CopiesInv, NEW n \in Nodes, Rot(n) PROVE CopiesInv'
<1> USE DEF Rot, control, catalog, world, node
<1>1. TypeOK'
  BY ReplicationAssumption DEF CopiesInv, TypeOK
<1>2. (RetiredForEver /\ Untouched /\ BootsOrdered /\ TasksSound)'
  BY TypeFacts DEF CopiesInv, RetiredForEver, Untouched, BootsOrdered, TasksSound, Located
<1>3. JobsSound'
  BY TypeFacts DEF CopiesInv, JobsSound, PutJob, CopyJob, DeleteJob, Located, Held, Counted, Useful,
    Running, NoJob, TypeOK
<1>4. \A m \in Nodes, r \in Receipt : Old(m, r) => Old(m, r)'
  BY TypeFacts DEF Old, CopiesInv, NoJob, TypeOK
<1>5. \A m \in Nodes, r \in Receipt : Lost(m, r) => Lost(m, r)'
  BY <1>4, TypeFacts DEF Lost, CopiesInv, TypeOK
<1>6. (ReceiptsOld /\ BadAreLost /\ ScrubSound)'
  <2>1. (\A m \in Nodes : stored[m] # NoReceipt => Old(m, stored[m]))'
    BY <1>4, TypeFacts DEF CopiesInv, ReceiptsOld
  <2> QED BY <1>4, <1>5, <2>1, ReceiptsCarry
<1>7. (ReportsHold /\ PutHolds /\ CountedHeld)'
  BY TypeFacts DEF ReportsHold, PutHolds, CountedHeld, CopiesInv, Located, Held, Counted, Useful, TypeOK
<1>8. CopiesSound'
  BY <1>4, <1>5, TypeFacts DEF CopiesSound, CopiesInv, Running, Held, Counted, TasksSound, TypeOK
<1> QED BY <1>1, <1>2, <1>3, <1>6, <1>7, <1>8 DEF CopiesInv

\* A node boots: its job is gone, and a file without a receipt gets one nobody knows.
LEMMA RebootInv == ASSUME CopiesInv, NEW n \in Nodes, Reboot(n) PROVE CopiesInv'
<1> USE DEF Reboot, control, catalog, world, node, Fault
<1>a. /\ boot[n] \in Nat /\ boot'[n] = boot[n] + 1 /\ \A m \in Nodes : m # n => boot'[m] = boot[m]
      /\ jobs'[n] = NoJob /\ \A m \in Nodes : m # n => jobs'[m] = jobs[m]
  BY TypeFacts DEF CopiesInv, TypeOK
<1>b. /\ [by |-> Unknown, boot |-> boot[n] + 1] \in Receipt /\ NoReceipt \in Receipt
      /\ [by |-> Unknown, boot |-> boot[n] + 1] # NoReceipt
  BY <1>a, ReplicationAssumption DEF Receipt, Unknown, NoReceipt
<1>c. /\ \/ stored'[n] = stored[n]
         \/ /\ stored[n] = NoReceipt /\ disk[n] = "good" /\ op # "none"
            /\ stored'[n] = [by |-> Unknown, boot |-> boot[n] + 1]
      /\ \A m \in Nodes : m # n => stored'[m] = stored[m]
  BY DEF CopiesInv, TypeOK, Untouched
<1>d. /\ link'[n] = [phase |-> "new", receipt |-> NoReceipt] /\ link'[n].phase = "new"
      /\ link'[n].receipt = NoReceipt /\ \A m \in Nodes : m # n => link'[m] = link[m]
  BY DEF CopiesInv, TypeOK
<1>e. NoJob.kind = "none"
  BY DEF NoJob
<1>1. TypeOK'
  <2>1. stored' \in [Nodes -> Receipt]
    BY <1>b DEF CopiesInv, TypeOK
  <2>2. boot' \in [Nodes -> Nat]
    BY <1>a DEF CopiesInv, TypeOK
  <2>3. [phase |-> "new", receipt |-> NoReceipt] \in [phase : {"new", "registered", "read", "ready"}, receipt : Receipt]
    BY <1>b
  <2>4. faults' \in 0..MaxFaults
    BY ReplicationAssumption DEF CopiesInv, TypeOK
  <2> QED BY <2>1, <2>2, <2>3, <2>4, JobTypes DEF CopiesInv, TypeOK
<1>2. (RetiredForEver /\ Untouched /\ BootsOrdered /\ TasksSound)'
  BY <1>a, <1>b, <1>c, <1>d, TypeFacts DEF CopiesInv, RetiredForEver, Untouched, BootsOrdered, TasksSound, Located
<1>3. JobsSound'
  BY <1>a, <1>c, <1>d, <1>e, TypeFacts DEF CopiesInv, JobsSound, PutJob, CopyJob, DeleteJob, Located, Held,
    Counted, Useful, Running
<1>4. \A m \in Nodes, r \in Receipt : Old(m, r) => Old(m, r)'
  <2>1. ASSUME NEW r \in Receipt, Old(n, r) PROVE Old(n, r)'
    <3>1. r.by \in Tasks => r.boot = tasks[r.by].dest_boot /\ (outcome[r.by] = "FINISHED" \/ boot[n] >= r.boot)
      <4> SUFFICES ASSUME r.by \in Tasks, outcome[r.by] # "FINISHED", ~(boot[n] > r.boot)
                   PROVE  r.boot = tasks[r.by].dest_boot /\ boot[n] >= r.boot
        BY <2>1, TypeFacts DEF Old, CopiesInv
      <4>1. jobs[n].kind = "copy" /\ jobs[n].task = r.by
        BY <2>1 DEF Old
      <4>2. boot[n] = tasks[r.by].dest_boot
        BY <4>1 DEF CopiesInv, JobsSound, CopyJob
      <4> QED BY <1>a, <2>1, <4>2 DEF Old
    <3>2. r.by \in Tasks => r.boot \in Nat
      BY <3>1, TypeFacts DEF CopiesInv
    <3> QED BY <1>a, <2>1, <3>1, <3>2 DEF Old
  <2>2. ASSUME NEW m \in Nodes, m # n, NEW r \in Receipt, Old(m, r) PROVE Old(m, r)'
    BY <1>a, <2>2 DEF Old
  <2> QED BY <2>1, <2>2
<1>5. \A m \in Nodes, r \in Receipt : Lost(m, r) => Lost(m, r)'
  <2>1. \A r \in Receipt : Lost(n, r) => r # [by |-> Unknown, boot |-> boot[n] + 1]
    BY DEF Lost
  <2> QED BY <1>c, <1>4, <2>1 DEF Lost
<1>6. (ReceiptsOld /\ BadAreLost /\ ScrubSound)'
  <2>1. ReceiptsOld'
    <3>1. \A r \in Receipt : r.by = Unknown /\ r # NoReceipt => Old(n, r)'
      <4>1. Unknown # 0 /\ Unknown \notin Tasks
        BY ReplicationAssumption DEF Unknown, Tasks
      <4> QED BY <4>1 DEF Old
    <3>2. stored'[n] # stored[n] => stored'[n] \in Receipt /\ stored'[n].by = Unknown /\ stored'[n] # NoReceipt
      BY <1>b, <1>c
    <3>3. (\A m \in Nodes : stored[m] # NoReceipt => Old(m, stored[m]))'
      BY <1>c, <1>4, <3>1, <3>2, TypeFacts DEF CopiesInv, ReceiptsOld
    <3> QED BY <1>c, <1>d, <1>4, <3>3, TypeFacts DEF CopiesInv, ReceiptsOld, Located
  <2>2. BadAreLost'
    BY <1>d, <1>4, <1>5, TypeFacts DEF BadAreLost, CopiesInv, Located
  <2>3. ScrubSound'
    BY <1>4, <1>5, TypeFacts DEF ScrubSound, CopiesInv
  <2> QED BY <2>1, <2>2, <2>3
<1>7. (ReportsHold /\ PutHolds /\ CountedHeld)'
  BY <1>b, <1>c, <1>d, TypeFacts DEF ReportsHold, PutHolds, CountedHeld, CopiesInv, Located, Held, Counted, Useful
<1>8. CopiesSound'
  <2>1. \A m \in Nodes : (Counted(m)' <=> Counted(m)) /\ (Held(m) => Held(m)')
    BY <1>b, <1>c DEF Counted, Held
  <2>2. \A u \in Tasks : Running(u)' <=> Running(u)
    BY DEF Running
  <2>3. \A m \in Nodes, r \in Receipt : Lost(m, r) /\ stored[m] # r => stored'[m] # r
    BY <1>c DEF Lost
  <2> QED BY <1>d, <1>4, <1>5, <2>1, <2>2, <2>3, TypeFacts DEF CopiesSound, CopiesInv, TasksSound
<1> QED BY <1>1, <1>2, <1>3, <1>6, <1>7, <1>8 DEF CopiesInv

\* A report settles a task: a finished copy that is confirmed is there, and counts.
LEMMA ReportTaskInv == ASSUME CopiesInv, NEW t \in Tasks, ReportTask(t) PROVE CopiesInv'
<1> DEFINE n == tasks[t].dest
           done == tasks[t].kind = "copy" /\ outcome[t] = "FINISHED"
           e == [by |-> t, boot |-> tasks[t].dest_boot]
<1>1. /\ outcome[t] \in {"FINISHED", "FAILED"} /\ Running(t) /\ ValidReport(t)
      /\ tasks' = [tasks EXCEPT ![t].state = outcome[t]]
      /\ UNCHANGED <<op, assigned, record, retired, registry, retirement, maint>>
      /\ UNCHANGED <<disk, stored, boot, link, put, jobs, outcome, requests, faults, corrupted>>
  BY DEF ReportTask, ValidReport, Running, node, world
<1>2. tasks[t].kind # "none" /\ n \in Nodes /\ op # "none"
  BY <1>1 DEF CopiesInv, TasksSound, Untouched
<1>3. /\ tasks' \in [Tasks -> Task] /\ \A u \in Tasks : u # t => tasks'[u] = tasks[u]
      /\ tasks'[t].kind = tasks[t].kind /\ tasks'[t].dest = n /\ tasks'[t].replace = tasks[t].replace
      /\ tasks'[t].dest_boot = tasks[t].dest_boot /\ tasks'[t].expected = tasks[t].expected
      /\ tasks'[t].state = outcome[t]
  <2>1. tasks \in [Tasks -> Task] /\ tasks[t] \in Task
    BY TypeFacts DEF CopiesInv, TypeOK
  <2> QED BY <1>1, <2>1 DEF Task
<1>4. ~Running(t)' /\ \A u \in Tasks : u # t => (Running(u)' <=> Running(u))
  BY <1>1, <1>3 DEF Running, Active
<1>5. TasksEvolve /\ DeletionsOnly
  <2>1. \A u \in Tasks :
          /\ tasks'[u].kind = tasks[u].kind /\ tasks'[u].dest = tasks[u].dest
          /\ tasks'[u].dest_boot = tasks[u].dest_boot /\ tasks'[u].replace = tasks[u].replace
          /\ tasks'[u].expected = tasks[u].expected /\ (Running(u)' => Running(u))
    BY <1>3, <1>4
  <2> QED BY <1>1, <2>1, TasksStop
<1>6. CASE ~done /\ UNCHANGED <<locations, history>>
  <2>1. NothingNew
    BY <1>1, <1>5, <1>6 DEF NothingNew
  <2>2. TypeOK'
    BY <1>1, <1>3, <1>6 DEF CopiesInv, TypeOK
  <2>3. (RetiredForEver /\ Untouched /\ BootsOrdered)'
    BY <1>1, <1>2, <1>6 DEF CopiesInv, RetiredForEver, Untouched, BootsOrdered, Located
  <2> QED BY <1>1, <1>5, <2>1, <2>2, <2>3, TakesNothing DEF CopiesInv
<1>7. CASE done /\ record /\ ~retired /\ Confirm(n, e)
  <2>1. /\ Held(n) /\ jobs[n].kind # "delete"
        /\ \A u \in Tasks : tasks[u].kind = "copy" /\ Running(u) /\ tasks[u].dest = n => u = t
    BY <1>1, <1>2, <1>7 DEF CopiesInv, CopiesSound, JobsSound, DeleteJob
  <2>2. e \in Receipt /\ e # NoReceipt /\ e.by = t /\ e.boot = tasks[t].dest_boot /\ t # Unknown /\ t # 0
    BY TypeFacts, ReplicationAssumption DEF CopiesInv, Receipt, Tasks, Unknown, NoReceipt
  <2>3. /\ locations' \in [Nodes -> Location] /\ \A m \in Nodes : m # n => locations'[m] = locations[m]
        /\ locations'[n].health = "VERIFIED" /\ locations'[n].receipt = e
        /\ locations'[n].inventory = registry[n].boot /\ history' \subseteq Nodes
    <3>1. [health |-> "VERIFIED", receipt |-> e, inventory |-> registry[n].boot] \in Location
      BY <1>2, <2>2, TypeFacts DEF CopiesInv, Location, Healths
    <3> HIDE DEF n, e
    <3> QED BY <1>2, <1>7, <3>1 DEF CopiesInv, TypeOK, Confirm
  <2>4. Old(n, e)
    BY <1>2, <1>7, <2>2 DEF Old
  <2>5. \A m \in Nodes, r \in Receipt : (Old(m, r) => Old(m, r)') /\ (Lost(m, r) => Lost(m, r)')
    <3>1. \A m \in Nodes, r \in Receipt : Old(m, r) => Old(m, r)'
      BY <1>1, <1>3 DEF Old
    <3> QED BY <1>1, <3>1 DEF Lost
  <2>a. PICK k \in Nodes, x \in Receipt : k = n /\ x = e
    BY <1>2, <2>2
  <2> HIDE DEF n, e, done
  <2>6. Old(k, x)' /\ x.by # Unknown
    BY <2>2, <2>4, <2>5, <2>a
  <2>7. \A m \in Nodes : (Held(m)' <=> Held(m)) /\ (m # n => (Counted(m)' <=> Counted(m)) /\ (Located(m)' <=> Located(m)))
    BY <1>1, <2>3 DEF Held, Counted, Located
  <2>8. TypeOK'
    BY <1>1, <1>3, <2>3 DEF CopiesInv, TypeOK
  <2>9. (RetiredForEver /\ Untouched /\ BootsOrdered)'
    BY <1>1, <1>2, <1>7, <2>3, TypeFacts DEF CopiesInv, RetiredForEver, Untouched, BootsOrdered, Located
  <2>10. TasksSound'
    <3>1. \A u \in Tasks : /\ tasks'[u].kind = tasks[u].kind /\ tasks'[u].dest = tasks[u].dest
                           /\ tasks'[u].expected = tasks[u].expected
      BY <1>3 DEF n
    <3>2. \A m \in Nodes : retirement[m] # 0 => retirement[m] \in Tasks
      BY TypeFacts, ReplicationAssumption DEF CopiesInv, Tasks
    <3> QED BY <1>1, <3>1, <3>2 DEF CopiesInv, TasksSound
  <2>11. JobsSound'
    <3>1. \A m \in Nodes : PutJob(m)'
      BY <1>1 DEF CopiesInv, JobsSound, PutJob
    <3>2. \A m \in Nodes : CopyJob(m)'
      <4>1. \A m \in Nodes : jobs[m].kind = "copy" /\ jobs[m].step \in {"moved", "emptied"} => m # n
        BY <2>1 DEF CopiesInv, JobsSound, CopyJob, Held
      <4> QED BY <1>1, <1>3, <2>7, <4>1, TypeFacts DEF CopiesInv, JobsSound, CopyJob, n
    <3>3. \A m \in Nodes : DeleteJob(m)'
      BY <1>1, <1>3, <1>4, <2>1, <2>7, TypeFacts DEF CopiesInv, JobsSound, DeleteJob, Useful, n
    <3> QED BY <3>1, <3>2, <3>3 DEF JobsSound
  <2>12. (ReceiptsOld /\ BadAreLost)'
    <3>1. /\ \A m \in Nodes : m # k => locations'[m] = locations[m]
          /\ locations'[k].health = "VERIFIED" /\ locations'[k].receipt = x
          /\ locations'[k].inventory = registry[k].boot
      BY <2>3, <2>a
    <3> QED BY <1>1, <2>5, <2>6, <3>1, TypeFacts DEF CopiesInv, ReceiptsOld, BadAreLost, Located
  <2>13. ScrubSound'
    BY <1>1, <2>3, <2>5, TypeFacts DEF CopiesInv, ScrubSound
  <2>14. (ReportsHold /\ PutHolds /\ CountedHeld)'
    BY <1>1, <1>7, <2>1, <2>7 DEF CopiesInv, ReportsHold, PutHolds, CountedHeld, Useful, Held
  <2>15. CopiesSound'
    BY <1>1, <1>3, <1>4, <2>1, <2>5, <2>7, TypeFacts DEF CopiesInv, CopiesSound, TasksSound, n
  <2> QED BY <2>8, <2>9, <2>10, <2>11, <2>12, <2>13, <2>14, <2>15 DEF CopiesInv
<1> QED BY <1>6, <1>7 DEF ReportTask

-----------------------------------------------------------------------------
(* The invariant holds for ever.                                            *)

\* A cluster that has just come up has nothing of the block.
LEMMA CopiesInitInv == Init => CopiesInv
<1> SUFFICES ASSUME Init PROVE CopiesInv
  OBVIOUS
<1>1. NoReceipt \in Receipt /\ NoReceipt.by = 0 /\ NoTask \in Task /\ NoJob \in Job /\ NoLocation \in Location
  <2>1. NoReceipt \in Receipt /\ NoReceipt.by = 0
    BY ReplicationAssumption DEF NoReceipt, Receipt, Unknown
  <2>2. NoTask \in Task
    BY <2>1 DEF NoTask, Task
  <2>3. NoJob \in Job
    BY ReplicationAssumption DEF NoJob, Job
  <2>4. NoLocation \in Location
    BY <2>1 DEF NoLocation, Location, Healths
  <2> QED BY <2>1, <2>2, <2>3, <2>4
<1>2. TypeOK
  <2>1. /\ assigned \in [node : Nodes \cup {NoNode}, boot : Nat]
        /\ registry \in [Nodes -> [boot : Nat, reconciled : BOOLEAN, seen : {"fresh", "late", "gone"}]]
        /\ link \in [Nodes -> [phase : {"new", "registered", "read", "ready"}, receipt : Receipt]]
        /\ maint \in [step : Steps, node : Nodes \cup {NoNode}, receipt : Receipt, health : Healths]
    BY <1>1 DEF Init, Steps, Healths
  <2>2. /\ locations \in [Nodes -> Location] /\ tasks \in [Tasks -> Task] /\ jobs \in [Nodes -> Job]
        /\ stored \in [Nodes -> Receipt] /\ outcome \in [Tasks -> {"NONE", "ACCEPTED", "FINISHED", "FAILED"}]
        /\ disk \in [Nodes -> {"none", "good", "bad"}]
    BY <1>1 DEF Init
  <2>3. /\ retirement \in [Nodes -> 0..MaxTasks] /\ boot \in [Nodes -> Nat] /\ put \in [Nodes -> Nat]
        /\ faults \in 0..MaxFaults /\ corrupted \in 0..MaxCorrupt
    BY ReplicationAssumption DEF Init
  <2>4. /\ op \in {"none", "preparing", "committed", "ended"} /\ record \in BOOLEAN /\ retired \in BOOLEAN
        /\ history \subseteq Nodes /\ requests \subseteq [task : Tasks, expected : Receipt]
    BY DEF Init
  <2> QED BY <2>1, <2>2, <2>3, <2>4 DEF TypeOK
<1>3. \A n \in Nodes : /\ ~Located(n) /\ ~Counted(n) /\ locations[n].health = "NONE" /\ locations[n].inventory = 0
                       /\ jobs[n].kind = "none" /\ link[n].receipt = NoReceipt /\ link[n].phase = "ready"
                       /\ registry[n].boot = 1
  BY DEF Init, Located, Counted, NoLocation, NoJob
<1>4. \A t \in Tasks : tasks[t].kind = "none" /\ tasks[t].expected = NoReceipt
  BY DEF Init, NoTask
<1>5. RetiredForEver /\ Untouched /\ BootsOrdered
  BY <1>3, <1>4 DEF Init, RetiredForEver, Untouched, BootsOrdered
<1>6. TasksSound
  <2>1. 0 \notin Tasks
    BY DEF Tasks
  <2>2. /\ \A t \in Tasks : outcome[t] = "NONE"
        /\ \A n \in Nodes : retirement[n] = 0
        /\ requests = {} /\ ~record /\ ~retired
    BY DEF Init
  <2> QED BY <1>1, <1>4, <2>1, <2>2 DEF TasksSound
<1>7. JobsSound /\ ReceiptsOld /\ BadAreLost /\ ScrubSound
  BY <1>3 DEF Init, JobsSound, PutJob, CopyJob, DeleteJob, ReceiptsOld, BadAreLost, ScrubSound
<1>8. ReportsHold /\ PutHolds /\ CopiesSound /\ CountedHeld
  BY <1>3, <1>4 DEF Init, ReportsHold, PutHolds, CopiesSound, CountedHeld
<1> QED BY <1>2, <1>5, <1>6, <1>7, <1>8 DEF CopiesInv

\* Nothing but vars matters to it.
LEMMA CopiesStutterInv == ASSUME CopiesInv, UNCHANGED vars PROVE CopiesInv'
<1>1. /\ UNCHANGED <<op, assigned, record, retired, locations, history, registry, tasks, retirement, maint>>
      /\ UNCHANGED <<disk, stored, boot, link, put, jobs, outcome, requests, faults, corrupted>>
  BY DEF vars, control, catalog, node, world
<1>2. (TypeOK /\ RetiredForEver /\ Untouched /\ BootsOrdered /\ TasksSound)'
  BY <1>1 DEF CopiesInv, TypeOK, RetiredForEver, Untouched, BootsOrdered, TasksSound, Located
<1>3. JobsSound'
  BY <1>1 DEF CopiesInv, JobsSound, PutJob, CopyJob, DeleteJob, Held, Counted, Located, Useful, Running
<1>4. (ReceiptsOld /\ BadAreLost /\ ScrubSound)'
  BY SMTT(30), <1>1 DEF CopiesInv, ReceiptsOld, BadAreLost, ScrubSound, Lost, Old, Located
<1>5. (ReportsHold /\ PutHolds /\ CopiesSound /\ CountedHeld)'
  BY <1>1 DEF CopiesInv, ReportsHold, PutHolds, CopiesSound, CountedHeld, Lost, Old, Located, Held, Counted,
    Useful, Running
<1> QED BY <1>2, <1>3, <1>4, <1>5 DEF CopiesInv

\* Every step keeps it: one lemma for each action.
LEMMA CopiesNextInv == ASSUME CopiesInv, [Next]_vars PROVE CopiesInv'
<1>1. CASE Drop \/ Commit \/ ControlRestart
  BY <1>1, DropInv, CommitInv, ControlRestartInv
<1>2. CASE Maintenance
  BY <1>2, CollectTasksInv, CollectBlocksInv, IdleInv, JudgeInv, ReconcileInv, DispatchInv, CleanOrphanInv,
     ScrubInv DEF Maintenance
<1>3. ASSUME NEW n \in Nodes,
             \/ Allocate(n) \/ PutBegin(n) \/ PutWrite(n) \/ PutRecord(n) \/ PutFail(n) \/ ReportDurable(n)
             \/ Register(n) \/ ReadInventory(n) \/ Reregister(n) \/ Refused(n)
             \/ BlockReport(n) \/ Heartbeat(n)
             \/ DeleteUnlink(n) \/ DeleteForget(n) \/ Reboot(n) \/ Rot(n) \/ Silence(n)
      PROVE CopiesInv'
  BY <1>3, AllocateInv, PutBeginInv, PutWriteInv, PutRecordInv, PutFailInv, ReportDurableInv, RegisterInv,
     ReadInventoryInv, ReregisterInv, RefusedInv, BlockReportInv, HeartbeatInv, DeleteUnlinkInv,
     DeleteForgetInv, RebootInv, RotInv, SilenceInv
<1>4. ASSUME NEW t \in Tasks,
             \/ AcceptCopy(t) \/ CopyBegin(t) \/ CopyQuarantine(t) \/ CopyForget(t) \/ CopyImport(t)
             \/ CopyRecord(t) \/ CopyFinish(t) \/ CopyFail(t) \/ ReportTask(t) \/ TaskExpires(t)
      PROVE CopiesInv'
  BY <1>4, AcceptCopyInv, CopyBeginInv, CopyQuarantineInv, CopyForgetInv, CopyImportInv, CopyRecordInv,
     CopyFinishInv, CopyFailInv, ReportTaskInv, TaskExpiresInv
<1>5. ASSUME NEW q \in requests, DeleteBegin(q) PROVE CopiesInv'
  BY <1>5, DeleteBeginInv
<1>6. CASE UNCHANGED vars
  BY <1>6, CopiesStutterInv
<1> QED BY <1>1, <1>2, <1>3, <1>4, <1>5, <1>6 DEF Next

\* The invariant of Replication.
THEOREM CopiesCorrect == Spec => []CopiesInv
BY CopiesInitInv, CopiesNextInv, PTL DEF Spec

\* What the control counts as a copy is one: a recorded file on that node's disk, whatever
\* reports, copies, deletions and boots came in between; and a retired version never has a
\* location again (eligible, BlockReport, confirm_location, DeleteRetiredBlock).
THEOREM CountedCopiesExist == Spec => []CopiesCounted
<1>1. CopiesInv => CopiesCounted
  BY DEF CopiesInv, CopiesCounted, EligibleStored, Eligible, CountedHeld, Counted, Held
<1> QED BY <1>1, CopiesCorrect, PTL

-----------------------------------------------------------------------------
(* Committed content survives.                                              *)

\* A set of nodes is finite, and a larger one has no fewer.
LEMMA NodeSets ==
  ASSUME NEW S \in SUBSET Nodes, NEW T \in SUBSET Nodes
  PROVE  /\ IsFiniteSet(S) /\ Cardinality(S) \in Nat
         /\ S \subseteq T => Cardinality(S) <= Cardinality(T)
         /\ Cardinality(S \cup T) <= Cardinality(S) + Cardinality(T)
<1>1. IsFiniteSet(S) /\ IsFiniteSet(T) /\ IsFiniteSet(S \cap T)
  BY FS_Subset, NodesAssumption
<1>2. Cardinality(S) \in Nat /\ Cardinality(T) \in Nat /\ Cardinality(S \cap T) \in Nat
  BY <1>1, FS_CardinalityType
<1>3. S \subseteq T => Cardinality(S) <= Cardinality(T)
  BY <1>1, FS_Subset
<1>4. Cardinality(S \cup T) = Cardinality(S) + Cardinality(T) - Cardinality(S \cap T)
  BY <1>1, FS_Union
<1> QED BY <1>1, <1>2, <1>3, <1>4

\* A step that rots nothing takes no good copy away from committed content.
Keeps ==
  /\ corrupted' = corrupted /\ Rotten' \subseteq Rotten
  /\ op' = "committed" => op = "committed" /\ Good \subseteq Good'

\* Such a step keeps the count.
LEMMA KeepsCount == ASSUME CopiesInv, GoodKept, Keeps PROVE GoodKept'
<1> DEFINE r == Rotten
           rr == Rotten'
           g == Good
           gg == Good'
<1>1. r \in SUBSET Nodes /\ rr \in SUBSET Nodes /\ g \in SUBSET Nodes /\ gg \in SUBSET Nodes
  BY DEF Rotten, Good
<1>2. corrupted \in Nat
  BY ReplicationAssumption DEF CopiesInv, TypeOK
<1> HIDE DEF r, rr, g, gg
<1>3. /\ Cardinality(r) \in Nat /\ Cardinality(rr) \in Nat /\ Cardinality(g) \in Nat /\ Cardinality(gg) \in Nat
      /\ rr \subseteq r => Cardinality(rr) <= Cardinality(r)
      /\ g \subseteq gg => Cardinality(g) <= Cardinality(gg)
  BY <1>1, NodeSets
<1>4. Cardinality(rr) <= corrupted
  BY <1>2, <1>3 DEF Keeps, GoodKept, r, rr
<1>5. op' = "committed" => Cardinality(gg) + corrupted >= W
  BY <1>2, <1>3, ReplicationAssumption DEF Keeps, GoodKept, g, gg
<1> QED BY <1>4, <1>5 DEF Keeps, GoodKept, rr, gg

\* W copies that count are there at the commit, good or rotten.
LEMMA CommitCounts == ASSUME CopiesInv, GoodKept, Commit PROVE GoodKept'
<1>1. Eligible \subseteq Good \cup Rotten
  BY DEF Eligible, Good, Rotten, CopiesInv, CountedHeld, Counted, Held, TypeOK, Located
<1>2. Eligible \in SUBSET Nodes /\ Good \in SUBSET Nodes /\ Rotten \in SUBSET Nodes
      /\ Good \cup Rotten \in SUBSET Nodes
  BY DEF Eligible, Good, Rotten
<1>3. Cardinality(Eligible) <= Cardinality(Good \cup Rotten)
  BY <1>1, <1>2, NodeSets
<1>4. /\ Cardinality(Good \cup Rotten) <= Cardinality(Good) + Cardinality(Rotten)
      /\ Cardinality(Good) \in Nat /\ Cardinality(Rotten) \in Nat /\ Cardinality(Eligible) \in Nat
      /\ Cardinality(Good \cup Rotten) \in Nat
  BY <1>2, NodeSets
<1>5. corrupted \in Nat /\ Cardinality(Eligible) >= W /\ W \in Nat /\ Cardinality(Rotten) <= corrupted
  BY ReplicationAssumption DEF CopiesInv, TypeOK, Commit, Durable, GoodKept
<1>6. Cardinality(Good) + corrupted >= W
  BY <1>3, <1>4, <1>5
<1>7. Good' = Good /\ Rotten' = Rotten /\ corrupted' = corrupted
  BY DEF Commit, Good, Rotten, Located, node, world
<1> QED BY <1>5, <1>6, <1>7 DEF GoodKept

\* A file that rots is one good copy less, and is counted as one.
LEMMA RotCounts == ASSUME CopiesInv, GoodKept, NEW n \in Nodes, Rot(n) PROVE GoodKept'
<1>1. Rotten' = Rotten \cup {n} /\ Good' = Good \ {n} /\ corrupted' = corrupted + 1 /\ op' = op
  BY DEF Rot, Rotten, Good, Located, CopiesInv, TypeOK, control, catalog
<1>2. Rotten \in SUBSET Nodes /\ Good \in SUBSET Nodes
  BY DEF Rotten, Good
<1>3. IsFiniteSet(Rotten) /\ IsFiniteSet(Good) /\ Cardinality(Rotten) \in Nat /\ Cardinality(Good) \in Nat
  BY <1>2, NodeSets
<1>4. Cardinality(Rotten \cup {n}) <= Cardinality(Rotten) + 1 /\ Cardinality(Rotten \cup {n}) \in Nat
  <2>1. Rotten \cup {n} \in SUBSET Nodes
    BY <1>2
  <2>2. Cardinality(Rotten \cup {n}) \in Nat
    BY <2>1, NodeSets
  <2>3. Cardinality(Rotten \cup {n}) = IF n \in Rotten THEN Cardinality(Rotten) ELSE Cardinality(Rotten) + 1
    BY <1>3, FS_AddElement
  <2> QED BY <1>3, <2>2, <2>3
<1>5. Cardinality(Good \ {n}) >= Cardinality(Good) - 1 /\ Cardinality(Good \ {n}) \in Nat
  <2>1. Good \ {n} \in SUBSET Nodes
    BY <1>2
  <2>2. Cardinality(Good \ {n}) \in Nat
    BY <2>1, NodeSets
  <2>3. Cardinality(Good \ {n}) = IF n \in Good THEN Cardinality(Good) - 1 ELSE Cardinality(Good)
    BY <1>3, FS_RemoveElement
  <2> QED BY <1>3, <2>2, <2>3
<1>6. corrupted \in Nat /\ W \in Nat
  BY ReplicationAssumption DEF CopiesInv, TypeOK
<1>7. Cardinality(Rotten)' <= corrupted'
  BY <1>1, <1>3, <1>4, <1>6 DEF GoodKept
<1>8. op' = "committed" => Cardinality(Good)' + corrupted' >= W
  BY <1>1, <1>3, <1>5, <1>6 DEF GoodKept
<1> QED BY <1>7, <1>8 DEF GoodKept

\* Control and maintenance forget locations only of content that is not committed.
LEMMA ControlKeeps ==
  ASSUME CopiesInv, Drop \/ ControlRestart \/ Maintenance PROVE Keeps
<1>1. /\ UNCHANGED <<disk, corrupted>>
      /\ op' = "committed" => op = "committed" /\ \A n \in Nodes : Located(n) => Located(n)'
  <2>1. CASE Drop
    BY <2>1 DEF Drop, Useful, node, world, Located
  <2>2. CASE ControlRestart
    BY <2>2 DEF ControlRestart, node, Located
  <2>3. CASE CollectTasks
    BY <2>3 DEF CollectTasks, node, world, catalog, Located
  <2>4. CASE CollectBlocks
    BY <2>4 DEF CollectBlocks, Unretained, Useful, node, world, Located
  <2>5. CASE NoScrub \/ NoClean \/ CleanOrphan \/ Reconcile
    BY <2>5 DEF NoScrub, NoClean, CleanOrphan, Reconcile, node, world, catalog, Located
  <2>6. CASE Judge
    BY <2>6 DEF Judge, node, world, Located, CopiesInv, TypeOK
  <2>7. CASE Dispatch
    BY <2>7 DEF Dispatch, node, catalog, Located
  <2>8. CASE \E n \in Nodes : Scrub(n)
    BY <2>8 DEF Scrub, node, world, catalog, Located
  <2> QED BY <2>1, <2>2, <2>3, <2>4, <2>5, <2>6, <2>7, <2>8 DEF Maintenance
<1> QED BY <1>1 DEF Keeps, Good, Rotten

\* Of what a node does, only a deletion takes a file away, and nobody knows that copy.
LEMMA NodeKeeps ==
  ASSUME CopiesInv, NEW n \in Nodes,
         \/ Allocate(n) \/ PutBegin(n) \/ PutWrite(n) \/ PutRecord(n) \/ PutFail(n) \/ ReportDurable(n)
         \/ Register(n) \/ ReadInventory(n) \/ Reregister(n) \/ Refused(n)
         \/ BlockReport(n) \/ Heartbeat(n)
         \/ DeleteUnlink(n) \/ DeleteForget(n) \/ Reboot(n) \/ Silence(n)
  PROVE  Keeps
<1>1. CASE Allocate(n)
  BY <1>1 DEF Allocate, Keeps, Good, Rotten, node, world
<1>2. CASE PutBegin(n) \/ PutRecord(n) \/ PutFail(n) \/ ReadInventory(n) \/ Refused(n)
  BY <1>2 DEF PutBegin, PutRecord, PutFail, ReadInventory, Refused, Keeps, Good, Rotten, Located, control,
    catalog, world
<1>3. CASE PutWrite(n)
  BY <1>3 DEF PutWrite, Keeps, Good, Rotten, Located, control, catalog, world, CopiesInv, TypeOK
<1>4. CASE ReportDurable(n)
  BY <1>4 DEF ReportDurable, Keeps, Good, Rotten, node, world
<1>5. CASE Register(n)
  BY <1>5 DEF Register, Keeps, Good, Rotten, Located, world
<1>6. CASE Reregister(n) \/ Reboot(n)
  BY <1>6 DEF Reregister, Reboot, Keeps, Good, Rotten, Located, control, catalog
<1>7. CASE BlockReport(n)
  <2>1. UNCHANGED <<disk, corrupted, op>>
    BY <1>7 DEF BlockReport, world
  <2>2. \A m \in Nodes : Located(m) => Located(m)'
    <3>1. \/ UNCHANGED locations
          \/ Confirm(n, link[n].receipt)
          \/ locations' = [locations EXCEPT ![n].health = "VERIFIED", ![n].inventory = registry[n].boot]
          \/ locations' = [locations EXCEPT ![n].health = "MISSING"]
      BY <1>7 DEF BlockReport
    <3>2. /\ locations \in [Nodes -> Location] /\ locations[n] \in Location
      BY DEF CopiesInv, TypeOK
    <3>3. CASE Confirm(n, link[n].receipt)
      BY <3>2, <3>3 DEF Confirm, Located
    <3>4. CASE locations' = [locations EXCEPT ![n].health = "VERIFIED", ![n].inventory = registry[n].boot]
      BY <3>2, <3>4 DEF Located, Location
    <3>5. CASE locations' = [locations EXCEPT ![n].health = "MISSING"]
      BY <3>2, <3>5 DEF Located, Location
    <3> QED BY <3>1, <3>3, <3>4, <3>5 DEF Located
  <2> QED BY <2>1, <2>2 DEF Keeps, Good, Rotten
<1>8. CASE Heartbeat(n) \/ Silence(n)
  BY <1>8 DEF Heartbeat, Silence, Keeps, Good, Rotten, Located, catalog, node, world
<1>9. CASE DeleteUnlink(n)
  <2>1. ~Located(n)
    BY <1>9 DEF DeleteUnlink, CopiesInv, JobsSound, DeleteJob
  <2> QED BY <1>9, <2>1 DEF DeleteUnlink, Keeps, Good, Rotten, Located, control, catalog, world, CopiesInv, TypeOK
<1>10. CASE DeleteForget(n)
  BY <1>10 DEF DeleteForget, Keeps, Good, Rotten, Located, control, catalog, world
<1> QED BY <1>1, <1>2, <1>3, <1>4, <1>5, <1>6, <1>7, <1>8, <1>9, <1>10

\* Of what a task does, only a quarantine takes a file away, and it is a lost one.
LEMMA TaskKeeps ==
  ASSUME CopiesInv, NEW t \in Tasks,
         \/ AcceptCopy(t) \/ CopyBegin(t) \/ CopyQuarantine(t) \/ CopyForget(t) \/ CopyImport(t)
         \/ CopyRecord(t) \/ CopyFinish(t) \/ CopyFail(t) \/ ReportTask(t) \/ TaskExpires(t)
  PROVE  Keeps
<1> DEFINE n == tasks[t].dest
<1>1. CASE AcceptCopy(t) \/ CopyBegin(t) \/ CopyForget(t) \/ CopyRecord(t) \/ CopyFinish(t) \/ CopyFail(t)
  BY <1>1 DEF AcceptCopy, CopyBegin, CopyForget, CopyRecord, CopyFinish, CopyFail, Keeps, Good, Rotten, Located,
    control, catalog, world
<1>2. CASE CopyQuarantine(t)
  <2>1. Running(t) /\ tasks[t].kind = "copy" /\ tasks[t].replace # NoReceipt /\ stored[n] = tasks[t].replace
    BY <1>2 DEF CopyQuarantine, Copying, Authorized, Permitted
  <2>2. disk[n] # "good"
    BY <2>1 DEF CopiesInv, CopiesSound, Lost
  <2>3. /\ UNCHANGED <<op, locations, corrupted>>
        /\ disk' = [disk EXCEPT ![n] = "none"]
    BY <1>2 DEF CopyQuarantine, control, catalog, world
  <2> HIDE DEF n
  <2> QED BY <2>2, <2>3 DEF Keeps, Good, Rotten, Located, CopiesInv, TypeOK
<1>3. CASE CopyImport(t)
  <2>1. /\ UNCHANGED <<op, locations, corrupted>>
        /\ disk[n] = "none" /\ disk' = [disk EXCEPT ![n] = "good"]
    BY <1>3 DEF CopyImport, control, catalog, world
  <2> HIDE DEF n
  <2> QED BY <2>1 DEF Keeps, Good, Rotten, Located, CopiesInv, TypeOK
<1>4. CASE ReportTask(t)
  <2>1. /\ UNCHANGED <<op, disk, corrupted>>
        /\ UNCHANGED locations \/ Confirm(n, [by |-> t, boot |-> tasks[t].dest_boot])
    BY <1>4 DEF ReportTask, node, world
  <2>2. \A m \in Nodes : Located(m) => Located(m)'
    <3>1. locations \in [Nodes -> Location]
      BY DEF CopiesInv, TypeOK
    <3> HIDE DEF n
    <3>2. CASE Confirm(n, [by |-> t, boot |-> tasks[t].dest_boot])
      BY <3>1, <3>2 DEF Confirm, Located
    <3> QED BY <2>1, <3>2 DEF Located
  <2> QED BY <2>1, <2>2 DEF Keeps, Good, Rotten
<1>5. CASE TaskExpires(t)
  BY <1>5 DEF TaskExpires, Keeps, Good, Rotten, Located, catalog, node
<1> QED BY <1>1, <1>2, <1>3, <1>4, <1>5

\* Every step keeps the count of good copies of committed content.
LEMMA GoodKeptNext == ASSUME CopiesInv, GoodKept, [Next]_vars PROVE GoodKept'
<1>1. CASE Drop \/ ControlRestart \/ Maintenance
  BY <1>1, ControlKeeps, KeepsCount
<1>2. CASE Commit
  BY <1>2, CommitCounts
<1>3. ASSUME NEW n \in Nodes, Rot(n) PROVE GoodKept'
  BY <1>3, RotCounts
<1>4. ASSUME NEW n \in Nodes,
             \/ Allocate(n) \/ PutBegin(n) \/ PutWrite(n) \/ PutRecord(n) \/ PutFail(n) \/ ReportDurable(n)
             \/ Register(n) \/ ReadInventory(n) \/ Reregister(n) \/ Refused(n)
             \/ BlockReport(n) \/ Heartbeat(n)
             \/ DeleteUnlink(n) \/ DeleteForget(n) \/ Reboot(n) \/ Silence(n)
      PROVE GoodKept'
  BY <1>4, NodeKeeps, KeepsCount
<1>5. ASSUME NEW t \in Tasks,
             \/ AcceptCopy(t) \/ CopyBegin(t) \/ CopyQuarantine(t) \/ CopyForget(t) \/ CopyImport(t)
             \/ CopyRecord(t) \/ CopyFinish(t) \/ CopyFail(t) \/ ReportTask(t) \/ TaskExpires(t)
      PROVE GoodKept'
  BY <1>5, TaskKeeps, KeepsCount
<1>6. ASSUME NEW q \in requests, DeleteBegin(q) PROVE GoodKept'
  <2>1. Keeps
    BY <1>6 DEF DeleteBegin, Keeps, Good, Rotten, Located, control, catalog, world
  <2> QED BY <2>1, KeepsCount
<1>7. CASE UNCHANGED vars
  <2>1. Keeps
    BY <1>7 DEF vars, Keeps, Good, Rotten, Located, control, catalog, node, world
  <2> QED BY <2>1, KeepsCount
<1> QED BY <1>1, <1>2, <1>3, <1>4, <1>5, <1>6, <1>7 DEF Next

\* Committed content survives: while fewer than W files have rotted one good copy of it is
\* on a disk, whatever crashes, repairs, quarantines and retirements happen.
THEOREM CommittedContentSurvives == Spec => []CommittedSurvives
<1>1. Init => GoodKept
  <2> SUFFICES ASSUME Init PROVE GoodKept
    OBVIOUS
  <2>1. Rotten = {}
    BY DEF Init, Rotten
  <2> QED BY <2>1, FS_EmptySet DEF Init, GoodKept
<1>2. CopiesInv /\ GoodKept => CommittedSurvives
  <2> SUFFICES ASSUME CopiesInv, GoodKept, op = "committed", corrupted < W PROVE \E n \in Nodes : disk[n] = "good"
    BY DEF CommittedSurvives
  <2>1. Cardinality(Good) # 0
    <3>1. corrupted \in Nat /\ W \in Nat
      BY ReplicationAssumption DEF CopiesInv, TypeOK
    <3> QED BY <3>1 DEF GoodKept
  <2>2. Good # {}
    BY <2>1, FS_EmptySet
  <2> QED BY <2>2 DEF Good
<1>3. CopiesInv /\ GoodKept /\ [Next]_vars => GoodKept'
  BY GoodKeptNext
<1> QED BY <1>1, <1>2, <1>3, CopiesCorrect, PTL DEF Spec
=============================================================================
