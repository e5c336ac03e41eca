----------------------------- MODULE Replication -----------------------------
(***************************************************************************)
(* The copies of one block version in the replicated profile: the control's *)
(* view of them (locations, tasks, retirements), the maintenance thread     *)
(* that repairs, scrubs and retires, and the DataNodes that store, copy and *)
(* delete files, crash, and report what they have.                          *)
(*                                                                          *)
(* Control handlers are single write transactions.  A DataNode is not: it   *)
(* asks the control for an authorization, pins the block and works on its   *)
(* disk and its inventory in separate steps, with crashes in between, and   *)
(* what it reports may be out of date when the control applies it.          *)
(*                                                                          *)
(* Other versions meet this one only in capacity and in the dispatch of one *)
(* copy at a time, so one version is enough here.  Each node is a failure   *)
(* domain of its own, and an inventory fits one page.  A DataNode draws one *)
(* inventory id per boot, so the boot number stands for it.                 *)
(***************************************************************************)
EXTENDS Integers, FiniteSets

CONSTANTS
  Nodes,      \* the authorized DataNodes
  R, W,       \* target_replicas and minimum_durable of the file's policy
  MaxTasks,   \* tasks ever created
  MaxFaults,  \* faults, of all kinds together
  MaxCorrupt, \* files that rot on disk
  NoNode,
  Faults,     \* which of "reboot", "restart", "silence", "expire" happen
  RandomIds   \* identifiers of tasks come in any order, not only in that of creation

ASSUME ReplicationAssumption ==
  /\ R \in Nat /\ W \in 1..R
  /\ MaxTasks \in Nat /\ MaxFaults \in Nat /\ MaxCorrupt \in Nat
  /\ NoNode \notin Nodes /\ RandomIds \in BOOLEAN

ASSUME NodesAssumption == IsFiniteSet(Nodes)

\* Identifiers in the order in which the store lists them.
Tasks == 1..MaxTasks

VARIABLES
  op,         \* what the block is for: an upload being prepared, committed content, nothing
  assigned,   \* primary node of the upload and its boot
  record,     \* the control's block record exists
  retired,    \* the irreversible tombstone
  locations,  \* the copy the control knows at each node
  history,    \* durability: nodes that ever confirmed a copy
  registry,   \* the control's datanode records
  tasks,      \* copy and delete tasks
  retirement, \* task of the retirement record of each node, 0 for none
  maint,      \* where the maintenance thread is, and the scrub it has under way
  disk,       \* the block's file at each node
  stored,     \* the receipt in each node's inventory
  boot,       \* boot generation of each node
  link,       \* registration of each node with the control, and the inventory it read
  put,        \* boot in which a node recorded the client's put, 0 for none (put_ledger)
  jobs,       \* the job that holds the block's exclusive pin at each node
  outcome,    \* status of each task at its destination
  requests,   \* task requests sent to nodes
  faults, corrupted \* faults so far

catalog == <<op, assigned, record, retired, locations, history>>
control == <<catalog, registry, tasks, retirement, maint>>
node    == <<disk, stored, boot, link, put, jobs, outcome>>
world   == <<requests, faults, corrupted>>
vars    == <<control, node, world>>

\* A receipt is named by what wrote it, 0 the client, a task, or Unknown for a file
\* found without a record, and by the boot that wrote it.
Unknown == MaxTasks + 1
Receipt == [by : 0..Unknown, boot : Nat]
NoReceipt == [by |-> 0, boot |-> 0]

Active == {"ACCEPTED", "RUNNING"}
Healths == {"NONE", "VERIFIED", "CORRUPT", "MISSING"}
Location == [health : Healths, receipt : Receipt, inventory : Nat]
NoLocation == [health |-> "NONE", receipt |-> NoReceipt, inventory |-> 0]

Task == [kind : {"none", "copy", "delete"}, source : Nodes \cup {NoNode}, dest : Nodes \cup {NoNode},
         source_boot : Nat, dest_boot : Nat, state : {"NONE", "ACCEPTED", "FINISHED", "FAILED"},
         live : BOOLEAN, owned : BOOLEAN, replace : Receipt, expected : Receipt,
         dispatched : BOOLEAN, checked : BOOLEAN]

Job == [kind : {"none", "put", "copy", "delete"}, task : 0..MaxTasks,
        step : {"none", "pinned", "moved", "emptied", "written", "recorded", "unlinked"}]
NoJob == [kind |-> "none", task |-> 0, step |-> "none"]

Steps == {"collect", "blocks", "scrub", "judge", "reconcile", "clean", "dispatch"}

TypeOK ==
  /\ op \in {"none", "preparing", "committed", "ended"}
  /\ assigned \in [node : Nodes \cup {NoNode}, boot : Nat]
  /\ record \in BOOLEAN /\ retired \in BOOLEAN
  /\ locations \in [Nodes -> Location]
  /\ history \subseteq Nodes
  /\ registry \in [Nodes -> [boot : Nat, reconciled : BOOLEAN,
                             seen : {"fresh", "late", "gone"}]]
  /\ tasks \in [Tasks -> Task]
  /\ retirement \in [Nodes -> 0..MaxTasks]
  /\ maint \in [step : Steps, node : Nodes \cup {NoNode}, receipt : Receipt, health : Healths]
  /\ disk \in [Nodes -> {"none", "good", "bad"}]
  /\ stored \in [Nodes -> Receipt]
  /\ boot \in [Nodes -> Nat]
  /\ link \in [Nodes -> [phase : {"new", "registered", "read", "ready"}, receipt : Receipt]]
  /\ put \in [Nodes -> Nat]
  /\ jobs \in [Nodes -> Job]
  /\ outcome \in [Tasks -> {"NONE", "ACCEPTED", "FINISHED", "FAILED"}]
  /\ requests \subseteq [task : Tasks, expected : Receipt]
  /\ faults \in 0..MaxFaults /\ corrupted \in 0..MaxCorrupt

NoTask == [kind |-> "none", source |-> NoNode, dest |-> NoNode, source_boot |-> 0,
           dest_boot |-> 0, state |-> "NONE", live |-> FALSE, owned |-> FALSE,
           replace |-> NoReceipt, expected |-> NoReceipt, dispatched |-> FALSE, checked |-> FALSE]

\* The cluster is up, every node registered with an empty inventory.
Init ==
  /\ op = "none" /\ assigned = [node |-> NoNode, boot |-> 0]
  /\ record = FALSE /\ retired = FALSE
  /\ locations = [n \in Nodes |-> NoLocation]
  /\ history = {}
  /\ registry = [n \in Nodes |-> [boot |-> 1, reconciled |-> TRUE, seen |-> "fresh"]]
  /\ tasks = [t \in Tasks |-> NoTask]
  /\ retirement = [n \in Nodes |-> 0]
  /\ maint = [step |-> "collect", node |-> NoNode, receipt |-> NoReceipt, health |-> "NONE"]
  /\ disk = [n \in Nodes |-> "none"]
  /\ stored = [n \in Nodes |-> NoReceipt]
  /\ boot = [n \in Nodes |-> 1]
  /\ link = [n \in Nodes |-> [phase |-> "ready", receipt |-> NoReceipt]]
  /\ put = [n \in Nodes |-> 0]
  /\ jobs = [n \in Nodes |-> NoJob]
  /\ outcome = [t \in Tasks |-> "NONE"]
  /\ requests = {}
  /\ faults = 0 /\ corrupted = 0

-----------------------------------------------------------------------------
(* What the control asks of its records.                                    *)

\* state(): how a node looks from the control.
Ready(n) == registry[n].reconciled /\ registry[n].seen = "fresh"
Serving(n) == registry[n].reconciled /\ registry[n].seen # "gone"

\* useful(): a live operation or a pinned snapshot refers to the block.
Useful == op \in {"preparing", "committed"}

Located(n) == locations[n].health # "NONE"

\* eligible(): the copies to read from and to count.
Eligible == {n \in Nodes : /\ locations[n].health = "VERIFIED" /\ Serving(n)
                           /\ locations[n].inventory = registry[n].boot}

\* Tasks that are active and have not expired.
Running(t) == tasks[t].state \in Active /\ tasks[t].live
CopyingTo(n) == \E t \in Tasks : tasks[t].kind = "copy" /\ tasks[t].dest = n /\ Running(t)

\* confirm_location(): the receipt r of node n becomes a known copy, of an
\* unretired version.
Confirm(n, r) ==
  /\ locations' = [locations EXCEPT ![n] =
       [health |-> "VERIFIED", receipt |-> r, inventory |-> registry[n].boot]]
  /\ history' = history \cup {n}

\* retired_at_node(): nothing at the control counts on the copy at n.
RetiredAt(n) ==
  /\ ~Located(n)
  /\ ~(assigned.node = n /\ op = "preparing")
  /\ ~CopyingTo(n)

\* AuthorizeInternal of the base class: an active task, and for a deletion a copy that
\* nothing counts on.
Permitted(t) == Running(t) /\ (tasks[t].kind = "delete" => RetiredAt(tasks[t].dest))

\* AuthorizeInternal: the task is of this epoch, and so are the nodes a copy was made for.
Authorized(t) ==
  /\ Permitted(t) /\ tasks[t].owned
  /\ tasks[t].kind = "copy" =>
       /\ Useful
       /\ registry[tasks[t].source].boot = tasks[t].source_boot
       /\ registry[tasks[t].dest].boot = tasks[t].dest_boot

\* retire_copy(): the retirement of the copy at n has a delete task, unless that
\* task failed or is of an earlier control epoch.
Unretired(n) ==
  LET t == retirement[n] IN t = 0 \/ tasks[t].state = "FAILED" \/ ~tasks[t].owned

DeleteTask(n, expected) ==
  [NoTask EXCEPT !.kind = "delete", !.dest = n, !.state = "ACCEPTED", !.live = TRUE,
                 !.owned = TRUE, !.expected = expected]

\* The ways to give the members of S identifiers that are not in use.
Fresh == {t \in Tasks : tasks[t].kind = "none"}
NewIds(S) ==
  {f \in [S -> Fresh] :
     /\ \A m, n \in S : f[m] = f[n] => m = n
     /\ RandomIds \/ \A n \in S, t \in Fresh : t < f[n] => \E m \in S : f[m] = t}

\* retire_copy() for one node, with the expected receipt its caller puts in the task;
\* before is the task table as the caller changed it.
RetireCopy(n, expected, before) ==
  IF Unretired(n)
  THEN \E f \in NewIds({n}) :
         /\ tasks' = [before EXCEPT ![f[n]] = DeleteTask(n, expected)]
         /\ retirement' = [retirement EXCEPT ![n] = f[n]]
  ELSE /\ tasks' = [before EXCEPT ![retirement[n]].expected = expected]
       /\ UNCHANGED retirement

-----------------------------------------------------------------------------
(* The client's upload, and what becomes of it.                             *)

\* AllocateBlocks: plan() picks a ready primary, reserve_replicas() wants W domains.
Allocate(n) ==
  /\ op = "none" /\ Ready(n)
  /\ Cardinality({m \in Nodes : Ready(m)}) >= W
  /\ op' = "preparing"
  /\ assigned' = [node |-> n, boot |-> registry[n].boot]
  /\ UNCHANGED <<record, retired, locations, history, registry, tasks, retirement, maint,
                 node, world>>

\* The upload is aborted or expires; or nothing pins the committed content any more.
Drop ==
  /\ Useful /\ op' = "ended"
  /\ UNCHANGED <<assigned, record, retired, locations, history, registry, tasks, retirement,
                 maint, node, world>>

\* Mutant: copies under way count.
DurableSoon == Cardinality(Eligible \cup {n \in Nodes : CopyingTo(n)}) >= W

\* require_durable(): W domains have confirmed the block and W can serve it.
Durable == Cardinality(history) >= W /\ Cardinality(Eligible) >= W

\* CommitUpload or CommitWrite.
Commit ==
  /\ op = "preparing" /\ record /\ Durable
  /\ op' = "committed"
  /\ UNCHANGED <<assigned, record, retired, locations, history, registry, tasks, retirement,
                 maint, node, world>>

\* AuthorizeBlock and the exclusive pin.  The node may have rebooted since the control
\* last heard of it.
PutBegin(n) ==
  /\ op = "preparing" /\ assigned.node = n
  /\ Serving(n) /\ assigned.boot = registry[n].boot
  /\ put[n] = 0 /\ jobs[n] = NoJob
  /\ jobs' = [jobs EXCEPT ![n] = [kind |-> "put", task |-> 0, step |-> "pinned"]]
  /\ UNCHANGED <<control, disk, stored, boot, link, put, outcome, world>>

\* blocks.put(): the file appears whole, unless there is one already.
PutWrite(n) ==
  /\ jobs[n].kind = "put" /\ jobs[n].step = "pinned" /\ disk[n] = "none"
  /\ disk' = [disk EXCEPT ![n] = "good"]
  /\ jobs' = [jobs EXCEPT ![n].step = "written"]
  /\ UNCHANGED <<control, stored, boot, link, put, outcome, world>>

PutRecord(n) ==
  /\ jobs[n].kind = "put" /\ jobs[n].step = "written"
  /\ stored' = [stored EXCEPT ![n] = [by |-> 0, boot |-> boot[n]]]
  /\ put' = [put EXCEPT ![n] = boot[n]]
  /\ jobs' = [jobs EXCEPT ![n] = NoJob]
  /\ UNCHANGED <<control, disk, boot, link, outcome, world>>

\* The stream breaks, or the file exists already, before anything is written.
PutFail(n) ==
  /\ jobs[n].kind = "put" /\ jobs[n].step = "pinned"
  /\ jobs' = [jobs EXCEPT ![n] = NoJob]
  /\ UNCHANGED <<control, disk, stored, boot, link, put, outcome, world>>

\* ReportDurable of the put's receipt, at once or when the client retries.
ReportDurable(n) ==
  /\ put[n] # 0 /\ put[n] = registry[n].boot
  /\ op = "preparing" /\ ~record /\ ~retired
  /\ assigned = [node |-> n, boot |-> put[n]]
  /\ record' = TRUE
  /\ Confirm(n, [by |-> 0, boot |-> put[n]])
  /\ UNCHANGED <<op, assigned, retired, registry, tasks, retirement, maint, node, world>>

-----------------------------------------------------------------------------
(* Registration and inventory.                                              *)

\* RegisterNode: a boot the control did not know aborts the upload placed on the node.
Register(n) ==
  /\ link[n].phase = "new" /\ registry[n].boot <= boot[n]
  /\ op' = IF registry[n].boot < boot[n] /\ assigned.node = n /\ op = "preparing"
           THEN "ended" ELSE op
  /\ registry' = [registry EXCEPT ![n] = [boot |-> boot[n], reconciled |-> FALSE, seen |-> "fresh"]]
  /\ link' = [link EXCEPT ![n].phase = "registered"]
  /\ UNCHANGED <<assigned, record, retired, locations, history, tasks, retirement, maint,
                 disk, stored, boot, put, jobs, outcome, world>>

\* The inventory is read and verified; a receipt whose file does not verify is left out.
ReadInventory(n) ==
  /\ link[n].phase = "registered"
  /\ link' = [link EXCEPT ![n] = [phase |-> "read",
       receipt |-> IF disk[n] = "good" THEN stored[n] ELSE NoReceipt]]
  /\ UNCHANGED <<control, disk, stored, boot, put, jobs, outcome, world>>

\* A call of the registration or its answer is lost: again.
Reregister(n) ==
  /\ link[n].phase # "new" /\ faults < MaxFaults /\ faults' = faults + 1
  /\ link' = [link EXCEPT ![n] = [phase |-> "new", receipt |-> NoReceipt]]
  /\ UNCHANGED <<control, disk, stored, boot, put, jobs, outcome, requests, corrupted>>

\* A heartbeat to a control that does not know the node is refused: again.
Refused(n) ==
  /\ link[n].phase = "ready" /\ ~registry[n].reconciled
  /\ link' = [link EXCEPT ![n] = [phase |-> "new", receipt |-> NoReceipt]]
  /\ UNCHANGED <<control, disk, stored, boot, put, jobs, outcome, world>>

\* A reported receipt written by a copy task to that node, of a useful block.
Recovered(r) == record /\ r.by \in Tasks /\ Useful

\* BlockReport: adopt, confirm again or retire the copy that was read, then mark a
\* location that this inventory did not mention.
BlockReport(n) ==
  LET r    == link[n].receipt
      same == Located(n) /\ locations[n].receipt = r
      lost == Located(n) /\ locations[n].inventory # registry[n].boot
      missing == IF lost THEN [locations EXCEPT ![n].health = "MISSING"] ELSE locations
  IN  /\ link[n].phase = "read" /\ boot[n] = registry[n].boot
      /\ \/ /\ r # NoReceipt /\ Recovered(r) /\ ~retired
            /\ Confirm(n, r)
            /\ UNCHANGED <<tasks, retirement>>
         \/ /\ r # NoReceipt /\ ~(Recovered(r) /\ ~retired) /\ same /\ ~retired
            /\ locations' = [locations EXCEPT ![n].health = "VERIFIED",
                                              ![n].inventory = registry[n].boot]
            /\ UNCHANGED <<history, tasks, retirement>>
         \/ /\ r # NoReceipt /\ ~(Recovered(r) /\ ~retired) /\ ~Located(n)
            /\ RetireCopy(n, r, tasks)
            /\ UNCHANGED <<locations, history>>
         \/ /\ \/ r = NoReceipt
               \/ ~(Recovered(r) /\ ~retired) /\ Located(n) /\ ~(same /\ ~retired)
            /\ locations' = missing
            /\ UNCHANGED <<history, tasks, retirement>>
      /\ registry' = [registry EXCEPT ![n].reconciled = TRUE, ![n].seen = "fresh"]
      /\ link' = [link EXCEPT ![n] = [phase |-> "ready", receipt |-> NoReceipt]]
      /\ UNCHANGED <<op, assigned, record, retired, maint, disk, stored, boot, put, jobs,
                     outcome, world>>

Heartbeat(n) ==
  /\ link[n].phase = "ready" /\ boot[n] = registry[n].boot
  /\ registry[n].reconciled /\ registry[n].seen # "fresh"
  /\ registry' = [registry EXCEPT ![n].seen = "fresh"]
  /\ UNCHANGED <<catalog, tasks, retirement, maint, node, world>>

-----------------------------------------------------------------------------
(* The maintenance thread: one tick() after another.                        *)

Step(from, to) == maint.step = from /\ maint' = [maint EXCEPT !.step = to]

\* A copy whose purpose, owner, time or nodes are gone.
Hopeless(t) ==
  /\ tasks[t].kind = "copy" /\ tasks[t].state \in Active
  /\ \/ ~Useful \/ ~tasks[t].owned \/ ~tasks[t].live
     \/ registry[tasks[t].source].seen = "gone" \/ registry[tasks[t].dest].seen = "gone"
     \/ registry[tasks[t].source].boot # tasks[t].source_boot
     \/ registry[tasks[t].dest].boot # tasks[t].dest_boot

\* collect(), first transaction: hopeless copies fail.
CollectTasks ==
  /\ Step("collect", "blocks")
  /\ tasks' = [t \in Tasks |-> IF Hopeless(t)
       THEN [tasks[t] EXCEPT !.state = "FAILED", !.live = FALSE] ELSE tasks[t]]
  /\ UNCHANGED <<catalog, registry, retirement, node, world>>

\* collect(): nothing retains the block.
Unretained == ~Useful /\ ~\E n \in Nodes : CopyingTo(n)

\* retire_block(): tombstone, one delete task per known copy, no location, no record.
RetireBlock ==
  LET doomed == {n \in Nodes : Located(n) /\ Unretired(n)}
  IN  /\ \E f \in NewIds(doomed) :
           /\ tasks' = [t \in Tasks |->
                IF \E n \in doomed : f[n] = t
                THEN LET n == CHOOSE m \in doomed : f[m] = t
                     IN  DeleteTask(n, locations[n].receipt)
                ELSE tasks[t]]
           /\ retirement' = [n \in Nodes |-> IF n \in doomed THEN f[n] ELSE retirement[n]]
      /\ locations' = [n \in Nodes |-> NoLocation]
      /\ record' = FALSE /\ retired' = TRUE

\* collect(), second transaction.
CollectBlocks ==
  /\ Step("blocks", "scrub")
  /\ \/ record /\ Unretained /\ RetireBlock
     \/ ~(record /\ Unretained) /\ UNCHANGED <<record, retired, locations, tasks, retirement>>
  /\ UNCHANGED <<op, assigned, history, registry, node, world>>

\* VerifyReceipt at the node, for the receipt r: the health it shows, "NONE" when the
\* answer proves nothing.
Verdict(n, r) ==
  IF stored[n] = NoReceipt THEN "MISSING"
  ELSE IF stored[n] # r \/ boot[n] # registry[n].boot \/ jobs[n] # NoJob THEN "NONE"
  ELSE IF disk[n] = "good" THEN "VERIFIED" ELSE "CORRUPT"

\* scrub() asks one node about the copy the control knows, or none is due.
Scrub(n) ==
  /\ maint.step = "scrub"
  /\ locations[n].health = "VERIFIED" /\ Ready(n)
  /\ maint' = [step |-> "judge", node |-> n, receipt |-> locations[n].receipt,
               health |-> Verdict(n, locations[n].receipt)]
  /\ UNCHANGED <<catalog, registry, tasks, retirement, node, world>>
NoScrub ==
  /\ Step("scrub", "reconcile")
  /\ UNCHANGED <<catalog, registry, tasks, retirement, node, world>>

\* scrub(), its transaction: the verdict counts if the location is still that receipt's.
Judge ==
  LET n == maint.node
  IN  /\ maint.step = "judge"
      /\ locations' = IF /\ maint.health # "NONE" /\ Located(n)
                         /\ locations[n].receipt = maint.receipt
                      THEN [locations EXCEPT ![n].health = maint.health] ELSE locations
      /\ maint' = [step |-> "reconcile", node |-> NoNode, receipt |-> NoReceipt, health |-> "NONE"]
      /\ UNCHANGED <<op, assigned, record, retired, history, registry, tasks, retirement,
                     node, world>>

\* Nodes that have the block or are about to.
Covered == Eligible \cup {n \in Nodes : CopyingTo(n)}

CopyTask(s, n) ==
  [NoTask EXCEPT !.kind = "copy", !.source = s, !.dest = n, !.source_boot = registry[s].boot,
                 !.dest_boot = registry[n].boot, !.state = "ACCEPTED", !.live = TRUE, !.owned = TRUE,
                 !.replace = IF locations[n].health \in {"CORRUPT", "MISSING"}
                             THEN locations[n].receipt ELSE NoReceipt]

\* reconcile(): copies from an eligible node to ready nodes D without one, as many as R
\* asks for; which of them are due is left open (backoff).
Reconcile ==
  /\ Step("reconcile", "clean")
  /\ \E D \in SUBSET {n \in Nodes : Ready(n) /\ n \notin Covered} :
       /\ D # {} => /\ Useful /\ record /\ ~retired /\ Eligible # {}
                    /\ Cardinality(Covered) + Cardinality(D) <= R
       /\ \E f \in NewIds(D), s \in IF D = {} THEN {NoNode} ELSE Eligible :
            tasks' = [t \in Tasks |->
              IF \E n \in D : f[n] = t THEN CopyTask(s, CHOOSE n \in D : f[n] = t) ELSE tasks[t]]
  /\ UNCHANGED <<catalog, registry, retirement, node, world>>

\* GetTask: the destination has nothing more to do for the task.
Over(t) == outcome[t] \in {"FINISHED", "FAILED"}

\* The copies that clean_orphan_copy() asks about: it asks about the first one.
Orphans == {t \in Tasks : /\ tasks[t].kind = "copy" /\ tasks[t].state = "FAILED"
                          /\ ~tasks[t].checked /\ ~Useful /\ Ready(tasks[t].dest)}
First(S) == CHOOSE t \in S : \A u \in S : t <= u

\* clean_orphan_copy(): a failed copy of a useless block was finished at its
\* destination, so that copy is retired.
CleanOrphan ==
  LET t == First(Orphans)
      n == tasks[t].dest
      checked == [tasks EXCEPT ![t].checked = TRUE]
  IN  /\ Step("clean", "dispatch")
      /\ Orphans # {} /\ Over(t)
      /\ IF outcome[t] = "FINISHED"
         THEN RetireCopy(n, [by |-> t, boot |-> tasks[t].dest_boot], checked)
         ELSE tasks' = checked /\ UNCHANGED retirement
      /\ UNCHANGED <<catalog, registry, node, world>>

\* Nothing to clean, or no answer, or not yet.
NoClean ==
  /\ Step("clean", "dispatch")
  /\ UNCHANGED <<catalog, registry, tasks, retirement, node, world>>

\* Mutant: a copy that was sent is under way for ever.
SentEver == {t \in Tasks : tasks[t].kind = "copy" /\ tasks[t].dispatched}

\* Copies sent before and not settled.
Sent == {t \in Tasks : tasks[t].kind = "copy" /\ Running(t) /\ tasks[t].dispatched}

\* tick(): the first copy, of those sent before if there are any, and the first deletion.
Heads ==
  LET copies == {t \in Tasks : tasks[t].kind = "copy" /\ Running(t)}
      deletes == {t \in Tasks : tasks[t].kind = "delete" /\ Running(t)}
  IN  {First(S) : S \in {IF Sent # {} THEN Sent ELSE copies, deletes} \ {{}}}

\* They are sent if their node is ready and their backoff is over.
Dispatch ==
  /\ Step("dispatch", "collect")
  /\ \E S \in SUBSET {t \in Heads : Ready(tasks[t].dest)} :
       /\ requests' = requests \cup {[task |-> t, expected |-> tasks[t].expected] : t \in S}
       /\ tasks' = [t \in Tasks |-> IF t \in S THEN [tasks[t] EXCEPT !.dispatched = TRUE] ELSE tasks[t]]
  /\ UNCHANGED <<catalog, registry, retirement, node, faults, corrupted>>

-----------------------------------------------------------------------------
(* Tasks at a DataNode.                                                     *)

\* ReplicateBlock: authorized and queued.
AcceptCopy(t) ==
  /\ tasks[t].kind = "copy" /\ \E m \in requests : m.task = t
  /\ boot[tasks[t].dest] = tasks[t].dest_boot
  /\ Authorized(t) /\ outcome[t] = "NONE"
  /\ outcome' = [outcome EXCEPT ![t] = "ACCEPTED"]
  /\ UNCHANGED <<control, disk, stored, boot, link, put, jobs, world>>

\* The queued copy takes the exclusive pin.
CopyBegin(t) ==
  LET n == tasks[t].dest
  IN  /\ tasks[t].kind = "copy" /\ outcome[t] = "ACCEPTED" /\ boot[n] = tasks[t].dest_boot
      /\ jobs[n] = NoJob
      /\ jobs' = [jobs EXCEPT ![n] = [kind |-> "copy", task |-> t, step |-> "pinned"]]
      /\ UNCHANGED <<control, disk, stored, boot, link, put, outcome, world>>

Copying(t, step) ==
  /\ tasks[t].kind = "copy"
  /\ jobs[tasks[t].dest] = [kind |-> "copy", task |-> t, step |-> step]

\* A copy that replaces a bad instance moves it aside, after asking once more, and
\* then forgets it.
CopyQuarantine(t) ==
  LET n == tasks[t].dest
  IN  /\ Copying(t, "pinned") /\ tasks[t].replace # NoReceipt
      /\ stored[n] = tasks[t].replace /\ Authorized(t)
      /\ disk' = [disk EXCEPT ![n] = "none"]
      /\ jobs' = [jobs EXCEPT ![n].step = "moved"]
      /\ UNCHANGED <<control, stored, boot, link, put, outcome, world>>
CopyForget(t) ==
  LET n == tasks[t].dest
  IN  /\ Copying(t, "moved")
      /\ stored' = [stored EXCEPT ![n] = NoReceipt]
      /\ jobs' = [jobs EXCEPT ![n].step = "emptied"]
      /\ UNCHANGED <<control, disk, boot, link, put, outcome, world>>

\* GetReplica: the source asks the control too, and sends a file it has a record of.
Sendable(t) ==
  LET s == tasks[t].source
  IN  Authorized(t) /\ stored[s] # NoReceipt /\ disk[s] = "good" /\ jobs[s] = NoJob

\* import_ciphertext(): the file that arrived is verified and put in place, unless there
\* is one already.
CopyImport(t) ==
  LET n == tasks[t].dest
  IN  /\ \/ Copying(t, "emptied")
         \/ Copying(t, "pinned") /\ stored[n] = NoReceipt
      /\ Sendable(t) /\ disk[n] = "none"
      /\ disk' = [disk EXCEPT ![n] = "good"]
      /\ jobs' = [jobs EXCEPT ![n].step = "written"]
      /\ UNCHANGED <<control, stored, boot, link, put, outcome, world>>

\* The receipt of the imported file, or a new receipt for a good file found there.
CopyRecord(t) ==
  LET n == tasks[t].dest
  IN  /\ \/ Copying(t, "written")
         \/ /\ Copying(t, "pinned") /\ tasks[t].replace = NoReceipt
            /\ stored[n] # NoReceipt /\ disk[n] = "good"
      /\ stored' = [stored EXCEPT ![n] = [by |-> t, boot |-> boot[n]]]
      /\ jobs' = [jobs EXCEPT ![n].step = "recorded"]
      /\ UNCHANGED <<control, disk, boot, link, put, outcome, world>>

\* The pin is released and the status kept until it is reported.
CopyFinish(t) ==
  /\ Copying(t, "recorded")
  /\ jobs' = [jobs EXCEPT ![tasks[t].dest] = NoJob]
  /\ outcome' = [outcome EXCEPT ![t] = "FINISHED"]
  /\ UNCHANGED <<control, disk, stored, boot, link, put, world>>

\* The pin is taken, the admission or the source do not answer, a check fails.
CopyFail(t) ==
  LET n == tasks[t].dest
  IN  /\ tasks[t].kind = "copy" /\ outcome[t] = "ACCEPTED" /\ boot[n] = tasks[t].dest_boot
      /\ ~Copying(t, "moved") /\ ~Copying(t, "written") /\ ~Copying(t, "recorded")
      /\ jobs' = IF jobs[n].kind = "copy" /\ jobs[n].task = t
                 THEN [jobs EXCEPT ![n] = NoJob] ELSE jobs
      /\ outcome' = [outcome EXCEPT ![t] = "FAILED"]
      /\ UNCHANGED <<control, disk, stored, boot, link, put, world>>

\* Mutant: any receipt will do, and the control is not asked again.
DeleteAny(m) ==
  LET n == tasks[m.task].dest
  IN  /\ tasks[m.task].kind = "delete" /\ outcome[m.task] = "NONE"
      /\ jobs[n] = NoJob
      /\ jobs' = [jobs EXCEPT ![n] = [kind |-> "delete", task |-> m.task, step |-> "pinned"]]
      /\ UNCHANGED <<control, disk, stored, boot, link, put, outcome, world>>

\* DeleteRetiredBlock: under the exclusive pin the receipt is the expected one, or
\* there is none, and the control still agrees.
DeleteBegin(m) ==
  LET n == tasks[m.task].dest
  IN  /\ tasks[m.task].kind = "delete" /\ outcome[m.task] = "NONE"
      /\ jobs[n] = NoJob
      /\ stored[n] = NoReceipt \/ stored[n] = m.expected
      /\ Authorized(m.task)
      /\ jobs' = [jobs EXCEPT ![n] = [kind |-> "delete", task |-> m.task, step |-> "pinned"]]
      /\ UNCHANGED <<control, disk, stored, boot, link, put, outcome, world>>

DeleteUnlink(n) ==
  /\ jobs[n].kind = "delete" /\ jobs[n].step = "pinned"
  /\ disk' = [disk EXCEPT ![n] = "none"]
  /\ jobs' = [jobs EXCEPT ![n].step = "unlinked"]
  /\ UNCHANGED <<control, stored, boot, link, put, outcome, world>>

DeleteForget(n) ==
  /\ jobs[n].kind = "delete" /\ jobs[n].step = "unlinked"
  /\ stored' = [stored EXCEPT ![n] = NoReceipt]
  /\ outcome' = [outcome EXCEPT ![jobs[n].task] = "FINISHED"]
  /\ jobs' = [jobs EXCEPT ![n] = NoJob]
  /\ UNCHANGED <<control, disk, boot, link, put, world>>

\* validate_task_report(): the task is of this epoch and active; a copy has to be useful
\* and between the boots it was made for.
ValidReport(t) ==
  /\ tasks[t].owned /\ tasks[t].state \in Active
  /\ tasks[t].kind = "copy" =>
       /\ Useful /\ registry[tasks[t].dest].boot = tasks[t].dest_boot
       /\ registry[tasks[t].source].boot = tasks[t].source_boot

\* ReportTask, by the boot that did the work for a copy, by the present one for a
\* deletion: only a current task is settled by it, and a finished copy is confirmed.
ReportTask(t) ==
  LET n == tasks[t].dest
      done == tasks[t].kind = "copy" /\ outcome[t] = "FINISHED"
  IN  /\ outcome[t] \in {"FINISHED", "FAILED"}
      /\ ValidReport(t) /\ tasks[t].live
      /\ tasks[t].kind = "delete" => registry[n].boot = boot[n]
      /\ \/ done /\ record /\ ~retired /\ Confirm(n, [by |-> t, boot |-> tasks[t].dest_boot])
         \/ ~done /\ UNCHANGED <<locations, history>>
      /\ tasks' = [tasks EXCEPT ![t].state = outcome[t]]
      /\ UNCHANGED <<op, assigned, record, retired, registry, retirement, maint, node, world>>

-----------------------------------------------------------------------------
(* Faults.                                                                  *)

Fault(kind) == kind \in Faults /\ faults < MaxFaults /\ faults' = faults + 1

\* A DataNode dies and boots: recover_unindexed_objects() records a good file that has
\* no receipt under an operation nobody knows.
Reboot(n) ==
  /\ Fault("reboot")
  /\ boot' = [boot EXCEPT ![n] = @ + 1]
  /\ stored' = [stored EXCEPT ![n] = IF @ = NoReceipt /\ disk[n] = "good"
                                     THEN [by |-> Unknown, boot |-> boot[n] + 1] ELSE @]
  /\ link' = [link EXCEPT ![n] = [phase |-> "new", receipt |-> NoReceipt]]
  /\ jobs' = [jobs EXCEPT ![n] = NoJob]
  /\ UNCHANGED <<control, disk, put, outcome, requests, corrupted>>

\* A stored file rots.
Rot(n) ==
  /\ corrupted < MaxCorrupt /\ disk[n] = "good"
  /\ corrupted' = corrupted + 1
  /\ disk' = [disk EXCEPT ![n] = "bad"]
  /\ UNCHANGED <<control, stored, boot, link, put, jobs, outcome, requests, faults>>

\* Heartbeats do not arrive, for a while or for long.
Silence(n) ==
  /\ Fault("silence")
  /\ \E seen \in {"late", "gone"} :
       /\ registry[n].seen \in (IF seen = "late" THEN {"fresh"} ELSE {"fresh", "late"})
       /\ registry' = [registry EXCEPT ![n].seen = seen]
  /\ UNCHANGED <<catalog, tasks, retirement, maint, node, requests, corrupted>>

\* Five minutes pass over a task.
TaskExpires(t) ==
  /\ Fault("expire") /\ Running(t)
  /\ tasks' = [tasks EXCEPT ![t].live = FALSE]
  /\ UNCHANGED <<catalog, registry, retirement, maint, node, requests, corrupted>>

\* The control dies and starts: it aborts the upload and collects with the policy of
\* its base class, whose delete tasks fail with the others when the epoch changes;
\* nodes have to register again.
ControlRestart ==
  LET after == IF op = "preparing" THEN "ended" ELSE op
      drop  == record /\ after # "committed" /\ ~\E n \in Nodes : CopyingTo(n)
  IN  /\ Fault("restart")
      /\ op' = after
      /\ record' = (record /\ ~drop) /\ retired' = (retired \/ drop)
      /\ locations' = IF drop THEN [n \in Nodes |-> NoLocation] ELSE locations
      /\ tasks' = [t \in Tasks |-> [tasks[t] EXCEPT !.owned = FALSE,
           !.state = IF @ \in Active THEN "FAILED" ELSE @, !.live = @ /\ tasks[t].state \notin Active]]
      /\ retirement' = [n \in Nodes |-> 0]
      /\ registry' = [n \in Nodes |-> [registry[n] EXCEPT !.reconciled = FALSE, !.seen = "gone"]]
      /\ maint' = [step |-> "collect", node |-> NoNode, receipt |-> NoReceipt, health |-> "NONE"]
      /\ UNCHANGED <<assigned, history, node, requests, corrupted>>

-----------------------------------------------------------------------------

Maintenance ==
  \/ CollectTasks \/ CollectBlocks \/ NoScrub \/ Judge \/ Reconcile \/ NoClean \/ Dispatch
  \/ CleanOrphan
  \/ \E n \in Nodes : Scrub(n)

Next ==
  \/ Drop \/ Commit \/ Maintenance \/ ControlRestart
  \/ \E n \in Nodes :
       \/ Allocate(n) \/ PutBegin(n) \/ PutWrite(n) \/ PutRecord(n) \/ PutFail(n) \/ ReportDurable(n)
       \/ Register(n) \/ ReadInventory(n) \/ Reregister(n) \/ Refused(n)
       \/ BlockReport(n) \/ Heartbeat(n)
       \/ DeleteUnlink(n) \/ DeleteForget(n) \/ Reboot(n) \/ Rot(n) \/ Silence(n)
  \/ \E t \in Tasks :
       \/ AcceptCopy(t) \/ CopyBegin(t) \/ CopyQuarantine(t) \/ CopyForget(t) \/ CopyImport(t)
       \/ CopyRecord(t) \/ CopyFinish(t) \/ CopyFail(t) \/ ReportTask(t) \/ TaskExpires(t)
  \/ \E m \in requests : DeleteBegin(m)

Spec == Init /\ [][Next]_vars

\* What the threads go on doing while no fault keeps them from it.  The tick loop runs,
\* and its backoffs end: planning, cleaning and sending are retried for ever, and so is a
\* deletion that meets a pin (strong fairness; each can happen only so many times, so one
\* condition serves them all).  The maintain() loop of a node runs, and so does a job that
\* was accepted, which may still fail.
Retried ==
  \/ Reconcile /\ tasks' # tasks
  \/ Dispatch /\ requests' # requests
  \/ CleanOrphan

Maintain(n) ==
  \/ Register(n) \/ ReadInventory(n) \/ Refused(n) \/ BlockReport(n) \/ Heartbeat(n)
  \/ \E t \in Tasks : tasks[t].dest = n /\ ReportTask(t)

Working(n) ==
  \/ PutWrite(n) \/ PutRecord(n) \/ PutFail(n) \/ DeleteUnlink(n) \/ DeleteForget(n)
  \/ \E t \in Tasks : /\ tasks[t].dest = n
                      /\ \/ AcceptCopy(t) \/ CopyBegin(t) \/ CopyQuarantine(t) \/ CopyForget(t)
                         \/ CopyImport(t) \/ CopyRecord(t) \/ CopyFinish(t) \/ CopyFail(t)

Fairness ==
  /\ WF_vars(Maintenance) /\ SF_vars(Retried)
  /\ \A n \in Nodes : WF_vars(Maintain(n)) /\ WF_vars(Working(n))
  /\ SF_vars(\E m \in requests : DeleteBegin(m))

FairSpec == Spec /\ Fairness

-----------------------------------------------------------------------------
(* Safety.                                                                  *)

\* A copy the control reads from and counts (eligible()) is a recorded file on the
\* node's disk, at most rotten there: no copy, report, quarantine or deletion takes it
\* away while the control counts on it.  Its receipt may be a later one: a copy task
\* that went on after its time gives the file its own.
EligibleStored ==
  \A n \in Eligible : stored[n] # NoReceipt /\ disk[n] # "none"

\* Committed content survives as long as fewer than W files rot.
CommittedSurvives ==
  op = "committed" /\ corrupted < W => \E n \in Nodes : disk[n] = "good"

\* RETIRED is irreversible: a retired version has no location again, whatever is
\* reported late.
RetiredForEver == retired => \A n \in Nodes : ~Located(n)

\* What the control counts as a copy is one, and a retired version has none (eligible,
\* BlockReport); the state is well typed.
CopiesCounted == TypeOK /\ EligibleStored /\ RetiredForEver

-----------------------------------------------------------------------------
(* Liveness.                                                                *)

\* Repair completes: committed content gets its R copies, from whatever reboots and
\* failed copies leave, unless it is dropped or the tasks of the model run out.
Repaired == []<>(op = "committed" => Cardinality(Eligible) = R \/ Fresh = {})

\* No file of a retired version is on a disk, except where the tasks of the model ran out
\* before one was made to delete it.
Gone == \A n \in Nodes : disk[n] = "none" \/ (Fresh = {} /\ retirement[n] = 0)

\* The files of a retired version leave every disk, the copies that finished too late for
\* anyone to confirm included, while nothing fails (reconcile, clean_orphan_copy).
RetiredReclaimed == []<>(retired /\ faults = 0 => Gone)

\* The tasks of the reconciler come to their end: wanted copies are made and unwanted files
\* deleted (reconcile).
CopiesSettle == Repaired /\ RetiredReclaimed

\* And so it is after a fault: complete provisional copies with a receipt are cleaned by
\* decision of the control (docs/etapa6-replicacion.md:85).  But after a reboot
\* clean_orphan_copy() can put the receipt of an older copy into a deletion, and can ask
\* for ever about a copy that the reboot cut short.
RetiredGone == []<>(retired => Gone)
=============================================================================
