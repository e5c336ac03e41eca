------------------------------ MODULE Cluster ------------------------------
(***************************************************************************)
(* The distributed profile without replication: the control places each     *)
(* block on one DataNode within its capacity, an administrator copies       *)
(* blocks and authorizes or disables nodes, and nodes register, report      *)
(* their inventory and store, copy and delete files.                        *)
(*                                                                          *)
(* What the control knows of a node is old: the heartbeat's used bytes, the *)
(* inventory a report read, the policy its caller was checked against.      *)
(* A file takes one unit of capacity: storage_cost() bounds what it takes.  *)
(* A node draws one inventory id per boot, so the boot number stands for    *)
(* it, and an inventory fits one page.                                      *)
(***************************************************************************)
EXTENDS Integers, FiniteSets

CONSTANTS
  DataNodes,
  Blocks,      \* block versions, each of an upload of its own
  Room,        \* capacity of a node, in blocks
  MaxCopies,   \* copies the administrator ever orders
  MaxChanges,  \* changes of the nodes' policy
  MaxTroubles, \* reboots, restarts, silences and expiries together
  Nowhere

ASSUME ClusterAssumption ==
  /\ Room \in Nat /\ MaxCopies \in Nat /\ MaxChanges \in Nat /\ MaxTroubles \in Nat /\ Nowhere \notin DataNodes

Copies == 1..MaxCopies

VARIABLES
  upload,     \* state of each block's upload
  assigned,   \* node and boot it was placed on
  recorded,   \* blocks the control has a record of
  located,    \* inventory each known copy was last confirmed in, 0 for no copy
  enabled,    \* node-policy
  listed,     \* the control's datanode records
  copies,     \* copy tasks
  deletion,   \* delete task of the retirement record of a block at a node
  blockFiles, \* block files of each node
  index,      \* blocks in the inventory of each node
  incarnation,\* boot generation of each node
  agent,      \* registration thread of each node, and what it read
  putBoot,    \* boot in which the put of a block was recorded by its node
  granted,    \* requests that were authorized and wait for the block's pin
  working,    \* the job that holds the pin of a block at a node
  done,       \* status of each copy at its destination
  deleted,    \* deletions a node has finished
  changes, troubles

clusterVars == <<upload, assigned, recorded, located, enabled, listed, copies, deletion, blockFiles,
                 index, incarnation, agent, putBoot, granted, working, done, deleted, changes, troubles>>
catalogue == <<upload, assigned, recorded, located>>
policies == <<enabled, listed, copies, deletion>>
volumes == <<blockFiles, index, incarnation, putBoot, working, done>>

Kinds == {"put", "copy", "delete"}
Grants == [kind : Kinds, block : Blocks, node : DataNodes, copy : 0..MaxCopies]
NoWork == [kind |-> "none", copy |-> 0, step |-> "none"]
NoCopy == [block |-> Nowhere, source |-> Nowhere, dest |-> Nowhere, boot |-> 0,
           state |-> "NONE", live |-> FALSE]

ClusterTypeOK ==
  /\ upload \in [Blocks -> {"none", "preparing", "sealed", "late", "committed", "removed", "ended"}]
  /\ assigned \in [Blocks -> [node : DataNodes \cup {Nowhere}, boot : Nat]]
  /\ recorded \subseteq Blocks
  /\ located \in [Blocks -> [DataNodes -> Nat]]
  /\ enabled \in [DataNodes -> BOOLEAN]
  /\ listed \in [DataNodes -> [boot : Nat, reconciled : BOOLEAN, disabled : BOOLEAN,
                               seen : {"fresh", "late", "gone"}]]
  /\ copies \in [Copies -> [block : Blocks \cup {Nowhere}, source : DataNodes \cup {Nowhere},
                            dest : DataNodes \cup {Nowhere}, boot : Nat, live : BOOLEAN,
                            state : {"NONE", "ACCEPTED", "FINISHED", "FAILED"}]]
  /\ deletion \in [Blocks -> [DataNodes -> {"NONE", "ACCEPTED", "FINISHED", "FAILED"}]]
  /\ blockFiles \in [DataNodes -> SUBSET Blocks] /\ index \in [DataNodes -> SUBSET Blocks]
  /\ incarnation \in [DataNodes -> Nat] /\ putBoot \in [Blocks -> Nat]
  /\ agent \in [DataNodes -> [phase : {"new", "registered", "read", "ready", "beat"},
                              inventory : SUBSET Blocks]]
  /\ granted \subseteq Grants
  /\ working \in [DataNodes -> [Blocks -> [kind : Kinds \cup {"none"}, copy : 0..MaxCopies,
       step : {"none", "reserved", "written", "unlinked"}]]]
  /\ done \in [Copies -> {"NONE", "ACCEPTED", "FINISHED", "FAILED"}]
  /\ deleted \subseteq Blocks \X DataNodes
  /\ changes \in 0..MaxChanges /\ troubles \in 0..MaxTroubles

\* The cluster is up, its nodes registered with nothing in their inventories, and some of
\* them disabled since.
ClusterInit ==
  /\ upload = [b \in Blocks |-> "none"]
  /\ assigned = [b \in Blocks |-> [node |-> Nowhere, boot |-> 0]]
  /\ recorded = {}
  /\ located = [b \in Blocks |-> [n \in DataNodes |-> 0]]
  /\ enabled \in [DataNodes -> BOOLEAN]
  /\ listed = [n \in DataNodes |-> [boot |-> 1, reconciled |-> TRUE, disabled |-> ~enabled[n], seen |-> "fresh"]]
  /\ copies = [k \in Copies |-> NoCopy]
  /\ deletion = [b \in Blocks |-> [n \in DataNodes |-> "NONE"]]
  /\ blockFiles = [n \in DataNodes |-> {}] /\ index = [n \in DataNodes |-> {}]
  /\ incarnation = [n \in DataNodes |-> 1] /\ putBoot = [b \in Blocks |-> 0]
  /\ agent = [n \in DataNodes |-> [phase |-> "ready", inventory |-> {}]]
  /\ granted = {} /\ working = [n \in DataNodes |-> [b \in Blocks |-> NoWork]]
  /\ done = [k \in Copies |-> "NONE"] /\ deleted = {}
  /\ troubles = 0 /\ changes = 0

-----------------------------------------------------------------------------
(* What the control asks of its records.                                    *)

\* state(): READY, and READY or SUSPECT.
Serves(n) == ~listed[n].disabled /\ listed[n].reconciled /\ listed[n].seen # "gone"
Fresh(n) == Serves(n) /\ listed[n].seen = "fresh"

\* operation_live().
OpLive(b) == upload[b] \in {"preparing", "sealed"}

Under(k) == copies[k].state = "ACCEPTED"
Unexpired(k) == Under(k) /\ copies[k].live

\* usage(): the copies the control knows of, and what is promised.  The used bytes of the last
\* heartbeat, when they are more, only make the control place less: any heartbeat may be
\* the last, so they are left out.
Usage(n) ==
  Cardinality({b \in Blocks : located[b][n] # 0})
  + Cardinality({b \in Blocks : assigned[b].node = n /\ located[b][n] = 0 /\ OpLive(b)})
  + Cardinality({k \in Copies : copies[k].dest = n /\ Unexpired(k)})

\* retire_copy(): one retirement, hence one delete task, for a copy, ever.
Retired(before, S) ==
  [b \in Blocks |-> [n \in DataNodes |->
     IF <<b, n>> \in S /\ before[b][n] = "NONE" THEN "ACCEPTED" ELSE before[b][n]]]

\* retired_at_node(): nothing at the control counts on the copy of b at n.
RetiredAt(b, n) ==
  /\ located[b][n] = 0
  /\ ~(assigned[b].node = n /\ OpLive(b))
  /\ \A k \in Copies : copies[k].block = b /\ copies[k].dest = n => ~Unexpired(k)

\* AuthorizeInternal for a copy: both nodes are authorized and the task runs.
CopyAuthorized(k) == Unexpired(k) /\ enabled[copies[k].source] /\ enabled[copies[k].dest]

-----------------------------------------------------------------------------
(* Uploads.                                                                 *)

\* BeginUpload, AllocateBlocks, plan(): the block is placed on a node with room; among
\* them the code prefers the emptiest and rotates, and any is taken here.
Place(b) ==
  /\ upload[b] = "none"
  /\ \E n \in DataNodes :
       /\ Fresh(n) /\ Usage(n) + 1 <= Room
       /\ assigned' = [assigned EXCEPT ![b] = [node |-> n, boot |-> listed[n].boot]]
  /\ upload' = [upload EXCEPT ![b] = "preparing"]
  /\ UNCHANGED <<recorded, located, policies, volumes, agent, granted, deleted, changes, troubles>>

\* PutBlock arrives at the node, and AuthorizeBlock agrees.  A block in the node's ledger
\* is not written again.
AuthorizePut(b) ==
  LET n == assigned[b].node IN
  /\ OpLive(b) /\ b \notin recorded /\ putBoot[b] = 0
  /\ enabled[n] /\ Serves(n) /\ assigned[b].boot = listed[n].boot
  /\ granted' = granted \cup {[kind |-> "put", block |-> b, node |-> n, copy |-> 0]}
  /\ UNCHANGED <<catalogue, policies, volumes, agent, deleted, changes, troubles>>

\* ReportDurable: the put of a block whose upload is live becomes a copy the control knows.
ReportDurable(b) ==
  LET n == assigned[b].node IN
  /\ putBoot[b] # 0 /\ b \notin recorded
  /\ enabled[n] /\ putBoot[b] = listed[n].boot /\ assigned[b].boot = putBoot[b] /\ OpLive(b)
  /\ recorded' = recorded \cup {b}
  /\ located' = [located EXCEPT ![b][n] = listed[n].boot]
  /\ UNCHANGED <<upload, assigned, policies, volumes, agent, granted, deleted, changes, troubles>>

\* SealManifest with verify_seal().
Seal(b) ==
  /\ upload[b] = "preparing" /\ b \in recorded /\ \E n \in DataNodes : located[b][n] # 0
  /\ upload' = [upload EXCEPT ![b] = "sealed"]
  /\ UNCHANGED <<assigned, recorded, located, policies, volumes, agent, granted, deleted, changes, troubles>>

\* CommitUpload: the node the block was placed on serves, in the same boot.
CommitPlaced(b) ==
  LET n == assigned[b].node IN
  /\ upload[b] = "sealed" /\ b \in recorded
  /\ Serves(n) /\ assigned[b].boot = listed[n].boot
  /\ upload' = [upload EXCEPT ![b] = "committed"]
  /\ UNCHANGED <<assigned, recorded, located, policies, volumes, agent, granted, deleted, changes, troubles>>

\* AbortUpload, or the name that held the block's content is removed.
AbortOrRemove(b) ==
  /\ OpLive(b) \/ upload[b] = "committed"
  /\ upload' = [upload EXCEPT ![b] = IF OpLive(b) THEN "ended" ELSE "removed"]
  /\ UNCHANGED <<assigned, recorded, located, policies, volumes, agent, granted, deleted, changes, troubles>>

\* The upload's five minutes are over; collect() notices later.
UploadLate(b) ==
  /\ OpLive(b) /\ troubles < MaxTroubles
  /\ upload' = [upload EXCEPT ![b] = "late"]
  /\ troubles' = troubles + 1
  /\ UNCHANGED <<assigned, recorded, located, policies, volumes, agent, granted, deleted, changes>>

-----------------------------------------------------------------------------
(* Maintenance.                                                             *)

\* collect() of the base class: uploads expire, and the block of no live upload, content or
\* running copy is retired where it is known to be.
CollectBlocks ==
  LET ended == [b \in Blocks |-> IF upload[b] = "late" THEN "ended" ELSE upload[b]]
      kept == {b \in Blocks : \/ ended[b] \in {"preparing", "sealed", "committed"}
                              \/ \E k \in Copies : copies[k].block = b /\ Unexpired(k)}
      gone == recorded \ kept
  IN /\ upload' = ended
     /\ recorded' = recorded \ gone
     /\ deletion' = Retired(deletion, {x \in gone \X DataNodes : located[x[1]][x[2]] # 0})
     /\ located' = [b \in Blocks |-> IF b \in gone THEN [n \in DataNodes |-> 0] ELSE located[b]]
     /\ UNCHANGED <<assigned, enabled, listed, copies, volumes, agent, granted, deleted, changes, troubles>>

\* collect(), second transaction: what an ended upload or a failed copy may have left at a
\* node is retired there.
CollectCopies ==
  /\ deletion' = Retired(deletion,
       {<<b, assigned[b].node>> : b \in {x \in Blocks : /\ upload[x] = "ended"
                                                        /\ located[x][assigned[x].node] = 0}}
       \cup {<<copies[k].block, copies[k].dest>> : k \in {j \in Copies : copies[j].state = "FAILED"}})
  /\ UNCHANGED <<catalogue, enabled, listed, copies, volumes, agent, granted, deleted, changes, troubles>>

\* tick(): an expired copy fails, once its destination is there.
FailExpired(k) ==
  /\ Under(k) /\ ~copies[k].live /\ Fresh(copies[k].dest)
  /\ copies' = [copies EXCEPT ![k].state = "FAILED"]
  /\ UNCHANGED <<catalogue, enabled, listed, deletion, volumes, agent, granted, deleted, changes, troubles>>

\* tick(): ReplicateBlock reaches the destination the task was made for, which asks for its
\* authorization and takes the task.
DispatchCopy(k) ==
  LET n == copies[k].dest IN
  /\ CopyAuthorized(k) /\ Fresh(n) /\ copies[k].boot = incarnation[n] /\ done[k] = "NONE"
  /\ done' = [done EXCEPT ![k] = "ACCEPTED"]
  /\ granted' = granted \cup {[kind |-> "copy", block |-> copies[k].block, node |-> n, copy |-> k]}
  /\ UNCHANGED <<catalogue, policies, blockFiles, index, incarnation, putBoot, working, agent,
                 deleted, changes, troubles>>

\* tick(): DeleteRetiredBlock reaches the node, which has not done it before and asks for its
\* authorization.  An expired delete task is given five more minutes.
DispatchDelete(b, n) ==
  /\ deletion[b][n] = "ACCEPTED" /\ Fresh(n) /\ <<b, n>> \notin deleted
  /\ enabled[n] /\ RetiredAt(b, n)
  /\ granted' = granted \cup {[kind |-> "delete", block |-> b, node |-> n, copy |-> 0]}
  /\ UNCHANGED <<catalogue, policies, volumes, agent, deleted, changes, troubles>>

\* CopyBlock, by the administrator.
CopyBlock(b, s, d) ==
  /\ b \in recorded /\ located[b][s] # 0 /\ located[b][d] = 0
  /\ Fresh(s) /\ Fresh(d) /\ Usage(d) + 1 <= Room
  /\ \E k \in Copies :
       /\ copies[k].state = "NONE" /\ \A j \in Copies : copies[j].state = "NONE" => k <= j
       /\ copies' = [copies EXCEPT ![k] = [block |-> b, source |-> s, dest |-> d,
                       boot |-> listed[d].boot, state |-> "ACCEPTED", live |-> TRUE]]
  /\ UNCHANGED <<catalogue, enabled, listed, deletion, volumes, agent, granted, deleted, changes, troubles>>

\* ReportTask, for a copy: its outcome, in the boot the task was made for, and in time.
ReportCopy(k) ==
  LET n == copies[k].dest  b == copies[k].block IN
  /\ done[k] \in {"FINISHED", "FAILED"} /\ Unexpired(k)
  /\ enabled[n] /\ listed[n].boot = incarnation[n]
  /\ done[k] = "FINISHED" => copies[k].boot = incarnation[n] /\ b \in recorded
  /\ located' = IF done[k] = "FINISHED" THEN [located EXCEPT ![b][n] = listed[n].boot] ELSE located
  /\ copies' = [copies EXCEPT ![k].state = done[k]]
  /\ UNCHANGED <<upload, assigned, recorded, enabled, listed, deletion, volumes, agent, granted,
                 deleted, changes, troubles>>

\* ReportTask, for a deletion.
ReportDelete(b, n) ==
  /\ <<b, n>> \in deleted /\ deletion[b][n] = "ACCEPTED"
  /\ enabled[n] /\ listed[n].boot = incarnation[n]
  /\ deletion' = [deletion EXCEPT ![b][n] = "FINISHED"]
  /\ UNCHANGED <<catalogue, enabled, listed, copies, volumes, agent, granted, deleted, changes, troubles>>

\* The tasks SetNodeAuthorization fails: those that have the node at either end.
TouchesDest(k, n) == copies[k].dest = n
Touches(k, n) == n \in {copies[k].source, copies[k].dest}

\* SetNodeAuthorization: a node that is disabled loses its tasks, and one that is enabled
\* has to be reconciled again.
SetNodeAuthorization(n) ==
  LET on == ~enabled[n] IN
  /\ changes < MaxChanges
  /\ changes' = changes + 1 /\ UNCHANGED troubles
  /\ enabled' = [enabled EXCEPT ![n] = on]
  /\ listed' = [listed EXCEPT ![n].disabled = ~on, ![n].reconciled = @ /\ ~on]
  /\ copies' = [k \in Copies |->
       IF ~on /\ Under(k) /\ Touches(k, n)
       THEN [copies[k] EXCEPT !.state = "FAILED", !.live = FALSE] ELSE copies[k]]
  /\ deletion' = [b \in Blocks |-> [deletion[b] EXCEPT ![n] =
       IF ~on /\ @ = "ACCEPTED" THEN "FAILED" ELSE @]]
  /\ UNCHANGED <<catalogue, volumes, agent, granted, deleted>>

-----------------------------------------------------------------------------
(* A DataNode's work on its volume.  The block's exclusive pin is held from  *)
(* the start of a job to its end.                                            *)

Starts(r, kind) == r \in granted /\ r.kind = kind /\ working[r.node][r.block] = NoWork
Step(n, b, step) == working' = [working EXCEPT ![n][b].step = step]

\* PutBlock takes the pin and reserves (Volume has the node's capacity).
StartPut(r) ==
  /\ Starts(r, "put")
  /\ granted' = granted \ {r}
  /\ working' = [working EXCEPT ![r.node][r.block] = [kind |-> "put", copy |-> 0, step |-> "reserved"]]
  /\ UNCHANGED <<catalogue, policies, blockFiles, index, incarnation, putBoot, done, agent, deleted,
                 changes, troubles>>

\* copy() takes the pin and reserves; a block that is in the inventory is only verified.
StartCopy(r) ==
  LET known == r.block \in index[r.node] IN
  /\ Starts(r, "copy")
  /\ known => r.block \in blockFiles[r.node]
  /\ granted' = granted \ {r}
  /\ done' = IF known THEN [done EXCEPT ![r.copy] = "FINISHED"] ELSE done
  /\ working' = IF known THEN working
                ELSE [working EXCEPT ![r.node][r.block] =
                        [kind |-> "copy", copy |-> r.copy, step |-> "reserved"]]
  /\ UNCHANGED <<catalogue, policies, blockFiles, index, incarnation, putBoot, agent, deleted, changes, troubles>>

\* DeleteRetiredBlock takes the pin; the file goes first, then its record.
StartDelete(r) ==
  LET n == r.node  b == r.block IN
  /\ Starts(r, "delete")
  /\ granted' = granted \ {r}
  /\ working' = [working EXCEPT ![n][b] = [kind |-> "delete", copy |-> 0, step |-> "unlinked"]]
  /\ blockFiles' = [blockFiles EXCEPT ![n] = @ \ {b}]
  /\ UNCHANGED <<catalogue, policies, index, incarnation, putBoot, done, agent, deleted, changes, troubles>>

\* A job cannot start: LOCK_BUSY, NO_SPACE, DATA_LOSS, or the caller is gone.
RefuseJob(r) ==
  /\ r \in granted
  /\ granted' = granted \ {r}
  /\ done' = IF r.kind = "copy" THEN [done EXCEPT ![r.copy] = "FAILED"] ELSE done
  /\ UNCHANGED <<catalogue, policies, blockFiles, index, incarnation, putBoot, working, agent, deleted,
                 changes, troubles>>

\* put(), import_ciphertext(): the staged file is complete and takes the block's name.  The
\* source of a copy asks for its own authorization and reads its file (GetReplica).
WriteFile(n, b) ==
  LET w == working[n][b]  s == copies[w.copy].source IN
  /\ w.step = "reserved" /\ b \notin blockFiles[n]
  /\ w.kind = "copy" => CopyAuthorized(w.copy) /\ b \in index[s] /\ b \in blockFiles[s]
  /\ blockFiles' = [blockFiles EXCEPT ![n] = @ \cup {b}]
  /\ Step(n, b, "written")
  /\ UNCHANGED <<catalogue, policies, index, incarnation, putBoot, done, agent, granted, deleted,
                 changes, troubles>>

\* The inventory's transaction, for a put with its ledger; then the reservation and the pin
\* are released and the status of a copy is recorded.
IndexFile(n, b) ==
  LET w == working[n][b] IN
  /\ w.step = "written"
  /\ index' = [index EXCEPT ![n] = @ \cup {b}]
  /\ putBoot' = IF w.kind = "put" THEN [putBoot EXCEPT ![b] = incarnation[n]] ELSE putBoot
  /\ done' = IF w.kind = "copy" THEN [done EXCEPT ![w.copy] = "FINISHED"] ELSE done
  /\ working' = [working EXCEPT ![n][b] = NoWork]
  /\ UNCHANGED <<catalogue, policies, blockFiles, incarnation, agent, granted, deleted, changes, troubles>>

\* A store fails and releases what it holds: before the rename (a broken stream, a file in
\* the way, no authorization at the source), or after it, when the file stays.
FailJob(n, b) ==
  LET w == working[n][b] IN
  /\ w.step \in {"reserved", "written"}
  /\ w.step = "written" => troubles < MaxTroubles
  /\ troubles' = IF w.step = "written" THEN troubles + 1 ELSE troubles
  /\ working' = [working EXCEPT ![n][b] = NoWork]
  /\ done' = IF w.kind = "copy" THEN [done EXCEPT ![w.copy] = "FAILED"] ELSE done
  /\ UNCHANGED <<catalogue, policies, blockFiles, index, incarnation, putBoot, agent, granted, deleted, changes>>

\* The record of the deleted file, and the task's status.
Forget(n, b) ==
  /\ working[n][b].step = "unlinked"
  /\ index' = [index EXCEPT ![n] = @ \ {b}]
  /\ deleted' = deleted \cup {<<b, n>>}
  /\ working' = [working EXCEPT ![n][b] = NoWork]
  /\ UNCHANGED <<catalogue, policies, blockFiles, incarnation, putBoot, done, agent, granted, changes, troubles>>

\* The process dies and starts again: staged files go, and recover_unindexed_objects puts
\* every file in the inventory before anything is served.
RebootNode(n) ==
  /\ troubles < MaxTroubles
  /\ troubles' = troubles + 1
  /\ incarnation' = [incarnation EXCEPT ![n] = @ + 1]
  /\ index' = [index EXCEPT ![n] = @ \cup blockFiles[n]]
  /\ working' = [working EXCEPT ![n] = [b \in Blocks |-> NoWork]]
  /\ granted' = {r \in granted : r.node # n}
  /\ agent' = [agent EXCEPT ![n] = [phase |-> "new", inventory |-> {}]]
  /\ UNCHANGED <<catalogue, policies, blockFiles, putBoot, done, deleted, changes>>

-----------------------------------------------------------------------------
(* Registration, reports and heartbeats.  node_peer() checks the policy of   *)
(* the caller in a transaction of its own, before that of the handler.       *)

Goes(n, phase, inventory) == agent' = [agent EXCEPT ![n] = [phase |-> phase, inventory |-> inventory]]

\* RegisterNode: a new record; a new boot ends the uploads placed on the last one.
RegisterNode(n) ==
  /\ agent[n].phase = "new" /\ enabled[n]
  /\ listed' = [listed EXCEPT ![n] = [boot |-> incarnation[n], reconciled |-> FALSE,
                                      disabled |-> FALSE, seen |-> "fresh"]]
  /\ upload' = [b \in Blocks |->
       IF /\ incarnation[n] # listed[n].boot /\ assigned[b].node = n
          /\ upload[b] \in {"preparing", "sealed", "late"}
       THEN "ended" ELSE upload[b]]
  /\ Goes(n, "registered", {})
  /\ UNCHANGED <<assigned, recorded, located, enabled, copies, deletion, volumes, granted, deleted, changes, troubles>>

\* register_inventory(): the files that verify; BlockReport passes node_peer() with them.
ReadInventory(n) ==
  /\ agent[n].phase = "registered" /\ enabled[n]
  /\ Goes(n, "read", index[n] \cap blockFiles[n])
  /\ UNCHANGED <<catalogue, policies, volumes, granted, deleted, changes, troubles>>

\* BlockReport: known copies are confirmed, unknown ones retired, and those the node does
\* not have forgotten.
BlockReport(n) ==
  LET inventory == agent[n].inventory IN
  /\ agent[n].phase = "read" /\ listed[n].boot = incarnation[n]
  /\ located' = [b \in Blocks |-> [located[b] EXCEPT ![n] =
       IF @ = 0 THEN 0 ELSE IF b \in inventory THEN listed[n].boot
       ELSE IF @ = listed[n].boot THEN @ ELSE 0]]
  /\ deletion' = Retired(deletion, {<<b, n>> : b \in {x \in inventory : located[x][n] = 0}})
  /\ listed' = [listed EXCEPT ![n].reconciled = TRUE, ![n].seen = "fresh"]
  /\ Goes(n, "ready", {})
  /\ UNCHANGED <<upload, assigned, recorded, enabled, copies, volumes, granted, deleted, changes, troubles>>

\* Heartbeat: of a node the control knows to be reconciled in this boot.
Known(n) == listed[n].reconciled /\ listed[n].boot = incarnation[n]

\* Heartbeat passes node_peer().  One that finds its node fresh changes nothing, and is left out.
BeginHeartbeat(n) ==
  /\ agent[n].phase = "ready" /\ enabled[n] /\ ~(Known(n) /\ listed[n].seen = "fresh")
  /\ Goes(n, "beat", {})
  /\ UNCHANGED <<catalogue, policies, volumes, granted, deleted, changes, troubles>>

\* Heartbeat: the node is seen; one that is not known registers again.
Heartbeat(n) ==
  /\ agent[n].phase = "beat"
  /\ listed' = IF Known(n) THEN [listed EXCEPT ![n].seen = "fresh"] ELSE listed
  /\ Goes(n, IF Known(n) THEN "ready" ELSE "new", {})
  /\ UNCHANGED <<catalogue, enabled, copies, deletion, volumes, granted, deleted, changes, troubles>>

\* No heartbeat for suspect_ms, then for unavailable_ms.
Silence(n) ==
  /\ listed[n].seen # "gone" /\ troubles < MaxTroubles
  /\ listed' = [listed EXCEPT ![n].seen = IF @ = "fresh" THEN "late" ELSE "gone"]
  /\ troubles' = troubles + 1
  /\ UNCHANGED <<catalogue, enabled, copies, deletion, volumes, agent, granted, deleted, changes>>

\* A task's five minutes are over.
CopyLate(k) ==
  /\ Unexpired(k) /\ troubles < MaxTroubles
  /\ copies' = [copies EXCEPT ![k].live = FALSE]
  /\ troubles' = troubles + 1
  /\ UNCHANGED <<catalogue, enabled, listed, deletion, volumes, agent, granted, deleted, changes>>

\* The control starts again: it aborts what was being prepared and knows no node to be there.
ControlRestarts ==
  /\ troubles < MaxTroubles
  /\ troubles' = troubles + 1
  /\ upload' = [b \in Blocks |-> IF upload[b] \in {"preparing", "sealed", "late"} THEN "ended" ELSE upload[b]]
  /\ listed' = [n \in DataNodes |-> [listed[n] EXCEPT !.seen = "gone", !.reconciled = FALSE]]
  /\ UNCHANGED <<assigned, recorded, located, enabled, copies, deletion, volumes, agent, granted, deleted, changes>>

ClusterNext ==
  \/ \E b \in Blocks : \/ Place(b) \/ AuthorizePut(b) \/ ReportDurable(b) \/ Seal(b) \/ CommitPlaced(b)
                       \/ AbortOrRemove(b) \/ UploadLate(b)
  \/ CollectBlocks \/ CollectCopies \/ ControlRestarts
  \/ \E k \in Copies : FailExpired(k) \/ DispatchCopy(k) \/ ReportCopy(k) \/ CopyLate(k)
  \/ \E b \in Blocks, s, d \in DataNodes : CopyBlock(b, s, d)
  \/ \E r \in granted : StartPut(r) \/ StartCopy(r) \/ StartDelete(r) \/ RefuseJob(r)
  \/ \E n \in DataNodes : \/ SetNodeAuthorization(n) \/ RebootNode(n) \/ RegisterNode(n) \/ ReadInventory(n)
                          \/ BlockReport(n) \/ BeginHeartbeat(n) \/ Heartbeat(n) \/ Silence(n)
  \/ \E n \in DataNodes, b \in Blocks :
       \/ DispatchDelete(b, n) \/ ReportDelete(b, n) \/ WriteFile(n, b) \/ IndexFile(n, b)
       \/ FailJob(n, b) \/ Forget(n, b)

ClusterSpec == ClusterInit /\ [][ClusterNext]_clusterVars

-----------------------------------------------------------------------------

\* A disabled node is out: the control neither reads from it nor writes to it and no copy
\* from or to it is under way (SetNodeAuthorization, RegisterNode, BlockReport, Heartbeat),
\* though its handlers may have checked the policy before it changed.
DisabledOut ==
  \A n \in DataNodes : ~enabled[n] =>
    /\ ~Serves(n)
    /\ \A k \in Copies : n \in {copies[k].source, copies[k].dest} => ~Under(k)

\* Committed content is in the file and in the inventory of the node it was placed on, and
\* the control knows, whatever reports, retirements and deletions were under way
\* (BlockReport, retire_copy, retired_at_node, AuthorizeInternal).
PlacedContentKept ==
  \A b \in Blocks : upload[b] = "committed" =>
    LET n == assigned[b].node IN located[b][n] # 0 /\ b \in blockFiles[n] /\ b \in index[n]

\* A node can be put out of service at any moment, and the content that was committed to it
\* is still known to be there (SetNodeAuthorization, BlockReport, retire_copy); the state is well typed.
PlacementSound == ClusterTypeOK /\ DisabledOut /\ PlacedContentKept
=============================================================================
