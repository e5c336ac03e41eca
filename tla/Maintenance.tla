---------------------------- MODULE Maintenance ----------------------------
(***************************************************************************)
(* The maintenance leader of the three controls.                            *)
(*                                                                          *)
(* A control is elected by creating a key in etcd under a lease; the key's  *)
(* value is new in every election.  It then publishes a generation in the   *)
(* metadata, and the tasks it orders carry both.  The key ends with its     *)
(* lease, whether or not the control that created it knows.                 *)
(*                                                                          *)
(* A transaction is one step: what it reads is what it commits on, and the  *)
(* guards it collected (the leader key among them) are compared in the same *)
(* etcd transaction; MetadataGate is about that.                            *)
(***************************************************************************)
EXTENDS Integers, FiniteSets

CONSTANTS
  Controls,   \* control processes
  Tasks,      \* identifiers of copy and delete tasks
  MaxFaults   \* leases lost by a live owner, crashes, and answers of etcd lost

ASSUME FaultsAssumption == IsFiniteSet(Controls) /\ MaxFaults \in Nat

\* Values that can be named at one time: those asked for, held or published.
Values == 1..(2 * Cardinality(Controls) + 2 * MaxFaults + 1)
Generations == 0..(MaxFaults + 1)

VARIABLES
  leaderKey,  \* value of the key `maintenance-owner', 0 when there is none
  asked,      \* values whose creation etcd may still apply
  record,     \* settings `maintenance': the last generation and its owner
  control,    \* each control: the step it is at, the values it asked for and holds
  task,       \* tasks: state, generation and owner
  published,  \* history: the generations published, with their owners
  faults

leaderVars == <<leaderKey, asked, record, control, task, published, faults>>

Rest == [phase |-> "idle", asking |-> 0, value |-> 0]

LeaderTypeOK ==
  /\ leaderKey \in Values \cup {0} /\ asked \subseteq Values
  /\ record \in [generation : Generations, owner : Values \cup {0}]
  /\ control \in [Controls -> [phase : {"idle", "elect", "install", "publish", "collect", "work"},
                               asking : Values \cup {0}, value : Values \cup {0}]]
  /\ task \in [Tasks -> [state : {"none", "ACTIVE", "FAILED", "FINISHED"},
                         generation : Generations, owner : Values \cup {0}]]
  /\ published \subseteq (Generations \X Values)
  /\ faults \in 0..MaxFaults

LeaderInit ==
  /\ leaderKey = 0 /\ asked = {}
  /\ record = [generation |-> 0, owner |-> 0]
  /\ control = [k \in Controls |-> Rest]
  /\ task = [t \in Tasks |-> [state |-> "none", generation |-> 0, owner |-> 0]]
  /\ published = {} /\ faults = 0

\* Rest, but the control still knows the value it holds.
Idle(k) == [Rest EXCEPT !.value = control[k].value]
At(k, phase) == [control EXCEPT ![k].phase = phase]

\* lease_live() of the published record: the key exists and is its owner's.
LeaderLive == record.owner # 0 /\ leaderKey = record.owner

\* The value made for an election, a UUID: the first that nothing names any more.
Named(v) ==
  \/ v \in asked \cup {leaderKey, record.owner}
  \/ \E k \in Controls : v \in {control[k].asking, control[k].value}
  \/ \E p \in published : v = p[2]
FreshValue(v) == ~Named(v) /\ \A u \in 1..(v - 1) : Named(u)

-----------------------------------------------------------------------------
(* take_maintenance.                                                        *)

\* The key was created by this control, in this process.
Mine(k) == leaderKey # 0 /\ leaderKey = control[k].value

\* The key is read: it is mine, it is another's, or there is none and I ask for it.
Look(k) ==
  /\ control[k].phase = "idle"
  /\ \/ /\ Mine(k)
        /\ control' = At(k, "install")
        /\ UNCHANGED asked
     \/ /\ leaderKey = 0
        /\ \E v \in Values :
             /\ FreshValue(v) /\ asked' = asked \cup {v}
             /\ control' = [control EXCEPT ![k] = [@ EXCEPT !.phase = "elect", !.asking = v]]
  /\ UNCHANGED <<leaderKey, record, task, published, faults>>

\* etcd creates the key if there is none, and the control hears of it.
Elect(k) ==
  /\ control[k].phase = "elect"
  /\ asked' = asked \ {control[k].asking}
  /\ \/ /\ leaderKey = 0 /\ control[k].asking \in asked
        /\ leaderKey' = control[k].asking
        /\ control' = [control EXCEPT ![k] = [phase |-> "install", asking |-> 0, value |-> control[k].asking]]
     \/ /\ leaderKey # 0
        /\ control' = [control EXCEPT ![k] = Idle(k)]
        /\ UNCHANGED leaderKey
  /\ UNCHANGED <<record, task, published, faults>>

\* The control does not hear: the key may have been created, or be created later.
ElectTimeout(k) ==
  /\ control[k].phase = "elect" /\ faults < MaxFaults
  /\ faults' = faults + 1
  /\ control' = [control EXCEPT ![k] = Idle(k)]
  /\ UNCHANGED <<leaderKey, asked, record, task, published>>

\* A creation whose answer nobody waits for any more.
ElectLate(v) ==
  /\ v \in asked /\ leaderKey = 0
  /\ \A k \in Controls : control[k].asking # v
  /\ leaderKey' = v /\ asked' = asked \ {v}
  /\ UNCHANGED <<record, control, task, published, faults>>

\* install_maintenance_generation, its read transaction.
InstallRead(k) ==
  /\ control[k].phase = "install"
  /\ control' = At(k, IF record.owner = control[k].value THEN "collect" ELSE "publish")
  /\ UNCHANGED <<leaderKey, asked, record, task, published, faults>>

\* required_guards: every transaction of the leader's tick compares the key.
Holds(k) == leaderKey = control[k].value

NextGeneration == record.generation + 1

\* Its write transaction; `heard' is whether the control learns that it was committed.
InstallPublish(k, heard) ==
  /\ control[k].phase = "publish" /\ Holds(k)
  /\ heard \/ faults < MaxFaults
  /\ faults' = IF heard THEN faults ELSE faults + 1
  /\ control' = IF heard THEN At(k, "collect") ELSE [control EXCEPT ![k] = Idle(k)]
  /\ IF record.owner = control[k].value THEN UNCHANGED <<record, published>>
     ELSE /\ record' = [generation |-> NextGeneration, owner |-> control[k].value]
          /\ published' = published \cup {<<NextGeneration, control[k].value>>}
  /\ UNCHANGED <<leaderKey, asked, task>>

\* A transaction of the tick fails because the key is gone, and the tick ends ...
TickFails(k) ==
  /\ control[k].phase \in {"publish", "collect", "work"} /\ ~Holds(k)
  /\ control' = [control EXCEPT ![k] = Idle(k)]
  /\ UNCHANGED <<leaderKey, asked, record, task, published, faults>>

\* ... or because etcd does not answer.
TickUnavailable(k) ==
  /\ control[k].phase \in {"install", "publish", "collect", "work"} /\ faults < MaxFaults
  /\ control' = [control EXCEPT ![k] = Idle(k)] /\ faults' = faults + 1
  /\ UNCHANGED <<leaderKey, asked, record, task, published>>

-----------------------------------------------------------------------------
(* The tick of the leader.                                                  *)

\* These tasks fail.
Failed(S) == [t \in Tasks |-> IF t \in S THEN [task[t] EXCEPT !.state = "FAILED"] ELSE task[t]]

ActiveTasks == {t \in Tasks : task[t].state = "ACTIVE"}

\* collect(): active tasks of another generation.
Outdated(t) == t \in ActiveTasks /\ task[t].generation # record.generation

CollectTasks(k) ==
  /\ control[k].phase = "collect" /\ Holds(k) /\ LeaderLive
  /\ task' = Failed({t \in Tasks : Outdated(t)})
  /\ control' = At(k, "work")
  /\ UNCHANGED <<leaderKey, asked, record, published, faults>>

\* collect() of the class above: copies that expired, are of no use any more, or whose
\* DataNode has gone; each of them may.
CollectCopies(k, S) ==
  /\ control[k].phase = "work" /\ Holds(k)
  /\ S # {} /\ S \subseteq ActiveTasks
  /\ task' = Failed(S)
  /\ UNCHANGED <<leaderKey, asked, record, control, published, faults>>

\* SetNodeAuthorization, served by any control, whether or not it leads: the tasks from or
\* to a DataNode that an administrator disables fail, whoever ordered them.
DisableNode(S) ==
  /\ S # {} /\ S \subseteq ActiveTasks
  /\ task' = Failed(S)
  /\ UNCHANGED <<leaderKey, asked, record, control, published, faults>>

\* new_task: in the leader's tick (reconcile, the retirement of copies) and, on any control,
\* in BeginWrite for a base block that has to be copied first, in BlockReport for a copy to
\* be retired, and in CopyBlock.
NewTask(t, byTick) ==
  /\ task[t].state = "none"
  /\ LeaderLive
  /\ byTick => \E k \in Controls : control[k].phase = "work" /\ Holds(k)
  /\ task' = [task EXCEPT ![t] = [state |-> "ACTIVE", generation |-> record.generation,
                                                     owner |-> record.owner]]
  /\ UNCHANGED <<leaderKey, asked, record, control, published, faults>>

EndTick(k) ==
  /\ control[k].phase = "work"
  /\ control' = [control EXCEPT ![k] = Idle(k)]
  /\ UNCHANGED <<leaderKey, asked, record, task, published, faults>>

\* Mutant: the task's generation is compared, and not that its leader still leads.
TaskOwnedByNumber(t) == task[t].generation = record.generation

\* check_task_owner.
TaskOwned(t) == LeaderLive /\ task[t].generation = record.generation /\ task[t].owner = record.owner

\* ReportTask: a DataNode's result is recorded by any control.
ReportTask(t, state) ==
  /\ t \in ActiveTasks /\ TaskOwned(t)
  /\ task' = [task EXCEPT ![t].state = state]
  /\ UNCHANGED <<leaderKey, asked, record, control, published, faults>>

-----------------------------------------------------------------------------
(* Leases and crashes.                                                      *)

\* The lease of a key that no control renews runs out.
LeaseEnds ==
  /\ leaderKey # 0 /\ \A k \in Controls : control[k].value # leaderKey
  /\ leaderKey' = 0
  /\ UNCHANGED <<asked, record, control, task, published, faults>>

\* renew_maintenance does not reach etcd in time.
LeaseLost ==
  /\ leaderKey # 0 /\ faults < MaxFaults
  /\ \E k \in Controls : control[k].value = leaderKey
  /\ leaderKey' = 0 /\ faults' = faults + 1
  /\ UNCHANGED <<asked, record, control, task, published>>

ControlRestarts(k) ==
  /\ faults < MaxFaults /\ control[k] # Rest
  /\ control' = [control EXCEPT ![k] = Rest] /\ faults' = faults + 1
  /\ UNCHANGED <<leaderKey, asked, record, task, published>>

\* What a control does by itself, one tick after the other.
ControlStep(k) ==
  \/ Look(k) \/ Elect(k) \/ InstallRead(k) \/ InstallPublish(k, TRUE)
  \/ TickFails(k) \/ CollectTasks(k) \/ EndTick(k)

LeaderNext ==
  \/ \E k \in Controls : \/ ControlStep(k) \/ ControlRestarts(k)
                         \/ ElectTimeout(k) \/ InstallPublish(k, FALSE) \/ TickUnavailable(k)
  \/ \E v \in Values : ElectLate(v)
  \/ \E t \in Tasks : \/ \E byTick \in BOOLEAN : NewTask(t, byTick)
                      \/ \E state \in {"FAILED", "FINISHED"} : ReportTask(t, state)
  \/ \E S \in SUBSET Tasks : DisableNode(S) \/ \E k \in Controls : CollectCopies(k, S)
  \/ LeaseEnds \/ LeaseLost

\* The loop of server.py calls tick every second, and an unrenewed lease ends.
LeaderFairness == (\A k \in Controls : WF_leaderVars(ControlStep(k))) /\ WF_leaderVars(LeaseEnds)

LeaderSpec == LeaderInit /\ [][LeaderNext]_leaderVars

-----------------------------------------------------------------------------
(* Properties.                                                              *)

\* A generation has one owner and an owner one generation, whatever was lost between the
\* election and the publication: tasks of two leaders are never taken for one another's
\* (take_maintenance, install_maintenance_generation).
GenerationsOwned ==
  \A p, q \in published : p[1] = q[1] <=> p[2] = q[2]

\* A task is made, and a result recorded, only for the leader whose key exists at that
\* moment: of what a deposed leader ordered, an active task may still fail (in the tick of a
\* leader, or because an administrator disables a DataNode, on any control) and nothing else
\* changes; none is finished, reopened or handed to another leader (check_task_owner,
\* collect, new_task, SetNodeAuthorization).
DeposedLeaderPowerless ==
  [][\A t \in Tasks : task'[t] # task[t] =>
       \/ task'[t].owner = leaderKey /\ leaderKey # 0
       \/ task[t].state = "ACTIVE" /\ task'[t] = [task[t] EXCEPT !.state = "FAILED"]]_leaderVars

\* Two leaders are never taken for one another, and of what a deposed one ordered nothing
\* is finished, though it goes on for a while (HAControl).
LeadersApart == []GenerationsOwned /\ DeposedLeaderPowerless

\* A task of a leader that was deposed does not stay active.
StaleTasksEnd == \A t \in Tasks : []<>~(task[t].state = "ACTIVE" /\ task[t].owner # leaderKey)
=============================================================================
