----------------------------- MODULE Laboratory -----------------------------
(***************************************************************************)
(* The supervisor of a laboratory: it prepares a directory, starts the etcd *)
(* members, activates the metadata, starts the controls and the DataNodes,  *)
(* says that all is ready, and on a stop file or at the first failure stops *)
(* what it started, last first.  It may be killed and run again with        *)
(* --resume, while processes of the one before it, its orphans, still run.  *)
(*                                                                          *)
(* Units are numbered in the order they are started: members, controls,     *)
(* DataNodes.  A DataNode or control stops when asked only if its requests  *)
(* end: its SIGTERM handler asks the same again.                            *)
(***************************************************************************)
EXTENDS Integers, FiniteSets

CONSTANTS
  EtcdCount, ControlCount, NodeCount,  \* 3, 3 and 3 in the code
  MaxRuns,      \* supervisors ever run
  MaxTroubles   \* deaths, failures and processes that do not stop, together

ASSUME LaboratoryAssumption ==
  /\ EtcdCount \in Nat \ {0} /\ ControlCount \in Nat /\ NodeCount \in Nat
  /\ MaxRuns \in Nat /\ MaxTroubles \in Nat

LastUnit == EtcdCount + ControlCount + NodeCount
Units == 1..LastUnit
Members == 1..EtcdCount
DataNodes == (EtcdCount + ControlCount + 1)..LastUnit
Servers == Units \ Members
NoRun == 0

VARIABLES
  runPhase,   \* of the supervisor; what it does next
  runs,       \* supervisors so far
  reached,    \* units it has launched; in a loop that stops them, how many are still to come
  found,      \* history: the units that ran when it entered
  unit,       \* what each unit's process does
  ownedBy,    \* the supervisor that started it
  labDir,     \* the directory: nothing in it, some of it, prepared
  labEtcd,    \* times the users and permissions of etcd were configured
  labMoved,   \* times the metadata went from SQLite to etcd
  labRecord,  \* ha-lab.json
  labReady,   \* ready-ha.json: the supervisor that wrote it
  labStop,    \* stop-ha
  troubles

laboratoryVars == <<runPhase, runs, reached, found, unit, ownedBy, labDir, labEtcd, labMoved, labRecord,
                    labReady, labStop, troubles>>
labFiles == <<labDir, labEtcd, labMoved, labRecord>>

RunPhases == {"none", "prepare", "enter", "members", "activate", "servers", "save", "up", "backup", "protected",
              "leaving", "stuck"}
Alive == {"starting", "ready"}

LaboratoryTypeOK ==
  /\ runPhase \in RunPhases /\ runs \in 0..MaxRuns /\ reached \in 0..LastUnit /\ found \subseteq Units
  /\ unit \in [Units -> Alive \cup {"off"}] /\ ownedBy \in [Units -> 0..MaxRuns]
  /\ labDir \in {"empty", "partial", "prepared"} /\ labEtcd \in Nat /\ labMoved \in Nat
  /\ labRecord \in BOOLEAN /\ labReady \in 0..MaxRuns /\ labStop \in BOOLEAN
  /\ troubles \in 0..MaxTroubles

LaboratoryInit ==
  /\ runPhase = "none" /\ runs = 0 /\ reached = 0 /\ found = {}
  /\ unit = [u \in Units |-> "off"] /\ ownedBy = [u \in Units |-> NoRun]
  /\ labDir = "empty" /\ labEtcd = 0 /\ labMoved = 0 /\ labRecord = FALSE
  /\ labReady = NoRun /\ labStop = FALSE /\ troubles = 0

Running == {u \in Units : unit[u] \in Alive}
Own == {u \in Running : ownedBy[u] = runs}       \* the Process objects of this supervisor
Trouble == troubles < MaxTroubles /\ troubles' = troubles + 1

labProcesses == <<reached, found, unit, ownedBy>>

SupervisorGone == runPhase' = "none" /\ reached' = 0 /\ found' = {}

\* __exit__ begins: a loop over all units, the ones that were never launched too.
Leaving == runPhase' = "leaving" /\ reached' = LastUnit

-----------------------------------------------------------------------------
(* Beginning.                                                               *)

\* A new laboratory, in an empty directory: identities, keys, SQLite and the configurations.
NewRun ==
  /\ runPhase = "none" /\ runs < MaxRuns /\ labDir = "empty"
  /\ runs' = runs + 1 /\ labDir' = "partial" /\ runPhase' = "prepare"
  /\ UNCHANGED <<labProcesses, labEtcd, labMoved, labRecord, labReady, labStop, troubles>>

\* The members get their addresses and arguments; without the program of etcd there is an end.
PrepareMembers(whole) ==
  /\ runPhase = "prepare"
  /\ IF whole THEN labDir' = "prepared" /\ runPhase' = "enter"
     ELSE runPhase' = "none" /\ UNCHANGED labDir
  /\ UNCHANGED <<runs, labProcesses, labEtcd, labMoved, labRecord, labReady, labStop, troubles>>

\* --resume: one with a record is taken up again, with the addresses it had.
ResumeRun ==
  /\ runPhase = "none" /\ runs < MaxRuns /\ labRecord
  /\ runs' = runs + 1 /\ runPhase' = "enter"
  /\ UNCHANGED <<labProcesses, labFiles, labReady, labStop, troubles>>

\* main, before the laboratory is entered: the stop and ready files of an earlier supervisor go.
EnterRun ==
  /\ runPhase = "enter"
  /\ runPhase' = "members" /\ labReady' = NoRun /\ labStop' = FALSE
  /\ reached' = 0 /\ found' = Running
  /\ UNCHANGED <<runs, unit, ownedBy, labFiles, troubles>>

\* The next unit is launched.  The port and the volume of an orphan are taken: the new
\* process ends at once, and the orphan runs on, nobody's.
LaunchNext ==
  LET u == reached + 1
  IN /\ reached' = u
     /\ IF u \in Running THEN UNCHANGED <<unit, ownedBy>>
        ELSE unit' = [unit EXCEPT ![u] = "starting"] /\ ownedBy' = [ownedBy EXCEPT ![u] = runs]

\* EtcdCluster.__enter__: all members are started ...
StartMember ==
  /\ runPhase = "members" /\ reached < EtcdCount
  /\ LaunchNext
  /\ UNCHANGED <<runPhase, runs, found, labFiles, labReady, labStop, troubles>>

UnitReady(u) ==
  /\ unit[u] = "starting"
  /\ unit' = [unit EXCEPT ![u] = "ready"]
  /\ UNCHANGED <<runPhase, runs, reached, found, ownedBy, labFiles, labReady, labStop, troubles>>

MembersAnswer == \A u \in Members : unit[u] = "ready"

\* ... then each is asked for its status: if all answer the supervisor goes on, whoever
\* started them.  Their users are configured unless this was done for the laboratory before.
MembersReady ==
  /\ runPhase = "members" /\ reached = EtcdCount /\ MembersAnswer
  /\ labEtcd' = IF labRecord THEN labEtcd ELSE labEtcd + 1
  /\ runPhase' = "activate"
  /\ UNCHANGED <<runs, labProcesses, labDir, labMoved, labRecord, labReady, labStop, troubles>>

\* Only when one does not answer are the processes looked at: if one has ended, so does
\* the supervisor.
MemberEnded ==
  /\ runPhase = "members" /\ reached = EtcdCount /\ ~MembersAnswer /\ ~(Members \subseteq Own)
  /\ Leaving
  /\ UNCHANGED <<runs, found, unit, ownedBy, labFiles, labReady, labStop, troubles>>

\* activate() of a new laboratory: the metadata move and the configurations are made.
ActivateNew ==
  /\ runPhase = "activate" /\ ~labRecord
  /\ labMoved' = labMoved + 1 /\ runPhase' = "servers"
  /\ UNCHANGED <<runs, labProcesses, labDir, labEtcd, labRecord, labReady, labStop, troubles>>

\* activate() of one that is resumed: only the proxies and their addresses are new.
ActivateAgain ==
  /\ runPhase = "activate" /\ labRecord
  /\ runPhase' = "servers"
  /\ UNCHANGED <<runs, labProcesses, labFiles, labReady, labStop, troubles>>

\* Controls and DataNodes one after the other, each when the ready file of the one before is
\* there.  The file of an orphan that had written it is removed before the launch.
StartServer ==
  /\ runPhase = "servers" /\ reached < LastUnit
  /\ reached > EtcdCount => unit[reached] = "ready"
  /\ unit[reached + 1] # "ready"
  /\ LaunchNext
  /\ UNCHANGED <<runPhase, runs, found, labFiles, labReady, labStop, troubles>>

\* Process.start: the launched process has ended and its ready file is not there.  An orphan
\* that is starting may yet write it, and be taken for the launched one.
ServerEnded ==
  /\ runPhase = "servers"
  /\ \/ reached > EtcdCount /\ reached \notin Own
     \/ /\ reached < LastUnit /\ unit[reached + 1] = "ready"
        /\ reached > EtcdCount => unit[reached] = "ready"
  /\ Leaving
  /\ UNCHANGED <<runs, found, unit, ownedBy, labFiles, labReady, labStop, troubles>>

\* wait_ready(): a control is logged in to, and its registry shows the nodes.
ServersReady ==
  /\ runPhase = "servers" /\ reached = LastUnit
  /\ \A u \in DataNodes : unit[u] = "ready"
  /\ \E u \in Servers \ DataNodes : unit[u] = "ready"
  /\ runPhase' = "save"
  /\ UNCHANGED <<runs, labProcesses, labFiles, labReady, labStop, troubles>>

SaveRecord ==
  /\ runPhase = "save"
  /\ labRecord' = TRUE
  /\ runPhase' = "up"
  /\ UNCHANGED <<runs, labProcesses, labDir, labEtcd, labMoved, labReady, labStop, troubles>>

SayReady ==
  /\ runPhase = "up" /\ labReady = NoRun
  /\ labReady' = runs
  /\ UNCHANGED <<runPhase, runs, labProcesses, labFiles, labStop, troubles>>

\* A step of __enter__, of what main does inside, or of a backup fails, takes too long or is
\* interrupted.
RunFails ==
  /\ runPhase \in {"members", "activate", "servers", "save", "up", "backup", "protected"} /\ Trouble
  /\ Leaving
  /\ UNCHANGED <<runs, found, unit, ownedBy, labFiles, labReady, labStop>>

-----------------------------------------------------------------------------
(* Ending.                                                                  *)

TouchStopHa ==
  /\ ~labStop /\ labStop' = TRUE
  /\ UNCHANGED <<runPhase, runs, labProcesses, labFiles, labReady, troubles>>

\* main sees it; a backup, of one of the two profiles, may come first.
SeeStopHa ==
  /\ runPhase = "up" /\ labReady = runs /\ labStop
  /\ reached' = LastUnit /\ runPhase' \in {"backup", "protected", "leaving"}
  /\ UNCHANGED <<runs, found, unit, ownedBy, labFiles, labReady, labStop, troubles>>

\* Mutant: in the order they were started.
ExitTurnForward == LastUnit + 1 - reached
\* __exit__ of the laboratory and of its members: the last unit is the first to be stopped.
ExitTurn == reached

\* backup_lab stops the controls and then the DataNodes, backup_protected_lab the other way
\* round; the members stay for the snapshot of etcd.
BackupTurn ==
  IF runPhase = "protected" THEN reached
  ELSE IF reached > EtcdCount + NodeCount THEN reached - NodeCount ELSE reached + ControlCount

\* stop() waits until the process ends; for one that has ended, as beside an orphan, and for
\* a unit never launched it does nothing.
Stop(u) ==
  /\ unit' = IF u \in Own THEN [unit EXCEPT ![u] = "off"] ELSE unit
  /\ reached' = reached - 1
  /\ UNCHANGED <<runPhase, runs, found, ownedBy, labFiles, labReady, labStop, troubles>>

StopNext == runPhase = "leaving" /\ reached > 0 /\ Stop(ExitTurn)
StopUnit == runPhase \in {"backup", "protected"} /\ reached > EtcdCount /\ Stop(BackupTurn)

BackupDone ==
  /\ runPhase \in {"backup", "protected"} /\ reached = EtcdCount
  /\ Leaving
  /\ UNCHANGED <<runs, found, unit, ownedBy, labFiles, labReady, labStop, troubles>>

\* stop() gives up a process that does not end; the error ends the supervisor.
StopTimesOut ==
  /\ runPhase = "leaving" /\ reached > 0 /\ ExitTurn \in Own /\ Trouble
  /\ runPhase' = "stuck"
  /\ UNCHANGED <<runs, labProcesses, labFiles, labReady, labStop>>

\* The end of main: the ready file goes.
Leave ==
  /\ \/ runPhase = "leaving" /\ reached = 0
     \/ runPhase = "stuck"
  /\ SupervisorGone /\ labReady' = NoRun
  /\ UNCHANGED <<runs, unit, ownedBy, labFiles, labStop, troubles>>

\* The supervisor is killed: its processes go on.
SupervisorDies ==
  /\ runPhase # "none" /\ Trouble
  /\ SupervisorGone
  /\ UNCHANGED <<runs, unit, ownedBy, labFiles, labReady, labStop>>

\* A process ends by itself, or the operator ends one nobody looks after.
UnitDies(u) ==
  /\ u \in Running
  /\ IF runPhase = "none" THEN UNCHANGED troubles ELSE Trouble
  /\ unit' = [unit EXCEPT ![u] = "off"]
  /\ UNCHANGED <<runPhase, runs, reached, found, ownedBy, labFiles, labReady, labStop>>

LaboratoryNext ==
  \/ NewRun \/ \E whole \in BOOLEAN : PrepareMembers(whole)
  \/ ResumeRun \/ EnterRun
  \/ StartMember \/ MembersReady \/ MemberEnded \/ ActivateNew \/ ActivateAgain
  \/ StartServer \/ ServerEnded \/ ServersReady \/ SaveRecord \/ SayReady \/ RunFails
  \/ TouchStopHa \/ SeeStopHa \/ StopUnit \/ BackupDone \/ StopNext \/ StopTimesOut
  \/ Leave \/ SupervisorDies
  \/ \E u \in Units : UnitReady(u) \/ UnitDies(u)

LaboratorySpec == LaboratoryInit /\ [][LaboratoryNext]_laboratoryVars

-----------------------------------------------------------------------------
(* Property.                                                                *)

\* The supervisor stops an etcd member only when none of its controls and DataNodes runs,
\* wherever its start or its backup failed, and if all of them stop it leaves nothing running
\* but what ran when it began: the orphans of a supervisor that was killed, with which a
\* resumed laboratory may come up and work, stay.  The metadata are moved into etcd once in
\* the life of a laboratory, and one that was ready once can be taken up again (__enter__,
\* __exit__, stop, activate, backup_lab, backup_protected_lab, save, main).
LabKept ==
  /\ [](labMoved <= 1 /\ labEtcd <= 1 /\ (labReady # NoRun => labRecord))
  /\ [][troubles' = troubles /\ runPhase # "none" =>
          /\ Members \cap Own \subseteq Own' \/ Own \cap Servers = {}
          /\ runPhase = "leaving" /\ runPhase' = "none" => Running' \subseteq found]_laboratoryVars
=============================================================================
