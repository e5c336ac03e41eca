----------------------------- MODULE NodeProofs -----------------------------
(***************************************************************************)
(* Proofs about the parts of a DataNode: the processes that share its       *)
(* volume (Processes), the keys its blocks are sealed with (Keys), a patch  *)
(* that is asked for again (PatchCall) and the capacity its files share     *)
(* (Volume).  Each part has an inductive invariant, a lemma per group of    *)
(* actions, and the theorem that states the property model checking looked  *)
(* at on a small instance.                                                  *)
(***************************************************************************)
EXTENDS Processes, Keys, PatchCall, Volume, FiniteSetTheorems, TLAPS

-----------------------------------------------------------------------------
(* Processes.                                                               *)

\* Phases in which a process has the volume, and those in which it has recovered it.
Recovered == Serving \cup {"recovered", "draining", "drained"}
Owning == Recovered \cup {"locked", "counted"}

\* A process that has not given the lock back has it.
OwnersLock == \A p \in Procs : phase[p] \in Owning => lockedBy = p

\* What an earlier process left is in order once this one has recovered the volume.
VolumeInOrder == \A p \in Procs : phase[p] \in Recovered => ~leftovers

\* Handlers end before the pools are shut down, copies before the lock is released.
WorkInPhase ==
  /\ \A p \in handler : phase[p] \in Serving \cup {"draining"}
  /\ \A p \in copying : phase[p] \in Serving \cup {"draining", "drained"}

\* A process that has the volume and was counted has the last generation; one that was not
\* counted has none, and no two have the same.
GenerationsTaken ==
  /\ \A p \in Procs : phase[p] \in Recovered \cup {"counted"} => generation[p] = counted
  /\ \A p \in Procs : phase[p] \in {"off", "booting", "locked"} => generation[p] = 0
  /\ \A p \in Procs : generation[p] <= counted
  /\ \A p, q \in Procs : generation[p] = generation[q] /\ p # q => generation[p] = 0
  /\ role = "control" => counted = 0

\* As many generations were counted as processes have one, which bounds the count.
Counted == {p \in Procs : generation[p] # 0}
CountExact == counted = Cardinality(Counted)

ProcessesInv == ProcessesTypeOK /\ OwnersLock /\ VolumeInOrder /\ WorkInPhase /\ GenerationsTaken /\ CountExact

\* The processes there can be are finitely many, and as many as may be started.
LEMMA ProcsFinite == IsFiniteSet(Procs) /\ Cardinality(Procs) = MaxStarts
  BY FS_Interval, ProcessesAssumption DEF Procs

\* At the start nobody has the volume and nothing was counted.
LEMMA ProcessesInitInv == ProcessesInit => ProcessesInv
<1> SUFFICES ASSUME ProcessesInit PROVE ProcessesInv
  OBVIOUS
<1> USE DEF ProcessesInit
<1>1. ProcessesTypeOK
  <2>1. 0 \in 0..MaxStarts /\ 0 \in 0..MaxKills
    BY ProcessesAssumption
  <2> QED BY <2>1 DEF ProcessesTypeOK, ProcPhases, NoProcess
<1>2. OwnersLock /\ VolumeInOrder /\ WorkInPhase
  BY DEF OwnersLock, VolumeInOrder, WorkInPhase, Owning, Recovered, Serving
<1>3. GenerationsTaken
  BY DEF GenerationsTaken
<1>4. CountExact
  <2>1. Counted = {}
    BY DEF Counted
  <2> QED BY <2>1, FS_EmptySet DEF CountExact
<1> QED BY <1>1, <1>2, <1>3, <1>4 DEF ProcessesInv

\* A new boot generation is one that nobody has, and there is one for it: a process is counted
\* once (DataNode.__init__).
LEMMA CountBootInv ==
  ASSUME ProcessesInv, NEW p \in Procs, CountBoot(p)
  PROVE  ProcessesInv'
<1> USE DEF ProcessesInv, CountBoot, Moves
<1>1. CASE role = "control"
  <2>1. counted = 0 /\ counted' = 0 /\ generation[p] = 0 /\ generation' = generation
    BY <1>1 DEF GenerationsTaken, ProcessesTypeOK
  <2>2. ProcessesTypeOK' /\ OwnersLock' /\ VolumeInOrder' /\ WorkInPhase'
    BY <2>1 DEF ProcessesTypeOK, OwnersLock, VolumeInOrder, WorkInPhase, Owning, Recovered, Serving, ProcPhases, controlFiles
  <2>3. GenerationsTaken' /\ CountExact'
    BY <1>1, <2>1 DEF ProcessesTypeOK, GenerationsTaken, CountExact, Counted, Recovered, Serving, ProcPhases
  <2> QED BY <2>2, <2>3
<1>2. CASE role = "node"
  <2>1. counted' = counted + 1 /\ generation' = [generation EXCEPT ![p] = counted + 1] /\ generation[p] = 0
        /\ counted \in Nat /\ MaxStarts \in Nat
    BY <1>2, ProcessesAssumption DEF GenerationsTaken, ProcessesTypeOK
  <2>2. p \notin Counted /\ Counted' = Counted \cup {p} /\ Counted' \in SUBSET Procs /\ Counted \in SUBSET Procs
    BY <2>1 DEF Counted, ProcessesTypeOK
  <2>3. IsFiniteSet(Counted)
    BY <2>2, ProcsFinite, FS_Subset
  <2>4. Cardinality(Counted') = counted + 1
    BY <2>2, <2>3, FS_AddElement DEF CountExact
  <2>5. Cardinality(Counted') <= MaxStarts
    BY <2>2, ProcsFinite, FS_Subset
  <2>6. counted + 1 \in 0..MaxStarts
    BY <2>1, <2>4, <2>5
  <2>7. ProcessesTypeOK' /\ CountExact'
    BY <2>1, <2>4, <2>6 DEF ProcessesTypeOK, ProcPhases, controlFiles, CountExact
  <2>8. OwnersLock' /\ VolumeInOrder' /\ WorkInPhase'
    BY DEF ProcessesTypeOK, OwnersLock, VolumeInOrder, WorkInPhase, Owning, Recovered, Serving, ProcPhases
  <2>9. lockedBy = p /\ \A q \in Procs \ {p} : phase[q] \notin Owning
    BY DEF OwnersLock, Owning
  <2>10. GenerationsTaken'
    BY <1>2, <2>1, <2>9 DEF ProcessesTypeOK, GenerationsTaken, Owning, Recovered, Serving, ProcPhases
  <2> QED BY <2>7, <2>8, <2>10
<1> QED BY <1>1, <1>2 DEF ProcessesTypeOK

\* The lock is taken by a process when nobody has the volume.
LEMMA TakeLockInv ==
  ASSUME ProcessesInv, NEW p \in Procs, TakeLock(p)
  PROVE  ProcessesInv'
<1> USE DEF ProcessesInv, TakeLock, Moves
<1>1. ProcessesTypeOK'
  BY DEF ProcessesTypeOK, ProcPhases, controlFiles
<1>2. OwnersLock'
  BY DEF ProcessesTypeOK, OwnersLock, NoProcess, Procs, Owning, Recovered, Serving
<1>3. VolumeInOrder' /\ WorkInPhase'
  BY DEF ProcessesTypeOK, VolumeInOrder, WorkInPhase, Recovered, Serving
<1>4. GenerationsTaken'
  BY DEF ProcessesTypeOK, GenerationsTaken, Recovered, Serving
<1>5. CountExact'
  BY DEF CountExact, Counted
<1> QED BY <1>1, <1>2, <1>3, <1>4, <1>5

\* A process that dies takes its handlers and copies with it, and the lock ends with it.
LEMMA KillInv ==
  ASSUME ProcessesInv, NEW p \in Procs, Kill(p)
  PROVE  ProcessesInv'
<1> USE DEF ProcessesInv, Kill
<1>1. ProcessesTypeOK'
  BY ProcessesAssumption DEF ProcessesTypeOK, ProcPhases, controlFiles
<1>2. OwnersLock'
  BY DEF ProcessesTypeOK, OwnersLock, Owning, Recovered, Serving
<1>3. VolumeInOrder'
  <2> SUFFICES ASSUME NEW q \in Procs, phase'[q] \in Recovered PROVE ~leftovers'
    BY DEF VolumeInOrder
  <2>1. q # p /\ phase[q] \in Recovered
    BY DEF ProcessesTypeOK, Recovered, Serving
  <2>2. lockedBy = q /\ ~leftovers
    BY <2>1 DEF OwnersLock, VolumeInOrder, Owning
  <2>3. p \notin handler \cup copying
    BY <2>1, <2>2 DEF WorkInPhase, OwnersLock, Owning, Recovered
  <2> QED BY <2>2, <2>3
<1>4. WorkInPhase'
  BY DEF ProcessesTypeOK, WorkInPhase
<1>5. GenerationsTaken'
  BY DEF ProcessesTypeOK, GenerationsTaken, Recovered, Serving
<1>6. CountExact'
  BY DEF CountExact, Counted
<1> QED BY <1>1, <1>2, <1>3, <1>4, <1>5, <1>6

\* A step that leaves the count and the generations alone, and moves at most one process,
\* without giving it a lock it has not, keeps the parts about ownership.
LEMMA PhasesKept ==
  ASSUME ProcessesInv, NEW p \in Procs, NEW to \in ProcPhases,
         phase' = [phase EXCEPT ![p] = to],
         to \in Owning => phase[p] \in Owning,
         to \in Recovered => phase[p] \in Recovered,
         to \in {"off", "booting", "locked"} => phase[p] \in {"off", "booting", "locked"},
         to # "counted",
         UNCHANGED <<role, counted, generation, leftovers, lockedBy>>
  PROVE  OwnersLock' /\ VolumeInOrder' /\ GenerationsTaken' /\ CountExact'
<1> USE DEF ProcessesInv
<1>1. OwnersLock'
  BY DEF ProcessesTypeOK, OwnersLock
<1>2. VolumeInOrder'
  BY DEF ProcessesTypeOK, VolumeInOrder
<1>3. GenerationsTaken'
  BY DEF ProcessesTypeOK, GenerationsTaken
<1>4. CountExact'
  BY DEF CountExact, Counted
<1> QED BY <1>1, <1>2, <1>3, <1>4

\* What a supervisor does: it launches, asks for a stop, reaps or gives up.
LEMMA SupervisorInv ==
  ASSUME ProcessesInv, TouchStop \/ Reaped \/ StopWaiting \/ \E p \in Procs : Launch(p)
  PROVE  ProcessesInv'
<1> USE DEF ProcessesInv
<1>1. ASSUME NEW p \in Procs, Launch(p) PROVE ProcessesInv'
  <2> USE DEF Launch, Moves
  <2>1. ProcessesTypeOK'
    BY <1>1 DEF ProcessesTypeOK, ProcPhases, ownership, NoProcess
  <2>2. WorkInPhase'
    BY <1>1 DEF ProcessesTypeOK, WorkInPhase, Serving
  <2>3. OwnersLock' /\ VolumeInOrder' /\ GenerationsTaken' /\ CountExact'
    BY <1>1, PhasesKept DEF ProcPhases, Owning, Recovered, Serving, ownership
  <2> QED BY <2>1, <2>2, <2>3
<1>2. ASSUME TouchStop \/ Reaped \/ StopWaiting PROVE ProcessesInv'
  <2>1. UNCHANGED <<role, phase, lockedBy, counted, generation, leftovers, handler, copying>>
    BY <1>2 DEF TouchStop, Reaped, StopWaiting, ownership
  <2>2. ProcessesTypeOK'
    <3>1. CASE TouchStop
      BY <3>1 DEF ProcessesTypeOK, TouchStop, ownership
    <3>2. CASE Reaped
      BY <3>2 DEF ProcessesTypeOK, Reaped, ownership, controlFiles
    <3>3. CASE StopWaiting
      <4>1. kills' \in 0..MaxKills
        BY <3>3, ProcessesAssumption DEF ProcessesTypeOK, StopWaiting
      <4> QED BY <3>3, <4>1 DEF ProcessesTypeOK, StopWaiting, ownership, controlFiles
    <3> QED BY <1>2, <3>1, <3>2, <3>3
  <2>3. OwnersLock' /\ VolumeInOrder' /\ WorkInPhase' /\ GenerationsTaken' /\ CountExact'
    BY <2>1 DEF OwnersLock, VolumeInOrder, WorkInPhase, GenerationsTaken, CountExact, Counted
  <2> QED BY <2>2, <2>3
<1> QED BY <1>1, <1>2

\* Recovery, the listeners, the drain and the release of the lock.
LEMMA LifeInv ==
  ASSUME ProcessesInv, NEW p \in Procs,
         \/ RecoverVolume(p) \/ OpenPublic(p) \/ OpenInternal(p) \/ ListenerFails(p) \/ WriteReady(p)
         \/ SeeStop(p) \/ ShutPools(p) \/ Unlock(p) \/ RemoveReady(p)
  PROVE  ProcessesInv'
<1> USE DEF ProcessesInv, Moves
<1>1. CASE RecoverVolume(p)
  <2> USE <1>1 DEF RecoverVolume
  <2>1. ProcessesTypeOK'
    BY DEF ProcessesTypeOK, ProcPhases, controlFiles
  <2>2. OwnersLock' /\ VolumeInOrder' /\ WorkInPhase'
    BY DEF ProcessesTypeOK, OwnersLock, VolumeInOrder, WorkInPhase, Owning, Recovered, Serving
  <2>3. GenerationsTaken' /\ CountExact'
    BY DEF ProcessesTypeOK, GenerationsTaken, CountExact, Counted, Recovered, Serving
  <2> QED BY <2>1, <2>2, <2>3
<1>2. CASE OpenPublic(p) \/ OpenInternal(p) \/ ListenerFails(p) \/ WriteReady(p) \/ SeeStop(p)
  <2> USE <1>2 DEF OpenPublic, OpenInternal, ListenerFails, WriteReady, SeeStop
  <2>1. ProcessesTypeOK'
    BY ProcessesAssumption DEF ProcessesTypeOK, ProcPhases, controlFiles, ownership, Serving
  <2>2. WorkInPhase'
    BY DEF ProcessesTypeOK, WorkInPhase, Serving
  <2>3. PICK to \in {"public", "listening", "draining", "ready"} : phase' = [phase EXCEPT ![p] = to]
    OBVIOUS
  <2>4. phase[p] \in Recovered /\ to \in Recovered /\ to \in ProcPhases
    BY <2>3 DEF Recovered, Serving, ProcPhases
  <2>5. OwnersLock' /\ VolumeInOrder' /\ GenerationsTaken' /\ CountExact'
    <3>1. UNCHANGED <<role, counted, generation, leftovers, lockedBy>>
      BY DEF ownership
    <3> QED BY <2>3, <2>4, <3>1, PhasesKept DEF Owning
  <2> QED BY <2>1, <2>2, <2>5
<1>3. CASE ShutPools(p)
  <2> USE <1>3 DEF ShutPools, DrainedNow
  <2>1. ProcessesTypeOK'
    BY DEF ProcessesTypeOK, ProcPhases, controlFiles, ownership
  <2>2. WorkInPhase'
    BY DEF ProcessesTypeOK, WorkInPhase, Serving
  <2>3. OwnersLock' /\ VolumeInOrder' /\ GenerationsTaken' /\ CountExact'
    BY PhasesKept DEF ProcPhases, Owning, Recovered, Serving, ownership
  <2> QED BY <2>1, <2>2, <2>3
<1>4. CASE Unlock(p)
  <2> USE <1>4 DEF Unlock
  <2>1. ProcessesTypeOK'
    BY DEF ProcessesTypeOK, ProcPhases, controlFiles, NoProcess
  <2>2. lockedBy = p
    BY DEF OwnersLock, Owning, Recovered
  <2>3. OwnersLock'
    BY <2>2 DEF ProcessesTypeOK, OwnersLock, Owning, Recovered, Serving
  <2>4. p \notin handler
    BY DEF WorkInPhase, Serving
  <2>5. VolumeInOrder' /\ WorkInPhase'
    BY <2>4 DEF ProcessesTypeOK, VolumeInOrder, WorkInPhase, Recovered, Serving
  <2>6. GenerationsTaken' /\ CountExact'
    BY DEF ProcessesTypeOK, GenerationsTaken, CountExact, Counted, Recovered, Serving
  <2> QED BY <2>1, <2>3, <2>5, <2>6
<1>5. CASE RemoveReady(p)
  <2> USE <1>5 DEF RemoveReady
  <2>1. ProcessesTypeOK'
    BY DEF ProcessesTypeOK, ProcPhases, ownership, NoProcess
  <2>2. WorkInPhase'
    BY DEF ProcessesTypeOK, WorkInPhase, Serving
  <2>3. OwnersLock' /\ VolumeInOrder' /\ GenerationsTaken' /\ CountExact'
    BY PhasesKept DEF ProcPhases, Owning, Recovered, Serving, ownership
  <2> QED BY <2>1, <2>2, <2>3
<1> QED BY <1>1, <1>2, <1>3, <1>4, <1>5

\* Requests begin on an open listener, copies under a request, and both end.
LEMMA RequestInv ==
  ASSUME ProcessesInv, NEW p \in Procs,
         BeginRequest(p) \/ SubmitCopy(p) \/ EndRequest(p) \/ EndCopy(p)
  PROVE  ProcessesInv'
<1> USE DEF ProcessesInv, BeginRequest, SubmitCopy, EndRequest, EndCopy
<1>1. ProcessesTypeOK'
  BY DEF ProcessesTypeOK, ownership, controlFiles
<1>2. WorkInPhase'
  BY DEF WorkInPhase, ownership, controlFiles
<1>3. OwnersLock' /\ VolumeInOrder' /\ GenerationsTaken' /\ CountExact'
  BY DEF OwnersLock, VolumeInOrder, GenerationsTaken, CountExact, Counted, ownership
<1> QED BY <1>1, <1>2, <1>3

\* The processes of a volume keep their invariant, whatever they, their supervisors and the
\* system do.
THEOREM ProcessesCorrect == ProcessesSpec => []ProcessesInv
<1>1. ProcessesInv /\ [ProcessesNext]_processesVars => ProcessesInv'
  <2> SUFFICES ASSUME ProcessesInv, [ProcessesNext]_processesVars PROVE ProcessesInv'
    OBVIOUS
  <2>1. CASE UNCHANGED processesVars
    BY <2>1 DEF processesVars, ProcessesInv, ProcessesTypeOK, OwnersLock, VolumeInOrder, WorkInPhase,
                GenerationsTaken, CountExact, Counted
  <2>2. CASE TouchStop \/ Reaped \/ StopWaiting
    BY <2>2, SupervisorInv
  <2>3. ASSUME NEW p \in Procs, Launch(p) PROVE ProcessesInv'
    BY <2>3, SupervisorInv
  <2>4. ASSUME NEW p \in Procs, Kill(p) \/ TakeLock(p) \/ CountBoot(p) PROVE ProcessesInv'
    BY <2>4, KillInv, TakeLockInv, CountBootInv
  <2>5. ASSUME NEW p \in Procs,
               \/ RecoverVolume(p) \/ OpenPublic(p) \/ OpenInternal(p) \/ ListenerFails(p) \/ WriteReady(p)
               \/ SeeStop(p) \/ ShutPools(p) \/ Unlock(p) \/ RemoveReady(p)
        PROVE ProcessesInv'
    BY <2>5, LifeInv
  <2>6. ASSUME NEW p \in Procs, BeginRequest(p) \/ SubmitCopy(p) \/ EndRequest(p) \/ EndCopy(p)
        PROVE ProcessesInv'
    BY <2>6, RequestInv
  <2> QED BY <2>1, <2>2, <2>3, <2>4, <2>5, <2>6 DEF ProcessesNext
<1> QED BY <1>1, ProcessesInitInv, PTL DEF ProcessesSpec

\* Requests and copies touch the volume only in the process that owns it, after recovery and
\* under a generation of its own, for any number of processes and deaths (OneWriter).
THEOREM VolumeOwned == ProcessesSpec => []OneWriter
<1>1. ProcessesInv => OneWriter
  <2> SUFFICES ASSUME ProcessesInv PROVE OneWriter
    OBVIOUS
  <2> USE DEF ProcessesInv
  <2>1. ASSUME NEW p \in handler \cup copying PROVE lockedBy = p /\ ~leftovers /\ generation[p] = counted
    <3>1. p \in Procs /\ phase[p] \in Recovered
      BY DEF ProcessesTypeOK, WorkInPhase, Recovered
    <3> QED BY <3>1 DEF OwnersLock, VolumeInOrder, GenerationsTaken, Owning
  <2> QED BY <2>1 DEF OneWriter, GenerationsTaken
<1> QED BY <1>1, ProcessesCorrect, PTL

-----------------------------------------------------------------------------
(* Keys.                                                                    *)

\* A key that provision() returned is at every node, in a file and in the configuration.
ProvisionedListed == \A k \in provisioned, n \in KeyNodes : k \in keyFiles[n] /\ k \in readPaths[n]

\* Every node has the first key, and has loaded it when it runs.
BootEverywhere == \A n \in KeyNodes : BootKey \in keyFiles[n] /\ (n \in running => BootKey \in loaded[n])

\* What a script has done so far: provision() has seen to the nodes it has left behind,
\* activate() has a key that was provisioned, and asked those that run for it.
ScriptSound ==
  /\ script.kind = "provision" => \A n \in KeyNodes \ script.todo : script.key \in keyFiles[n] /\ script.key \in readPaths[n]
  /\ script.kind \in {"check", "activate"} => script.key \in provisioned
  /\ script.kind = "check" => \A n \in running \ script.todo : script.key \in loaded[n]
  /\ script.kind = "activate" => \A n \in running : script.key \in loaded[n]

\* A key under which blocks are or may be written: they have it, a node is configured to
\* write under it, or does.
InUse(k) == \E n \in KeyNodes : k \in sealedWith[n] \/ k = activePath[n] \/ (n \in running /\ k = activeKey[n])

\* Such a key was provisioned, and every process that runs has loaded it.
UsedLoaded == \A k \in ContentKeys : InUse(k) => k = BootKey \/ (k \in provisioned /\ \A n \in running : k \in loaded[n])

KeysInv == KeysTypeOK /\ ProvisionedListed /\ BootEverywhere /\ ScriptSound /\ UsedLoaded

\* At the start every node has and uses the first key.
LEMMA KeysInitInv == KeysInit => KeysInv
<1> SUFFICES ASSUME KeysInit PROVE KeysInv
  OBVIOUS
<1> USE KeysAssumption DEF KeysInit
<1>1. KeysTypeOK
  <2>1. 0 \in 0..MaxBoots
    OBVIOUS
  <2>2. NoScript \in [kind : {"none", "provision", "check", "activate"}, key : ContentKeys, todo : SUBSET KeyNodes]
    BY DEF NoScript
  <2> QED BY <2>1, <2>2 DEF KeysTypeOK
<1>2. ProvisionedListed /\ BootEverywhere /\ ScriptSound /\ UsedLoaded
  BY DEF ProvisionedListed, BootEverywhere, ScriptSound, UsedLoaded, InUse, NoScript
<1> QED BY <1>1, <1>2 DEF KeysInv

\* A script that begins, advances without touching a node's files, ends or dies.
LEMMA ScriptInv ==
  ASSUME KeysInv,
         \/ \E k \in ContentKeys : Provision(k) \/ ActivateKey(k)
         \/ Provisioned \/ AllLoaded \/ ScriptDies \/ \E n \in KeyNodes : AskStatus(n)
  PROVE  KeysInv'
<1> USE KeysAssumption DEF KeysInv, configs, processes
<1>1. UNCHANGED <<keyFiles, readPaths, activePath, running, loaded, activeKey, boots, sealedWith>>
  BY DEF Provision, ActivateKey, Provisioned, AllLoaded, ScriptDies, AskStatus
<1>2. provisioned \subseteq provisioned'
  BY DEF Provision, ActivateKey, Provisioned, AllLoaded, ScriptDies, AskStatus
<1>3. BootEverywhere' /\ UsedLoaded'
  BY <1>1, <1>2 DEF BootEverywhere, UsedLoaded, InUse
<1>4. ASSUME NEW k \in ContentKeys, Provision(k) PROVE KeysTypeOK' /\ ProvisionedListed' /\ ScriptSound'
  BY <1>4 DEF Provision, KeysTypeOK, ProvisionedListed, ScriptSound
<1>5. ASSUME NEW k \in ContentKeys, ActivateKey(k) PROVE KeysTypeOK' /\ ProvisionedListed' /\ ScriptSound'
  BY <1>5 DEF ActivateKey, KeysTypeOK, ProvisionedListed, ScriptSound
<1>6. CASE Provisioned
  <2>1. KeysTypeOK'
    BY <1>6 DEF Provisioned, KeysTypeOK, NoScript
  <2>2. ProvisionedListed' /\ ScriptSound'
    BY <1>6 DEF Provisioned, KeysTypeOK, ProvisionedListed, ScriptSound, NoScript
  <2> QED BY <2>1, <2>2, <1>3
<1>7. CASE AllLoaded
  <2>1. KeysTypeOK' /\ script'.kind = "activate" /\ script'.key = script.key
    BY <1>7 DEF AllLoaded, KeysTypeOK
  <2>2. ProvisionedListed' /\ ScriptSound'
    BY <1>7, <2>1 DEF AllLoaded, KeysTypeOK, ProvisionedListed, ScriptSound
  <2> QED BY <2>1, <2>2, <1>3
<1>8. CASE ScriptDies
  BY <1>3, <1>8 DEF ScriptDies, KeysTypeOK, ProvisionedListed, ScriptSound, NoScript
<1>9. ASSUME NEW n \in KeyNodes, AskStatus(n) PROVE KeysInv'
  <2>1. CASE script' = NoScript
    BY <1>3, <1>9, <2>1 DEF AskStatus, KeysTypeOK, ProvisionedListed, ScriptSound, NoScript
  <2>2. CASE n \in running /\ HasLoaded(n, script.key)
    <3>1. script' = [script EXCEPT !.todo = script.todo \ {n}] /\ script.kind = "check"
      BY <1>9, <2>2 DEF AskStatus
    <3>2. KeysTypeOK' /\ script'.kind = "check" /\ script'.key = script.key /\ script'.todo = script.todo \ {n}
      BY <1>9, <3>1 DEF AskStatus, KeysTypeOK
    <3>3. ProvisionedListed' /\ ScriptSound'
      BY <1>9, <2>2, <3>1, <3>2 DEF AskStatus, KeysTypeOK, ProvisionedListed, ScriptSound, HasLoaded
    <3> QED BY <3>2, <3>3, <1>3
  <2> QED BY <1>9, <2>1, <2>2 DEF AskStatus
<1> QED BY <1>3, <1>4, <1>5, <1>6, <1>7, <1>8, <1>9

\* provision() writes a key file or lists the key; activate() changes what a node will write
\* under; the operator withdraws a key that nothing needs.
LEMMA ConfigInv ==
  ASSUME KeysInv,
         \/ \E n \in KeyNodes : WriteKeyFile(n) \/ ListKey(n) \/ SetActive(n)
         \/ \E k \in ContentKeys : WithdrawKey(k)
  PROVE  KeysInv'
<1> USE KeysAssumption DEF KeysInv, configs, processes
<1>1. ASSUME NEW n \in KeyNodes, WriteKeyFile(n) PROVE KeysInv'
  <2>1. KeysTypeOK'
    BY <1>1 DEF WriteKeyFile, KeysTypeOK
  <2>2. ProvisionedListed' /\ BootEverywhere' /\ ScriptSound'
    BY <1>1 DEF WriteKeyFile, KeysTypeOK, ProvisionedListed, BootEverywhere, ScriptSound
  <2>3. UsedLoaded'
    BY <1>1 DEF WriteKeyFile, UsedLoaded, InUse
  <2> QED BY <2>1, <2>2, <2>3
<1>2. ASSUME NEW n \in KeyNodes, ListKey(n) PROVE KeysInv'
  <2>1. KeysTypeOK' /\ script'.kind = "provision" /\ script'.key = script.key /\ script'.todo = script.todo \ {n}
    BY <1>2 DEF ListKey, KeysTypeOK, Next1
  <2>2. ProvisionedListed' /\ BootEverywhere' /\ ScriptSound'
    BY <1>2, <2>1 DEF ListKey, KeysTypeOK, ProvisionedListed, BootEverywhere, ScriptSound
  <2>3. UsedLoaded'
    BY <1>2 DEF ListKey, UsedLoaded, InUse
  <2> QED BY <2>1, <2>2, <2>3
<1>3. ASSUME NEW n \in KeyNodes, SetActive(n) PROVE KeysInv'
  <2>1. CASE HasFile(n, script.key)
    <3>1. /\ activePath' = [activePath EXCEPT ![n] = script.key]
          /\ script' = NoScript \/ script' = [script EXCEPT !.todo = script.todo \ {n}]
          /\ script.kind = "activate"
      BY <1>3, <2>1 DEF SetActive
    <3>2. KeysTypeOK' /\ (script' = NoScript \/ (script'.kind = "activate" /\ script'.key = script.key))
      BY <1>3, <3>1 DEF SetActive, KeysTypeOK, NoScript
    <3>3. ProvisionedListed' /\ BootEverywhere' /\ ScriptSound'
      BY <1>3, <3>1, <3>2 DEF SetActive, KeysTypeOK, ProvisionedListed, BootEverywhere, ScriptSound, NoScript
    <3>4. UsedLoaded'
      BY <1>3, <3>1 DEF SetActive, KeysTypeOK, ScriptSound, UsedLoaded, InUse
    <3> QED BY <3>2, <3>3, <3>4
  <2>2. CASE ~HasFile(n, script.key)
    <3>1. UNCHANGED <<keyFiles, readPaths, activePath, running, loaded, activeKey, boots, sealedWith, provisioned>>
          /\ script' = NoScript
      BY <1>3, <2>2 DEF SetActive
    <3> QED BY <3>1 DEF KeysTypeOK, ProvisionedListed, BootEverywhere, ScriptSound, UsedLoaded, InUse, NoScript
  <2> QED BY <2>1, <2>2
<1>4. ASSUME NEW k \in ContentKeys, WithdrawKey(k) PROVE KeysInv'
  <2> USE DEF WithdrawKey, RetirementEligible
  <2>1. KeysTypeOK'
    BY <1>4 DEF KeysTypeOK
  <2>2. ProvisionedListed' /\ ScriptSound'
    BY <1>4 DEF KeysTypeOK, ProvisionedListed, ScriptSound, NoScript
  <2>3. BootEverywhere'
    BY <1>4 DEF KeysTypeOK, BootEverywhere
  <2>4. UsedLoaded'
    BY <1>4 DEF UsedLoaded, InUse
  <2> QED BY <2>1, <2>2, <2>3, <2>4
<1> QED BY <1>1, <1>2, <1>3, <1>4

\* Nodes start with all the keys of their configuration, stop, store under the key they
\* started with, copy blocks as they are and delete them.
LEMMA NodesInv ==
  ASSUME KeysInv, NEW n \in KeyNodes,
         \/ StartNode(n) \/ StopNode(n) \/ StoreUnderKey(n)
         \/ \E k \in ContentKeys : LastDeleted(n, k) \/ \E s \in KeyNodes : CopyUnderKey(s, n, k)
  PROVE  KeysInv'
<1> USE KeysAssumption DEF KeysInv, configs, processes
<1>1. CASE StartNode(n)
  <2> USE <1>1 DEF StartNode
  <2>1. KeysTypeOK'
    <3>1. boots' \in 0..MaxBoots
      BY DEF KeysTypeOK
    <3> QED BY <3>1 DEF KeysTypeOK
  <2>2. ProvisionedListed' /\ BootEverywhere'
    BY DEF KeysTypeOK, ProvisionedListed, BootEverywhere
  <2>3. \A k \in provisioned : k \in loaded'[n]
    BY DEF KeysTypeOK, ProvisionedListed
  <2>4. ScriptSound'
    BY <2>3 DEF KeysTypeOK, ScriptSound
  <2>5. UsedLoaded'
    BY <2>3 DEF KeysTypeOK, UsedLoaded, InUse
  <2> QED BY <2>1, <2>2, <2>4, <2>5
<1>2. CASE StopNode(n)
  BY <1>2 DEF StopNode, KeysTypeOK, ProvisionedListed, BootEverywhere, ScriptSound, UsedLoaded, InUse
<1>3. CASE StoreUnderKey(n)
  BY <1>3 DEF StoreUnderKey, KeysTypeOK, ProvisionedListed, BootEverywhere, ScriptSound, UsedLoaded, InUse
<1>4. ASSUME NEW k \in ContentKeys, LastDeleted(n, k) PROVE KeysInv'
  BY <1>4 DEF LastDeleted, KeysTypeOK, ProvisionedListed, BootEverywhere, ScriptSound, UsedLoaded, InUse
<1>5. ASSUME NEW k \in ContentKeys, NEW s \in KeyNodes, CopyUnderKey(s, n, k) PROVE KeysInv'
  BY <1>5 DEF CopyUnderKey, KeysTypeOK, ProvisionedListed, BootEverywhere, ScriptSound, UsedLoaded, InUse
<1> QED BY <1>1, <1>2, <1>3, <1>4, <1>5

\* Rotations keep the invariant, wherever scripts die and nodes restart.
THEOREM KeysCorrect == KeysSpec => []KeysInv
<1>1. KeysInv /\ [KeysNext]_keysVars => KeysInv'
  <2> SUFFICES ASSUME KeysInv, [KeysNext]_keysVars PROVE KeysInv'
    OBVIOUS
  <2>1. CASE UNCHANGED keysVars
    BY <2>1 DEF keysVars, KeysInv, KeysTypeOK, ProvisionedListed, BootEverywhere, ScriptSound, UsedLoaded, InUse
  <2>2. ASSUME \/ \E k \in ContentKeys : Provision(k) \/ ActivateKey(k)
               \/ Provisioned \/ AllLoaded \/ ScriptDies \/ \E n \in KeyNodes : AskStatus(n)
        PROVE KeysInv'
    BY <2>2, ScriptInv
  <2>3. ASSUME \/ \E n \in KeyNodes : WriteKeyFile(n) \/ ListKey(n) \/ SetActive(n)
               \/ \E k \in ContentKeys : WithdrawKey(k)
        PROVE KeysInv'
    BY <2>3, ConfigInv
  <2>4. ASSUME NEW n \in KeyNodes,
               \/ StartNode(n) \/ StopNode(n) \/ StoreUnderKey(n)
               \/ \E k \in ContentKeys : LastDeleted(n, k) \/ \E s \in KeyNodes : CopyUnderKey(s, n, k)
        PROVE KeysInv'
    BY <2>4, NodesInv
  <2> QED BY <2>1, <2>2, <2>3, <2>4 DEF KeysNext
<1> QED BY <1>1, KeysInitInv, PTL DEF KeysSpec

\* Every block can be read by every node that runs or starts, for any number of nodes, keys
\* and restarts (KeysEverywhere).
THEOREM BlocksReadable == KeysSpec => []KeysEverywhere
<1>1. KeysInv => KeysEverywhere
  <2> SUFFICES ASSUME KeysInv, NEW s \in KeyNodes, NEW k \in sealedWith[s], NEW n \in KeyNodes
               PROVE /\ n \in running => k \in loaded[n]
                     /\ k \in readPaths[n] \cup {BootKey} /\ k \in keyFiles[n]
    BY DEF KeysEverywhere
  <2>1. k \in ContentKeys /\ InUse(k)
    BY DEF KeysInv, KeysTypeOK, InUse
  <2> QED BY <2>1 DEF KeysInv, UsedLoaded, BootEverywhere, ProvisionedListed
<1> QED BY <1>1, KeysCorrect, PTL

-----------------------------------------------------------------------------
(* PatchCall.                                                               *)

\* The steps of a handler while it has the exclusive pin of the new block.
PinHeld == {"pinBase", "ledger", "delta", "assemble", "replace", "record"}

\* One handler has the pin at a time, and only in those steps.
PinExclusive == \A y \in Tries : (y \in pins => pins = {y}) /\ (call[y].at \in PinHeld => y \in pins)

\* The ledger has the receipt of the inventory, or none; a receipt is made once, of a file
\* that is there.
OneRecord ==
  /\ datanode.ledger \in {0, datanode.record}
  /\ datanode.record # 0 => datanode.file
  /\ made = datanode.record /\ made \in {0, 1}

\* The handler that is to name the file has seen that there is none, and the one that is to
\* record it has just named it.
HandlerSound ==
  \A y \in Tries :
    /\ call[y].at = "replace" => ~datanode.file
    /\ call[y].at = "record" => datanode.file /\ datanode.record = 0
    /\ call[y].at = "report" => call[y].receipt # 0 /\ call[y].receipt = datanode.ledger

\* What is reported, known to the control and given to the client is in the ledger.
ReportsSound ==
  /\ \A r \in reports : r[1] # 0 /\ r[1] = datanode.ledger
  /\ confirmed # 0 => confirmed = datanode.ledger
  /\ got # 0 => got = confirmed

PatchInv == PatchTypeOK /\ PinExclusive /\ OneRecord /\ HandlerSound /\ ReportsSound

\* The types of the DataNode's state and of the calls.
DatanodeStates == [file : BOOLEAN, record : Receipts, ledger : Receipts, born : {0, 1}, boot : {0, 1}, registered : {0, 1}]
CallStates ==
  [Tries -> [at : {"none", "authorize", "base", "pin", "pinBase", "ledger", "delta", "assemble", "replace", "record", "report",
                   "answer", "over"}, receipt : Receipts]]

\* Nothing has been asked for or made.
LEMMA PatchInitInv == PatchInit => PatchInv
<1> SUFFICES ASSUME PatchInit PROVE PatchInv
  OBVIOUS
<1> USE DEF PatchInit
<1>1. PatchTypeOK
  <2>1. 0 \in Receipts
    BY TriesAssumption DEF Receipts
  <2> QED BY <2>1 DEF PatchTypeOK
<1>2. PinExclusive /\ OneRecord /\ HandlerSound /\ ReportsSound
  BY DEF PinExclusive, OneRecord, HandlerSound, ReportsSound, PinHeld
<1> QED BY <1>1, <1>2 DEF PatchInv

\* The SDK and the client's write.
LEMMA ClientInv ==
  ASSUME PatchInv, CommitPatched \/ AbortPatched \/ \E y \in Tries : CallPatch(y)
  PROVE  PatchInv'
<1> USE DEF PatchInv
<1>1. CASE CommitPatched \/ AbortPatched
  BY <1>1 DEF CommitPatched, AbortPatched, PatchTypeOK, PinExclusive, OneRecord, HandlerSound, ReportsSound
<1>2. ASSUME NEW y \in Tries, CallPatch(y) PROVE PatchInv'
  BY <1>2 DEF CallPatch, CallAt, PatchTypeOK, PinExclusive, OneRecord, HandlerSound, ReportsSound, PinHeld
<1> QED BY <1>1, <1>2

\* The handler, up to the file.
LEMMA BeforeFileInv ==
  ASSUME PatchInv, NEW y \in Tries,
         \/ AuthorizePatch(y) \/ AwaitBase(y) \/ PinPatch(y) \/ PinBase(y) \/ ReadLedger(y)
         \/ TakeDelta(y) \/ LookForFile(y)
  PROVE  PatchInv'
<1> USE DEF PatchInv, CallAt
<1>1. CASE AuthorizePatch(y)
  <2>1. PatchVerdict \in {"answer", "base", "over"}
    BY DEF PatchVerdict, PatchTypeOK
  <2>2. PatchTypeOK'
    BY <1>1, <2>1 DEF AuthorizePatch, PatchTypeOK
  <2>3. PinExclusive' /\ OneRecord' /\ HandlerSound' /\ ReportsSound'
    BY <1>1, <2>1 DEF AuthorizePatch, PatchTypeOK, PinExclusive, OneRecord, HandlerSound, ReportsSound, PinHeld
  <2> QED BY <2>2, <2>3
<1>2. CASE AwaitBase(y) \/ PinBase(y) \/ TakeDelta(y)
  <2>1. PatchTypeOK'
    BY <1>2 DEF AwaitBase, PinBase, TakeDelta, PatchTypeOK
  <2>2. PinExclusive' /\ OneRecord' /\ HandlerSound' /\ ReportsSound'
    BY <1>2 DEF AwaitBase, PinBase, TakeDelta, PatchTypeOK, PinExclusive, OneRecord, HandlerSound, ReportsSound, PinHeld
  <2> QED BY <2>1, <2>2
<1>3. CASE PinPatch(y)
  <2>1. PatchTypeOK'
    BY <1>3 DEF PinPatch, PatchTypeOK
  <2>2. PinExclusive' /\ OneRecord' /\ HandlerSound' /\ ReportsSound'
    BY <1>3 DEF PinPatch, Unpinned, PatchTypeOK, PinExclusive, OneRecord, HandlerSound, ReportsSound, PinHeld
  <2> QED BY <2>1, <2>2
<1>4. CASE ReadLedger(y)
  <2>1. PatchTypeOK'
    BY <1>4 DEF ReadLedger, PatchTypeOK
  <2>2. PinExclusive' /\ OneRecord' /\ HandlerSound' /\ ReportsSound'
    BY <1>4 DEF ReadLedger, PatchTypeOK, PinExclusive, OneRecord, HandlerSound, ReportsSound, PinHeld
  <2> QED BY <2>1, <2>2
<1>5. CASE LookForFile(y)
  <2>1. PatchTypeOK'
    BY <1>5 DEF LookForFile, PatchTypeOK
  <2>2. PinExclusive' /\ OneRecord' /\ HandlerSound' /\ ReportsSound'
    BY <1>5 DEF LookForFile, PatchTypeOK, PinExclusive, OneRecord, HandlerSound, ReportsSound, PinHeld
  <2> QED BY <2>1, <2>2
<1> QED BY <1>1, <1>2, <1>3, <1>4, <1>5

\* The handler that names the file is the only one that has the pin, so that nobody else
\* found the name free.
LEMMA FileInv ==
  ASSUME PatchInv, NEW y \in Tries, ReplaceFile(y) \/ RecordPatch(y)
  PROVE  PatchInv'
<1> USE DEF PatchInv
<1>1. \A z \in Tries \ {y} : call[z].at \notin PinHeld
  BY DEF ReplaceFile, RecordPatch, PinExclusive, PinHeld
<1>2. CASE ReplaceFile(y)
  <2>1. /\ datanode.record = 0 /\ datanode.ledger = 0
        /\ datanode' = [datanode EXCEPT !.file = TRUE] /\ call' = [call EXCEPT ![y].at = "record"]
    BY <1>2 DEF ReplaceFile, CallAt, HandlerSound, OneRecord
  <2>2. PatchTypeOK'
    <3>1. datanode' \in DatanodeStates
      BY <2>1 DEF PatchTypeOK, DatanodeStates
    <3>2. call' \in CallStates
      BY <2>1 DEF PatchTypeOK, CallStates
    <3> QED BY <1>2, <3>1, <3>2 DEF ReplaceFile, PatchTypeOK, DatanodeStates, CallStates
  <2>3. PinExclusive' /\ OneRecord' /\ HandlerSound' /\ ReportsSound'
    BY <1>1, <1>2, <2>1 DEF ReplaceFile, PatchTypeOK, PinExclusive, OneRecord, HandlerSound, ReportsSound, PinHeld
  <2> QED BY <2>2, <2>3
<1>3. CASE RecordPatch(y)
  <2>1. /\ datanode.record = 0 /\ datanode.ledger = 0 /\ datanode.file /\ made = 0 /\ made' = 1
        /\ datanode' = [datanode EXCEPT !.record = 1, !.ledger = 1, !.born = datanode.boot]
        /\ call' = [call EXCEPT ![y] = [at |-> "report", receipt |-> 1]]
        /\ pins' = pins \ {y}
    <3>1. datanode.record = 0 /\ datanode.ledger = 0 /\ datanode.file /\ made = 0
      BY <1>3 DEF RecordPatch, HandlerSound, OneRecord
    <3>2. made' = 1
      BY <1>3, <3>1 DEF RecordPatch
    <3> QED BY <1>3, <3>1, <3>2 DEF RecordPatch
  <2>2. 1 \in Receipts
    BY TriesAssumption DEF Receipts
  <2>3. PatchTypeOK'
    <3>1. datanode' \in DatanodeStates
      BY <2>1, <2>2 DEF PatchTypeOK, DatanodeStates
    <3>2. call' \in CallStates
      BY <2>1, <2>2 DEF PatchTypeOK, CallStates
    <3> QED BY <1>3, <2>1, <2>2, <3>1, <3>2 DEF RecordPatch, PatchTypeOK, DatanodeStates, CallStates
  <2>4. PinExclusive' /\ OneRecord'
    BY <1>1, <1>3, <2>1 DEF RecordPatch, PatchTypeOK, PinExclusive, OneRecord, PinHeld
  <2>5. HandlerSound'
    BY <1>1, <1>3, <2>1 DEF RecordPatch, PatchTypeOK, OneRecord, HandlerSound, PinHeld
  <2>6. ReportsSound'
    BY <1>3, <2>1 DEF RecordPatch, PatchTypeOK, ReportsSound
  <2> QED BY <2>3, <2>4, <2>5, <2>6
<1> QED BY <1>2, <1>3

\* The report, the answer and the failure of a handler.
LEMMA AfterFileInv ==
  ASSUME PatchInv, NEW y \in Tries, SendReport(y) \/ AnswerPatch(y) \/ PatchFails(y)
  PROVE  PatchInv'
<1> USE DEF PatchInv, CallAt
<1>1. CASE SendReport(y)
  <2>1. PatchTypeOK'
    <3>1. datanode.born \in {0, 1} /\ call[y].receipt \in Receipts
      BY DEF PatchTypeOK
    <3>2. reports' \subseteq Receipts \X {0, 1}
      BY <1>1, <3>1 DEF SendReport, PatchTypeOK
    <3> QED BY <1>1, <3>2 DEF SendReport, PatchTypeOK
  <2>2. PinExclusive' /\ OneRecord' /\ HandlerSound' /\ ReportsSound'
    BY <1>1 DEF SendReport, PatchTypeOK, PinExclusive, OneRecord, HandlerSound, ReportsSound, PinHeld
  <2> QED BY <2>1, <2>2
<1>2. CASE AnswerPatch(y)
  <2>1. PatchTypeOK'
    BY <1>2 DEF AnswerPatch, PatchTypeOK
  <2>2. PinExclusive' /\ OneRecord' /\ HandlerSound' /\ ReportsSound'
    BY <1>2 DEF AnswerPatch, PatchTypeOK, PinExclusive, OneRecord, HandlerSound, ReportsSound, PinHeld
  <2> QED BY <2>1, <2>2
<1>3. CASE PatchFails(y)
  <2>1. PatchTypeOK'
    BY <1>3 DEF PatchFails, PatchTypeOK
  <2>2. PinExclusive' /\ OneRecord' /\ HandlerSound' /\ ReportsSound'
    BY <1>3 DEF PatchFails, PatchTypeOK, PinExclusive, OneRecord, HandlerSound, ReportsSound, PinHeld
  <2> QED BY <2>1, <2>2
<1> QED BY <1>1, <1>2, <1>3

\* The base moves, a report arrives, the node reboots and registers.
LEMMA AroundInv ==
  ASSUME PatchInv, BaseMoves \/ NodeReboots \/ RegisterBoot \/ \E r \in reports : ApplyReport(r)
  PROVE  PatchInv'
<1> USE DEF PatchInv
<1>1. CASE BaseMoves
  BY <1>1 DEF BaseMoves, PatchTypeOK, PinExclusive, OneRecord, HandlerSound, ReportsSound
<1>2. CASE NodeReboots
  <2>1. \A y \in Tries : call'[y].at \in {"none", "over"}
    BY <1>2 DEF NodeReboots, Unindexed, PatchTypeOK
  <2>2. call' \in [Tries -> [at : {"none", "over"}, receipt : Receipts]]
    BY <1>2 DEF NodeReboots, Unindexed, PatchTypeOK
  <2>3. CASE datanode.file /\ datanode.record = 0
    <3>1. made = 0 /\ made' = 1 /\ datanode' = [datanode EXCEPT !.boot = 1, !.record = 1] /\ datanode.ledger = 0
      BY <1>2, <2>3 DEF NodeReboots, Unindexed, OneRecord
    <3>2. 1 \in Receipts
      BY TriesAssumption DEF Receipts
    <3>3. PatchTypeOK'
      BY <1>2, <2>2, <3>1, <3>2 DEF NodeReboots, Unindexed, PatchTypeOK
    <3>4. PinExclusive' /\ HandlerSound'
      BY <1>2, <2>1 DEF NodeReboots, Unindexed, PinExclusive, HandlerSound, PinHeld
    <3>5. OneRecord' /\ ReportsSound'
      BY <1>2, <2>3, <3>1 DEF NodeReboots, Unindexed, PatchTypeOK, OneRecord, ReportsSound
    <3> QED BY <3>3, <3>4, <3>5
  <2>4. CASE ~(datanode.file /\ datanode.record = 0)
    <3>1. made' = made /\ datanode' = [datanode EXCEPT !.boot = 1, !.record = datanode.record]
      BY <1>2, <2>4 DEF NodeReboots, Unindexed
    <3>2. PatchTypeOK'
      BY <1>2, <2>2, <3>1 DEF NodeReboots, Unindexed, PatchTypeOK
    <3>3. PinExclusive' /\ HandlerSound'
      BY <1>2, <2>1 DEF NodeReboots, Unindexed, PinExclusive, HandlerSound, PinHeld
    <3>4. OneRecord' /\ ReportsSound'
      BY <1>2, <3>1 DEF NodeReboots, Unindexed, PatchTypeOK, OneRecord, ReportsSound
    <3> QED BY <3>2, <3>3, <3>4
  <2> QED BY <2>3, <2>4
<1>3. CASE RegisterBoot
  <2>1. PatchTypeOK'
    BY <1>3 DEF RegisterBoot, PatchTypeOK
  <2>2. PinExclusive' /\ OneRecord' /\ HandlerSound' /\ ReportsSound'
    BY <1>3 DEF RegisterBoot, PatchTypeOK, PinExclusive, OneRecord, HandlerSound, ReportsSound
  <2> QED BY <2>1, <2>2
<1>4. ASSUME NEW r \in reports, ApplyReport(r) PROVE PatchInv'
  <2>1. PatchTypeOK'
    BY <1>4 DEF ApplyReport, PatchTypeOK
  <2>2. PinExclusive' /\ OneRecord' /\ HandlerSound' /\ ReportsSound'
    BY <1>4 DEF ApplyReport, PinExclusive, OneRecord, HandlerSound, ReportsSound
  <2> QED BY <2>1, <2>2
<1> QED BY <1>1, <1>2, <1>3, <1>4

\* A patch that is asked for again and again keeps the invariant.
THEOREM PatchCorrect == PatchSpec => []PatchInv
<1>1. PatchInv /\ [PatchNext]_patchVars => PatchInv'
  <2> SUFFICES ASSUME PatchInv, [PatchNext]_patchVars PROVE PatchInv'
    OBVIOUS
  <2>1. CASE UNCHANGED patchVars
    BY <2>1 DEF patchVars, PatchInv, PatchTypeOK, PinExclusive, OneRecord, HandlerSound, ReportsSound
  <2>2. ASSUME CommitPatched \/ AbortPatched \/ \E y \in Tries : CallPatch(y) PROVE PatchInv'
    BY <2>2, ClientInv
  <2>3. ASSUME NEW y \in Tries,
               \/ AuthorizePatch(y) \/ AwaitBase(y) \/ PinPatch(y) \/ PinBase(y) \/ ReadLedger(y)
               \/ TakeDelta(y) \/ LookForFile(y)
        PROVE PatchInv'
    BY <2>3, BeforeFileInv
  <2>4. ASSUME NEW y \in Tries,
               ReplaceFile(y) \/ RecordPatch(y) \/ SendReport(y) \/ AnswerPatch(y) \/ PatchFails(y)
        PROVE PatchInv'
    BY <2>4, FileInv, AfterFileInv
  <2>5. ASSUME BaseMoves \/ NodeReboots \/ RegisterBoot \/ \E r \in reports : ApplyReport(r) PROVE PatchInv'
    BY <2>5, AroundInv
  <2> QED BY <2>1, <2>2, <2>3, <2>4, <2>5 DEF PatchNext
<1> QED BY <1>1, PatchInitInv, PTL DEF PatchSpec

\* The control's receipt is that of the one file, however often the call is repeated
\* (OneReceipt).
THEOREM PatchOnce == PatchSpec => []OneReceipt
<1>1. PatchInv => OneReceipt
  BY DEF PatchInv, OneRecord, ReportsSound, OneReceipt
<1> QED BY <1>1, PatchCorrect, PTL

-----------------------------------------------------------------------------
(* Volume.                                                                  *)

Recorded == {o \in Objects : inventory[o] # 0}
Written == {o \in Objects : job[o].step = "written"}
Reserved == {o \in Objects : job[o].step = "reserved"}

\* Receipts the node accounts for: records, quarantine records, and files about to be recorded.
Tracked == (({inventory[o] : o \in Recorded} \cup {job[o].receipt : o \in Written}) \cup quarantine) \ strays

\* The file of a block is recorded, or its job is about to record it, unless it is a stray.
FilesTracked ==
  \A o \in Objects : named[o] \in strays \cup {0} \/ named[o] = inventory[o] \/ (o \in Written /\ named[o] = job[o].receipt)

\* So is a quarantined file, by the record it had when it was moved or by that of the quarantine.
AsideTracked == \A r \in aside : r \in strays \cup quarantine \/ \E o \in Objects : inventory[o] = r

\* What a job has done: the block it stores has no record, the file it writes is there, those
\* it has moved or unlinked are not.
JobsSound ==
  \A o \in Objects :
    /\ job[o].step \in {"emptied", "reserved", "written"} => inventory[o] = 0
    /\ job[o].step = "moved" => inventory[o] # 0
    /\ job[o].step = "written" => named[o] = job[o].receipt /\ named[o] # 0
    /\ job[o].step \in {"moved", "unlinked"} => named[o] = 0

\* What is accounted for and what is reserved but not yet written fit in the volume.
RoomForAll == Cardinality(Tracked) + Cardinality(Reserved) <= Capacity

VolumeInv == VolumeTypeOK /\ FilesTracked /\ AsideTracked /\ JobsSound /\ RoomForAll

\* The values a function takes on a finite set are finitely many, and no more than its
\* arguments.
LEMMA ImageBound ==
  ASSUME NEW S, IsFiniteSet(S), NEW f, f = [x \in S |-> f[x]]
  PROVE  IsFiniteSet({f[x] : x \in S}) /\ Cardinality({f[x] : x \in S}) <= Cardinality(S)
<1>1. PICK T : T = {f[x] : x \in S}
  OBVIOUS
<1>2. f \in [S -> T]
  BY <1>1
<1>3. f \in Surjection(S, T)
  BY <1>1, <1>2 DEF Surjection
<1> QED BY <1>1, <1>3, FS_Surjection

\* The sets that are counted are finite: there are finitely many blocks and receipts.
LEMMA VolumeFinite ==
  ASSUME VolumeTypeOK
  PROVE  /\ IsFiniteSet(Recorded) /\ IsFiniteSet(Written) /\ IsFiniteSet(Reserved)
         /\ IsFiniteSet(StoreIds) /\ IsFiniteSet(quarantine)
         /\ IsFiniteSet(Tracked)
<1>1. IsFiniteSet(Recorded) /\ IsFiniteSet(Written) /\ IsFiniteSet(Reserved)
  BY FS_Subset, VolumeAssumption DEF Recorded, Written, Reserved
<1>2. IsFiniteSet(StoreIds)
  BY FS_Interval, VolumeAssumption DEF StoreIds
<1>3. IsFiniteSet(quarantine)
  BY <1>2, FS_Subset DEF VolumeTypeOK
<1>4. IsFiniteSet(0..MaxReceipts)
  BY FS_Interval, VolumeAssumption
<1>5. Tracked \in SUBSET (0..MaxReceipts)
  <2>1. \A o \in Objects : inventory[o] \in 0..MaxReceipts /\ job[o].receipt \in 0..MaxReceipts
    BY DEF VolumeTypeOK
  <2>2. quarantine \subseteq 0..MaxReceipts
    BY VolumeAssumption DEF VolumeTypeOK, StoreIds
  <2> QED BY <2>1, <2>2 DEF Tracked, Recorded, Written
<1>6. IsFiniteSet(Tracked)
  BY <1>4, <1>5, FS_Subset
<1> QED BY <1>1, <1>2, <1>3, <1>6

\* Two finite sets have no more elements together than one by one.
LEMMA UnionBound ==
  ASSUME NEW S, NEW T, IsFiniteSet(S), IsFiniteSet(T)
  PROVE  IsFiniteSet(S \cup T) /\ Cardinality(S \cup T) <= Cardinality(S) + Cardinality(T)
<1>1. IsFiniteSet(S \cup T) /\ Cardinality(S \cup T) = Cardinality(S) + Cardinality(T) - Cardinality(S \cap T)
  BY FS_Union
<1>2. IsFiniteSet(S \cap T)
  BY FS_Subset
<1>3. Cardinality(S) \in Nat /\ Cardinality(T) \in Nat /\ Cardinality(S \cap T) \in Nat
  BY <1>2, FS_CardinalityType
<1> QED BY <1>1, <1>3

\* One more element makes a set at most one larger.
LEMMA AddBound ==
  ASSUME NEW S, NEW x, IsFiniteSet(S)
  PROVE  IsFiniteSet(S \cup {x}) /\ Cardinality(S \cup {x}) <= Cardinality(S) + 1
<1>1. IsFiniteSet({x}) /\ Cardinality({x}) = 1
  BY FS_Singleton
<1> QED BY <1>1, UnionBound

\* What is accounted for is bounded by what metrics() and reserve() add up.
LEMMA TrackedBound ==
  ASSUME VolumeTypeOK
  PROVE  Cardinality(Tracked) + Cardinality(Reserved) <= UsedBytes + Cardinality(Reserving)
<1>1. PICK f : f = [o \in Recorded |-> inventory[o]]
  OBVIOUS
<1>2. PICK g : g = [o \in Written |-> job[o].receipt]
  OBVIOUS
<1>3. PICK A, B : A = {f[o] : o \in Recorded} /\ B = {g[o] : o \in Written}
  OBVIOUS
<1>4. A = {inventory[o] : o \in Recorded} /\ B = {job[o].receipt : o \in Written}
  BY <1>1, <1>2, <1>3
<1>5. IsFiniteSet(A) /\ Cardinality(A) <= Cardinality(Recorded)
  BY <1>1, <1>3, ImageBound, VolumeFinite
<1>6. IsFiniteSet(B) /\ Cardinality(B) <= Cardinality(Written)
  BY <1>2, <1>3, ImageBound, VolumeFinite
<1>7. IsFiniteSet(A \cup B) /\ Cardinality(A \cup B) <= Cardinality(A) + Cardinality(B)
  BY <1>5, <1>6, UnionBound
<1>8. IsFiniteSet((A \cup B) \cup quarantine)
      /\ Cardinality((A \cup B) \cup quarantine) <= Cardinality(A \cup B) + Cardinality(quarantine)
  BY <1>7, UnionBound, VolumeFinite
<1>9. Cardinality(Tracked) <= Cardinality((A \cup B) \cup quarantine)
  <2>1. Tracked \in SUBSET ((A \cup B) \cup quarantine)
    BY <1>4 DEF Tracked
  <2> QED BY <1>8, <2>1, FS_Subset
<1>10. Cardinality(Reserving) = Cardinality(Reserved) + Cardinality(Written)
  <2>1. Reserving = Reserved \cup Written /\ Reserved \cap Written = {}
    BY DEF Reserving, Reserved, Written
  <2>2. Cardinality(Reserved) \in Nat /\ Cardinality(Written) \in Nat
    BY VolumeFinite, FS_CardinalityType
  <2>3. Cardinality(Reserved \cup Written) = Cardinality(Reserved) + Cardinality(Written) - Cardinality(Reserved \cap Written)
    BY VolumeFinite, FS_Union
  <2> QED BY <2>1, <2>2, <2>3, FS_EmptySet
<1>11. UsedBytes = Cardinality(Recorded) + Cardinality(quarantine)
  BY DEF UsedBytes, Recorded
<1>12. /\ Cardinality(A) \in Nat /\ Cardinality(B) \in Nat /\ Cardinality(A \cup B) \in Nat
       /\ Cardinality((A \cup B) \cup quarantine) \in Nat /\ Cardinality(quarantine) \in Nat
       /\ Cardinality(Tracked) \in Nat /\ Cardinality(Reserved) \in Nat /\ Cardinality(Written) \in Nat
       /\ Cardinality(Recorded) \in Nat
  BY <1>5, <1>6, <1>7, <1>8, VolumeFinite, FS_CardinalityType
<1> QED BY <1>5, <1>6, <1>7, <1>8, <1>9, <1>10, <1>11, <1>12

\* A step that accounts for no more, and reserves no more, keeps the room.
LEMMA RoomKept ==
  ASSUME VolumeTypeOK, RoomForAll, Tracked' \in SUBSET Tracked, Reserved' \in SUBSET Reserved
  PROVE  RoomForAll'
<1>1. Cardinality(Tracked') <= Cardinality(Tracked) /\ IsFiniteSet(Tracked')
  BY VolumeFinite, FS_Subset
<1>2. Cardinality(Reserved') <= Cardinality(Reserved) /\ IsFiniteSet(Reserved')
  BY VolumeFinite, FS_Subset
<1>3. /\ Cardinality(Tracked') \in Nat /\ Cardinality(Tracked) \in Nat
      /\ Cardinality(Reserved') \in Nat /\ Cardinality(Reserved) \in Nat
  BY <1>1, <1>2, VolumeFinite, FS_CardinalityType
<1> QED BY <1>1, <1>2, <1>3, VolumeAssumption DEF RoomForAll

\* An empty volume.
LEMMA VolumeInitInv == VolumeInit => VolumeInv
<1> SUFFICES ASSUME VolumeInit PROVE VolumeInv
  OBVIOUS
<1> USE DEF VolumeInit
<1>1. VolumeTypeOK
  <2>1. 0 \in 0..MaxReceipts /\ 0 \in 0..MaxMishaps
    BY VolumeAssumption
  <2>2. NoJob \in [kind : {"none", "put", "copy", "delete"}, receipt : 0..MaxReceipts,
                   step : {"none", "pinned", "moved", "emptied", "reserved", "written", "unlinked"}]
    BY <2>1 DEF NoJob
  <2> QED BY <2>1, <2>2 DEF VolumeTypeOK
<1>2. FilesTracked /\ AsideTracked /\ JobsSound
  BY DEF FilesTracked, AsideTracked, JobsSound, NoJob
<1>3. RoomForAll
  <2>1. Tracked = {} /\ Reserved = {}
    BY DEF Tracked, Recorded, Written, Reserved, NoJob
  <2> QED BY <2>1, FS_EmptySet, VolumeAssumption DEF RoomForAll
<1> QED BY <1>1, <1>2, <1>3 DEF VolumeInv

\* A job that is pinned, moves a damaged file aside and records it, confirms, unlinks or
\* gives back: nothing more is accounted for.
LEMMA QuietJobInv ==
  ASSUME VolumeInv, NEW o \in Objects,
         \/ \E kind \in {"put", "copy", "delete"} : Pin(o, kind)
         \/ MoveAside(o) \/ Confirm(o) \/ UnlinkFile(o) \/ GiveBack(o)
  PROVE  VolumeInv'
<1> USE VolumeAssumption DEF VolumeInv, Release, To, NoJob
<1>1. ASSUME NEW kind \in {"put", "copy", "delete"}, Pin(o, kind) PROVE VolumeInv'
  <2>1. VolumeTypeOK'
    BY <1>1 DEF Pin, VolumeTypeOK
  <2>2. Recorded' = Recorded /\ Written' = Written /\ Reserved' = Reserved /\ Tracked' = Tracked
    BY <1>1 DEF Pin, VolumeTypeOK, Recorded, Written, Reserved, Tracked
  <2>3. FilesTracked' /\ AsideTracked' /\ JobsSound'
    BY <1>1 DEF Pin, VolumeTypeOK, FilesTracked, AsideTracked, JobsSound, Written
  <2> QED BY <2>1, <2>2, <2>3, RoomKept
<1>2. CASE MoveAside(o)
  <2>1. VolumeTypeOK'
    BY <1>2 DEF MoveAside, VolumeTypeOK, StoreIds
  <2>2. Recorded' = Recorded /\ Written' = Written /\ Reserved' = Reserved /\ Tracked' = Tracked
    BY <1>2 DEF MoveAside, VolumeTypeOK, Recorded, Written, Reserved, Tracked
  <2>3. FilesTracked' /\ AsideTracked' /\ JobsSound'
    BY <1>2 DEF MoveAside, VolumeTypeOK, FilesTracked, AsideTracked, JobsSound, Written
  <2> QED BY <2>1, <2>2, <2>3, RoomKept
<1>3. CASE Confirm(o)
  <2>1. VolumeTypeOK'
    BY <1>3 DEF Confirm, VolumeTypeOK
  <2>2. Recorded' = Recorded /\ Written' = Written /\ Reserved' = Reserved /\ Tracked' = Tracked
    BY <1>3 DEF Confirm, VolumeTypeOK, Recorded, Written, Reserved, Tracked
  <2>3. FilesTracked' /\ AsideTracked' /\ JobsSound'
    BY <1>3 DEF Confirm, VolumeTypeOK, FilesTracked, AsideTracked, JobsSound, Written
  <2> QED BY <2>1, <2>2, <2>3, RoomKept
<1>4. CASE UnlinkFile(o)
  <2>1. VolumeTypeOK'
    BY <1>4 DEF UnlinkFile, VolumeTypeOK
  <2>2. Recorded' = Recorded /\ Written' = Written /\ Reserved' = Reserved /\ Tracked' = Tracked
    BY <1>4 DEF UnlinkFile, VolumeTypeOK, Recorded, Written, Reserved, Tracked
  <2>3. FilesTracked' /\ AsideTracked' /\ JobsSound'
    BY <1>4 DEF UnlinkFile, VolumeTypeOK, FilesTracked, AsideTracked, JobsSound, Written
  <2> QED BY <2>1, <2>2, <2>3, RoomKept
<1>5. CASE GiveBack(o)
  <2>1. VolumeTypeOK'
    BY <1>5 DEF GiveBack, VolumeTypeOK
  <2>2. Recorded' = Recorded /\ Written' = Written /\ Reserved' \in SUBSET Reserved /\ Tracked' = Tracked
    BY <1>5 DEF GiveBack, VolumeTypeOK, Recorded, Written, Reserved, Tracked
  <2>3. FilesTracked' /\ AsideTracked' /\ JobsSound'
    BY <1>5 DEF GiveBack, VolumeTypeOK, FilesTracked, AsideTracked, JobsSound, Written
  <2> QED BY <2>1, <2>2, <2>3, RoomKept
<1> QED BY <1>1, <1>2, <1>3, <1>4, <1>5

\* A record goes from the inventory to the quarantine, or is forgotten, with what only it
\* knew of.
LEMMA RecordGoneInv ==
  ASSUME VolumeInv, NEW o \in Objects, RecordAside(o) \/ ForgetRecord(o)
  PROVE  VolumeInv'
<1> USE VolumeAssumption DEF VolumeInv, Release, To, NoJob
<1>0. 0 \in 0..MaxReceipts
  OBVIOUS
<1>1. CASE RecordAside(o)
  <2>0. inventory[o] # 0
    BY <1>1 DEF RecordAside, JobsSound
  <2>1. VolumeTypeOK'
    BY <1>0, <1>1, <2>0 DEF RecordAside, VolumeTypeOK, StoreIds
  <2>2. Written' = Written /\ Reserved' = Reserved /\ Recorded' = Recorded \ {o}
    BY <1>1 DEF RecordAside, VolumeTypeOK, Recorded, Written, Reserved
  <2>3. Tracked' \in SUBSET Tracked
    BY <1>1, <2>0, <2>2 DEF RecordAside, VolumeTypeOK, Recorded, Written, Tracked
  <2>4. FilesTracked' /\ AsideTracked' /\ JobsSound'
    BY <1>1 DEF RecordAside, VolumeTypeOK, FilesTracked, AsideTracked, JobsSound, Written
  <2> QED BY <2>1, <2>2, <2>3, <2>4, RoomKept
<1>2. CASE ForgetRecord(o)
  <2>1. VolumeTypeOK'
    BY <1>0, <1>2 DEF ForgetRecord, Untracked, VolumeTypeOK
  <2>2. Written' = Written /\ Reserved' = Reserved /\ Recorded' = Recorded \ {o}
    BY <1>2 DEF ForgetRecord, VolumeTypeOK, Recorded, Written, Reserved
  <2>3. Tracked' \in SUBSET Tracked
    BY <1>2, <2>2 DEF ForgetRecord, VolumeTypeOK, Recorded, Written, Tracked
  <2>4. FilesTracked' /\ JobsSound'
    BY <1>2 DEF ForgetRecord, VolumeTypeOK, FilesTracked, JobsSound, Written
  <2>5. AsideTracked'
    BY <1>2 DEF ForgetRecord, Untracked, VolumeTypeOK, AsideTracked
  <2> QED BY <2>1, <2>2, <2>3, <2>4, <2>5, RoomKept
<1> QED BY <1>1, <1>2

\* A reservation is made when metrics() and the reservations leave room.
LEMMA TakeSpaceInv ==
  ASSUME VolumeInv, NEW o \in Objects, TakeSpace(o)
  PROVE  VolumeInv'
<1> USE VolumeAssumption DEF VolumeInv, TakeSpace, To
<1>1. VolumeTypeOK'
  BY DEF VolumeTypeOK
<1>2. FilesTracked' /\ AsideTracked' /\ JobsSound'
  BY DEF VolumeTypeOK, FilesTracked, AsideTracked, JobsSound, Written
<1>3. Recorded' = Recorded /\ Written' = Written /\ Reserved' = Reserved \cup {o} /\ Tracked' = Tracked
  BY DEF VolumeTypeOK, Recorded, Written, Reserved, Tracked
<1>4. Cardinality(Reserved') <= Cardinality(Reserved) + 1 /\ IsFiniteSet(Reserved')
  BY <1>3, VolumeFinite, AddBound
<1>5. Cardinality(Tracked) + Cardinality(Reserved) + 1 <= Capacity
  <2>1. Cardinality(Tracked) \in Nat /\ Cardinality(Reserved) \in Nat /\ Cardinality(Reserving) \in Nat /\ UsedBytes \in Nat
    <3>1. IsFiniteSet(Reserving)
      BY FS_Subset DEF Reserving
    <3>2. Cardinality(Recorded) \in Nat /\ Cardinality(quarantine) \in Nat
      BY VolumeFinite, FS_CardinalityType
    <3>3. UsedBytes \in Nat
      BY <3>2 DEF UsedBytes, Recorded
    <3> QED BY <3>1, <3>3, VolumeFinite, FS_CardinalityType
  <2>2. UsedBytes + Cardinality(Reserving) + 1 <= Capacity
    BY DEF CanReserve
  <2> QED BY <2>1, <2>2, TrackedBound
<1>6. RoomForAll'
  <2>1. Cardinality(Tracked) \in Nat /\ Cardinality(Reserved) \in Nat /\ Cardinality(Reserved') \in Nat
    BY <1>4, VolumeFinite, FS_CardinalityType
  <2> QED BY <1>3, <1>4, <1>5, <2>1 DEF RoomForAll
<1> QED BY <1>1, <1>2, <1>6

\* The staged file takes the block's name: what was reserved is accounted for.
LEMMA StoreInv ==
  ASSUME VolumeInv, NEW o \in Objects, Store(o)
  PROVE  VolumeInv'
<1> USE VolumeAssumption DEF VolumeInv, Store
<1>0. stores + 1 \in StoreIds /\ stores + 1 \in 0..MaxReceipts /\ stores + 1 # 0
  BY DEF VolumeTypeOK, StoreIds
<1>1. VolumeTypeOK'
  BY <1>0 DEF VolumeTypeOK
<1>2. FilesTracked' /\ AsideTracked' /\ JobsSound'
  BY <1>0 DEF VolumeTypeOK, FilesTracked, AsideTracked, JobsSound, Written
<1>3. Recorded' = Recorded /\ Written' = Written \cup {o} /\ Reserved' = Reserved \ {o} /\ o \in Reserved
  BY DEF VolumeTypeOK, Recorded, Written, Reserved
<1>4. Tracked' \in SUBSET (Tracked \cup {stores + 1})
  BY <1>3 DEF VolumeTypeOK, Recorded, Written, Tracked
<1>5. IsFiniteSet(Tracked') /\ Cardinality(Tracked') <= Cardinality(Tracked) + 1
  <2>1. IsFiniteSet(Tracked \cup {stores + 1}) /\ Cardinality(Tracked \cup {stores + 1}) <= Cardinality(Tracked) + 1
    BY VolumeFinite, AddBound
  <2>2. IsFiniteSet(Tracked') /\ Cardinality(Tracked') <= Cardinality(Tracked \cup {stores + 1})
    BY <1>4, <2>1, FS_Subset
  <2>3. Cardinality(Tracked') \in Nat /\ Cardinality(Tracked) \in Nat /\ Cardinality(Tracked \cup {stores + 1}) \in Nat
    BY <2>1, <2>2, VolumeFinite, FS_CardinalityType
  <2> QED BY <2>1, <2>2, <2>3
<1>6. IsFiniteSet(Reserved') /\ Cardinality(Reserved') = Cardinality(Reserved) - 1
  BY <1>3, VolumeFinite, FS_RemoveElement
<1>7. RoomForAll'
  <2>1. /\ Cardinality(Tracked) \in Nat /\ Cardinality(Reserved) \in Nat
        /\ Cardinality(Tracked') \in Nat /\ Cardinality(Reserved') \in Nat
    BY <1>5, <1>6, VolumeFinite, FS_CardinalityType
  <2> QED BY <1>5, <1>6, <2>1 DEF RoomForAll
<1> QED BY <1>1, <1>2, <1>7

\* The file is recorded, or, after an error, becomes a stray.
LEMMA RecordInv ==
  ASSUME VolumeInv, NEW o \in Objects, Record(o) \/ FailAfterRename(o)
  PROVE  VolumeInv'
<1> USE VolumeAssumption DEF VolumeInv, Release, NoJob
<1>0. o \in Written /\ inventory[o] = 0 /\ named[o] = job[o].receipt /\ named[o] # 0
  BY DEF Record, FailAfterRename, JobsSound, Written
<1>1. CASE Record(o)
  <2>1. VolumeTypeOK'
    BY <1>1 DEF Record, VolumeTypeOK
  <2>2. Written' = Written \ {o} /\ Reserved' = Reserved /\ Recorded' = Recorded \cup {o}
    BY <1>0, <1>1 DEF Record, VolumeTypeOK, Recorded, Written, Reserved
  <2>3. Tracked' \in SUBSET Tracked
    BY <1>0, <1>1, <2>2 DEF Record, VolumeTypeOK, Recorded, Written, Tracked
  <2>4. FilesTracked' /\ JobsSound'
    BY <1>0, <1>1 DEF Record, VolumeTypeOK, FilesTracked, JobsSound, Written
  <2>5. AsideTracked'
    <3> SUFFICES ASSUME NEW r \in aside PROVE r \in strays \cup quarantine \/ \E u \in Objects : inventory'[u] = r
      BY <1>1 DEF Record, AsideTracked
    <3>1. r # 0
      BY DEF VolumeTypeOK, StoreIds
    <3> QED BY <1>0, <1>1, <3>1 DEF Record, VolumeTypeOK, AsideTracked
  <2> QED BY <2>1, <2>2, <2>3, <2>4, <2>5, RoomKept
<1>2. CASE FailAfterRename(o)
  <2>1. VolumeTypeOK'
    <3>1. mishaps' \in 0..MaxMishaps /\ named[o] \in StoreIds
      BY <1>0, <1>2 DEF FailAfterRename, VolumeTypeOK, StoreIds
    <3> QED BY <1>2, <3>1 DEF FailAfterRename, VolumeTypeOK
  <2>2. Written' = Written \ {o} /\ Reserved' = Reserved /\ Recorded' = Recorded
    BY <1>2 DEF FailAfterRename, VolumeTypeOK, Recorded, Written, Reserved
  <2>3. Tracked' \in SUBSET Tracked
    BY <1>2, <2>2 DEF FailAfterRename, VolumeTypeOK, Recorded, Written, Tracked
  <2>4. FilesTracked' /\ AsideTracked' /\ JobsSound'
    BY <1>0, <1>2 DEF FailAfterRename, VolumeTypeOK, FilesTracked, AsideTracked, JobsSound, Written
  <2> QED BY <2>1, <2>2, <2>3, <2>4, RoomKept
<1> QED BY <1>1, <1>2

\* A new process records the files that have no record: those that were about to be.
LEMMA RestartInv ==
  ASSUME VolumeInv, Restart
  PROVE  VolumeInv'
<1> USE VolumeAssumption DEF VolumeInv, Restart, NoJob
<1>1. VolumeTypeOK'
  <2>1. mishaps' \in 0..MaxMishaps /\ 0 \in 0..MaxReceipts
    BY DEF VolumeTypeOK
  <2> QED BY <2>1 DEF VolumeTypeOK
<1>2. Written' = {} /\ Reserved' = {}
  BY DEF Written, Reserved
<1>3. Tracked' \in SUBSET Tracked
  <2> SUFFICES ASSUME NEW r \in Tracked' PROVE r \in Tracked
    OBVIOUS
  <2>1. r \notin strays /\ (r \in quarantine \/ \E o \in Objects : inventory'[o] # 0 /\ r = inventory'[o])
    BY <1>2 DEF Tracked, Recorded
  <2>2. CASE r \in quarantine
    BY <2>1, <2>2 DEF Tracked
  <2>3. ASSUME NEW o \in Objects, inventory'[o] # 0, r = inventory'[o] PROVE r \in Tracked
    <3>1. CASE inventory[o] # 0
      BY <2>1, <2>3, <3>1 DEF Tracked, Recorded
    <3>2. CASE inventory[o] = 0
      <4>1. r = named[o] /\ r # 0
        BY <2>3, <3>2
      <4>2. o \in Written /\ r = job[o].receipt
        BY <2>1, <3>2, <4>1 DEF FilesTracked
      <4> QED BY <2>1, <4>2 DEF Tracked
    <3> QED BY <3>1, <3>2
  <2> QED BY <2>1, <2>2, <2>3
<1>4. FilesTracked'
  BY DEF FilesTracked, JobsSound, Written
<1>5. AsideTracked'
  <2> SUFFICES ASSUME NEW r \in aside PROVE r \in strays \cup quarantine \/ \E u \in Objects : inventory'[u] = r
    BY DEF AsideTracked
  <2>1. r # 0
    BY DEF VolumeTypeOK, StoreIds
  <2> QED BY <2>1 DEF AsideTracked
<1>6. JobsSound'
  BY DEF JobsSound
<1> QED BY <1>1, <1>2, <1>3, <1>4, <1>5, <1>6, RoomKept

\* The volume keeps its accounts, however jobs overlap, fail and die.
THEOREM VolumeCorrect == VolumeSpec => []VolumeInv
<1>1. VolumeInv /\ [VolumeNext]_volumeVars => VolumeInv'
  <2> SUFFICES ASSUME VolumeInv, [VolumeNext]_volumeVars PROVE VolumeInv'
    OBVIOUS
  <2>1. CASE UNCHANGED volumeVars
    BY <2>1 DEF volumeVars, VolumeInv, VolumeTypeOK, FilesTracked, AsideTracked, JobsSound, RoomForAll,
                Tracked, Recorded, Written, Reserved
  <2>2. CASE Restart
    BY <2>2, RestartInv
  <2>3. ASSUME NEW o \in Objects,
               \/ \E kind \in {"put", "copy", "delete"} : Pin(o, kind)
               \/ MoveAside(o) \/ Confirm(o) \/ UnlinkFile(o) \/ GiveBack(o)
        PROVE VolumeInv'
    BY <2>3, QuietJobInv
  <2>4. ASSUME NEW o \in Objects,
               \/ RecordAside(o) \/ ForgetRecord(o) \/ TakeSpace(o) \/ Store(o) \/ Record(o) \/ FailAfterRename(o)
        PROVE VolumeInv'
    BY <2>4, RecordGoneInv, TakeSpaceInv, StoreInv, RecordInv
  <2> QED BY <2>1, <2>2, <2>3, <2>4 DEF VolumeNext
<1> QED BY <1>1, VolumeInitInv, PTL DEF VolumeSpec

\* Files and what is being staged never take more than the capacity, for any number of blocks,
\* jobs and deaths (WithinCapacity).
THEOREM CapacityKept == VolumeSpec => []WithinCapacity
<1>1. VolumeInv => WithinCapacity
  <2> SUFFICES ASSUME VolumeInv PROVE WithinCapacity
    OBVIOUS
  <2> USE DEF VolumeInv
  <2>1. PICK F : F = ({named[o] : o \in Objects} \cup aside) \ (strays \cup {0})
    OBVIOUS
  <2>2. F \in SUBSET Tracked
    <3> SUFFICES ASSUME NEW r \in F PROVE r \in Tracked
      OBVIOUS
    <3>1. r \notin strays /\ r # 0
      BY <2>1
    <3>2. ASSUME NEW o \in Objects, r = named[o] PROVE r \in Tracked
      BY <3>1, <3>2 DEF FilesTracked, Tracked, Recorded, Written
    <3>3. ASSUME r \in aside PROVE r \in Tracked
      BY <3>1, <3>3 DEF AsideTracked, Tracked, Recorded
    <3> QED BY <2>1, <3>2, <3>3
  <2>3. IsFiniteSet(F) /\ Cardinality(F) <= Cardinality(Tracked)
    BY <2>2, VolumeFinite, FS_Subset
  <2>4. {o \in Reserving : job[o].step = "reserved"} = Reserved
    BY DEF Reserving, Reserved
  <2>5. Cardinality(F) \in Nat /\ Cardinality(Tracked) \in Nat /\ Cardinality(Reserved) \in Nat
    BY <2>3, VolumeFinite, FS_CardinalityType
  <2>6. Cardinality(F) + Cardinality(Reserved) <= Capacity
    BY <2>3, <2>5, VolumeAssumption DEF RoomForAll
  <2> QED BY <2>1, <2>4, <2>6 DEF WithinCapacity
<1> QED BY <1>1, VolumeCorrect, PTL
=============================================================================
