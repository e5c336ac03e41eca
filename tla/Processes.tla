----------------------------- MODULE Processes -----------------------------
(***************************************************************************)
(* The processes of one control or one DataNode over its volume: start,     *)
(* recovery, listeners, drain and stop, under supervisors that start them,  *)
(* wait for the ready file, ask them to stop, give up waiting, and may be    *)
(* replaced by one that knows nothing of a process that still runs.         *)
(*                                                                          *)
(* The volume has an owner lock, which the system releases when a process   *)
(* dies.  Handlers run in the thread pools of the listeners and outlive the *)
(* grace period; copies run in a pool of the DataNode.                      *)
(***************************************************************************)
EXTENDS Integers

CONSTANTS
  MaxStarts,  \* processes ever started
  MaxKills    \* deaths, failed listeners and supervisors that give up, together

ASSUME ProcessesAssumption == MaxStarts \in Nat /\ MaxKills \in Nat

Procs == 1..MaxStarts
NoProcess == 0

VARIABLES
  role,       \* "control" or "node"
  phase,      \* of each process
  lockedBy,   \* who holds the owner lock
  counted,    \* generation in the volume's settings
  generation, \* generation each process took, 0 for none
  leftovers,  \* a dead process left staged files, uploads in preparation or half-done tasks
  handler,    \* processes with a handler under way
  copying,    \* processes with a copy in the pool
  readyFile,  \* who wrote it, NoProcess when there is none
  stopFile,
  tracked,    \* process the supervisor started
  kills

processesVars == <<role, phase, lockedBy, counted, generation, leftovers, handler, copying,
                   readyFile, stopFile, tracked, kills>>
ownership == <<lockedBy, counted, generation, leftovers>>
controlFiles == <<readyFile, stopFile>>

Serving == {"public", "listening", "ready"}
ProcPhases == Serving \cup {"off", "booting", "locked", "counted", "recovered", "draining", "drained",
                        "unlocked", "ended"}

ProcessesTypeOK ==
  /\ role \in {"control", "node"} /\ phase \in [Procs -> ProcPhases]
  /\ lockedBy \in Procs \cup {NoProcess} /\ counted \in 0..MaxStarts
  /\ generation \in [Procs -> 0..MaxStarts] /\ leftovers \in BOOLEAN
  /\ handler \subseteq Procs /\ copying \subseteq Procs
  /\ readyFile \in Procs \cup {NoProcess} /\ stopFile \in BOOLEAN
  /\ tracked \in Procs \cup {NoProcess} /\ kills \in 0..MaxKills

ProcessesInit ==
  /\ role \in {"control", "node"}
  /\ phase = [p \in Procs |-> "off"]
  /\ lockedBy = NoProcess /\ counted = 0 /\ generation = [p \in Procs |-> 0] /\ leftovers = FALSE
  /\ handler = {} /\ copying = {}
  /\ readyFile = NoProcess /\ stopFile = FALSE /\ tracked = NoProcess /\ kills = 0

Moves(p, from, to) == phase[p] = from /\ phase' = [phase EXCEPT ![p] = to]

-----------------------------------------------------------------------------
(* The supervisor.                                                          *)

\* start(): removes the ready and stop files of whoever had them and launches a process.
Launch(p) ==
  /\ tracked = NoProcess
  /\ \A q \in Procs : q < p => phase[q] # "off"
  /\ Moves(p, "off", "booting")
  /\ readyFile' = NoProcess /\ stopFile' = FALSE /\ tracked' = p
  /\ UNCHANGED <<role, ownership, handler, copying, kills>>

\* stop(): the stop file.
TouchStop ==
  /\ tracked # NoProcess /\ phase[tracked] # "ended" /\ ~stopFile
  /\ stopFile' = TRUE
  /\ UNCHANGED <<role, phase, ownership, handler, copying, readyFile, tracked, kills>>

\* stop() has waited for the end of its process, or start() sees that it failed.
Reaped ==
  /\ tracked # NoProcess /\ phase[tracked] = "ended"
  /\ tracked' = NoProcess
  /\ UNCHANGED <<role, phase, ownership, handler, copying, controlFiles, kills>>

\* Waiting ends with an error, or the supervisor dies: its process goes on.
StopWaiting ==
  /\ tracked # NoProcess /\ kills < MaxKills
  /\ tracked' = NoProcess /\ kills' = kills + 1
  /\ UNCHANGED <<role, phase, ownership, handler, copying, controlFiles>>

\* The process dies: killed, or by SIGTERM before serve() handles it.
Kill(p) ==
  /\ phase[p] \notin {"off", "ended"} /\ kills < MaxKills
  /\ kills' = kills + 1
  /\ phase' = [phase EXCEPT ![p] = "ended"]
  /\ lockedBy' = IF lockedBy = p THEN NoProcess ELSE lockedBy
  /\ leftovers' = (leftovers \/ p \in handler \cup copying)
  /\ handler' = handler \ {p} /\ copying' = copying \ {p}
  /\ UNCHANGED <<role, counted, generation, controlFiles, tracked>>

-----------------------------------------------------------------------------
(* A process.                                                               *)

\* Monolith.__init__, DataNode.__init__: the lock, without waiting for it.
TakeLock(p) ==
  /\ Moves(p, "booting", IF lockedBy = NoProcess THEN "locked" ELSE "ended")
  /\ lockedBy' = IF lockedBy = NoProcess THEN p ELSE lockedBy
  /\ UNCHANGED <<role, counted, generation, leftovers, handler, copying, controlFiles, tracked, kills>>

\* DataNode.__init__: a new boot generation; a control has none.
CountBoot(p) ==
  /\ Moves(p, "locked", "counted")
  /\ counted' = IF role = "node" THEN counted + 1 ELSE counted
  /\ generation' = [generation EXCEPT ![p] = counted']
  /\ UNCHANGED <<role, lockedBy, leftovers, handler, copying, controlFiles, tracked, kills>>

\* collect(restart=True), recover_unindexed_objects(): what the last process left is put
\* in order before the first listener exists.
RecoverVolume(p) ==
  /\ Moves(p, "counted", "recovered")
  /\ leftovers' = FALSE
  /\ UNCHANGED <<role, lockedBy, counted, generation, handler, copying, controlFiles, tracked, kills>>

\* serve(): the public listener is started, then the internal one, then the ready file.
OpenPublic(p) ==
  /\ Moves(p, "recovered", "public")
  /\ UNCHANGED <<role, ownership, handler, copying, controlFiles, tracked, kills>>

OpenInternal(p) ==
  /\ Moves(p, "public", "listening")
  /\ UNCHANGED <<role, ownership, handler, copying, controlFiles, tracked, kills>>

\* A listener that cannot be opened ends the process the way a stop does.
ListenerFails(p) ==
  /\ kills < MaxKills
  /\ kills' = kills + 1
  /\ Moves(p, "recovered", "draining") \/ Moves(p, "public", "draining")
  /\ UNCHANGED <<role, ownership, handler, copying, controlFiles, tracked>>

WriteReady(p) ==
  /\ Moves(p, "listening", "ready")
  /\ readyFile' = p
  /\ UNCHANGED <<role, ownership, handler, copying, stopFile, tracked, kills>>

\* A request on a listener that is open; a DataNode may hand a copy to its pool.
BeginRequest(p) ==
  /\ phase[p] \in Serving /\ p \notin handler
  /\ handler' = handler \cup {p}
  /\ UNCHANGED <<role, phase, ownership, copying, controlFiles, tracked, kills>>

SubmitCopy(p) ==
  /\ role = "node" /\ p \in handler \ copying
  /\ copying' = copying \cup {p}
  /\ UNCHANGED <<role, phase, ownership, handler, controlFiles, tracked, kills>>

EndRequest(p) ==
  /\ p \in handler
  /\ handler' = handler \ {p}
  /\ UNCHANGED <<role, phase, ownership, copying, controlFiles, tracked, kills>>

EndCopy(p) ==
  /\ p \in copying
  /\ copying' = copying \ {p}
  /\ UNCHANGED <<role, phase, ownership, handler, controlFiles, tracked, kills>>

\* The loop of serve() sees the stop file, or SIGTERM after the supervisor waited in vain.
SeeStop(p) ==
  /\ stopFile
  /\ Moves(p, "ready", "draining")
  /\ UNCHANGED <<role, ownership, handler, copying, controlFiles, tracked, kills>>

\* server.stop() refuses new requests; after the grace period the pools are shut down, which
\* waits for the handlers that run.
GraceOver(p) == TRUE
DrainedNow(p) == p \notin handler

ShutPools(p) ==
  /\ DrainedNow(p)
  /\ Moves(p, "draining", "drained")
  /\ UNCHANGED <<role, ownership, handler, copying, controlFiles, tracked, kills>>

\* close(): the copies end, then the lock is released.
Unlock(p) ==
  /\ p \notin copying
  /\ Moves(p, "drained", "unlocked")
  /\ lockedBy' = NoProcess
  /\ UNCHANGED <<role, counted, generation, leftovers, handler, copying, controlFiles, tracked, kills>>

\* Last, the ready file, whoever wrote it.
RemoveReady(p) ==
  /\ Moves(p, "unlocked", "ended")
  /\ readyFile' = NoProcess
  /\ UNCHANGED <<role, ownership, handler, copying, stopFile, tracked, kills>>

ProcessesNext ==
  \/ TouchStop \/ Reaped \/ StopWaiting
  \/ \E p \in Procs :
       \/ Launch(p) \/ Kill(p) \/ TakeLock(p) \/ CountBoot(p) \/ RecoverVolume(p)
       \/ OpenPublic(p) \/ OpenInternal(p) \/ ListenerFails(p) \/ WriteReady(p) \/ BeginRequest(p)
       \/ SubmitCopy(p) \/ EndRequest(p) \/ EndCopy(p) \/ SeeStop(p) \/ ShutPools(p)
       \/ Unlock(p) \/ RemoveReady(p)

ProcessesSpec == ProcessesInit /\ [][ProcessesNext]_processesVars

-----------------------------------------------------------------------------

\* Requests and copies of a process touch the volume only while it owns it, after what an
\* earlier process left was put in order, and under a generation no other process has,
\* however processes overlap, drain, die and are replaced (serve, close, __init__).
OneWriter ==
  /\ \A p \in handler \cup copying :
       lockedBy = p /\ ~leftovers /\ generation[p] = counted
  /\ role = "node" => \A p, q \in Procs : generation[p] = generation[q] /\ p # q => generation[p] = 0
=============================================================================
