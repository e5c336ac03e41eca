----------------------------- MODULE Migration -----------------------------
(***************************************************************************)
(* The transition from SQLite to etcd: several runs of migrate, each with   *)
(* its own source file, into one etcd prefix, beside the controls that use  *)
(* the sources.  Activation is the creation of the root the HA controls use.*)
(*                                                                          *)
(* A record is <<source, n>>, the n-th one that source committed; n = 0 is  *)
(* the record settings/system, which has the same identity in every source. *)
(* What migrate changes in a record (it ends sessions, handles, operations  *)
(* and tasks) is left out; that it carries every record over is not.        *)
(***************************************************************************)
EXTENDS Integers, FiniteSets

CONSTANTS
  Sources,     \* SQLite files
  Runs,        \* executions of migrate
  MaxRecords   \* records a source ever gets besides settings/system

Records == Sources \X (0..MaxRecords)
Nobody == "nobody"
Control == "control"

ASSUME RecordsAssumption == MaxRecords \in Nat /\ Runs \cap {Nobody, Control} = {}

VARIABLES
  sqlite,     \* records of each source
  disabled,   \* its flag authority_migrated
  owner,      \* who holds the lock on its `.owner' file
  server,     \* the control of each source: "off", "checked", "serving"
  run,        \* each execution of migrate: source, step, backup, what is left to import, root read
  importRoot, \* records under the staging root of the prefix
  activeRoot, \* records under the root the HA controls use
  active,     \* whether that root exists
  frozen      \* history: records of a source when it was disabled

migrationVars == <<sqlite, disabled, owner, server, run, importRoot, activeRoot, active, frozen>>

Steps == {"new", "started", "locked", "backed", "disabled", "verified", "read", "done", "failed",
          "lost"}  \* failed, with its activating transaction perhaps on its way to etcd

MigrationTypeOK ==
  /\ sqlite \in [Sources -> SUBSET Records] /\ frozen \in [Sources -> SUBSET Records]
  /\ disabled \in [Sources -> BOOLEAN]
  /\ owner \in [Sources -> {Nobody, Control} \cup Runs]
  /\ server \in [Sources -> {"off", "checked", "serving"}]
  /\ run \in [Runs -> [source : Sources, step : Steps, backup : SUBSET Records,
                      left : SUBSET Records, read : SUBSET Records]]
  /\ importRoot \subseteq Records /\ activeRoot \subseteq Records
  /\ active \in BOOLEAN

MigrationInit ==
  /\ sqlite = [s \in Sources |-> {<<s, 0>>}] /\ frozen = [s \in Sources |-> {}]
  /\ disabled = [s \in Sources |-> FALSE]
  /\ owner = [s \in Sources |-> Nobody]
  /\ server = [s \in Sources |-> "off"]
  /\ run \in [Runs -> [source : Sources, step : {"new"}, backup : {{}}, left : {{}}, read : {{}}]]
  /\ importRoot = {} /\ activeRoot = {} /\ active = FALSE

-----------------------------------------------------------------------------
(* Controls.                                                                *)

\* Monolith.__init__ reads the flag first ...
ControlChecks(s) ==
  /\ server[s] = "off" /\ ~disabled[s]
  /\ server' = [server EXCEPT ![s] = "checked"]
  /\ UNCHANGED <<sqlite, disabled, owner, run, importRoot, activeRoot, active, frozen>>

\* ... and takes the lock later, or fails: STORAGE_ALREADY_OPEN.
ControlLocks(s) ==
  /\ server[s] = "checked"
  /\ \/ /\ owner[s] = Nobody
        /\ owner' = [owner EXCEPT ![s] = Control]
        /\ server' = [server EXCEPT ![s] = "serving"]
     \/ /\ owner[s] # Nobody
        /\ server' = [server EXCEPT ![s] = "off"]
        /\ UNCHANGED owner
  /\ UNCHANGED <<sqlite, disabled, run, importRoot, activeRoot, active, frozen>>

ControlCommits(s) ==
  /\ server[s] = "serving"
  /\ \E n \in 1..MaxRecords :
       /\ <<s, n>> \notin sqlite[s] /\ \A m \in 1..(n - 1) : <<s, m>> \in sqlite[s]
       /\ sqlite' = [sqlite EXCEPT ![s] = @ \cup {<<s, n>>}]
  /\ UNCHANGED <<disabled, owner, server, run, importRoot, activeRoot, active, frozen>>

\* It stops, or dies: the lock ends with the process.
ControlStops(s) ==
  /\ server[s] # "off"
  /\ server' = [server EXCEPT ![s] = "off"]
  /\ owner' = IF owner[s] = Control THEN [owner EXCEPT ![s] = Nobody] ELSE owner
  /\ UNCHANGED <<sqlite, disabled, run, importRoot, activeRoot, active, frozen>>

-----------------------------------------------------------------------------
(* migrate.                                                                 *)

Step(m, step) == [run EXCEPT ![m].step = step]
Source(m) == run[m].source
Holding == {"locked", "backed", "disabled", "verified", "read"}

\* It refuses to start on a prefix that has a root.
Begin(m) ==
  /\ run[m].step = "new"
  /\ run' = Step(m, IF active THEN "failed" ELSE "started")
  /\ UNCHANGED <<sqlite, disabled, owner, server, importRoot, activeRoot, active, frozen>>

\* The lock on the `.owner' file, without waiting.
Free(s) == owner[s] = Nobody

TakeOwner(m) ==
  /\ run[m].step = "started"
  /\ \/ /\ Free(Source(m))
        /\ owner' = [owner EXCEPT ![Source(m)] = m]
        /\ run' = Step(m, "locked")
     \/ /\ ~Free(Source(m))
        /\ run' = Step(m, "failed")
        /\ UNCHANGED owner
  /\ UNCHANGED <<sqlite, disabled, server, importRoot, activeRoot, active, frozen>>

Backup(m) ==
  /\ run[m].step = "locked"
  /\ run' = [run EXCEPT ![m].step = "backed", ![m].backup = sqlite[Source(m)],
                             ![m].left = sqlite[Source(m)]]
  /\ UNCHANGED <<sqlite, disabled, owner, server, importRoot, activeRoot, active, frozen>>

\* The end of a run releases the lock (the finally of migrate).
Ends(m, step) ==
  /\ run' = Step(m, step)
  /\ owner' = [owner EXCEPT ![Source(m)] = Nobody]
Fail(m) == Ends(m, "failed")

\* The flag is set once.
Disable(m) ==
  /\ run[m].step = "backed"
  /\ \/ /\ ~disabled[Source(m)]
        /\ disabled' = [disabled EXCEPT ![Source(m)] = TRUE]
        /\ frozen' = [frozen EXCEPT ![Source(m)] = sqlite[Source(m)]]
        /\ run' = Step(m, "disabled")
        /\ UNCHANGED owner
     \/ /\ disabled[Source(m)]
        /\ Fail(m)
        /\ UNCHANGED <<disabled, frozen>>
  /\ UNCHANGED <<sqlite, server, importRoot, activeRoot, active>>

\* A batch of records is written under the staging root, over those of the same identity.
Import(m) ==
  /\ run[m].step = "disabled"
  /\ \E r \in run[m].left :
       /\ importRoot' = {x \in importRoot : ~(x[2] = 0 /\ r[2] = 0)} \cup {r}
       /\ run' = [run EXCEPT ![m].left = @ \ {r}]
  /\ UNCHANGED <<sqlite, disabled, owner, server, activeRoot, active, frozen>>

\* Every record of the backup is read back from the staging root as it was written, or
\* MIGRATION_VERIFICATION_FAILED.
Verify(m) ==
  /\ run[m].step = "disabled" /\ run[m].left = {}
  /\ \/ /\ run[m].backup \subseteq importRoot
        /\ run' = Step(m, "verified")
        /\ UNCHANGED owner
     \/ /\ ~(run[m].backup \subseteq importRoot)
        /\ Fail(m)
  /\ UNCHANGED <<sqlite, disabled, server, importRoot, activeRoot, active, frozen>>

\* The staging root is read: another run may have written there since it was verified.
ReadImportRoot(m) ==
  /\ run[m].step = "verified"
  /\ run' = [run EXCEPT ![m].step = "read", ![m].read = importRoot]
  /\ UNCHANGED <<sqlite, disabled, owner, server, importRoot, activeRoot, active, frozen>>

\* Mutant: the root is put, whatever is there.
VacantAlways == TRUE
\* The compare of the activating transaction: create only.
Vacant == ~active

\* The activating transaction, through a channel that repeats it at another endpoint: it is
\* applied and the answer comes; it is applied, and the answer is lost or is that of a
\* repetition that was refused because the first one was applied; it is refused; or no answer
\* comes and it may be applied later.
Activate(m) ==
  /\ run[m].step = "read"
  /\ \/ /\ Vacant
        /\ active' = TRUE /\ activeRoot' = run[m].read
        /\ \E step \in {"done", "failed"} : Ends(m, step)
     \/ /\ ~Vacant
        /\ Fail(m)
        /\ UNCHANGED <<active, activeRoot>>
     \/ /\ Ends(m, "lost")
        /\ UNCHANGED <<active, activeRoot>>
  /\ UNCHANGED <<sqlite, disabled, server, importRoot, frozen>>

\* etcd applies the transaction of a run that has given up.
ActivatesLate(m) ==
  /\ run[m].step = "lost"
  /\ Vacant
  /\ active' = TRUE /\ activeRoot' = run[m].read
  /\ run' = Step(m, "failed")
  /\ UNCHANGED <<sqlite, disabled, owner, server, importRoot, frozen>>

\* The process dies.
Dies(m) ==
  /\ run[m].step \in Holding
  /\ Fail(m)
  /\ UNCHANGED <<sqlite, disabled, server, importRoot, activeRoot, active, frozen>>

MigrationNext ==
  \/ \E s \in Sources : ControlChecks(s) \/ ControlLocks(s) \/ ControlCommits(s) \/ ControlStops(s)
  \/ \E m \in Runs : \/ Begin(m) \/ TakeOwner(m) \/ Backup(m) \/ Disable(m) \/ Import(m)
                     \/ Verify(m) \/ ReadImportRoot(m) \/ Activate(m) \/ ActivatesLate(m) \/ Dies(m)

MigrationSpec == MigrationInit /\ [][MigrationNext]_migrationVars

-----------------------------------------------------------------------------
(* Properties.                                                              *)

\* What a source held when it was disabled is in a backup and, once the run that disabled
\* it reports success, under the active root: the only step that takes the authority
\* away comes after the backup, wherever the run dies (migrate).  A second run from another
\* source that writes to the staging root at the same time can still replace records that
\* have the same identity there, between the verification and the reading of the root.
\* At most one run reports success: the HA controls may be serving from that root by then (its
\* check of the prefix at the start would not be enough).  A run that reports a failure may
\* have activated its root all the same, or do so later.
NothingLost ==
  /\ \A m, k \in Runs : run[m].step = "done" /\ run[k].step = "done" => m = k
  /\ \A s \in Sources : disabled[s] => \E m \in Runs : Source(m) = s /\ frozen[s] \subseteq run[m].backup
  /\ \A m \in Runs : run[m].step = "done" =>
       \A r \in frozen[Source(m)] : r \in activeRoot \/ (r[2] = 0 /\ \E k \in Runs : Source(k) # Source(m) /\ disabled[Source(k)])
=============================================================================
