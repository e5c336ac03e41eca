------------------------------ MODULE Recovery ------------------------------
(***************************************************************************)
(* Backup of a laboratory in a maintenance window, plain or sealed in an    *)
(* archive, and its restoration as another cluster: metadata come from an   *)
(* etcd snapshot, blocks from a copy of the nodes' directories.             *)
(*                                                                          *)
(* The two are taken one after the other, while a transaction of a control  *)
(* that has ended may still be applied by etcd, and the scripts may die     *)
(* between any two steps.  A version stands for a snapshot of the one file  *)
(* and its only block, stored on the only node.                             *)
(***************************************************************************)
EXTENDS Integers, Sequences

CONSTANTS
  LabVersions,
  NoVersion,
  MaxBackups  \* backups and restorations begun, together

ASSUME RecoveryAssumption == MaxBackups \in Nat /\ NoVersion \notin LabVersions

VARIABLES
  labMeta,      \* the root in etcd
  sentTx,    \* commits on their way to etcd
  labDisk,      \* block files of the node
  labUp,        \* kinds of processes that run
  labKind,   \* "plain", or "protected": with encrypted metadata
  minted,    \* versions minted so far
  procedure, \* backup under way
  bundle,    \* the backup directory
  restored,  \* the restored laboratory
  attempts

recoveryVars == <<labMeta, sentTx, labDisk, labUp, labKind, minted, procedure, bundle, restored, attempts>>
laboratory == <<labMeta, sentTx, labDisk, labUp, labKind, minted>>

Metas == [epoch : Nat, current : LabVersions \cup {NoVersion}, held : SUBSET LabVersions,
          pins : SUBSET LabVersions, uploads : SUBSET LabVersions, orders : SUBSET LabVersions,
          sessions : BOOLEAN]
NoMeta == [epoch |-> 0, current |-> NoVersion, held |-> {}, pins |-> {}, uploads |-> {},
           orders |-> {}, sessions |-> FALSE]
NoBundle == [state |-> "none", meta |-> NoMeta, disk |-> {}]
NoLab == [state |-> "none", meta |-> NoMeta, disk |-> {}, configured |-> {}, released |-> {}]
NoBackup == 0
LabParts == {"control", "node"}

\* backup_lab and backup_protected_lab: what is done, in order.
BackupSteps == [plain |-> <<"control", "node", "quiet", "copy", "snapshot", "seal">>,
          protected |-> <<"node", "control", "quiet", "snapshot", "copy", "seal">>]

RecoveryTypeOK ==
  /\ labMeta \in Metas /\ sentTx \subseteq LabVersions /\ labDisk \subseteq LabVersions
  /\ labUp \subseteq LabParts /\ minted \subseteq LabVersions
  /\ labKind \in DOMAIN BackupSteps /\ procedure \in 0..6
  /\ bundle \in [state : {"none", "partial", "complete", "damaged"}, meta : Metas, disk : SUBSET LabVersions]
  /\ restored \in [state : {"none", "files", "etcd", "activated", "running", "stopped"}, meta : Metas,
                   disk : SUBSET LabVersions, configured : SUBSET LabParts, released : SUBSET LabVersions]
  /\ attempts \in 0..MaxBackups

RecoveryInit ==
  /\ labMeta = [NoMeta EXCEPT !.epoch = 1, !.sessions = TRUE]
  /\ sentTx = {} /\ labDisk = {} /\ labUp = LabParts /\ minted = {}
  /\ labKind \in DOMAIN BackupSteps
  /\ procedure = NoBackup /\ bundle = NoBundle /\ restored = NoLab /\ attempts = 0

-----------------------------------------------------------------------------
(* The laboratory, as far as a backup depends on it.                        *)

Works == labUp = LabParts
Changes(f, value) == labMeta' = [labMeta EXCEPT ![f] = value]
Script == <<labKind, procedure, bundle, restored, attempts>>

\* An upload begins, and its block is stored on the node.
StoreVersion(v) ==
  /\ Works /\ v \notin minted
  /\ minted' = minted \cup {v} /\ labDisk' = labDisk \cup {v}
  /\ Changes("uploads", labMeta.uploads \cup {v})
  /\ UNCHANGED <<sentTx, labUp, Script>>

\* A control sends the transaction that commits it, or gives the upload up.
SendVersion(v) ==
  /\ "control" \in labUp /\ v \in labMeta.uploads
  /\ sentTx' = sentTx \cup {v}
  /\ UNCHANGED <<labMeta, labDisk, labUp, minted, Script>>

AbortVersion(v) ==
  /\ "control" \in labUp /\ v \in labMeta.uploads
  /\ Changes("uploads", labMeta.uploads \ {v})
  /\ UNCHANGED <<sentTx, labDisk, labUp, minted, Script>>

\* etcd applies it, also after the control has ended; one whose upload is over fails.
ApplySent(v) ==
  /\ v \in sentTx
  /\ sentTx' = sentTx \ {v}
  /\ labMeta' = IF v \in labMeta.uploads
             THEN [labMeta EXCEPT !.current = v, !.uploads = @ \ {v}] ELSE labMeta
  /\ UNCHANGED <<labDisk, labUp, minted, Script>>

\* Handles hold the snapshot they opened.
OpenHandle ==
  /\ "control" \in labUp /\ labMeta.current # NoVersion
  /\ Changes("held", labMeta.held \cup {labMeta.current})
  /\ UNCHANGED <<sentTx, labDisk, labUp, minted, Script>>

CloseHandle(v) ==
  /\ "control" \in labUp /\ v \in labMeta.held
  /\ Changes("held", labMeta.held \ {v})
  /\ UNCHANGED <<sentTx, labDisk, labUp, minted, Script>>

NeededBy(m) == {m.current} \cup m.held \cup m.pins \cup m.uploads

\* A version nothing needs is retired, and the node deletes its file.
OrderDeletion(v) ==
  /\ "control" \in labUp /\ v \in labDisk \ (NeededBy(labMeta) \cup labMeta.orders)
  /\ Changes("orders", labMeta.orders \cup {v})
  /\ UNCHANGED <<sentTx, labDisk, labUp, minted, Script>>

DeleteFile(v) ==
  /\ Works /\ v \in labMeta.orders
  /\ labDisk' = labDisk \ {v}
  /\ Changes("orders", labMeta.orders \ {v})
  /\ UNCHANGED <<sentTx, labUp, minted, Script>>

\* Process.stop() by other hands, a crash, or the operator starts everything again.
ProcessEnds(p) ==
  /\ p \in labUp
  /\ labUp' = labUp \ {p}
  /\ UNCHANGED <<labMeta, sentTx, labDisk, minted, Script>>

StartLab ==
  /\ ~Works /\ procedure = NoBackup /\ restored.state = "none"
  /\ labUp' = LabParts
  /\ UNCHANGED <<labMeta, sentTx, labDisk, minted, Script>>

-----------------------------------------------------------------------------
(* The backup.                                                              *)

Doing(step) == procedure # NoBackup /\ BackupSteps[labKind][procedure] = step
Advance == procedure' = procedure + 1

\* The destination is a new directory.
BeginBackup ==
  /\ procedure = NoBackup /\ bundle.state = "none" /\ restored.state = "none" /\ attempts < MaxBackups
  /\ procedure' = 1
  /\ bundle' = [NoBundle EXCEPT !.state = "partial"]
  /\ attempts' = attempts + 1
  /\ UNCHANGED <<laboratory, restored>>

\* Every process is told to stop, and waited for.
StopForBackup(p) ==
  /\ Doing(p)
  /\ labUp' = labUp \ {p}
  /\ Advance
  /\ UNCHANGED <<labMeta, sentTx, labDisk, labKind, minted, bundle, restored, attempts>>

\* MAINTENANCE_NOT_QUIESCENT otherwise.
LabQuiet ==
  /\ Doing("quiet") /\ labUp = {}
  /\ Advance
  /\ UNCHANGED <<laboratory, bundle, restored, attempts>>

CopyFiles ==
  /\ Doing("copy")
  /\ bundle' = [bundle EXCEPT !.disk = labDisk]
  /\ Advance
  /\ UNCHANGED <<laboratory, restored, attempts>>

SnapshotEtcd ==
  /\ Doing("snapshot")
  /\ bundle' = [bundle EXCEPT !.meta = labMeta]
  /\ Advance
  /\ UNCHANGED <<laboratory, restored, attempts>>

\* backup.json, or manifest.sealed: the digests of everything, written last.
SealBundle ==
  /\ Doing("seal")
  /\ bundle' = [bundle EXCEPT !.state = "complete"]
  /\ procedure' = NoBackup
  /\ UNCHANGED <<laboratory, restored, attempts>>

\* The script fails or is interrupted; what it wrote is left behind, and another
\* backup takes another directory.
BackupDies ==
  /\ procedure # NoBackup
  /\ procedure' = NoBackup
  /\ UNCHANGED <<laboratory, bundle, restored, attempts>>

AnotherDirectory ==
  /\ procedure = NoBackup /\ bundle.state # "none" /\ restored.state = "none"
  /\ bundle' = NoBundle
  /\ UNCHANGED <<laboratory, procedure, restored, attempts>>

DamageBundle ==
  /\ procedure = NoBackup /\ bundle.state = "complete"
  /\ bundle' = [bundle EXCEPT !.state = "damaged", !.disk = {}]
  /\ UNCHANGED <<laboratory, procedure, restored, attempts>>

-----------------------------------------------------------------------------
(* Restoration, in the place of a laboratory that was shut down.            *)

\* Every file has the digest the manifest names, or nothing is restored.
RestoreFiles ==
  /\ procedure = NoBackup /\ restored.state = "none" /\ labUp = {} /\ attempts < MaxBackups
  /\ bundle.state = "complete"
  /\ restored' = [NoLab EXCEPT !.state = "files", !.disk = bundle.disk]
  /\ attempts' = attempts + 1
  /\ UNCHANGED <<laboratory, procedure, bundle>>

\* The snapshot becomes a new etcd cluster with new members and token.
RestoreEtcd ==
  /\ restored.state = "files" /\ bundle.state = "complete"
  /\ restored' = [restored EXCEPT !.state = "etcd", !.meta = bundle.meta]
  /\ UNCHANGED <<laboratory, procedure, bundle, attempts>>

\* A restoration that leaves the handles of the old epoch open.
NewEpochOpen(m) == [NoMeta EXCEPT !.epoch = m.epoch + 1, !.current = m.current, !.pins = m.pins, !.held = m.held]

\* activate(), its transaction: a new epoch; handles become pins of their snapshots; locks,
\* reads, sessions, uploads and tasks of the old epoch end.
NewEpoch(m) == [NoMeta EXCEPT !.epoch = m.epoch + 1, !.current = m.current, !.pins = m.pins \cup m.held]

ActivateRestored ==
  /\ restored.state = "etcd"
  /\ restored' = [restored EXCEPT !.state = "activated", !.meta = NewEpoch(@)]
  /\ UNCHANGED <<laboratory, procedure, bundle, attempts>>

\* activate(), then: the configuration of each process, and the tasks of each node's store.
ConfigureRestored(p) ==
  /\ restored.state = "activated" /\ p \notin restored.configured
  /\ restored' = [restored EXCEPT !.configured = @ \cup {p}]
  /\ UNCHANGED <<laboratory, procedure, bundle, attempts>>

StartRestored ==
  /\ restored.state \in {"activated", "stopped"} /\ restored.configured = LabParts
  /\ restored' = [restored EXCEPT !.state = "running"]
  /\ UNCHANGED <<laboratory, procedure, bundle, attempts>>

\* The restored cluster collects what nothing needs.
CollectRestored(v) ==
  /\ restored.state = "running" /\ v \in restored.disk \ NeededBy(restored.meta)
  /\ restored' = [restored EXCEPT !.disk = @ \ {v}]
  /\ UNCHANGED <<laboratory, procedure, bundle, attempts>>

\* The supervisor of the restored cluster stops its processes and keeps their handles.
StopRestored ==
  /\ restored.state = "running"
  /\ restored' = [restored EXCEPT !.state = "stopped"]
  /\ UNCHANGED <<laboratory, procedure, bundle, attempts>>

\* release_pin(): the operator gives up a snapshot by its digest, offline; the result is
\* kept, and a repetition is answered with it.
ReleasePin(v) ==
  /\ labKind = "protected" /\ restored.state = "stopped"
  /\ v \in restored.meta.pins
  /\ restored' = [restored EXCEPT !.meta.pins = @ \ {v}, !.released = @ \cup {v}]
  /\ UNCHANGED <<laboratory, procedure, bundle, attempts>>

\* The restoration dies, or its result is thrown away: the next one takes a new directory.
DropRestored ==
  /\ restored.state # "none"
  /\ restored' = NoLab
  /\ UNCHANGED <<laboratory, procedure, bundle, attempts>>

RecoveryNext ==
  \/ \E v \in LabVersions : \/ StoreVersion(v) \/ SendVersion(v) \/ AbortVersion(v) \/ ApplySent(v)
                         \/ CloseHandle(v) \/ OrderDeletion(v) \/ DeleteFile(v) \/ CollectRestored(v)
                         \/ ReleasePin(v)
  \/ OpenHandle \/ StartLab
  \/ \E p \in LabParts : ProcessEnds(p) \/ StopForBackup(p) \/ ConfigureRestored(p)
  \/ BeginBackup \/ LabQuiet \/ CopyFiles \/ SnapshotEtcd \/ SealBundle \/ BackupDies \/ AnotherDirectory \/ DamageBundle
  \/ RestoreFiles \/ RestoreEtcd \/ ActivateRestored \/ StartRestored \/ StopRestored
  \/ DropRestored

RecoverySpec == RecoveryInit /\ [][RecoveryNext]_recoveryVars

-----------------------------------------------------------------------------

\* A restored cluster has the content its metadata name and every snapshot that was open
\* when it was backed up and that nobody released since, and honours no session, handle,
\* upload or order of the old epoch, whenever the backup was taken and whatever was on its
\* way then (backup_lab, backup_protected_lab, RestoredHACluster, release_pin).
RestoredWhole ==
  restored.state \in {"activated", "running", "stopped"} =>
    /\ {restored.meta.current} \cup ((bundle.meta.held \cup bundle.meta.pins) \ restored.released)
         \subseteq restored.disk \cup {NoVersion}
    /\ restored.meta.epoch > bundle.meta.epoch /\ ~restored.meta.sessions
    /\ restored.meta.held \cup restored.meta.uploads \cup restored.meta.orders = {}
=============================================================================
