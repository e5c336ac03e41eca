------------------------------ MODULE MCParts ------------------------------
(***************************************************************************)
(* The parts of the system with something that must happen and no state in  *)
(* common in the model, side by side: a behaviour of this module is a       *)
(* behaviour of one of them, chosen at the start.  Of FileAccess and        *)
(* MetadataGate, whose safety has instances of its own, the liveness.       *)
(***************************************************************************)
EXTENDS Client, Maintenance, Admission, BlockGC

CONSTANTS
  MaxHandles, MaxLocks, MaxWrites, MaxRoots, MaxFiles, MaxReads, MaxBlocks, BlockSize, Ranges,
  UploadSizes, Preload, AccessFaults, Modes, LockTTL, HandleTTL, HandleMax, UploadTTL, UploadMax,
  Threads, MaxTx, Leases, LeaseTTL, Endpoints, MaxOwners, NoLease

VARIABLES
  files, contents, open, locks, writes, reads, ids,                               \* FileAccess
  gate, root, key, owners, markers, lease, net, thread, txs, applied, gateSeq,    \* MetadataGate
  part                                                                            \* which part moves

A == INSTANCE FileAccess WITH MaxOps <- MaxWrites, Faults <- AccessFaults, snapshots <- contents,
       handles <- open, ops <- writes, seq <- ids
G == INSTANCE MetadataGate WITH seq <- gateSeq

\* The first byte of a block of two.
FirstByte == {<<0, 1>>}

blocksVars == vars
accessVars == <<files, contents, open, locks, writes, reads, ids>>
gateVars == <<gate, root, key, owners, markers, lease, net, thread, txs, applied, gateSeq>>
partsVars == <<clientVars, readVars, leaderVars, admissionVars, blocksVars, accessVars, gateVars, part>>

\* A part with several initial states starts in one of them when it is not to move.
PartsInit ==
  /\ part \in {"client", "read", "leader", "admission", "blocks", "access", "gate"}
  /\ LeaderInit /\ AdmissionInit /\ Init /\ A!Init /\ G!Init
  /\ ClientInit
  /\ part # "client" => kind = "write"
  /\ ReadInit
  /\ part # "read" => /\ reader.kind = "range" /\ ~reader.overwrite /\ target = "absent"
                      /\ reader.node = CHOOSE n \in Replicas : TRUE

ClientRest == UNCHANGED clientVars
ReadRest == UNCHANGED readVars
LeaderRest == UNCHANGED leaderVars
AdmissionRest == UNCHANGED admissionVars
BlocksRest == UNCHANGED blocksVars
AccessRest == UNCHANGED accessVars
GateRest == UNCHANGED gateVars

\* One part moves, as its own module says; the others rest.
PartsNext ==
  /\ UNCHANGED part
  /\ IF part = "client" THEN ClientNext ELSE ClientRest
  /\ IF part = "read" THEN ReadNext ELSE ReadRest
  /\ IF part = "leader" THEN LeaderNext ELSE LeaderRest
  /\ IF part = "admission" THEN AdmissionNext ELSE AdmissionRest
  /\ IF part = "blocks" THEN Next ELSE BlocksRest
  /\ IF part = "access" THEN A!Next ELSE AccessRest
  /\ IF part = "gate" THEN G!Next ELSE GateRest

\* The fairness of each part, asked of it when it is the one that moves.
PartsFairness ==
  /\ WF_clientVars(part = "client" /\ (ClientStep \/ Prepared \/ PrepareFails \/ BeginAgain))
  /\ WF_readVars(part = "read" /\ ReadStep)
  /\ \A k \in Controls : WF_leaderVars(part = "leader" /\ ControlStep(k))
  /\ WF_leaderVars(part = "leader" /\ LeaseEnds)
  /\ \A t \in Transfers :
       /\ WF_admissionVars(part = "admission" /\ (Admit(t) \/ AdmitTimeout(t)))
       /\ WF_admissionVars(part = "admission" /\ (AdmitSource(t) \/ SourceEnds(t)))
       /\ WF_admissionVars(part = "admission" /\ transfer[t].at = "admitted" /\ (Ends(t) \/ AskSource(t)))
  /\ WF_accessVars(part = "access" /\ A!Collect)
  /\ WF_accessVars(part = "access" /\ A!TickLease)
  /\ WF_accessVars(part = "access" /\ A!TickWall)
  /\ WF_gateVars(part = "gate" /\ G!Tick)
  /\ WF_vars(part = "blocks" /\ CollectMetadata) /\ WF_vars(part = "blocks" /\ CollectFiles)
  /\ \A s \in Streams : WF_vars(part = "blocks" /\ End(s))
  /\ \A o \in Ops : WF_vars(part = "blocks" /\ UploadExpires(o))

PartsSpec == PartsInit /\ [][PartsNext]_partsVars /\ PartsFairness

\* Every part is well typed in every state, and the free units of a node are those that no
\* transfer holds: none is lost or made up however transfers fail (Admission, copy jobs).
PartsTypeOK ==
  /\ ClientTypeOK /\ ReadTypeOK /\ LeaderTypeOK /\ AdmissionTypeOK /\ TypeOK
  /\ UnitsConserved

-----------------------------------------------------------------------------
(* Liveness.  A part that rests stays in its initial state, which satisfies  *)
(* what its module says, except where `part' is named.                      *)

\* A call of the SDK ends, whatever fails (commit_write, _finish_write, send, _iter_read,
\* receive_handle), and a transfer gets its units or gives up, though every transfer of a
\* node may be waiting for the units of another (Admission, copy jobs).
CallsEnd ==
  /\ []<>(part = "client" => client.phase = "done")
  /\ []<>(part = "read" => reader.phase \in {"done", "error"})
  /\ TransfersEnd

\* What a client that goes away was holding is freed: its handles are closed, its operations
\* reach an outcome and let go of handles and locks (collect, release_operation), and the
\* gate of a writer that died opens (EtcdMetadataStore.transaction).  So it is with a leader:
\* once nothing fails there is one for good, with its generation published, and no task of a
\* deposed one stays active (take_maintenance).
HoldingsEnd ==
  /\ A!HandlesEnd /\ A!OpsReleased /\ G!GateFreed
  /\ <>[](part = "leader" => LeaderLive) /\ StaleTasksEnd
=============================================================================
