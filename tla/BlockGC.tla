------------------------------- MODULE BlockGC -------------------------------
(***************************************************************************)
(* The single-process profile: the pipeline that uploads the blocks of one  *)
(* path, the streams that read and write encrypted block files, and the     *)
(* collector that deletes what nothing refers to.                           *)
(*                                                                          *)
(* Metadata handlers are single write transactions.  A stream is not: it    *)
(* checks its request in one transaction, pins the block, moves data with   *)
(* no transaction open, and records the result in another.  The collector   *)
(* is not either: it decides in a transaction what is retained and deletes  *)
(* the other files afterwards, under the guard of the block store only.     *)
(*                                                                          *)
(* An upload names the snapshot it will publish, and <<o, i>> is the i-th   *)
(* block of upload o.                                                       *)
(***************************************************************************)
EXTENDS Integers, FiniteSets

CONSTANTS
  MaxOps,     \* uploads ever begun
  Parts,      \* the blocks of one upload
  Streams,    \* data requests being served
  ReadHandles, \* read handles
  Faults      \* which of "restart", "remove" happen

ASSUME OpsAssumption == MaxOps \in Nat

Ops == 1..MaxOps
Blocks == Ops \X Parts
BlocksOf(o) == {o} \X Parts

VARIABLES
  ops,        \* upload records
  current,    \* snapshot of the file the path names, 0 for none
  snapshots,  \* stored snapshot records
  records,    \* block records: durable receipts
  disk,       \* .blk files
  staging,    \* .staging files, by the block they will become
  handles,    \* handle records
  streams,    \* requests with their pins
  gc,         \* the collector, between its two halves or not
  young,      \* history: blocks allocated between the two halves of a collection
  seq         \* uploads begun

meta == <<ops, current, snapshots, records, handles, seq>>
vars == <<ops, current, snapshots, records, disk, staging, handles, streams, gc, young, seq>>

NoBlock == <<0, 0>>
UploadStates == {"NONE", "PREPARING", "COMMITTED", "ABORTED", "EXPIRED"}
StreamPhases == {"idle", "checked", "pinned", "written", "ending"}
StreamKinds == {"none", "put", "get", "verify"}

Op == [state : UploadStates, live : BOOLEAN, base : 0..MaxOps, allocations : SUBSET Parts,
       paged : BOOLEAN, verified : BOOLEAN, sealed : BOOLEAN]
NoOp == [state |-> "NONE", live |-> FALSE, base |-> 0, allocations |-> {},
         paged |-> FALSE, verified |-> FALSE, sealed |-> FALSE]
Handle == [snapshot : 0..MaxOps, closed : BOOLEAN, live : BOOLEAN]
Stream == [kind : StreamKinds, phase : StreamPhases, block : Blocks \cup {NoBlock}, left : SUBSET Parts]
NoStream == [kind |-> "none", phase |-> "idle", block |-> NoBlock, left |-> {}]

TypeOK ==
  /\ ops \in [Ops -> Op]
  /\ current \in 0..MaxOps
  /\ snapshots \subseteq Ops
  /\ records \subseteq Blocks /\ disk \subseteq Blocks /\ staging \subseteq Blocks
  /\ handles \in [ReadHandles -> Handle]
  /\ streams \in [Streams -> Stream]
  /\ gc \in [phase : {"idle", "files"}, retained : SUBSET Blocks]
  /\ young \subseteq Blocks
  /\ seq \in 0..MaxOps

Init ==
  /\ ops = [o \in Ops |-> NoOp]
  /\ current = 0 /\ snapshots = {}
  /\ records = {} /\ disk = {} /\ staging = {}
  /\ handles = [h \in ReadHandles |-> [snapshot |-> 0, closed |-> TRUE, live |-> FALSE]]
  /\ streams = [s \in Streams |-> NoStream]
  /\ gc = [phase |-> "idle", retained |-> {}]
  /\ young = {}
  /\ seq = 0

-----------------------------------------------------------------------------
(* Uploads: the handlers of control/commands.py.                            *)

Reserved == \E o \in Ops : ops[o].state = "PREPARING" /\ ops[o].live

\* operation(): the guard of every step of an upload.
OperationOk(o) ==
  /\ ops[o].state = "PREPARING" /\ ops[o].live
  /\ ops[o].base # 0 => current = ops[o].base

BeginUpload ==
  LET o == seq + 1
  IN  /\ seq < MaxOps
      /\ ~Reserved
      /\ ops' = [ops EXCEPT ![o] = [NoOp EXCEPT !.state = "PREPARING", !.live = TRUE,
                                                !.base = current]]
      /\ seq' = o
      /\ UNCHANGED <<current, snapshots, records, disk, staging, handles, streams, gc, young>>

AllocateBlocks(o, i) ==
  /\ OperationOk(o) /\ ~ops[o].sealed
  /\ i \notin ops[o].allocations
  /\ ops' = [ops EXCEPT ![o].allocations = @ \cup {i}]
  /\ young' = IF gc.phase = "files" THEN young \cup {<<o, i>>} ELSE young
  /\ UNCHANGED <<current, snapshots, records, disk, staging, handles, streams, gc, seq>>

\* One page holds the manifest: every block is allocated and has a receipt.
StageManifestPage(o) ==
  /\ OperationOk(o) /\ ~ops[o].sealed
  /\ ops[o].allocations = Parts
  /\ BlocksOf(o) \subseteq records
  /\ ops' = [ops EXCEPT ![o].paged = TRUE]
  /\ UNCHANGED <<current, snapshots, records, disk, staging, handles, streams, gc, young, seq>>

\* manifest(): every page is staged, and the blocks they list are the content.
ManifestWhole(o) == ops[o].paged

\* The transaction of SealManifest, after verify_seal has read every block.
SealManifest(o) ==
  /\ OperationOk(o)
  /\ ManifestWhole(o)
  /\ ops[o].verified
  /\ ops' = [ops EXCEPT ![o].sealed = TRUE]
  /\ UNCHANGED <<current, snapshots, records, disk, staging, handles, streams, gc, young, seq>>

CommitUpload(o) ==
  /\ OperationOk(o)
  /\ ops[o].sealed
  /\ BlocksOf(o) \subseteq records
  /\ ops[o].base = 0 => current = 0
  /\ snapshots' = snapshots \cup {o}
  /\ current' = o
  /\ ops' = [ops EXCEPT ![o].state = "COMMITTED"]
  /\ UNCHANGED <<records, disk, staging, handles, streams, gc, young, seq>>

AbortUpload(o) ==
  /\ ops[o].state \notin {"NONE", "COMMITTED"}
  /\ ops' = [ops EXCEPT ![o].state = "ABORTED"]
  /\ UNCHANGED <<current, snapshots, records, disk, staging, handles, streams, gc, young, seq>>

\* The name goes; uploads over it are aborted.
Remove ==
  /\ "remove" \in Faults
  /\ current # 0
  /\ current' = 0
  /\ ops' = [o \in Ops |-> IF ops[o].state = "PREPARING" /\ ops[o].base # 0
                           THEN [ops[o] EXCEPT !.state = "ABORTED"] ELSE ops[o]]
  /\ UNCHANGED <<snapshots, records, disk, staging, handles, streams, gc, young, seq>>

\* The clock passes the expiry of an upload, which RenewUpload could have moved.
UploadExpires(o) ==
  /\ ops[o].state = "PREPARING" /\ ops[o].live
  /\ ops' = [ops EXCEPT ![o].live = FALSE]
  /\ UNCHANGED <<current, snapshots, records, disk, staging, handles, streams, gc, young, seq>>

-----------------------------------------------------------------------------
(* Read handles.                                                            *)

Pinning(h) == ~handles[h].closed /\ handles[h].live

Open(h) ==
  /\ handles[h].snapshot = 0
  /\ current # 0
  /\ handles' = [handles EXCEPT ![h] = [snapshot |-> current, closed |-> FALSE, live |-> TRUE]]
  /\ UNCHANGED <<ops, current, snapshots, records, disk, staging, streams, gc, young, seq>>

Close(h) ==
  /\ ~handles[h].closed
  /\ handles' = [handles EXCEPT ![h].closed = TRUE]
  /\ UNCHANGED <<ops, current, snapshots, records, disk, staging, streams, gc, young, seq>>

\* The clock passes the expiry of a handle, which RenewHandle could have moved.
HandleExpires(h) ==
  /\ Pinning(h)
  /\ handles' = [handles EXCEPT ![h].live = FALSE]
  /\ UNCHANGED <<ops, current, snapshots, records, disk, staging, streams, gc, young, seq>>

-----------------------------------------------------------------------------
(* Streams.                                                                 *)

\* pin(): blocks in use, and those in exclusive use.
HasPin(s) == streams[s].phase \in {"pinned", "written", "ending"}
\* Mutant: only writers count.
ActivePuts == {streams[s].block : s \in {t \in Streams : HasPin(t) /\ streams[t].kind = "put"}}

Active == {streams[s].block : s \in {t \in Streams : HasPin(t)}}
Writers == {streams[s].block : s \in {t \in Streams : HasPin(t) /\ streams[t].kind = "put"}}

Begins(s, kind, block, left) ==
  /\ streams[s] = NoStream
  /\ streams' = [streams EXCEPT ![s] = [kind |-> kind, phase |-> "checked", block |-> block,
                                        left |-> left]]
  /\ UNCHANGED <<meta, disk, staging, gc, young>>

\* PutBlock, first transaction: allocated to a running upload, no receipt yet.
StartPut(s, o, i) ==
  /\ OperationOk(o)
  /\ i \in ops[o].allocations
  /\ <<o, i>> \notin records
  /\ Begins(s, "put", <<o, i>>, {})

\* SealManifest, first transaction: a complete manifest to read back, block by block.
StartVerify(s, o, i) ==
  /\ OperationOk(o)
  /\ ManifestWhole(o)
  /\ Begins(s, "verify", <<o, i>>, Parts \ {i})

\* GetBlock, its transaction: a block of the snapshot of a valid handle.
StartGet(s, h, i) ==
  /\ Pinning(h)
  /\ Begins(s, "get", <<handles[h].snapshot, i>>, {})

\* A put pins exclusively and opens its staging file.
Pin(s) ==
  LET b == streams[s].block
  IN  /\ streams[s].phase = "checked"
      /\ b \notin Writers
      /\ streams[s].kind = "put" => b \notin Active
      /\ streams' = [streams EXCEPT ![s].phase = "pinned"]
      /\ staging' = IF streams[s].kind = "put" THEN staging \cup {b} ELSE staging
      /\ UNCHANGED <<meta, disk, gc, young>>

\* put(): the staging file becomes the block file, unless there is one already.
WriteBlock(s) ==
  LET b == streams[s].block
  IN  /\ streams[s].kind = "put" /\ streams[s].phase = "pinned"
      /\ b \in staging /\ b \notin disk
      /\ disk' = disk \cup {b}
      /\ staging' = staging \ {b}
      /\ streams' = [streams EXCEPT ![s].phase = "written"]
      /\ UNCHANGED <<meta, gc, young>>

\* PutBlock, second transaction: the upload is checked again.
RecordBlock(s) ==
  LET b == streams[s].block
  IN  /\ streams[s].kind = "put" /\ streams[s].phase = "written"
      /\ OperationOk(b[1])
      /\ records' = records \cup {b}
      /\ streams' = [streams EXCEPT ![s].phase = "ending"]
      /\ UNCHANGED <<ops, current, snapshots, disk, staging, handles, gc, young, seq>>

\* read_verified(): a pinned block is read back whole from its file.
ReadBack(s, kind) ==
  /\ streams[s].kind = kind /\ streams[s].phase = "pinned"
  /\ streams[s].block \in disk

\* GetBlock: the block is verified before its first byte is sent.
SendBlock(s) ==
  /\ ReadBack(s, "get")
  /\ streams' = [streams EXCEPT ![s].phase = "ending"]
  /\ UNCHANGED <<meta, disk, staging, gc, young>>

\* verify_seal has read the last block of the manifest.
VerifyLast(s) ==
  /\ ReadBack(s, "verify") /\ streams[s].left = {}
  /\ ops' = [ops EXCEPT ![streams[s].block[1]].verified = TRUE]
  /\ streams' = [streams EXCEPT ![s].phase = "ending"]
  /\ UNCHANGED <<current, snapshots, records, disk, staging, handles, gc, young, seq>>

\* verify_seal unpins the block it has read and goes on with another.
VerifyNext(s, i) ==
  LET b == streams[s].block
  IN  /\ ReadBack(s, "verify")
      /\ i \in streams[s].left
      /\ streams' = [streams EXCEPT ![s] = [@ EXCEPT !.phase = "checked", !.block = <<b[1], i>>,
                                                     !.left = streams[s].left \ {i}]]
      /\ UNCHANGED <<meta, disk, staging, gc, young>>

\* The request ends, well or not (busy pin, broken or slow stream, refused record,
\* missing or existing file): the pin goes, and a put deletes its staging file.
End(s) ==
  /\ streams[s].phase # "idle"
  /\ streams' = [streams EXCEPT ![s] = NoStream]
  /\ staging' = IF HasPin(s) /\ streams[s].kind = "put"
                THEN staging \ {streams[s].block} ELSE staging
  /\ UNCHANGED <<meta, disk, gc, young>>

-----------------------------------------------------------------------------
(* The collector.                                                           *)

\* The snapshots of valid handles and of the existing file.
PinnedSnapshots ==
  {handles[h].snapshot : h \in {k \in ReadHandles : Pinning(k)}} \cup ({current} \ {0})

\* Mutant: failed uploads retain their blocks too.
RetainedForEver(S, state) ==
  {b \in Blocks : b[1] \in S \/ b[2] \in state[b[1]].allocations}

\* The blocks of the snapshots in S and of the uploads being prepared in state.
Retained(S, state) ==
  {b \in Blocks : \/ b[1] \in S
                  \/ state[b[1]].state = "PREPARING" /\ b[2] \in state[b[1]].allocations}

\* collect(), the transaction: settle uploads, prune snapshots and block records.
CollectTx(outcome, late) ==
  LET after == [o \in Ops |-> IF o \in late THEN [ops[o] EXCEPT !.state = outcome] ELSE ops[o]]
      keep  == Retained(snapshots \cap PinnedSnapshots, after)
  IN  /\ ops' = after
      /\ snapshots' = snapshots \cap PinnedSnapshots
      /\ records' = records \cap keep
      /\ gc' = [phase |-> "files", retained |-> keep]
      /\ UNCHANGED <<current, handles, seq>>

CollectMetadata ==
  /\ gc.phase = "idle"
  /\ CollectTx("EXPIRED", {o \in Ops : ops[o].state = "PREPARING" /\ ~ops[o].live})
  /\ UNCHANGED <<disk, staging, streams, young>>

\* blocks.collect(): files neither retained nor pinned go, and staging files when
\* nothing at all is pinned.
CollectFiles ==
  /\ gc.phase = "files"
  /\ disk' = disk \cap (gc.retained \cup Active)
  /\ staging' = IF Active = {} THEN {} ELSE staging
  /\ gc' = [phase |-> "idle", retained |-> {}]
  /\ UNCHANGED <<meta, streams, young>>

\* The process dies and starts again: streams and what was verified are forgotten,
\* and a whole collection precedes the first request.
Restart ==
  LET alive == {o \in Ops : ops[o].state = "PREPARING"}
      after == [o \in Ops |-> [ops[o] EXCEPT !.verified = FALSE,
                                             !.state = IF o \in alive THEN "ABORTED" ELSE @]]
      keep  == Retained(snapshots \cap PinnedSnapshots, after)
  IN  /\ "restart" \in Faults
      /\ ops' = after
      /\ snapshots' = snapshots \cap PinnedSnapshots
      /\ records' = records \cap keep
      /\ disk' = disk \cap keep
      /\ staging' = {}
      /\ streams' = [s \in Streams |-> NoStream]
      /\ gc' = [phase |-> "idle", retained |-> {}]
      /\ UNCHANGED <<current, handles, young, seq>>

-----------------------------------------------------------------------------

Next ==
  \/ BeginUpload \/ Remove \/ CollectMetadata \/ CollectFiles \/ Restart
  \/ \E o \in Ops : \/ StageManifestPage(o) \/ SealManifest(o) \/ CommitUpload(o)
                    \/ AbortUpload(o) \/ UploadExpires(o)
                    \/ \E i \in Parts : AllocateBlocks(o, i)
  \/ \E h \in ReadHandles : Open(h) \/ Close(h) \/ HandleExpires(h)
  \/ \E s \in Streams :
       \/ \E o \in Ops, i \in Parts : StartPut(s, o, i) \/ StartVerify(s, o, i)
       \/ \E h \in ReadHandles, i \in Parts : StartGet(s, h, i)
       \/ Pin(s) \/ WriteBlock(s) \/ RecordBlock(s) \/ SendBlock(s) \/ VerifyLast(s) \/ End(s)
       \/ \E i \in Parts : VerifyNext(s, i)

Spec == Init /\ [][Next]_vars

\* The maintenance loop collects for ever, every stream has a deadline, and an
\* upload cannot be renewed past its maximum.
Fairness ==
  /\ WF_vars(CollectMetadata) /\ WF_vars(CollectFiles)
  /\ \A s \in Streams : WF_vars(End(s))
  /\ \A o \in Ops : WF_vars(UploadExpires(o))

FairSpec == Spec /\ Fairness

-----------------------------------------------------------------------------
(* Safety.                                                                  *)

\* A block that a stored snapshot or a running upload counts on.
Needed(b) == b[1] \in snapshots \/ ops[b[1]].state = "PREPARING"

\* collect()'s transaction never deletes the receipt of a block of a stored snapshot; the
\* snapshots of the existing file and of valid handles are stored; and a needed block with
\* a receipt has its file, except for blocks allocated between the two halves of a
\* collection: the file of such a block can be deleted with a list of retained blocks that
\* is older than the block (collect()).
BlocksKept ==
  /\ \A o \in snapshots : BlocksOf(o) \subseteq records
  /\ current # 0 => current \in snapshots
  /\ \A h \in ReadHandles : Pinning(h) => handles[h].snapshot \in snapshots
  /\ \A b \in records \ young : Needed(b) => b \in disk

\* The content of the existing file is on disk: what the documentation promises of
\* the collector ("respeta snapshots actuales, pins, operaciones activas").
PublishedOnDisk == current # 0 => BlocksOf(current) \subseteq disk

\* A file that a stream has pinned, staging or not, is deleted by no one else: only
\* the end of that stream, or of the process, takes it away.
PinnedFilesStay ==
  [][\A s \in Streams :
       HasPin(s) /\ streams'[s].block = streams[s].block /\ streams'[s].phase # "idle" =>
         /\ streams[s].block \in disk => streams[s].block \in disk'
         /\ streams[s].block \in staging => streams[s].block \in staging' \cup disk']_vars

\* The collector takes no block that is recorded and needed, and no file that a stream is
\* writing or reading (collect, BlockStore.pin).
BlocksStay == []BlocksKept /\ PinnedFilesStay

-----------------------------------------------------------------------------
(* Liveness, under Fairness.                                                *)

\* An upload fails for good, and its files are gone in the end and do not come back, not
\* even through a put that was checked before the failure and writes after it (collect).
FailedUploadsReclaimed ==
  \A o \in Ops : <>[](ops[o].state \in {"ABORTED", "EXPIRED"} => BlocksOf(o) \cap (disk \cup staging) = {})
=============================================================================
