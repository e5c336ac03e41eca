----------------------------- MODULE PatchCall -----------------------------
(***************************************************************************)
(* One PatchBlock, asked for up to three times by the SDK with the same     *)
(* request id.  A call that the client has given up may still be running at *)
(* the DataNode, and its report may still be on its way to the control.     *)
(*                                                                          *)
(* A receipt is its number, in the order they are made; what it says of the *)
(* block (size, digests) is in RangeWrite.                                  *)
(***************************************************************************)
EXTENDS Integers, FiniteSets

CONSTANT MaxTries   \* calls of the SDK (3 in the code)

ASSUME TriesAssumption == MaxTries \in Nat \ {0}

Tries == 1..MaxTries
Receipts == 0..(MaxTries + 1)   \* 0: none; the recovery at boot makes one more

VARIABLES
  writeState,  \* the write at the control: "PREPARING", "COMMITTED", "ABORTED"
  confirmed,   \* the receipt the control has for the block
  basis,       \* the base block at the DataNode: "absent", "stored", "busy" (pinned exclusively)
  datanode,    \* file, inventory record, ledger entry and its boot; the boot that registered
  pins,        \* the calls that hold the exclusive pin of the new block
  call,        \* each call: where its handler is, its receipt
  reports,     \* receipts whose report was sent, with the boot that made them
  got,         \* the receipt the client has
  made         \* receipts made so far

patchVars == <<writeState, confirmed, basis, datanode, pins, call, reports, got, made>>

PatchTypeOK ==
  /\ writeState \in {"PREPARING", "COMMITTED", "ABORTED"}
  /\ confirmed \in Receipts /\ got \in Receipts /\ made \in Receipts
  /\ datanode \in [file : BOOLEAN, record : Receipts, ledger : Receipts, born : {0, 1},
                  boot : {0, 1}, registered : {0, 1}]
  /\ basis \in {"absent", "stored", "busy"}
  /\ pins \subseteq Tries
  /\ call \in [Tries -> [at : {"none", "authorize", "base", "pin", "pinBase", "ledger", "delta", "assemble", "replace", "record", "report",
                               "answer", "over"}, receipt : Receipts]]
  /\ reports \subseteq (Receipts \X {0, 1})

PatchInit ==
  /\ writeState = "PREPARING" /\ basis \in {"absent", "stored"}
  /\ confirmed = 0 /\ got = 0 /\ made = 0 /\ pins = {} /\ reports = {}
  /\ datanode = [file |-> FALSE, record |-> 0, ledger |-> 0, born |-> 0, boot |-> 0, registered |-> 0]
  /\ call = [y \in Tries |-> [at |-> "none", receipt |-> 0]]

CallAt(y, step) == [call EXCEPT ![y].at = step]

-----------------------------------------------------------------------------
(* The SDK.                                                                 *)

\* The first call, or the next one when the last was answered UNAVAILABLE, whatever has
\* become of its handler.
CallPatch(y) ==
  /\ call[y].at = "none" /\ got = 0
  /\ y > 1 => call[y - 1].at # "none"
  /\ call' = CallAt(y, "authorize")
  /\ UNCHANGED <<writeState, confirmed, basis, datanode, pins, reports, got, made>>

\* CommitWrite compares the receipt with the one of the block's record.
CommitPatched ==
  /\ writeState = "PREPARING" /\ got # 0 /\ got = confirmed
  /\ writeState' = "COMMITTED"
  /\ UNCHANGED <<confirmed, basis, datanode, pins, call, reports, got, made>>

\* The write expires or is aborted.
AbortPatched ==
  /\ writeState = "PREPARING"
  /\ writeState' = "ABORTED"
  /\ UNCHANGED <<confirmed, basis, datanode, pins, call, reports, got, made>>

-----------------------------------------------------------------------------
(* The handler at the DataNode.                                             *)

\* authorize_patch at the control: the receipt of a patch that was reported, or leave to go on
\* while the write is being prepared, whichever boot of the node asks.
PatchVerdict ==
  CASE confirmed # 0 -> "answer"
    [] confirmed = 0 /\ writeState = "PREPARING" -> "base"
    [] OTHER -> "over"

\* AuthorizeBlock, the first thing the handler does.
AuthorizePatch(y) ==
  /\ call[y].at = "authorize"
  /\ call' = [call EXCEPT ![y] = [at |-> PatchVerdict, receipt |-> confirmed]]
  /\ UNCHANGED <<writeState, confirmed, basis, datanode, pins, reports, got, made>>

\* The base may still be on its way from another node: its inventory record is waited for,
\* before anything is held.
AwaitBase(y) ==
  /\ call[y].at = "base" /\ basis # "absent"
  /\ call' = CallAt(y, "pin")
  /\ UNCHANGED <<writeState, confirmed, basis, datanode, pins, reports, got, made>>

\* pin(exclusive=True): nobody has the new block.
Unpinned == pins = {}

PinPatch(y) ==
  /\ call[y].at = "pin"
  /\ \/ /\ Unpinned
        /\ pins' = pins \cup {y}
        /\ call' = CallAt(y, "pinBase")
     \/ /\ ~Unpinned
        /\ call' = CallAt(y, "over")
        /\ UNCHANGED pins
  /\ UNCHANGED <<writeState, confirmed, basis, datanode, reports, got, made>>

\* The base is pinned for reading when no writer has it; the pin of the new block is held
\* meanwhile.
PinBase(y) ==
  /\ call[y].at = "pinBase" /\ basis = "stored"
  /\ call' = CallAt(y, "ledger")
  /\ UNCHANGED <<writeState, confirmed, basis, datanode, pins, reports, got, made>>

\* What an earlier call has made is reported again.
ReadLedger(y) ==
  /\ call[y].at = "ledger"
  /\ \/ /\ datanode.ledger # 0
        /\ call' = [call EXCEPT ![y] = [at |-> "report", receipt |-> datanode.ledger]]
        /\ pins' = pins \ {y}
     \/ /\ datanode.ledger = 0
        /\ call' = CallAt(y, "delta")
        /\ UNCHANGED pins
  /\ UNCHANGED <<writeState, confirmed, basis, datanode, reports, got, made>>

\* Space is reserved and the delta has come, whole and with its digest.
TakeDelta(y) ==
  /\ call[y].at = "delta"
  /\ call' = CallAt(y, "assemble")
  /\ UNCHANGED <<writeState, confirmed, basis, datanode, pins, reports, got, made>>

\* put() has written its staging file: the block's file must not exist (ALREADY_EXISTS) ...
LookForFile(y) ==
  /\ call[y].at = "assemble"
  /\ call' = CallAt(y, IF datanode.file THEN "over" ELSE "replace")
  /\ pins' = IF datanode.file THEN pins \ {y} ELSE pins
  /\ UNCHANGED <<writeState, confirmed, basis, datanode, reports, got, made>>

\* ... and the staging file takes its name.
ReplaceFile(y) ==
  /\ call[y].at = "replace"
  /\ datanode' = [datanode EXCEPT !.file = TRUE]
  /\ call' = CallAt(y, "record")
  /\ UNCHANGED <<writeState, confirmed, basis, pins, reports, got, made>>

\* The inventory and the ledger, in one transaction.
RecordPatch(y) ==
  /\ call[y].at = "record"
  /\ made' = made + 1
  /\ datanode' = [datanode EXCEPT !.record = made', !.ledger = made', !.born = datanode.boot]
  /\ call' = [call EXCEPT ![y] = [at |-> "report", receipt |-> made']]
  /\ pins' = pins \ {y}
  /\ UNCHANGED <<writeState, confirmed, basis, reports, got>>

SendReport(y) ==
  /\ call[y].at = "report"
  /\ reports' = reports \cup {<<call[y].receipt, datanode.born>>}
  /\ call' = CallAt(y, "answer")
  /\ UNCHANGED <<writeState, confirmed, basis, datanode, pins, got, made>>

\* The receipt goes to the client once the control has it, or was replayed.
AnswerPatch(y) ==
  /\ call[y].at = "answer" /\ confirmed = call[y].receipt
  /\ call' = CallAt(y, "over")
  /\ got' \in {got, call[y].receipt}
  /\ UNCHANGED <<writeState, confirmed, basis, datanode, pins, reports, made>>

\* The handler fails: the deadline, no space, the report refused or not answered.
PatchFails(y) ==
  /\ call[y].at \notin {"none", "over"}
  /\ call' = CallAt(y, "over") /\ pins' = pins \ {y}
  /\ UNCHANGED <<writeState, confirmed, basis, datanode, reports, got, made>>

-----------------------------------------------------------------------------
(* The base, reports and reboots.                                           *)

\* A copy that the control ordered arrives; a writer takes the exclusive pin of the base while
\* nobody reads it, and leaves it.
BaseMoves ==
  /\ basis' = IF basis = "stored" THEN "busy" ELSE "stored"
  /\ \A y \in Tries : basis = "stored" => call[y].at \notin {"ledger", "delta", "assemble", "replace", "record"}
  /\ UNCHANGED <<writeState, confirmed, datanode, pins, call, reports, got, made>>

\* report_patch: another receipt than the one that is known is refused, and so is one of an
\* earlier boot, or for a write that is over.
ApplyReport(r) ==
  /\ confirmed = 0 /\ writeState = "PREPARING" /\ r[2] = datanode.registered
  /\ confirmed' = r[1]
  /\ UNCHANGED <<writeState, basis, datanode, pins, call, reports, got, made>>

\* Mutant: every file gets a record at boot.
AnyFile == datanode.file
\* recover_unindexed_objects: a file without a record.
Unindexed == datanode.file /\ datanode.record = 0

\* The DataNode dies; at boot a file without a record gets one, with a receipt of its own.
NodeReboots ==
  /\ datanode.boot = 0
  /\ datanode' = [datanode EXCEPT !.boot = 1, !.record = IF Unindexed THEN made + 1 ELSE @]
  /\ made' = IF Unindexed THEN made + 1 ELSE made
  /\ call' = [y \in Tries |-> IF call[y].at = "none" THEN call[y] ELSE [call[y] EXCEPT !.at = "over"]]
  /\ pins' = {}
  /\ UNCHANGED <<writeState, confirmed, basis, reports, got>>

\* RegisterNode with the new boot aborts the writes it was assigned.
RegisterBoot ==
  /\ datanode.registered < datanode.boot
  /\ datanode' = [datanode EXCEPT !.registered = datanode.boot]
  /\ writeState' = IF writeState = "PREPARING" THEN "ABORTED" ELSE writeState
  /\ UNCHANGED <<confirmed, basis, pins, call, reports, got, made>>

PatchNext ==
  \/ \E y \in Tries : \/ CallPatch(y) \/ AuthorizePatch(y) \/ AwaitBase(y) \/ PinPatch(y) \/ PinBase(y)
                      \/ ReadLedger(y) \/ TakeDelta(y) \/ LookForFile(y)
                      \/ ReplaceFile(y) \/ RecordPatch(y) \/ SendReport(y) \/ AnswerPatch(y) \/ PatchFails(y)
  \/ \E r \in reports : ApplyReport(r)
  \/ CommitPatched \/ AbortPatched \/ BaseMoves \/ NodeReboots \/ RegisterBoot

PatchSpec == PatchInit /\ [][PatchNext]_patchVars

-----------------------------------------------------------------------------
(* Property.                                                                *)

\* The receipt the control has for a patched block is the one in the DataNode's inventory, and
\* the block's file is there: calls that were repeated while their first handler was running
\* never make two of them, and neither does a reboot (patch_block, report_patch).
OneReceipt ==
  /\ confirmed # 0 => confirmed = datanode.record /\ datanode.file
  /\ got # 0 => got = confirmed
=============================================================================
