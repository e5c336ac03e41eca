------------------------------- MODULE Volume -------------------------------
(***************************************************************************)
(* The volume of one DataNode: block files, the inventory that records      *)
(* them, quarantined files, and the capacity they may take together.        *)
(*                                                                          *)
(* The jobs of a node run in parallel, one per block: puts and patches,     *)
(* copies and repairs, deletions.  A job reserves space before it stores,   *)
(* works on the disk and on the inventory in separate steps, and may fail   *)
(* or die with the process between any two of them.  The control's orders   *)
(* rest on an older view of the node, so any job may come at any time.      *)
(* A file takes one unit of capacity: storage_cost() bounds what it takes.  *)
(***************************************************************************)
EXTENDS Integers, FiniteSets

CONSTANTS
  Objects,     \* block versions
  Capacity,    \* capacity_bytes, in files
  MaxReceipts, \* stores ever made
  MaxMishaps   \* crashes, and errors after the rename, together

ASSUME VolumeAssumption == IsFiniteSet(Objects) /\ Capacity \in Nat /\ MaxReceipts \in Nat /\ MaxMishaps \in Nat

StoreIds == 1..MaxReceipts

VARIABLES
  named,      \* the store whose bytes the file of a block has, 0 when there is no file
  inventory,  \* the receipt in the record of a block, 0 when there is none
  aside,      \* quarantined files, by receipt
  quarantine, \* quarantine records, by receipt
  job,        \* the job that holds the exclusive pin of a block
  strays,     \* history: files the node lost track of, by receipt
  stores,     \* receipts drawn so far
  mishaps

volumeVars == <<named, inventory, aside, quarantine, job, strays, stores, mishaps>>

NoJob == [kind |-> "none", step |-> "none", receipt |-> 0]

VolumeTypeOK ==
  /\ named \in [Objects -> 0..MaxReceipts] /\ inventory \in [Objects -> 0..MaxReceipts]
  /\ aside \subseteq StoreIds /\ quarantine \subseteq StoreIds /\ strays \subseteq StoreIds
  /\ job \in [Objects -> [kind : {"none", "put", "copy", "delete"}, receipt : 0..MaxReceipts,
                          step : {"none", "pinned", "moved", "emptied", "reserved", "written", "unlinked"}]]
  /\ stores \in 0..MaxReceipts /\ mishaps \in 0..MaxMishaps

VolumeInit ==
  /\ named = [o \in Objects |-> 0] /\ inventory = [o \in Objects |-> 0]
  /\ aside = {} /\ quarantine = {} /\ strays = {}
  /\ job = [o \in Objects |-> NoJob]
  /\ stores = 0 /\ mishaps = 0

-----------------------------------------------------------------------------

\* metrics(): what the records say is used.
UsedBytes == Cardinality({o \in Objects : inventory[o] # 0}) + Cardinality(quarantine)

Reserving == {o \in Objects : job[o].step \in {"reserved", "written"}}

\* reserve(): what is used and what other jobs have reserved leaves room for one more.
CanReserveUsed == UsedBytes + 1 <= Capacity
CanReserve == UsedBytes + Cardinality(Reserving) + 1 <= Capacity

To(o, step) == job' = [job EXCEPT ![o].step = step]
Release(o) == job' = [job EXCEPT ![o] = NoJob]

\* pin(exclusive=True), by PutBlock, patch_block, copy() or DeleteRetiredBlock.
Pin(o, kind) ==
  /\ job[o] = NoJob
  /\ job' = [job EXCEPT ![o] = [kind |-> kind, step |-> "pinned", receipt |-> 0]]
  /\ UNCHANGED <<named, inventory, aside, quarantine, strays, stores, mishaps>>

\* copy() with replace_receipt_id: the damaged file is moved out of the way, then recorded
\* in quarantine instead of the inventory.
MoveAside(o) ==
  /\ job[o].kind = "copy" /\ job[o].step = "pinned" /\ inventory[o] # 0
  /\ named' = [named EXCEPT ![o] = 0]
  /\ aside' = IF named[o] # 0 THEN aside \cup {inventory[o]} ELSE aside
  /\ To(o, "moved")
  /\ UNCHANGED <<inventory, quarantine, strays, stores, mishaps>>

RecordAside(o) ==
  /\ job[o].step = "moved"
  /\ quarantine' = quarantine \cup {inventory[o]}
  /\ inventory' = [inventory EXCEPT ![o] = 0]
  /\ To(o, "emptied")
  /\ UNCHANGED <<named, aside, strays, stores, mishaps>>

\* copy() of a block the node has: it is verified.  The new receipt it is given stands for
\* the same file, and is left out.
Confirm(o) ==
  /\ job[o].kind = "copy" /\ job[o].step = "pinned" /\ inventory[o] # 0 /\ named[o] # 0
  /\ Release(o)
  /\ UNCHANGED <<named, inventory, aside, quarantine, strays, stores, mishaps>>

\* The job takes the space of one more file, of a block that has no record: the ledger
\* answers a put or a patch that was recorded before.
TakeSpace(o) ==
  /\ job[o].kind \in {"put", "copy"} /\ job[o].step \in {"pinned", "emptied"} /\ inventory[o] = 0
  /\ CanReserve
  /\ To(o, "reserved")
  /\ UNCHANGED <<named, inventory, aside, quarantine, strays, stores, mishaps>>

\* put(), import_ciphertext(): a complete staged file takes the block's name, if that is free.
Store(o) ==
  /\ job[o].step = "reserved" /\ named[o] = 0 /\ stores < MaxReceipts
  /\ stores' = stores + 1
  /\ named' = [named EXCEPT ![o] = stores + 1]
  /\ job' = [job EXCEPT ![o].step = "written", ![o].receipt = stores + 1]
  /\ UNCHANGED <<inventory, aside, quarantine, strays, mishaps>>

\* The inventory's transaction; then the reservation and the pin are released.
Record(o) ==
  /\ job[o].step = "written"
  /\ inventory' = [inventory EXCEPT ![o] = job[o].receipt]
  /\ Release(o)
  /\ UNCHANGED <<named, aside, quarantine, strays, stores, mishaps>>

\* DeleteRetiredBlock: the file goes, then its record.
UnlinkFile(o) ==
  /\ job[o].kind = "delete" /\ job[o].step = "pinned"
  /\ named' = [named EXCEPT ![o] = 0]
  /\ To(o, "unlinked")
  /\ UNCHANGED <<inventory, aside, quarantine, strays, stores, mishaps>>

\* A quarantined file whose only record is the inventory's, which is about to go.
Untracked(o) == {inventory[o]} \cap (aside \ quarantine)

ForgetRecord(o) ==
  /\ job[o].step = "unlinked"
  /\ strays' = strays \cup Untracked(o)
  /\ inventory' = [inventory EXCEPT ![o] = 0]
  /\ Release(o)
  /\ UNCHANGED <<named, aside, quarantine, stores, mishaps>>

\* A job fails and gives back what it took: NO_SPACE, a broken stream, a file in the way.
GiveBack(o) ==
  /\ job[o].step \in {"pinned", "emptied", "reserved"}
  /\ Release(o)
  /\ UNCHANGED <<named, inventory, aside, quarantine, strays, stores, mishaps>>

\* An error after the rename: the file stays without a record and without a reservation.
FailAfterRename(o) ==
  /\ job[o].step = "written" /\ mishaps < MaxMishaps
  /\ mishaps' = mishaps + 1
  /\ strays' = strays \cup {named[o]}
  /\ Release(o)
  /\ UNCHANGED <<named, inventory, aside, quarantine, stores>>

\* The process dies and another takes the volume: staged files are removed, and
\* recover_unindexed_objects records every block file that has no record.
Restart ==
  /\ mishaps < MaxMishaps
  /\ mishaps' = mishaps + 1
  /\ inventory' = [o \in Objects |-> IF inventory[o] = 0 THEN named[o] ELSE inventory[o]]
  /\ job' = [o \in Objects |-> NoJob]
  /\ UNCHANGED <<named, aside, quarantine, strays, stores>>

VolumeNext ==
  \/ \E o \in Objects :
       \/ \E kind \in {"put", "copy", "delete"} : Pin(o, kind)
       \/ MoveAside(o) \/ RecordAside(o) \/ Confirm(o) \/ TakeSpace(o) \/ Store(o) \/ Record(o)
       \/ UnlinkFile(o) \/ ForgetRecord(o) \/ GiveBack(o) \/ FailAfterRename(o)
  \/ Restart

VolumeSpec == VolumeInit /\ [][VolumeNext]_volumeVars

-----------------------------------------------------------------------------

\* Block files, quarantined files and those being staged never take more than the node's
\* capacity, however jobs overlap, fail and die (reserve, metrics, put, copy,
\* recover_unindexed_objects); only a file the node once lost track of may come on top.
WithinCapacity ==
  Cardinality(({named[o] : o \in Objects} \cup aside) \ (strays \cup {0}))
    + Cardinality({o \in Reserving : job[o].step = "reserved"}) <= Capacity
=============================================================================
