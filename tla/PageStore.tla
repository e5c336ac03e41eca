----------------------------- MODULE PageStore -----------------------------
(***************************************************************************)
(* The pages of the metadata tree in etcd.  A page is stored under the      *)
(* digest of its content and never changed; a transaction writes the pages  *)
(* its control does not have in its cache and then publishes a root that    *)
(* names them.  Offline, collect_pages deletes the pages no root names.     *)
(*                                                                          *)
(* A tree is the set of its pages.  A request, the one that takes the gate  *)
(* included, is applied at any time after it was sent, more than once or    *)
(* never: the channel repeats it over other endpoints.  A value of the gate *)
(* that is gone may therefore come back.                                    *)
(***************************************************************************)
EXTENDS Integers

CONSTANTS
  Pages,      \* pages, by content
  FirstTree,  \* pages of the root that is there at the start
  Imported,   \* pages of the root that migrate staged
  Authors,    \* controls
  MaxPageTx   \* transactions, those of the collector included

ASSUME PagesAssumption == FirstTree \subseteq Pages /\ Imported \subseteq Pages /\ MaxPageTx \in Nat

VARIABLES
  stored,     \* pages in etcd
  tree,       \* the root: its pages and its revision
  holder,     \* the value of the gate: the number of a transaction, or 0
  had,        \* the values the gate has had
  again,      \* history: those it has had more than once
  late,       \* history: a request was applied under one of these
  author,     \* each control: where its transaction is, and its cache
  collector,  \* the supervisor that collects
  wire,       \* requests that were sent
  drawn       \* the last transaction's number

pagesVars == <<stored, tree, holder, had, again, late, author, collector, wire, drawn>>
gateHistory == <<had, again, late>>

Requests ==
  [kind : {"acquire"}, gate : 1..MaxPageTx] \cup
  [kind : {"publish"}, gate : 1..MaxPageTx, base : Nat, pages : SUBSET Pages] \cup
  [kind : {"delete"}, gate : 1..MaxPageTx, base : Nat, pages : {{p} : p \in Pages}]

PagesTypeOK ==
  /\ stored \subseteq Pages
  /\ tree \in [pages : SUBSET Pages, revision : Nat]
  /\ holder \in 0..MaxPageTx /\ drawn \in 0..MaxPageTx
  /\ had \subseteq 1..MaxPageTx /\ again \subseteq had /\ late \in BOOLEAN
  /\ author \in [Authors -> [at : {"down", "idle", "asking", "read", "persist", "sent", "undo"}, gate : 0..MaxPageTx,
                             base : Nat, want : SUBSET Pages, todo : SUBSET Pages, cache : SUBSET Pages]]
  /\ collector \in [at : {"idle", "asking", "read", "sweep", "waiting"}, own : 0..MaxPageTx, gate : 0..MaxPageTx,
                    base : Nat, marked : SUBSET Pages, asked : SUBSET Pages]
  /\ wire \subseteq Requests

Down == [at |-> "down", gate |-> 0, base |-> 0, want |-> {}, todo |-> {}, cache |-> {}]
NotCollecting == [at |-> "idle", own |-> 0, gate |-> 0, base |-> 0, marked |-> {}, asked |-> {}]

PagesInit ==
  /\ tree = [pages |-> FirstTree, revision |-> 0]
  /\ stored = FirstTree \cup Imported
  /\ holder = 0 /\ had = {} /\ again = {} /\ late = FALSE
  /\ drawn = 0 /\ wire = {}
  /\ author = [a \in Authors |-> Down]
  /\ collector = NotCollecting

-----------------------------------------------------------------------------
(* A control and its write transactions.                                    *)

\* The supervisor starts processes itself, so not while it collects.
StartAuthor(a) ==
  /\ author[a].at = "down" /\ collector.at = "idle"
  /\ author' = [author EXCEPT ![a].at = "idle"]
  /\ UNCHANGED <<stored, tree, holder, gateHistory, collector, wire, drawn>>

\* It is stopped, or dies: its requests are still on their way.
StopAuthor(a) ==
  /\ author[a].at # "down"
  /\ author' = [author EXCEPT ![a] = Down]
  /\ UNCHANGED <<stored, tree, holder, gateHistory, collector, wire, drawn>>

Idle(a, cache) == [Down EXCEPT !.at = "idle", !.cache = cache]

\* transaction(write): a new owner asks for the gate once it has seen that it is free ...
AskGate ==
  /\ holder = 0 /\ drawn < MaxPageTx
  /\ drawn' = drawn + 1
  /\ wire' = wire \cup {[kind |-> "acquire", gate |-> drawn']}
  /\ UNCHANGED <<stored, tree, holder, gateHistory>>

\* ... and again until it is told that it has it, or gives up.
BeginTree(a) ==
  /\ author[a].at = "idle"
  /\ AskGate
  /\ author' = [author EXCEPT ![a].at = "asking", ![a].gate = drawn']
  /\ UNCHANGED collector

GateGranted(a) ==
  /\ author[a].at = "asking" /\ author[a].gate \in had
  /\ author' = [author EXCEPT ![a].at = "read"]
  /\ UNCHANGED <<stored, tree, holder, gateHistory, collector, wire, drawn>>

\* page(): what the control has read or written once is not written again.
Uncached(a, pages) == pages \ author[a].cache

\* The root and some of its pages are read, through the cache (DATA_LOSS if one is missing),
\* and the new tree is made: pages that were changed, beside those that were not.
ReadTree(a) ==
  /\ author[a].at = "read"
  /\ \E seen \in SUBSET tree.pages :
       \/ /\ seen \subseteq stored \cup author[a].cache
          /\ \E want \in SUBSET Pages :
               author' = [author EXCEPT ![a].at = "persist", ![a].base = tree.revision, ![a].want = want,
                            ![a].todo = Uncached(a, want \ tree.pages), ![a].cache = @ \cup seen]
       \/ /\ ~(seen \subseteq stored \cup author[a].cache)
          /\ author' = [author EXCEPT ![a].at = "undo"]
  /\ UNCHANGED <<stored, tree, holder, gateHistory, collector, wire, drawn>>

\* persist_pages: a batch is written without any guard, and then cached, which may drop
\* other pages from the cache.
PersistPages(a) ==
  /\ author[a].at = "persist"
  /\ \E batch \in SUBSET author[a].todo \ {{}}, kept \in SUBSET author[a].cache :
       /\ stored' = stored \cup batch
       /\ author' = [author EXCEPT ![a].todo = @ \ batch, ![a].cache = kept \cup batch]
  /\ UNCHANGED <<tree, holder, gateHistory, collector, wire, drawn>>

\* The batch fails, applied or not, or the unit of work raises.
PersistFails(a) ==
  /\ author[a].at = "persist"
  /\ \E batch \in SUBSET author[a].todo : stored' = stored \cup batch
  /\ author' = [author EXCEPT ![a].at = "undo"]
  /\ UNCHANGED <<tree, holder, gateHistory, collector, wire, drawn>>

PublishTree(a) ==
  /\ author[a].at = "persist" /\ author[a].todo = {}
  /\ wire' = wire \cup {[kind |-> "publish", gate |-> author[a].gate, base |-> author[a].base,
                         pages |-> author[a].want]}
  /\ author' = [author EXCEPT ![a].at = "sent"]
  /\ UNCHANGED <<stored, tree, holder, gateHistory, collector, drawn>>

\* The answer, or none: the gate is let go by what was published, by the cleanup, or, when
\* that is lost, by its lease.
EndTree(a) ==
  /\ author[a].at \in {"asking", "sent", "undo"}
  /\ holder' \in {holder, IF holder = author[a].gate THEN 0 ELSE holder}
  /\ author' = [author EXCEPT ![a] = Idle(a, author[a].cache)]
  /\ UNCHANGED <<stored, tree, gateHistory, collector, wire, drawn>>

-----------------------------------------------------------------------------
(* etcd.                                                                    *)

\* The gate is created if it is not there: by the attempt that is answered, by one before it
\* whose answer was lost, or by one that comes when its transaction is over.
TakeGate(q) ==
  /\ q.kind = "acquire" /\ holder = 0
  /\ holder' = q.gate
  /\ had' = had \cup {q.gate}
  /\ again' = IF q.gate \in had THEN again \cup {q.gate} ELSE again
  /\ UNCHANGED <<stored, tree, late, author, collector, wire, drawn>>

\* The compares of a request: the gate has the value it was sent with, and the root is
\* the one it was made for.
Guarded(q) ==
  /\ holder = q.gate /\ tree.revision = q.base
  /\ late' = (late \/ holder \in again)
  /\ UNCHANGED <<had, again>>

\* A root that is put has a new revision, and the gate goes with it.
ApplyPublish(q) ==
  /\ q.kind = "publish" /\ Guarded(q)
  /\ tree' = IF q.pages = tree.pages THEN tree
             ELSE [pages |-> q.pages, revision |-> tree.revision + 1]
  /\ holder' = 0
  /\ UNCHANGED <<stored, author, collector, wire, drawn>>

ApplyDelete(q) ==
  /\ q.kind = "delete" /\ Guarded(q)
  /\ stored' = stored \ q.pages
  /\ UNCHANGED <<tree, holder, author, collector, wire, drawn>>

\* The lease of the gate runs out.
HolderLapses ==
  /\ holder # 0
  /\ holder' = 0
  /\ UNCHANGED <<stored, tree, gateHistory, author, collector, wire, drawn>>

-----------------------------------------------------------------------------
(* collect_pages.                                                           *)

\* Mutant: a directory without processes is taken for a cluster that has stopped.
QuiescentUnproved == TRUE
\* quiescent(): every process the supervisor started has ended.
Quiescent == \A a \in Authors : author[a].at = "down"

CollectBegin ==
  /\ collector.at = "idle" /\ Quiescent
  /\ AskGate
  /\ collector' = [NotCollecting EXCEPT !.at = "asking", !.own = drawn']
  /\ UNCHANGED author

CollectGranted ==
  /\ collector.at = "asking" /\ collector.own \in had
  /\ collector' = [collector EXCEPT !.at = "read"]
  /\ UNCHANGED <<stored, tree, holder, gateHistory, author, wire, drawn>>

\* The root and the value the gate has now are read, and every page of the active root and
\* of the staged one is read and marked; a page that is missing ends the collection.
CollectMark ==
  /\ collector.at = "read" /\ holder # 0
  /\ tree.pages \cup Imported \subseteq stored
  /\ collector' = [collector EXCEPT !.at = "sweep", !.gate = holder, !.base = tree.revision,
                                    !.marked = tree.pages \cup Imported]
  /\ UNCHANGED <<stored, tree, holder, gateHistory, author, wire, drawn>>

\* A batch of pages that are not marked, deleted under the guards of the reading.
CollectSweep ==
  /\ collector.at = "sweep"
  /\ \E p \in stored \ collector.marked :
       /\ wire' = wire \cup {[kind |-> "delete", gate |-> collector.gate, base |-> collector.base, pages |-> {p}]}
       /\ collector' = [collector EXCEPT !.at = "waiting", !.asked = {p}]
  /\ UNCHANGED <<stored, tree, holder, gateHistory, author, drawn>>

\* The batch was applied: the next one.
CollectNext ==
  /\ collector.at = "waiting" /\ collector.asked \cap stored = {}
  /\ collector' = [collector EXCEPT !.at = "sweep", !.asked = {}]
  /\ UNCHANGED <<stored, tree, holder, gateHistory, author, wire, drawn>>

\* It ends, fails (VERSION_CONFLICT, no answer) or dies: the gate is let go or lapses.
CollectEnds ==
  /\ collector.at # "idle"
  /\ holder' \in {holder, IF holder = collector.own THEN 0 ELSE holder}
  /\ collector' = NotCollecting
  /\ UNCHANGED <<stored, tree, gateHistory, author, wire, drawn>>

PagesNext ==
  \/ \E a \in Authors : \/ StartAuthor(a) \/ StopAuthor(a) \/ BeginTree(a) \/ GateGranted(a)
                        \/ ReadTree(a) \/ PersistPages(a) \/ PersistFails(a) \/ PublishTree(a) \/ EndTree(a)
  \/ \E q \in wire : TakeGate(q) \/ ApplyPublish(q) \/ ApplyDelete(q)
  \/ HolderLapses \/ CollectBegin \/ CollectGranted \/ CollectMark \/ CollectSweep \/ CollectNext \/ CollectEnds

PagesSpec == PagesInit /\ [][PagesNext]_pagesVars

-----------------------------------------------------------------------------
(* Property.                                                                *)

\* Every page that the active root or the staged one names is stored, although controls leave
\* out pages they once had in their cache, their publications may arrive after the collector
\* has begun, and its deletions after it has ended and controls are running again
\* (persist_pages, collect_pages); the state is well typed.  The exception: the clean-up of a
\* transaction does not take back an attempt to acquire its gate that is still on its way, and
\* if that one is applied, and then a publication or deletion made under the same value, pages
\* of the active root may be missing; those of the staged one never are.
PagesKept ==
  /\ PagesTypeOK
  /\ Imported \subseteq stored
  /\ ~late => tree.pages \subseteq stored
=============================================================================
