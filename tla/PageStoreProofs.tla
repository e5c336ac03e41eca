--------------------------- MODULE PageStoreProofs ---------------------------
(***************************************************************************)
(* Proofs about what is stored and deleted elsewhere: no page that a root   *)
(* of the metadata tree names is ever missing (PageStore), and no block     *)
(* whose content was committed (Cluster).                                   *)
(*                                                                          *)
(* A page can only be deleted by a request that carries the value the gate  *)
(* has, so the argument is about values of the gate: until it takes one     *)
(* again, a value it has for the first time is no earlier request's, and    *)
(* one that is gone protects and endangers nothing.                         *)
(* A block can only be deleted by a job that the control authorized when    *)
(* nothing there counted on it, so that argument is about uploads that are  *)
(* over and never begin again.                                              *)
(***************************************************************************)
EXTENDS PageStore, Cluster, TLAPS

Publishes == {q \in wire : q.kind = "publish"}
Deletes == {q \in wire : q.kind = "delete"}

\* The states of a control and of the collector.
AuthorStates ==
  [at : {"down", "idle", "asking", "read", "persist", "sent", "undo"}, gate : 0..MaxPageTx,
   base : Nat, want : SUBSET Pages, todo : SUBSET Pages, cache : SUBSET Pages]
CollectorStates ==
  [at : {"idle", "asking", "read", "sweep", "waiting"}, own : 0..MaxPageTx, gate : 0..MaxPageTx,
   base : Nat, marked : SUBSET Pages, asked : SUBSET Pages]

\* A control that has begun a transaction, or has pages in its cache.
Busy(a) == author[a].at \notin {"down", "idle"} \/ author[a].cache # {}

\* Every value of the gate was drawn, and what is done under a value is done after the gate
\* had it; no reading is of a later root.
Numbers ==
  /\ holder <= drawn /\ had \subseteq 1..drawn
  /\ holder # 0 => holder \in had
  /\ \A a \in Authors : author[a].gate <= drawn /\ (author[a].at = "asking" => author[a].gate # 0)
  /\ \A a \in Authors : author[a].at \in {"read", "persist", "sent"} => author[a].gate \in had
  /\ collector.base <= tree.revision
  /\ collector.at \in {"sweep", "waiting"} => collector.gate \in had
  /\ \A q \in wire : q.gate <= drawn
  /\ \A q \in Publishes \cup Deletes : q.gate \in had

\* A control that is down has nothing in its cache.
DownEmpty == \A a \in Authors : author[a].at = "down" => author[a].cache = {}

\* The collector runs alone, and no publication that is still on its way can be applied, if
\* the gate has not its value again.
CollectorAlone ==
  collector.at # "idle" =>
    /\ \A a \in Authors : author[a].at = "down"
    /\ holder \notin again => \A q \in Publishes : q.gate # holder
    /\ collector.at \in {"sweep", "waiting"} /\ collector.gate \notin again =>
         \A q \in Publishes : q.gate # collector.gate

\* What the collector has marked is the root of the revision it read and the staged one.
Marked ==
  collector.at \in {"sweep", "waiting"} =>
    /\ Imported \subseteq collector.marked
    /\ collector.base = tree.revision => tree.pages \subseteq collector.marked

\* A deletion spares the staged root, and the active one as long as that has the revision it
\* was made for; its gate is no publication's, and is gone once a control is busy, unless the
\* gate has had that value again.
DeletesSpare ==
  \A q \in Deletes :
    /\ q.base <= tree.revision
    /\ q.pages \cap Imported = {}
    /\ q.base = tree.revision => q.pages \cap tree.pages = {}
    /\ q.gate \notin again => \A p \in Publishes : p.gate # q.gate
    /\ holder \notin again => \A a \in Authors : Busy(a) => q.gate # holder
    /\ \A a \in Authors : author[a].at \in {"asking", "read", "persist", "sent"} => q.gate # author[a].gate

\* While nothing was applied under a value that came back: what a control has in its cache is
\* stored, what it is to publish is stored or still to be written, and what a publication that
\* can still be applied names is stored.
CachesTrue == ~late => \A a \in Authors : author[a].cache \subseteq stored
WantsCovered ==
  ~late => \A a \in Authors : author[a].at = "persist" => author[a].want \subseteq stored \cup author[a].todo
PublishesCovered ==
  ~late /\ holder \notin again => \A q \in Publishes : q.gate = holder => q.pages \subseteq stored

NamedStored == Imported \subseteq stored /\ (~late => tree.pages \subseteq stored)

PagesInv ==
  /\ PagesTypeOK /\ Numbers /\ DownEmpty /\ CollectorAlone /\ Marked /\ DeletesSpare
  /\ CachesTrue /\ WantsCovered /\ PublishesCovered /\ NamedStored

\* The first root and the staged one are stored, and nothing is under way.
LEMMA PagesInitInv == PagesInit => PagesInv
<1> SUFFICES ASSUME PagesInit PROVE PagesInv
  OBVIOUS
<1> USE PagesAssumption DEF PagesInit, Down, NotCollecting
<1>1. PagesTypeOK
  <2>1. 0 \in 0..MaxPageTx /\ 0 \in Nat
    OBVIOUS
  <2>2. tree \in [pages : SUBSET Pages, revision : Nat]
    BY <2>1
  <2>5. late \in BOOLEAN
    BY Zenon
  <2>3. author \in [Authors -> AuthorStates]
    BY <2>1 DEF AuthorStates
  <2>4. collector \in CollectorStates
    BY <2>1 DEF CollectorStates
  <2> QED BY <2>1, <2>2, <2>3, <2>4, <2>5 DEF PagesTypeOK, AuthorStates, CollectorStates
<1>2. Numbers /\ CollectorAlone /\ Marked
  BY DEF Numbers, CollectorAlone, Marked, Publishes, Deletes
<1>3. DeletesSpare /\ PublishesCovered
  BY DEF DeletesSpare, PublishesCovered, Publishes, Deletes
<1>4. DownEmpty /\ CachesTrue /\ WantsCovered /\ NamedStored
  BY DEF DownEmpty, CachesTrue, WantsCovered, NamedStored
<1> QED BY <1>1, <1>2, <1>3, <1>4 DEF PagesInv

\* A control starts, with an empty cache, or stops.
LEMMA LifeInv ==
  ASSUME PagesInv, NEW a \in Authors, StartAuthor(a) \/ StopAuthor(a)
  PROVE  PagesInv'
<1> USE PagesAssumption DEF PagesInv
<1>1. CASE StartAuthor(a)
  <2> USE <1>1 DEF StartAuthor, gateHistory
  <2>1. PagesTypeOK' /\ Numbers'
    BY DEF PagesTypeOK, Numbers, Publishes, Deletes
  <2>2. CollectorAlone' /\ Marked'
    BY DEF CollectorAlone, Marked, Publishes
  <2>3. DeletesSpare'
    BY DEF PagesTypeOK, DeletesSpare, Publishes, Deletes, Busy
  <2>4. DownEmpty' /\ CachesTrue' /\ WantsCovered' /\ PublishesCovered' /\ NamedStored'
    BY DEF DownEmpty, PagesTypeOK, CachesTrue, WantsCovered, PublishesCovered, NamedStored, Publishes
  <2> QED BY <2>1, <2>2, <2>3, <2>4
<1>2. CASE StopAuthor(a)
  <2> USE <1>2 DEF StopAuthor, Down, gateHistory
  <2>1. PagesTypeOK' /\ Numbers'
    BY DEF PagesTypeOK, Numbers, Publishes, Deletes
  <2>2. CollectorAlone' /\ Marked'
    BY DEF PagesTypeOK, CollectorAlone, Marked, Publishes
  <2>3. DeletesSpare'
    BY DEF PagesTypeOK, DeletesSpare, Publishes, Deletes, Busy
  <2>4. DownEmpty' /\ CachesTrue' /\ WantsCovered' /\ PublishesCovered' /\ NamedStored'
    BY DEF DownEmpty, PagesTypeOK, CachesTrue, WantsCovered, PublishesCovered, NamedStored, Publishes
  <2> QED BY <2>1, <2>2, <2>3, <2>4
<1> QED BY <1>1, <1>2

\* Asking for the gate with a new value, when it is free.
LEMMA AskInv ==
  ASSUME PagesInv, AskGate
  PROVE  /\ drawn' = drawn + 1 /\ drawn + 1 \in 1..MaxPageTx /\ drawn \in Nat /\ holder = 0
         /\ wire' \subseteq Requests /\ Publishes' = Publishes /\ Deletes' = Deletes
         /\ \A q \in wire' : q.gate <= drawn + 1
         /\ \A q \in wire : q.gate \in 1..drawn
         /\ had \subseteq 1..(drawn + 1) /\ drawn + 1 \notin had
         /\ UNCHANGED <<stored, tree, holder, had, again, late>>
<1>1. drawn' = drawn + 1 /\ drawn + 1 \in 1..MaxPageTx /\ drawn \in Nat /\ holder = 0
  BY PagesAssumption DEF PagesInv, PagesTypeOK, AskGate
<1>2. PICK q : q = [kind |-> "acquire", gate |-> drawn + 1]
  OBVIOUS
<1>3. q \in Requests /\ wire' = wire \cup {q} /\ q.gate = drawn + 1
  BY <1>1, <1>2 DEF AskGate, Requests
<1>4. Publishes' = Publishes /\ Deletes' = Deletes
  BY <1>2, <1>3 DEF Publishes, Deletes
<1>5. \A r \in wire : r.gate \in 1..drawn
  BY <1>1 DEF PagesInv, PagesTypeOK, Numbers, Requests
<1>6. had \subseteq 1..(drawn + 1) /\ drawn + 1 \notin had
  BY <1>1 DEF PagesInv, Numbers
<1> QED BY <1>1, <1>3, <1>4, <1>5, <1>6 DEF AskGate, gateHistory, PagesInv, PagesTypeOK

\* A transaction asks for the gate, and is told that it has it.
LEMMA BeginInv ==
  ASSUME PagesInv, NEW a \in Authors, BeginTree(a) \/ GateGranted(a)
  PROVE  PagesInv'
<1> USE PagesAssumption DEF PagesInv
<1>1. collector.at = "idle"
  BY DEF CollectorAlone, BeginTree, GateGranted
<1>2. CASE BeginTree(a)
  <2>1. /\ AskGate /\ author' = [author EXCEPT ![a].at = "asking", ![a].gate = drawn']
        /\ UNCHANGED collector /\ author[a].at = "idle"
    BY <1>2 DEF BeginTree
  <2>2. /\ drawn' = drawn + 1 /\ drawn + 1 \in 1..MaxPageTx /\ drawn \in Nat /\ holder = 0
        /\ wire' \subseteq Requests /\ Publishes' = Publishes /\ Deletes' = Deletes
        /\ \A q \in wire' : q.gate <= drawn + 1
        /\ \A q \in wire : q.gate \in 1..drawn
        /\ had \subseteq 1..(drawn + 1) /\ drawn + 1 \notin had
        /\ UNCHANGED <<stored, tree, holder, had, again, late>>
    BY <2>1, AskInv
  <2>3. PagesTypeOK'
    <3>1. PICK w : w = [author[a] EXCEPT !.at = "asking", !.gate = drawn + 1]
      OBVIOUS
    <3>2. author[a] \in AuthorStates /\ drawn + 1 \in 0..MaxPageTx
      BY <2>2 DEF PagesTypeOK, AuthorStates
    <3>3. w \in AuthorStates
      BY <3>1, <3>2 DEF AuthorStates
    <3>4. author' = [author EXCEPT ![a] = w]
      BY <2>1, <2>2, <3>1, <3>2 DEF PagesTypeOK, AuthorStates
    <3>5. author' \in [Authors -> AuthorStates]
      BY <3>3, <3>4 DEF PagesTypeOK, AuthorStates
    <3> QED BY <2>1, <2>2, <3>2, <3>5 DEF PagesTypeOK, AuthorStates
  <2>4. Numbers'
    <3>1. \A b \in Authors : author[b].gate \in Nat /\ author[b].gate <= drawn + 1
      BY <2>2 DEF PagesTypeOK, Numbers
    <3> QED BY <2>1, <2>2, <3>1 DEF PagesTypeOK, Numbers
  <2>5. CollectorAlone' /\ Marked'
    BY <1>1, <2>1 DEF CollectorAlone, Marked
  <2>6. DeletesSpare'
    <3>1. \A q \in Deletes : q.gate # drawn + 1 /\ q.gate # 0
      BY <2>2 DEF Deletes
    <3> QED BY <2>1, <2>2, <3>1 DEF PagesTypeOK, DeletesSpare, Busy
  <2>7. DownEmpty' /\ CachesTrue' /\ WantsCovered' /\ PublishesCovered' /\ NamedStored'
    BY <2>1, <2>2 DEF DownEmpty, PagesTypeOK, CachesTrue, WantsCovered, PublishesCovered, NamedStored
  <2> QED BY <2>3, <2>4, <2>5, <2>6, <2>7
<1>3. CASE GateGranted(a)
  <2> USE <1>3 DEF GateGranted, gateHistory
  <2>1. PagesTypeOK' /\ Numbers'
    BY DEF PagesTypeOK, Numbers, Publishes, Deletes
  <2>2. CollectorAlone' /\ Marked'
    BY <1>1 DEF CollectorAlone, Marked
  <2>3. DeletesSpare'
    BY DEF PagesTypeOK, DeletesSpare, Publishes, Deletes, Busy
  <2>4. DownEmpty' /\ CachesTrue' /\ WantsCovered' /\ PublishesCovered' /\ NamedStored'
    BY DEF DownEmpty, PagesTypeOK, CachesTrue, WantsCovered, PublishesCovered, NamedStored, Publishes
  <2> QED BY <2>1, <2>2, <2>3, <2>4
<1> QED BY <1>2, <1>3

\* The gate is taken: for the first time by a value that is on no publication or deletion, or
\* again.
LEMMA TakeInv ==
  ASSUME PagesInv, NEW q \in wire, TakeGate(q)
  PROVE  PagesInv'
<1> USE PagesAssumption DEF PagesInv, TakeGate
<1>1. q.gate \in 1..MaxPageTx /\ q.gate \in 1..drawn /\ drawn \in Nat /\ q.gate # 0
  BY DEF PagesTypeOK, Requests, Numbers
<1>2. Publishes' = Publishes /\ Deletes' = Deletes /\ again \subseteq again' /\ had \subseteq had'
  BY DEF Publishes, Deletes
<1>3. \A r \in Publishes \cup Deletes : r.gate \in had
  BY DEF Numbers
<1>4. holder' \notin again' => \A r \in Publishes \cup Deletes : r.gate # holder'
  BY <1>3
<1>5. PagesTypeOK'
  <2>1. holder' \in 0..MaxPageTx
    BY <1>1
  <2>2. had \subseteq 1..MaxPageTx /\ again \subseteq had
    BY DEF PagesTypeOK
  <2>3. had' = had \cup {q.gate} /\ again' \in {again, again \cup {q.gate}}
    OBVIOUS
  <2>4. had' \subseteq 1..MaxPageTx /\ again' \subseteq had'
    BY <1>1, <2>2, <2>3, Zenon
  <2> QED BY <2>1, <2>4 DEF PagesTypeOK
<1>6. Numbers'
  BY <1>1, <1>2 DEF PagesTypeOK, Numbers
<1>7. CollectorAlone' /\ Marked'
  BY <1>2, <1>4 DEF CollectorAlone, Marked
<1>8. DeletesSpare'
  BY <1>2, <1>4 DEF DeletesSpare, Busy
<1>9. DownEmpty' /\ CachesTrue' /\ WantsCovered' /\ NamedStored'
  BY DEF DownEmpty, CachesTrue, WantsCovered, NamedStored
<1>10. PublishesCovered'
  BY <1>2, <1>4 DEF PublishesCovered
<1> QED BY <1>5, <1>6, <1>7, <1>8, <1>9, <1>10

\* The tree is read, and pages are written: nothing is deleted while a control is busy.
LEMMA WorkInv ==
  ASSUME PagesInv, NEW a \in Authors, ReadTree(a) \/ PersistPages(a) \/ PersistFails(a)
  PROVE  PagesInv'
<1> USE PagesAssumption DEF PagesInv
<1>1. collector.at = "idle"
  BY DEF CollectorAlone, ReadTree, PersistPages, PersistFails
<1>2. CASE ReadTree(a)
  <2>1. PICK seen \in SUBSET tree.pages :
          \/ /\ seen \subseteq stored \cup author[a].cache
             /\ \E want \in SUBSET Pages :
                  author' = [author EXCEPT ![a].at = "persist", ![a].base = tree.revision, ![a].want = want,
                               ![a].todo = Uncached(a, want \ tree.pages), ![a].cache = author[a].cache \cup seen]
          \/ /\ ~(seen \subseteq stored \cup author[a].cache)
             /\ author' = [author EXCEPT ![a].at = "undo"]
    BY <1>2 DEF ReadTree
  <2>2. UNCHANGED <<stored, tree, holder, had, again, late, collector, wire, drawn>> /\ author[a].at = "read"
    BY <1>2 DEF ReadTree, gateHistory
  <2>3. ASSUME NEW want \in SUBSET Pages,
               author' = [author EXCEPT ![a].at = "persist", ![a].base = tree.revision, ![a].want = want,
                            ![a].todo = Uncached(a, want \ tree.pages), ![a].cache = author[a].cache \cup seen]
        PROVE PagesInv'
    <3>1. PagesTypeOK'
      <4>1. PICK todo \in SUBSET Pages : todo = Uncached(a, want \ tree.pages)
        BY DEF Uncached
      <4>2. PICK r : r = [author[a] EXCEPT !.at = "persist", !.base = tree.revision, !.want = want, !.todo = todo,
                                           !.cache = author[a].cache \cup seen]
        OBVIOUS
      <4>3. author[a] \in AuthorStates /\ tree.revision \in Nat /\ seen \subseteq Pages
        BY DEF PagesTypeOK, AuthorStates
      <4>4. r \in AuthorStates
        BY <4>2, <4>3 DEF AuthorStates
      <4>5. author' = [author EXCEPT ![a] = r]
        BY <2>3, <4>1, <4>2, <4>3 DEF PagesTypeOK, AuthorStates
      <4> QED BY <2>2, <4>4, <4>5 DEF PagesTypeOK, AuthorStates
    <3>2. Numbers' /\ CollectorAlone' /\ Marked'
      BY <1>1, <2>2, <2>3 DEF PagesTypeOK, Numbers, CollectorAlone, Marked, Publishes, Deletes
    <3>3. DeletesSpare'
      BY <2>2, <2>3 DEF PagesTypeOK, DeletesSpare, Publishes, Deletes, Busy
    <3>4. DownEmpty' /\ CachesTrue' /\ PublishesCovered' /\ NamedStored'
      BY <2>2, <2>3 DEF DownEmpty, PagesTypeOK, CachesTrue, PublishesCovered, NamedStored, Publishes
    <3>5. WantsCovered'
      BY <2>2, <2>3 DEF PagesTypeOK, CachesTrue, NamedStored, WantsCovered, Uncached
    <3> QED BY <3>1, <3>2, <3>3, <3>4, <3>5
  <2>4. ASSUME author' = [author EXCEPT ![a].at = "undo"] PROVE PagesInv'
    <3>1. PagesTypeOK' /\ Numbers'
      BY <2>2, <2>4 DEF PagesTypeOK, Numbers, Publishes, Deletes
    <3>2. CollectorAlone' /\ Marked'
      BY <1>1, <2>2 DEF CollectorAlone, Marked
    <3>3. DeletesSpare'
      BY <2>2, <2>4 DEF PagesTypeOK, DeletesSpare, Publishes, Deletes, Busy
    <3>4. DownEmpty' /\ CachesTrue' /\ WantsCovered' /\ PublishesCovered' /\ NamedStored'
      BY <2>2, <2>4 DEF DownEmpty, PagesTypeOK, CachesTrue, WantsCovered, PublishesCovered, NamedStored, Publishes
    <3> QED BY <3>1, <3>2, <3>3, <3>4
  <2> QED BY <2>1, <2>3, <2>4
<1>3. CASE PersistPages(a)
  <2>1. PICK batch \in SUBSET author[a].todo, kept \in SUBSET author[a].cache :
          /\ stored' = stored \cup batch
          /\ author' = [author EXCEPT ![a].todo = author[a].todo \ batch, ![a].cache = kept \cup batch]
    BY <1>3 DEF PersistPages
  <2>2. UNCHANGED <<tree, holder, had, again, late, collector, wire, drawn>> /\ author[a].at = "persist"
    BY <1>3 DEF PersistPages, gateHistory
  <2>3. batch \subseteq Pages /\ kept \subseteq Pages
    BY <2>1 DEF PagesTypeOK
  <2>4. PagesTypeOK'
    <3>1. author[a] \in AuthorStates
      BY DEF PagesTypeOK, AuthorStates
    <3>2. PICK r : r = [author[a] EXCEPT !.todo = author[a].todo \ batch, !.cache = kept \cup batch]
      OBVIOUS
    <3>3. r \in AuthorStates
      BY <2>3, <3>1, <3>2 DEF AuthorStates
    <3>4. author' = [author EXCEPT ![a] = r]
      BY <2>1, <3>1, <3>2 DEF PagesTypeOK, AuthorStates
    <3>5. author' \in [Authors -> AuthorStates]
      BY <3>3, <3>4 DEF PagesTypeOK, AuthorStates
    <3>6. stored' \subseteq Pages
      BY <2>1, <2>3 DEF PagesTypeOK
    <3> QED BY <2>2, <3>5, <3>6 DEF PagesTypeOK, AuthorStates
  <2>5. Numbers' /\ CollectorAlone' /\ Marked'
    BY <1>1, <2>1, <2>2 DEF PagesTypeOK, Numbers, CollectorAlone, Marked, Publishes, Deletes
  <2>6. DeletesSpare'
    BY <2>1, <2>2 DEF PagesTypeOK, DeletesSpare, Publishes, Deletes, Busy
  <2>7. DownEmpty' /\ CachesTrue' /\ WantsCovered' /\ PublishesCovered' /\ NamedStored'
    BY <2>1, <2>2 DEF DownEmpty, PagesTypeOK, CachesTrue, WantsCovered, PublishesCovered, NamedStored, Publishes
  <2> QED BY <2>4, <2>5, <2>6, <2>7
<1>4. CASE PersistFails(a)
  <2>1. PICK batch \in SUBSET author[a].todo : stored' = stored \cup batch
    BY <1>4 DEF PersistFails
  <2>2. /\ UNCHANGED <<tree, holder, had, again, late, collector, wire, drawn>> /\ author[a].at = "persist"
        /\ author' = [author EXCEPT ![a].at = "undo"]
    BY <1>4 DEF PersistFails, gateHistory
  <2>3. batch \subseteq Pages
    BY <2>1 DEF PagesTypeOK
  <2>4. PagesTypeOK' /\ Numbers'
    BY <2>1, <2>2, <2>3 DEF PagesTypeOK, Numbers, Publishes, Deletes
  <2>5. CollectorAlone' /\ Marked'
    BY <1>1, <2>2 DEF CollectorAlone, Marked
  <2>6. DeletesSpare'
    BY <2>1, <2>2 DEF PagesTypeOK, DeletesSpare, Publishes, Deletes, Busy
  <2>7. DownEmpty' /\ CachesTrue' /\ WantsCovered' /\ PublishesCovered' /\ NamedStored'
    BY <2>1, <2>2 DEF DownEmpty, PagesTypeOK, CachesTrue, WantsCovered, PublishesCovered, NamedStored, Publishes
  <2> QED BY <2>4, <2>5, <2>6, <2>7
<1> QED BY <1>2, <1>3, <1>4

\* The publication is sent when all its pages are written or were in the cache.
LEMMA PublishInv ==
  ASSUME PagesInv, NEW a \in Authors, PublishTree(a)
  PROVE  PagesInv'
<1> USE PagesAssumption DEF PagesInv, PublishTree, gateHistory
<1>1. collector.at = "idle"
  BY DEF CollectorAlone
<1>2. PICK q : q = [kind |-> "publish", gate |-> author[a].gate, base |-> author[a].base, pages |-> author[a].want]
  OBVIOUS
<1>3. q \in Requests
  <2>1. author[a].gate \in 1..MaxPageTx
    BY DEF PagesTypeOK, Numbers
  <2> QED BY <1>2, <2>1 DEF PagesTypeOK, Requests
<1>4. wire' = wire \cup {q} /\ Publishes' = Publishes \cup {q} /\ Deletes' = Deletes
  BY <1>2 DEF Publishes, Deletes
<1>5. PagesTypeOK'
  BY <1>3, <1>4 DEF PagesTypeOK
<1>6. Numbers'
  BY <1>2, <1>4 DEF PagesTypeOK, Numbers
<1>7. CollectorAlone' /\ Marked'
  BY <1>1 DEF CollectorAlone, Marked
<1>8. DeletesSpare'
  BY <1>2, <1>4 DEF PagesTypeOK, DeletesSpare, Busy
<1>9. DownEmpty' /\ CachesTrue' /\ WantsCovered' /\ NamedStored'
  BY DEF DownEmpty, PagesTypeOK, CachesTrue, WantsCovered, NamedStored
<1>10. PublishesCovered'
  BY <1>2, <1>4 DEF PublishesCovered, WantsCovered
<1> QED BY <1>5, <1>6, <1>7, <1>8, <1>9, <1>10

\* The gate is let go, at the end of a transaction or when its lease runs out: no request
\* gains by it.
LEMMA GateFreed ==
  ASSUME PagesInv, holder' \in {holder, 0}, UNCHANGED <<stored, tree, had, again, late, wire, drawn>>,
         author' \in [Authors -> AuthorStates],
         \A b \in Authors : author'[b] = author[b] \/ (author[b].at # "idle" /\ author'[b] = Idle(b, author[b].cache)),
         author' # author => collector.at = "idle",
         collector' \in {collector, NotCollecting}
  PROVE  PagesInv'
<1> USE PagesAssumption DEF PagesInv
<1>0. \A q \in wire : q.gate # 0
  BY DEF PagesTypeOK, Requests
<1>1. PagesTypeOK'
  <2>1. 0 \in 0..MaxPageTx /\ 0 \in Nat
    OBVIOUS
  <2>2. collector' \in CollectorStates
    BY <2>1 DEF PagesTypeOK, NotCollecting, CollectorStates
  <2> QED BY <2>1, <2>2 DEF PagesTypeOK, AuthorStates, CollectorStates
<1>2. \A b \in Authors : author'[b] = author[b] \/ (author'[b].at = "idle" /\ author'[b].gate = 0 /\ author'[b].base = 0
                                                  /\ author'[b].cache = author[b].cache /\ author[b].at # "idle")
  BY DEF Idle, Down
<1>3. Numbers'
  <2>1. /\ holder' <= drawn' /\ had' \subseteq 1..drawn' /\ (holder' # 0 => holder' \in had')
        /\ \A q \in wire' : q.gate <= drawn'
        /\ \A q \in Publishes' \cup Deletes' : q.gate \in had'
    BY DEF PagesTypeOK, Numbers, Publishes, Deletes
  <2>2. \A b \in Authors : /\ author'[b].gate <= drawn' /\ (author'[b].at = "asking" => author'[b].gate # 0)
                           /\ author'[b].at \in {"read", "persist", "sent"} => author'[b].gate \in had'
    BY <1>2 DEF PagesTypeOK, Numbers
  <2>3. /\ collector'.base <= tree'.revision
        /\ collector'.at \in {"sweep", "waiting"} => collector'.gate \in had'
    BY DEF PagesTypeOK, Numbers, NotCollecting
  <2> QED BY <2>1, <2>2, <2>3 DEF Numbers
<1>4. CollectorAlone' /\ Marked'
  BY <1>0 DEF PagesTypeOK, CollectorAlone, Marked, Publishes, NotCollecting
<1>5. \A b \in Authors : /\ Busy(b)' => Busy(b)
                         /\ author'[b].at \in {"asking", "read", "persist", "sent"} => author'[b] = author[b]
  BY <1>2 DEF Busy
<1>6. DeletesSpare'
  BY <1>0, <1>5 DEF DeletesSpare, Publishes, Deletes
<1>7. DownEmpty' /\ CachesTrue' /\ WantsCovered'
  BY <1>2 DEF DownEmpty, CachesTrue, WantsCovered
<1>8. PublishesCovered' /\ NamedStored'
  BY <1>0 DEF PublishesCovered, NamedStored, Publishes
<1> QED BY <1>1, <1>3, <1>4, <1>6, <1>7, <1>8

\* A publication is applied: its pages are stored, and the revision leaves behind every
\* deletion made for the root before.
LEMMA ApplyPublishInv ==
  ASSUME PagesInv, NEW q \in wire, ApplyPublish(q)
  PROVE  PagesInv'
<1> USE PagesAssumption DEF PagesInv, ApplyPublish
<1>0. q \in Publishes /\ q.pages \subseteq Pages /\ \A r \in wire : r.gate # 0
  BY DEF Publishes, PagesTypeOK, Requests
<1>1. holder = q.gate /\ UNCHANGED <<had, again>> /\ tree.revision \in Nat /\ tree.revision + 1 \in Nat
  BY DEF Guarded, PagesTypeOK
<1>2. late' \in BOOLEAN /\ (~late' => ~late /\ holder \notin again)
  BY Zenon DEF Guarded
<1>3. tree' \in [pages : SUBSET Pages, revision : Nat]
  BY <1>0, <1>1 DEF PagesTypeOK
<1>4. /\ tree' = tree \/ tree'.revision = tree.revision + 1
      /\ tree'.pages = q.pages
      /\ tree.revision <= tree'.revision
  BY <1>1 DEF PagesTypeOK
<1>5. PagesTypeOK'
  BY <1>1, <1>2, <1>3 DEF PagesTypeOK
<1>6. Numbers'
  BY <1>1, <1>3, <1>4 DEF PagesTypeOK, Numbers, Publishes, Deletes
<1>7. CollectorAlone' /\ Marked'
  <2>1. CollectorAlone'
    BY <1>0, <1>1 DEF CollectorAlone, Publishes
  <2>2. Marked'
    BY <1>1, <1>3, <1>4 DEF PagesTypeOK, Numbers, Marked
  <2> QED BY <2>1, <2>2
<1>8. DeletesSpare'
  <2> SUFFICES ASSUME NEW d \in Deletes
               PROVE  /\ d.base <= tree'.revision
                      /\ d.base = tree'.revision => d.pages \cap tree'.pages = {}
                      /\ \A b \in Authors : Busy(b) => d.gate # holder'
    BY <1>1 DEF DeletesSpare, Publishes, Deletes, Busy
  <2>1. d.base \in Nat /\ d.gate # 0 /\ d.base <= tree.revision
    BY <1>0 DEF PagesTypeOK, Requests, Deletes, DeletesSpare
  <2> QED BY <1>1, <1>3, <1>4, <2>1 DEF DeletesSpare
<1>9. DownEmpty' /\ CachesTrue' /\ WantsCovered' /\ PublishesCovered'
  BY <1>0, <1>1, <1>2 DEF DownEmpty, CachesTrue, WantsCovered, PublishesCovered, Publishes
<1>10. NamedStored'
  BY <1>0, <1>1, <1>2, <1>4 DEF PublishesCovered, NamedStored
<1> QED BY <1>5, <1>6, <1>7, <1>8, <1>9, <1>10

\* A deletion is applied: unless the gate has its value again this is no publication's, so none
\* can be applied now, and no control is busy.
LEMMA ApplyDeleteInv ==
  ASSUME PagesInv, NEW q \in wire, ApplyDelete(q)
  PROVE  PagesInv'
<1> USE PagesAssumption DEF PagesInv, ApplyDelete
<1>0. q \in Deletes
  BY DEF Deletes
<1>1. holder = q.gate /\ UNCHANGED <<had, again>> /\ tree.revision = q.base
  BY DEF Guarded
<1>2. late' \in BOOLEAN /\ (~late' => ~late /\ holder \notin again)
  BY Zenon DEF Guarded
<1>3. PagesTypeOK' /\ Numbers' /\ CollectorAlone' /\ Marked'
  BY <1>1, <1>2 DEF PagesTypeOK, Numbers, CollectorAlone, Marked, Publishes, Deletes
<1>4. DeletesSpare'
  BY <1>1 DEF DeletesSpare, Publishes, Deletes, Busy
<1>5. ~late' => \A a \in Authors : author[a].cache = {} /\ author[a].at # "persist"
  BY <1>0, <1>1, <1>2 DEF DeletesSpare, Busy
<1>6. DownEmpty' /\ CachesTrue' /\ WantsCovered'
  BY <1>2, <1>5 DEF DownEmpty, CachesTrue, WantsCovered
<1>7. PublishesCovered'
  BY <1>0, <1>1, <1>2 DEF DeletesSpare, PublishesCovered, Publishes
<1>8. NamedStored'
  BY <1>0, <1>1, <1>2 DEF DeletesSpare, NamedStored
<1> QED BY <1>3, <1>4, <1>6, <1>7, <1>8

\* The collector asks for the gate when it is free and every control is down, marks what the
\* roots name, and asks for the deletion of the rest.
LEMMA CollectInv ==
  ASSUME PagesInv, CollectBegin \/ CollectGranted \/ CollectMark \/ CollectSweep \/ CollectNext
  PROVE  PagesInv'
<1> USE PagesAssumption DEF PagesInv
<1>1. CASE CollectBegin
  <2>1. /\ AskGate /\ UNCHANGED author /\ \A a \in Authors : author[a].at = "down"
        /\ collector' = [at |-> "asking", own |-> drawn', gate |-> 0, base |-> 0, marked |-> {}, asked |-> {}]
    BY <1>1 DEF CollectBegin, Quiescent, NotCollecting
  <2>2. /\ drawn' = drawn + 1 /\ drawn + 1 \in 1..MaxPageTx /\ drawn \in Nat /\ holder = 0
        /\ wire' \subseteq Requests /\ Publishes' = Publishes /\ Deletes' = Deletes
        /\ \A q \in wire' : q.gate <= drawn + 1
        /\ \A q \in wire : q.gate \in 1..drawn
        /\ had \subseteq 1..(drawn + 1) /\ drawn + 1 \notin had
        /\ UNCHANGED <<stored, tree, holder, had, again, late>>
    BY <2>1, AskInv
  <2>3. PagesTypeOK'
    <3>1. 0 \in 0..MaxPageTx /\ 0 \in Nat /\ drawn + 1 \in 0..MaxPageTx
      BY <2>2
    <3>2. collector' \in CollectorStates
      BY <2>1, <2>2, <3>1 DEF CollectorStates
    <3> QED BY <2>1, <2>2, <3>1, <3>2 DEF PagesTypeOK, CollectorStates
  <2>4. Numbers'
    <3>1. \A a \in Authors : author[a].gate \in Nat /\ author[a].gate <= drawn + 1
      BY <2>2 DEF PagesTypeOK, Numbers
    <3>2. tree.revision \in Nat /\ 0 <= tree.revision
      BY DEF PagesTypeOK
    <3> QED BY <2>1, <2>2, <3>1, <3>2 DEF Numbers
  <2>5. \A q \in Publishes : q.gate # 0
    BY <2>2 DEF Publishes
  <2>6. CollectorAlone' /\ Marked'
    BY <2>1, <2>2, <2>5 DEF CollectorAlone, Marked
  <2>7. DeletesSpare'
    BY <2>1, <2>2 DEF DeletesSpare, Busy
  <2>8. DownEmpty' /\ CachesTrue' /\ WantsCovered' /\ PublishesCovered' /\ NamedStored'
    BY <2>1, <2>2 DEF DownEmpty, CachesTrue, WantsCovered, PublishesCovered, NamedStored
  <2> QED BY <2>3, <2>4, <2>6, <2>7, <2>8
<1>5. CASE CollectGranted
  <2> USE <1>5 DEF CollectGranted, gateHistory
  <2>1. PagesTypeOK' /\ Numbers'
    BY DEF PagesTypeOK, Numbers, Publishes, Deletes
  <2>2. CollectorAlone' /\ Marked'
    BY DEF PagesTypeOK, CollectorAlone, Marked, Publishes
  <2>3. DeletesSpare' /\ DownEmpty' /\ CachesTrue' /\ WantsCovered' /\ PublishesCovered' /\ NamedStored'
    BY DEF DownEmpty, DeletesSpare, CachesTrue, WantsCovered, PublishesCovered, NamedStored, Publishes, Deletes, Busy
  <2> QED BY <2>1, <2>2, <2>3
<1>2. CASE CollectMark
  <2> USE <1>2 DEF CollectMark, gateHistory
  <2>1. collector' = [collector EXCEPT !.at = "sweep", !.gate = holder, !.base = tree.revision,
                                       !.marked = tree.pages \cup Imported]
    OBVIOUS
  <2>2. PagesTypeOK' /\ Numbers'
    <3>1. tree.pages \cup Imported \subseteq Pages
      BY DEF PagesTypeOK
    <3>2. collector' \in CollectorStates
      BY <2>1, <3>1 DEF PagesTypeOK, CollectorStates
    <3>3. PagesTypeOK'
      BY <3>2 DEF PagesTypeOK, CollectorStates
    <3>4. collector'.gate = holder /\ collector'.base = tree.revision
      BY <2>1 DEF PagesTypeOK
    <3>5. Numbers'
      BY <3>4 DEF PagesTypeOK, Numbers, Publishes, Deletes
    <3> QED BY <3>3, <3>5
  <2>3. CollectorAlone' /\ Marked'
    BY <2>1 DEF PagesTypeOK, CollectorAlone, Marked, Publishes
  <2>4. DeletesSpare' /\ DownEmpty' /\ CachesTrue' /\ WantsCovered' /\ PublishesCovered' /\ NamedStored'
    BY DEF DownEmpty, DeletesSpare, CachesTrue, WantsCovered, PublishesCovered, NamedStored, Publishes, Deletes, Busy
  <2> QED BY <2>2, <2>3, <2>4
<1>3. CASE CollectSweep
  <2>0. collector.at = "sweep" /\ UNCHANGED <<stored, tree, holder, had, again, late, author, drawn>>
    BY <1>3 DEF CollectSweep, gateHistory
  <2>1. PICK p \in stored \ collector.marked :
          /\ wire' = wire \cup {[kind |-> "delete", gate |-> collector.gate, base |-> collector.base, pages |-> {p}]}
          /\ collector' = [collector EXCEPT !.at = "waiting", !.asked = {p}]
    BY <1>3 DEF CollectSweep
  <2>2. PICK q : q = [kind |-> "delete", gate |-> collector.gate, base |-> collector.base, pages |-> {p}]
    OBVIOUS
  <2>3. q \in Requests /\ p \in Pages
    <3>1. collector.gate \in 1..MaxPageTx /\ p \in Pages
      BY <2>0, <2>1 DEF PagesTypeOK, Numbers
    <3> QED BY <2>2, <3>1 DEF PagesTypeOK, Requests
  <2>4. wire' = wire \cup {q} /\ Publishes' = Publishes /\ Deletes' = Deletes \cup {q}
    BY <2>1, <2>2 DEF Publishes, Deletes
  <2>5. PagesTypeOK'
    <3>1. collector' \in CollectorStates
      BY <2>1, <2>3 DEF PagesTypeOK, CollectorStates
    <3> QED BY <2>0, <2>3, <2>4, <3>1 DEF PagesTypeOK, CollectorStates
  <2>6. Numbers'
    <3>1. /\ collector'.gate = collector.gate /\ collector'.base = collector.base
          /\ q.gate = collector.gate /\ collector.gate \in had /\ collector.gate <= drawn
      BY <2>0, <2>1, <2>2 DEF PagesTypeOK, Numbers
    <3> QED BY <2>0, <2>4, <3>1 DEF Numbers
  <2>7. CollectorAlone' /\ Marked'
    BY <2>0, <2>1, <2>4 DEF PagesTypeOK, CollectorAlone, Marked
  <2>8. \A a \in Authors : author[a].at = "down" /\ author[a].cache = {}
    BY <2>0 DEF CollectorAlone, DownEmpty
  <2>9. DeletesSpare'
    <3>1. /\ q.gate = collector.gate /\ q.base = collector.base /\ q.pages = {p} /\ p \notin collector.marked
          /\ collector.base <= tree.revision /\ Imported \subseteq collector.marked
          /\ collector.base = tree.revision => tree.pages \subseteq collector.marked
          /\ collector.gate \notin again => \A r \in Publishes : r.gate # collector.gate
      BY <2>0, <2>1, <2>2 DEF CollectorAlone, Marked, Numbers
    <3> QED BY <2>0, <2>4, <2>8, <3>1 DEF DeletesSpare, Busy
  <2>10. DownEmpty' /\ CachesTrue' /\ WantsCovered' /\ PublishesCovered' /\ NamedStored'
    BY <2>0, <2>4 DEF DownEmpty, CachesTrue, WantsCovered, PublishesCovered, NamedStored
  <2> QED BY <2>5, <2>6, <2>7, <2>9, <2>10
<1>4. CASE CollectNext
  <2> USE <1>4 DEF CollectNext, gateHistory
  <2>1. PagesTypeOK' /\ Numbers'
    BY DEF PagesTypeOK, Numbers, Publishes, Deletes
  <2>2. CollectorAlone' /\ Marked'
    BY DEF PagesTypeOK, CollectorAlone, Marked, Publishes
  <2>3. DeletesSpare' /\ DownEmpty' /\ CachesTrue' /\ WantsCovered' /\ PublishesCovered' /\ NamedStored'
    BY DEF DownEmpty, DeletesSpare, CachesTrue, WantsCovered, PublishesCovered, NamedStored, Publishes, Deletes, Busy
  <2> QED BY <2>1, <2>2, <2>3
<1> QED BY <1>1, <1>2, <1>3, <1>4, <1>5

\* The pages keep their invariant, whenever and however often the requests are applied, those
\* that take the gate included (persist_pages, collect_pages, transaction).
THEOREM PagesCorrect == PagesSpec => []PagesInv
<1>1. PagesInv /\ [PagesNext]_pagesVars => PagesInv'
  <2> SUFFICES ASSUME PagesInv, [PagesNext]_pagesVars PROVE PagesInv'
    OBVIOUS
  <2>1. CASE UNCHANGED pagesVars
    BY <2>1 DEF pagesVars, PagesInv, PagesTypeOK, Numbers, DownEmpty, CollectorAlone, Marked, DeletesSpare, CachesTrue,
                WantsCovered, PublishesCovered, NamedStored, Publishes, Deletes, Busy
  <2>2. ASSUME NEW a \in Authors,
               \/ StartAuthor(a) \/ StopAuthor(a) \/ BeginTree(a) \/ GateGranted(a) \/ ReadTree(a)
               \/ PersistPages(a) \/ PersistFails(a) \/ PublishTree(a)
        PROVE PagesInv'
    BY <2>2, LifeInv, BeginInv, WorkInv, PublishInv
  <2>3. ASSUME NEW a \in Authors, EndTree(a) PROVE PagesInv'
    <3>1. author[a].at \in {"asking", "sent", "undo"} /\ author' = [author EXCEPT ![a] = Idle(a, author[a].cache)]
          /\ UNCHANGED <<stored, tree, had, again, late, collector, wire, drawn>> /\ holder' \in {holder, 0}
      BY <2>3 DEF EndTree, gateHistory
    <3>2. author \in [Authors -> AuthorStates] /\ 0 \in 0..MaxPageTx /\ 0 \in Nat
      BY PagesAssumption DEF PagesInv, PagesTypeOK, AuthorStates
    <3>3. Idle(a, author[a].cache) \in AuthorStates
      BY <3>2 DEF Idle, Down, AuthorStates
    <3>4. author' \in [Authors -> AuthorStates]
      BY <3>1, <3>2, <3>3
    <3>5. \A b \in Authors : author'[b] = author[b] \/ (author[b].at # "idle" /\ author'[b] = Idle(b, author[b].cache))
      BY <3>1, <3>2
    <3>6. collector.at = "idle"
      BY <3>1 DEF PagesInv, CollectorAlone
    <3> QED BY <3>1, <3>4, <3>5, <3>6, GateFreed
  <2>4. ASSUME NEW q \in wire, TakeGate(q) \/ ApplyPublish(q) \/ ApplyDelete(q) PROVE PagesInv'
    BY <2>4, TakeInv, ApplyPublishInv, ApplyDeleteInv
  <2>5. CASE HolderLapses
    BY <2>5, GateFreed DEF HolderLapses, gateHistory, PagesInv, PagesTypeOK, AuthorStates
  <2>6. CASE CollectBegin \/ CollectGranted \/ CollectMark \/ CollectSweep \/ CollectNext
    BY <2>6, CollectInv
  <2>7. CASE CollectEnds
    BY <2>7, GateFreed DEF CollectEnds, gateHistory, PagesInv, PagesTypeOK, AuthorStates
  <2> QED BY <2>1, <2>2, <2>3, <2>4, <2>5, <2>6, <2>7 DEF PagesNext
<1> QED BY <1>1, PagesInitInv, PTL DEF PagesSpec

\* Every page that a root names is stored, whatever is written, published, cached, delayed,
\* repeated and collected: the staged root's always, the active root's until a publication or
\* deletion is applied under a value that the gate has taken again (PagesKept).
THEOREM RootsWhole == PagesSpec => []PagesKept
<1>1. PagesInv => PagesKept
  BY DEF PagesInv, PagesKept, NamedStored
<1> QED BY <1>1, PagesCorrect, PTL

-----------------------------------------------------------------------------
(* Cluster.                                                                 *)

\* The records of the control, and what a node is doing with a block.
NodeRecords == [boot : Nat, reconciled : BOOLEAN, disabled : BOOLEAN, seen : {"fresh", "late", "gone"}]
CopyTasks == [block : Blocks \cup {Nowhere}, source : DataNodes \cup {Nowhere}, dest : DataNodes \cup {Nowhere},
              boot : Nat, live : BOOLEAN, state : {"NONE", "ACCEPTED", "FINISHED", "FAILED"}]
WorkStates == [kind : Kinds \cup {"none"}, copy : 0..MaxCopies, step : {"none", "reserved", "written", "unlinked"}]

\* The block's upload is over without content, or its content was removed.
Over(b) == upload[b] \in {"late", "removed", "ended"}

\* The record of a node follows its policy, and only enabled nodes have a copy under way.
PolicyFollowed ==
  /\ \A n \in DataNodes : listed[n].disabled = ~enabled[n]
  /\ \A k \in Copies :
       /\ copies[k].state # "NONE" =>
            /\ copies[k].block \in Blocks /\ upload[copies[k].block] # "none"
            /\ copies[k].source \in DataNodes /\ copies[k].dest \in DataNodes
       /\ Under(k) => enabled[copies[k].source] /\ enabled[copies[k].dest]

BootsCounted == \A n \in DataNodes : listed[n].boot # 0 /\ incarnation[n] # 0

\* Nothing is anywhere of a block that was never placed.
NeverPlaced ==
  \A b \in Blocks : upload[b] = "none" =>
    /\ b \notin recorded /\ putBoot[b] = 0
    /\ \A n \in DataNodes : /\ deletion[b][n] = "NONE" /\ working[n][b] = NoWork
                            /\ b \notin blockFiles[n] /\ b \notin index[n] /\ b \notin agent[n].inventory
    /\ \A r \in granted : r.block # b
PlacedSomewhere == \A b \in Blocks : upload[b] # "none" => assigned[b].node \in DataNodes

\* A put is at the node the block was placed on, and a deletion there is of a block that is over.
GrantsInPlace ==
  \A r \in granted : /\ r.kind = "put" => r.node = assigned[r.block].node
                     /\ r.kind = "delete" /\ r.node = assigned[r.block].node => Over(r.block)
WorkInPlace ==
  \A n \in DataNodes, b \in Blocks :
    /\ working[n][b].kind = "put" => assigned[b].node = n
    /\ working[n][b].step = "unlinked" /\ assigned[b].node = n => Over(b)
    /\ working[n][b].step = "written" => b \in blockFiles[n]

\* A block whose put is in the ledger of its node is in its inventory until it is over.
PutKept ==
  \A b \in Blocks : putBoot[b] # 0 /\ ~Over(b) =>
    b \in blockFiles[assigned[b].node] /\ b \in index[assigned[b].node]

\* What the control has a record of was put, and it knows where; and the inventory that a report
\* is about to bring has the block, unless it was read before the put of the same boot.
RecordedKnown ==
  \A b \in Blocks : b \in recorded /\ ~Over(b) =>
    LET n == assigned[b].node
    IN  /\ putBoot[b] # 0 /\ located[b][n] # 0
        /\ agent[n].phase = "read" /\ located[b][n] # listed[n].boot => b \in agent[n].inventory

CommittedRecorded == \A b \in Blocks : upload[b] = "committed" => b \in recorded

\* The inductive invariant of Cluster.
ClusterInv ==
  /\ ClusterTypeOK /\ PolicyFollowed /\ BootsCounted /\ NeverPlaced /\ PlacedSomewhere
  /\ GrantsInPlace /\ WorkInPlace /\ PutKept /\ RecordedKnown /\ CommittedRecorded

\* The types of what the control and the nodes keep.
LEMMA ClusterTypes ==
  ASSUME ClusterTypeOK
  PROVE  /\ \A n \in DataNodes : listed[n] \in NodeRecords /\ incarnation[n] \in Nat
         /\ \A k \in Copies : copies[k] \in CopyTasks /\ k \in 0..MaxCopies
         /\ \A n \in DataNodes, b \in Blocks : working[n][b] \in WorkStates
         /\ \A r \in granted : /\ r.block \in Blocks /\ r.node \in DataNodes /\ r.kind \in Kinds /\ r.copy \in 0..MaxCopies
  BY ClusterAssumption DEF ClusterTypeOK, NodeRecords, CopyTasks, WorkStates, Grants, Copies

\* The parts of the type invariant that an action may change.
LEMMA ListedType ==
  ASSUME ClusterTypeOK, NEW n \in DataNodes, NEW v \in NodeRecords, listed' = [listed EXCEPT ![n] = v]
  PROVE  /\ listed' \in [DataNodes -> NodeRecords] /\ listed'[n] = v
         /\ \A m \in DataNodes : m # n => listed'[m] = listed[m]
  BY DEF ClusterTypeOK, NodeRecords

\* A task of the administrator's changes.
LEMMA CopiesType ==
  ASSUME ClusterTypeOK, NEW k \in Copies, NEW v \in CopyTasks, copies' = [copies EXCEPT ![k] = v]
  PROVE  /\ copies' \in [Copies -> CopyTasks] /\ copies'[k] = v
         /\ \A j \in Copies : j # k => copies'[j] = copies[j]
  BY DEF ClusterTypeOK, CopyTasks

\* An entry of a table changes.
Changed(f, x, y, v) == [f EXCEPT ![x][y] = v]

\* A node turns to a block, or is done with it.
LEMMA WorkType ==
  ASSUME ClusterTypeOK, NEW n \in DataNodes, NEW b \in Blocks, NEW v \in WorkStates,
         working' = Changed(working, n, b, v)
  PROVE  /\ working' \in [DataNodes -> [Blocks -> WorkStates]] /\ working'[n][b] = v
         /\ \A m \in DataNodes, c \in Blocks : m # n \/ c # b => working'[m][c] = working[m][c]
<1>1. working \in [DataNodes -> [Blocks -> WorkStates]]
  BY DEF ClusterTypeOK, WorkStates
<1>2. working[n] \in [Blocks -> WorkStates]
  BY <1>1
<1> DEFINE f == [working[n] EXCEPT ![b] = v]
<1>3. f \in [Blocks -> WorkStates] /\ f[b] = v /\ \A c \in Blocks : c # b => f[c] = working[n][c]
  BY <1>2
<1>4. working' = [working EXCEPT ![n] = f]
  BY DEF Changed
<1> HIDE DEF f
<1>5. /\ working' \in [DataNodes -> [Blocks -> WorkStates]] /\ working'[n] = f
      /\ \A m \in DataNodes : m # n => working'[m] = working[m]
  BY <1>1, <1>3, <1>4
<1> QED BY <1>3, <1>5

\* A copy becomes known, or is confirmed.
LEMMA LocatedType ==
  ASSUME ClusterTypeOK, NEW b \in Blocks, NEW n \in DataNodes, NEW v \in Nat,
         located' = Changed(located, b, n, v)
  PROVE  /\ located' \in [Blocks -> [DataNodes -> Nat]] /\ located'[b][n] = v
         /\ \A c \in Blocks, m \in DataNodes : c # b \/ m # n => located'[c][m] = located[c][m]
<1>1. located \in [Blocks -> [DataNodes -> Nat]]
  BY DEF ClusterTypeOK
<1>2. located[b] \in [DataNodes -> Nat]
  BY <1>1
<1> DEFINE f == [located[b] EXCEPT ![n] = v]
<1>3. f \in [DataNodes -> Nat] /\ f[n] = v /\ \A m \in DataNodes : m # n => f[m] = located[b][m]
  BY <1>2
<1>4. located' = [located EXCEPT ![b] = f]
  BY DEF Changed
<1> HIDE DEF f
<1>5. located' \in [Blocks -> [DataNodes -> Nat]] /\ located'[b] = f /\ \A c \in Blocks : c # b => located'[c] = located[c]
  BY <1>1, <1>3, <1>4
<1> QED BY <1>3, <1>5

\* Uploads that are over stay so, and jobs are where they were.
LEMMA JobsStay ==
  ASSUME ClusterInv, UNCHANGED <<granted, assigned, working, blockFiles>>,
         \A c \in Blocks : Over(c) => Over(c)'
  PROVE  GrantsInPlace' /\ WorkInPlace'
<1>1. \A r \in granted : r.block \in Blocks
  BY ClusterTypes DEF ClusterInv
<1>2. GrantsInPlace /\ WorkInPlace
  BY DEF ClusterInv
<1>3. ASSUME NEW r \in granted
      PROVE  /\ r.kind = "put" => r.node = assigned[r.block].node
             /\ r.kind = "delete" /\ r.node = assigned[r.block].node => Over(r.block)'
  <2>1. r.kind = "delete" /\ r.node = assigned[r.block].node => Over(r.block)
    BY <1>2 DEF GrantsInPlace
  <2>2. Over(r.block) => Over(r.block)'
    BY <1>1
  <2> QED BY <1>2, <2>1, <2>2 DEF GrantsInPlace
<1>4. ASSUME NEW n \in DataNodes, NEW b \in Blocks
      PROVE  working[n][b].step = "unlinked" /\ assigned[b].node = n => Over(b)'
  <2>1. working[n][b].step = "unlinked" /\ assigned[b].node = n => Over(b)
    BY <1>2 DEF WorkInPlace
  <2> QED BY <2>1
<1>5. GrantsInPlace'
  BY <1>3 DEF GrantsInPlace, Over
<1>6. WorkInPlace'
  BY <1>2, <1>4 DEF WorkInPlace, Over
<1> QED BY <1>5, <1>6

\* A block is placed on a node, and nothing is of it anywhere.
LEMMA PlaceKept == ASSUME ClusterInv, NEW b \in Blocks, Place(b) PROVE ClusterInv'
<1>1. UNCHANGED <<recorded, located, enabled, listed, copies, deletion, blockFiles, index, incarnation, agent,
                  putBoot, granted, working, done, deleted, changes, troubles>>
  BY DEF Place, catalogue, policies, volumes
<1>2. PICK n \in DataNodes : assigned' = [assigned EXCEPT ![b] = [node |-> n, boot |-> listed[n].boot]]
  BY DEF Place
<1>3. upload[b] = "none" /\ upload' = [upload EXCEPT ![b] = "preparing"]
  BY DEF Place
<1>4. [node |-> n, boot |-> listed[n].boot] \in [node : DataNodes \cup {Nowhere}, boot : Nat]
  BY DEF ClusterInv, ClusterTypeOK
<1>5. /\ assigned'[b].node = n /\ upload'[b] = "preparing"
      /\ \A c \in Blocks : c # b => assigned'[c] = assigned[c] /\ upload'[c] = upload[c]
  BY <1>2, <1>3 DEF ClusterInv, ClusterTypeOK
<1>6. ClusterTypeOK'
  <2>1. assigned' \in [Blocks -> [node : DataNodes \cup {Nowhere}, boot : Nat]]
    BY <1>2, <1>4 DEF ClusterInv, ClusterTypeOK
  <2>2. upload' \in [Blocks -> {"none", "preparing", "sealed", "late", "committed", "removed", "ended"}]
    BY <1>3 DEF ClusterInv, ClusterTypeOK
  <2> QED BY <1>1, <2>1, <2>2 DEF ClusterInv, ClusterTypeOK
<1>7. PolicyFollowed'
  BY <1>1 DEF ClusterInv, ClusterTypeOK, PolicyFollowed, Under, Place
<1>8. NeverPlaced'
  BY <1>1 DEF ClusterInv, ClusterTypeOK, NeverPlaced, Place
<1>9. PlacedSomewhere'
  BY <1>1 DEF ClusterInv, ClusterTypeOK, PlacedSomewhere, Place
<1>10. GrantsInPlace'
  BY <1>1, <1>3, <1>5, ClusterTypes DEF ClusterInv, NeverPlaced, GrantsInPlace, Over
<1>11. WorkInPlace'
  BY <1>1, <1>3, <1>5 DEF ClusterInv, NeverPlaced, NoWork, WorkInPlace, Over
<1>12. PutKept'
  BY <1>1, <1>3, <1>5 DEF ClusterInv, NeverPlaced, PutKept, Over
<1>13. RecordedKnown'
  BY <1>1, <1>3, <1>5 DEF ClusterInv, NeverPlaced, RecordedKnown, Over
<1>14. CommittedRecorded'
  BY <1>1 DEF ClusterInv, ClusterTypeOK, CommittedRecorded, Place
<1>15. (BootsCounted)'
  BY <1>1 DEF ClusterInv, BootsCounted
<1> QED BY <1>6, <1>7, <1>8, <1>9, <1>10, <1>11, <1>12, <1>13, <1>14, <1>15 DEF ClusterInv

\* A put is authorized at the node the block was placed on.
LEMMA AuthorizePutKept == ASSUME ClusterInv, NEW b \in Blocks, AuthorizePut(b) PROVE ClusterInv'
<1>1. UNCHANGED <<upload, assigned, recorded, located, enabled, listed, copies, deletion, blockFiles, index,
                  incarnation, agent, putBoot, working, done, deleted, changes, troubles>>
  BY DEF AuthorizePut, catalogue, policies, volumes, OpLive
<1>2. assigned[b].node \in DataNodes
  BY DEF AuthorizePut, OpLive, ClusterInv, PlacedSomewhere
<1>3. ClusterTypeOK'
  <2>1. [kind |-> "put", block |-> b, node |-> assigned[b].node, copy |-> 0] \in Grants
    BY <1>2, ClusterAssumption, ClusterTypes DEF ClusterInv, Grants, Kinds
  <2>2. granted' \subseteq Grants
    BY <2>1 DEF AuthorizePut, ClusterInv, ClusterTypeOK
  <2> QED BY <1>1, <2>1, <2>2 DEF ClusterInv, ClusterTypeOK
<1>4. NeverPlaced'
  BY <1>1 DEF ClusterInv, ClusterTypeOK, NeverPlaced, AuthorizePut, OpLive
<1>5. GrantsInPlace'
  BY <1>1 DEF ClusterInv, ClusterTypeOK, GrantsInPlace, Over, AuthorizePut, OpLive
<1>6. (PolicyFollowed /\ BootsCounted /\ PlacedSomewhere /\ WorkInPlace /\ PutKept /\ RecordedKnown
      /\ CommittedRecorded)'
  BY <1>1 DEF ClusterInv, PolicyFollowed, BootsCounted, PlacedSomewhere, WorkInPlace, PutKept, RecordedKnown,
     CommittedRecorded, Over, Under
<1> QED BY <1>3, <1>4, <1>5, <1>6 DEF ClusterInv

\* The put of a block becomes a copy that the control knows.
LEMMA ReportDurableKept == ASSUME ClusterInv, NEW b \in Blocks, ReportDurable(b) PROVE ClusterInv'
<1>1. UNCHANGED <<upload, assigned, enabled, listed, copies, deletion, blockFiles, index, incarnation, agent,
                  putBoot, granted, working, done, deleted, changes, troubles>>
  BY DEF ReportDurable, catalogue, policies, volumes, OpLive
<1>2. assigned[b].node \in DataNodes /\ listed[assigned[b].node].boot # 0
  BY DEF ReportDurable, OpLive, ClusterInv, PlacedSomewhere, BootsCounted
<1>3. /\ located'[b][assigned[b].node] = listed[assigned[b].node].boot
      /\ \A c \in Blocks : c # b => located'[c] = located[c]
  BY <1>2 DEF ReportDurable, ClusterInv, ClusterTypeOK
<1>4. ClusterTypeOK'
  BY <1>1, ClusterAssumption DEF ClusterInv, ClusterTypeOK, ReportDurable, OpLive
<1>5. NeverPlaced'
  BY <1>1 DEF ClusterInv, ClusterTypeOK, NeverPlaced, ReportDurable, OpLive
<1>6. RecordedKnown'
  BY <1>1, <1>2, <1>3 DEF ReportDurable, ClusterInv, RecordedKnown, Over
<1>7. CommittedRecorded'
  BY <1>1 DEF ClusterInv, ClusterTypeOK, CommittedRecorded, ReportDurable, OpLive
<1>8. (PolicyFollowed /\ BootsCounted /\ PlacedSomewhere /\ GrantsInPlace /\ WorkInPlace /\ PutKept)'
  BY <1>1 DEF ClusterInv, PolicyFollowed, BootsCounted, PlacedSomewhere, GrantsInPlace, WorkInPlace, PutKept, Over,
     Under
<1> QED BY <1>4, <1>5, <1>6, <1>7, <1>8 DEF ClusterInv

\* The upload is sealed.
LEMMA SealKept == ASSUME ClusterInv, NEW b \in Blocks, Seal(b) PROVE ClusterInv'
<1>1. UNCHANGED <<assigned, recorded, located, enabled, listed, copies, deletion, blockFiles, index, incarnation,
                  agent, putBoot, granted, working, done, deleted, changes, troubles>>
  BY DEF Seal, catalogue, policies, volumes
<1>2. ClusterTypeOK'
  BY <1>1, ClusterAssumption DEF ClusterInv, ClusterTypeOK, Seal
<1>3. PolicyFollowed'
  BY <1>1 DEF ClusterInv, ClusterTypeOK, PolicyFollowed, Under, Seal
<1>4. NeverPlaced'
  BY <1>1 DEF ClusterInv, ClusterTypeOK, NeverPlaced, Seal
<1>5. PlacedSomewhere'
  BY <1>1 DEF ClusterInv, ClusterTypeOK, PlacedSomewhere, Seal
<1>6. GrantsInPlace'
  BY <1>1 DEF ClusterInv, ClusterTypeOK, GrantsInPlace, Over, Seal
<1>7. WorkInPlace'
  BY <1>1 DEF ClusterInv, ClusterTypeOK, WorkInPlace, Over, Seal
<1>8. PutKept'
  BY <1>1 DEF ClusterInv, ClusterTypeOK, PutKept, Over, Seal
<1>9. RecordedKnown'
  BY <1>1 DEF ClusterInv, ClusterTypeOK, RecordedKnown, Over, Seal
<1>10. CommittedRecorded'
  BY <1>1 DEF ClusterInv, ClusterTypeOK, CommittedRecorded, Seal
<1>11. (BootsCounted)'
  BY <1>1 DEF ClusterInv, BootsCounted
<1> QED BY <1>2, <1>3, <1>4, <1>5, <1>6, <1>7, <1>8, <1>9, <1>10, <1>11 DEF ClusterInv

\* The content is committed.
LEMMA CommitPlacedKept == ASSUME ClusterInv, NEW b \in Blocks, CommitPlaced(b) PROVE ClusterInv'
<1>1. UNCHANGED <<assigned, recorded, located, enabled, listed, copies, deletion, blockFiles, index, incarnation,
                  agent, putBoot, granted, working, done, deleted, changes, troubles>>
  BY DEF CommitPlaced, catalogue, policies, volumes
<1>2. ClusterTypeOK'
  BY <1>1, ClusterAssumption DEF ClusterInv, ClusterTypeOK, CommitPlaced
<1>3. PolicyFollowed'
  BY <1>1 DEF ClusterInv, ClusterTypeOK, PolicyFollowed, Under, CommitPlaced
<1>4. NeverPlaced'
  BY <1>1 DEF ClusterInv, ClusterTypeOK, NeverPlaced, CommitPlaced
<1>5. PlacedSomewhere'
  BY <1>1 DEF ClusterInv, ClusterTypeOK, PlacedSomewhere, CommitPlaced
<1>6. GrantsInPlace'
  BY <1>1 DEF ClusterInv, ClusterTypeOK, GrantsInPlace, Over, CommitPlaced
<1>7. WorkInPlace'
  BY <1>1 DEF ClusterInv, ClusterTypeOK, WorkInPlace, Over, CommitPlaced
<1>8. PutKept'
  BY <1>1 DEF ClusterInv, ClusterTypeOK, PutKept, Over, CommitPlaced
<1>9. RecordedKnown'
  BY <1>1 DEF ClusterInv, ClusterTypeOK, RecordedKnown, Over, CommitPlaced
<1>10. CommittedRecorded'
  BY <1>1 DEF ClusterInv, ClusterTypeOK, CommittedRecorded, CommitPlaced
<1>11. (BootsCounted)'
  BY <1>1 DEF ClusterInv, BootsCounted
<1> QED BY <1>2, <1>3, <1>4, <1>5, <1>6, <1>7, <1>8, <1>9, <1>10, <1>11 DEF ClusterInv

\* The upload is aborted, or the content removed.
LEMMA AbortOrRemoveKept == ASSUME ClusterInv, NEW b \in Blocks, AbortOrRemove(b) PROVE ClusterInv'
<1>1. UNCHANGED <<assigned, recorded, located, enabled, listed, copies, deletion, blockFiles, index, incarnation,
                  agent, putBoot, granted, working, done, deleted, changes, troubles>>
  BY DEF AbortOrRemove, catalogue, policies, volumes, OpLive
<1>2. ClusterTypeOK'
  BY <1>1, ClusterAssumption DEF ClusterInv, ClusterTypeOK, AbortOrRemove, OpLive
<1>3. PolicyFollowed'
  BY <1>1 DEF ClusterInv, ClusterTypeOK, PolicyFollowed, Under, AbortOrRemove, OpLive
<1>4. NeverPlaced'
  BY <1>1 DEF ClusterInv, ClusterTypeOK, NeverPlaced, AbortOrRemove, OpLive
<1>5. PlacedSomewhere'
  BY <1>1 DEF ClusterInv, ClusterTypeOK, PlacedSomewhere, AbortOrRemove, OpLive
<1>6. GrantsInPlace'
  BY <1>1 DEF ClusterInv, ClusterTypeOK, GrantsInPlace, Over, AbortOrRemove, OpLive
<1>7. WorkInPlace'
  BY <1>1 DEF ClusterInv, ClusterTypeOK, WorkInPlace, Over, AbortOrRemove, OpLive
<1>8. PutKept'
  BY <1>1 DEF ClusterInv, ClusterTypeOK, PutKept, Over, AbortOrRemove, OpLive
<1>9. RecordedKnown'
  BY <1>1 DEF ClusterInv, ClusterTypeOK, RecordedKnown, Over, AbortOrRemove, OpLive
<1>10. CommittedRecorded'
  BY <1>1 DEF ClusterInv, ClusterTypeOK, CommittedRecorded, AbortOrRemove, OpLive
<1>11. (BootsCounted)'
  BY <1>1 DEF ClusterInv, BootsCounted
<1> QED BY <1>2, <1>3, <1>4, <1>5, <1>6, <1>7, <1>8, <1>9, <1>10, <1>11 DEF ClusterInv

\* The upload runs out of time.
LEMMA UploadLateKept == ASSUME ClusterInv, NEW b \in Blocks, UploadLate(b) PROVE ClusterInv'
<1>1. UNCHANGED <<assigned, recorded, located, enabled, listed, copies, deletion, blockFiles, index, incarnation,
                  agent, putBoot, granted, working, done, deleted, changes>>
  BY DEF UploadLate, catalogue, policies, volumes, OpLive
<1>2. ClusterTypeOK'
  BY <1>1, ClusterAssumption DEF ClusterInv, ClusterTypeOK, UploadLate, OpLive
<1>3. PolicyFollowed'
  BY <1>1 DEF ClusterInv, ClusterTypeOK, PolicyFollowed, Under, UploadLate, OpLive
<1>4. NeverPlaced'
  BY <1>1 DEF ClusterInv, ClusterTypeOK, NeverPlaced, UploadLate, OpLive
<1>5. PlacedSomewhere'
  BY <1>1 DEF ClusterInv, ClusterTypeOK, PlacedSomewhere, UploadLate, OpLive
<1>6. GrantsInPlace'
  BY <1>1 DEF ClusterInv, ClusterTypeOK, GrantsInPlace, Over, UploadLate, OpLive
<1>7. WorkInPlace'
  BY <1>1 DEF ClusterInv, ClusterTypeOK, WorkInPlace, Over, UploadLate, OpLive
<1>8. PutKept'
  BY <1>1 DEF ClusterInv, ClusterTypeOK, PutKept, Over, UploadLate, OpLive
<1>9. RecordedKnown'
  BY <1>1 DEF ClusterInv, ClusterTypeOK, RecordedKnown, Over, UploadLate, OpLive
<1>10. CommittedRecorded'
  BY <1>1 DEF ClusterInv, ClusterTypeOK, CommittedRecorded, UploadLate, OpLive
<1>11. (BootsCounted)'
  BY <1>1 DEF ClusterInv, BootsCounted
<1> QED BY <1>2, <1>3, <1>4, <1>5, <1>6, <1>7, <1>8, <1>9, <1>10, <1>11 DEF ClusterInv

\* Blocks of no upload, content or copy are retired.
LEMMA CollectBlocksKept == ASSUME ClusterInv, CollectBlocks PROVE ClusterInv'
<1>1. UNCHANGED <<assigned, enabled, listed, copies, blockFiles, index, incarnation, agent, putBoot, granted,
                  working, done, deleted, changes, troubles>>
  BY DEF CollectBlocks, catalogue, policies, volumes, Retired
<1>2. \A c \in Blocks : Over(c) => Over(c)'
  BY DEF CollectBlocks, Over
<1>3. ClusterTypeOK'
  BY <1>1, ClusterAssumption DEF ClusterInv, ClusterTypeOK, CollectBlocks, Retired
<1>4. PolicyFollowed'
  BY <1>1 DEF ClusterInv, ClusterTypeOK, PolicyFollowed, Under, CollectBlocks, Retired
<1>5. NeverPlaced'
  BY <1>1 DEF ClusterInv, ClusterTypeOK, NeverPlaced, CollectBlocks, Retired
<1>6. PlacedSomewhere'
  BY <1>1 DEF ClusterInv, ClusterTypeOK, PlacedSomewhere, CollectBlocks, Retired
<1>7. GrantsInPlace'
  BY <1>1, <1>2, JobsStay
<1>8. WorkInPlace'
  BY <1>1, <1>2, JobsStay
<1>9. PutKept'
  BY <1>1 DEF ClusterInv, ClusterTypeOK, PutKept, Over, CollectBlocks, Retired
<1>10. RecordedKnown'
  BY <1>1 DEF ClusterInv, ClusterTypeOK, RecordedKnown, Over, CollectBlocks, Retired
<1>11. CommittedRecorded'
  BY <1>1 DEF ClusterInv, ClusterTypeOK, CommittedRecorded, CollectBlocks, Retired
<1>12. (BootsCounted)'
  BY <1>1 DEF ClusterInv, BootsCounted
<1> QED BY <1>3, <1>4, <1>5, <1>6, <1>7, <1>8, <1>9, <1>10, <1>11, <1>12 DEF ClusterInv

\* What ended uploads and failed copies may have left is retired.
LEMMA CollectCopiesKept == ASSUME ClusterInv, CollectCopies PROVE ClusterInv'
<1>1. UNCHANGED <<upload, assigned, recorded, located, enabled, listed, copies, blockFiles, index, incarnation,
                  agent, putBoot, granted, working, done, deleted, changes, troubles>>
  BY DEF CollectCopies, catalogue, policies, volumes, Retired
<1> DEFINE left == {<<b, assigned[b].node>> : b \in {x \in Blocks : /\ upload[x] = "ended"
                                                                  /\ located[x][assigned[x].node] = 0}}
           failed == {<<copies[k].block, copies[k].dest>> : k \in {j \in Copies : copies[j].state = "FAILED"}}
<1>2. deletion' = Retired(deletion, left \cup failed)
  BY DEF CollectCopies
<1>3. \A b \in Blocks, n \in DataNodes : upload[b] = "none" => <<b, n>> \notin left \cup failed
  BY DEF ClusterInv, PolicyFollowed
<1> HIDE DEF left, failed
<1>4. \A b \in Blocks, n \in DataNodes : upload[b] = "none" => deletion'[b][n] = deletion[b][n]
  BY <1>2, <1>3 DEF Retired
<1>5. ClusterTypeOK'
  <2>1. deletion' \in [Blocks -> [DataNodes -> {"NONE", "ACCEPTED", "FINISHED", "FAILED"}]]
    BY <1>2 DEF Retired, ClusterInv, ClusterTypeOK
  <2> QED BY <1>1, <2>1 DEF ClusterInv, ClusterTypeOK
<1>6. NeverPlaced'
  BY <1>1, <1>4 DEF ClusterInv, NeverPlaced
<1>7. (PolicyFollowed /\ BootsCounted /\ PlacedSomewhere /\ GrantsInPlace /\ WorkInPlace /\ PutKept
      /\ RecordedKnown /\ CommittedRecorded)'
  BY <1>1 DEF ClusterInv, PolicyFollowed, BootsCounted, PlacedSomewhere, GrantsInPlace, WorkInPlace, PutKept,
     RecordedKnown, CommittedRecorded, Over, Under
<1> QED BY <1>5, <1>6, <1>7 DEF ClusterInv

\* An expired copy fails.
LEMMA FailExpiredKept == ASSUME ClusterInv, NEW k \in Copies, FailExpired(k) PROVE ClusterInv'
<1>1. UNCHANGED <<upload, assigned, recorded, located, enabled, listed, deletion, blockFiles, index, incarnation,
                  agent, putBoot, granted, working, done, deleted, changes, troubles>>
  BY DEF FailExpired, catalogue, policies, volumes
<1> DEFINE v == [copies[k] EXCEPT !.state = "FAILED"]
<1>2. v \in CopyTasks
  BY ClusterTypes DEF CopyTasks, ClusterInv, FailExpired
<1>3. copies' = [copies EXCEPT ![k] = v]
  BY DEF FailExpired
<1> HIDE DEF v
<1>4. copies' \in [Copies -> CopyTasks]
  BY <1>2, <1>3, CopiesType DEF ClusterInv
<1>5. ClusterTypeOK'
  BY <1>1, <1>4 DEF ClusterInv, ClusterTypeOK, CopyTasks
<1>6. PolicyFollowed'
  BY <1>1 DEF ClusterInv, ClusterTypeOK, PolicyFollowed, Under, FailExpired
<1>7. (BootsCounted /\ NeverPlaced /\ PlacedSomewhere /\ GrantsInPlace /\ WorkInPlace /\ PutKept
      /\ RecordedKnown /\ CommittedRecorded)'
  BY <1>1 DEF ClusterInv, BootsCounted, NeverPlaced, PlacedSomewhere, GrantsInPlace, WorkInPlace, PutKept,
     RecordedKnown, CommittedRecorded, Over
<1> QED BY <1>5, <1>6, <1>7 DEF ClusterInv

\* A copy reaches its destination.
LEMMA DispatchCopyKept == ASSUME ClusterInv, NEW k \in Copies, DispatchCopy(k) PROVE ClusterInv'
<1>1. UNCHANGED <<upload, assigned, recorded, located, enabled, listed, copies, deletion, blockFiles, index,
                  incarnation, agent, putBoot, working, deleted, changes, troubles>>
  BY DEF DispatchCopy, catalogue, policies, volumes, CopyAuthorized, Unexpired, Under
<1>2. copies[k].block \in Blocks /\ copies[k].dest \in DataNodes /\ upload[copies[k].block] # "none"
  BY DEF DispatchCopy, CopyAuthorized, Unexpired, Under, ClusterInv, PolicyFollowed
<1>3. ClusterTypeOK'
  <2>1. [kind |-> "copy", block |-> copies[k].block, node |-> copies[k].dest, copy |-> k] \in Grants
    BY <1>2, ClusterTypes DEF ClusterInv, Grants, Kinds
  <2>2. granted' \subseteq Grants
    BY <2>1 DEF DispatchCopy, ClusterInv, ClusterTypeOK
  <2>3. done' \in [Copies -> {"NONE", "ACCEPTED", "FINISHED", "FAILED"}]
    BY DEF DispatchCopy, ClusterInv, ClusterTypeOK
  <2> QED BY <1>1, <2>1, <2>2, <2>3 DEF ClusterInv, ClusterTypeOK
<1>4. NeverPlaced'
  BY <1>1, <1>2 DEF DispatchCopy, ClusterInv, NeverPlaced
<1>5. GrantsInPlace'
  BY <1>1 DEF ClusterInv, ClusterTypeOK, GrantsInPlace, Over, DispatchCopy, CopyAuthorized, Unexpired, Under
<1>6. (PolicyFollowed /\ BootsCounted /\ PlacedSomewhere /\ WorkInPlace /\ PutKept /\ RecordedKnown
      /\ CommittedRecorded)'
  BY <1>1 DEF ClusterInv, PolicyFollowed, BootsCounted, PlacedSomewhere, WorkInPlace, PutKept, RecordedKnown,
     CommittedRecorded, Over, Under
<1> QED BY <1>3, <1>4, <1>5, <1>6 DEF ClusterInv

\* A deletion is authorized: the block is over, or was not placed at the node.
LEMMA DispatchDeleteKept ==
  ASSUME ClusterInv, NEW b \in Blocks, NEW n \in DataNodes, DispatchDelete(b, n) PROVE ClusterInv'
<1>1. UNCHANGED <<upload, assigned, recorded, located, enabled, listed, copies, deletion, blockFiles, index,
                  incarnation, agent, putBoot, working, done, deleted, changes, troubles>>
  BY DEF DispatchDelete, catalogue, policies, volumes, RetiredAt, OpLive
<1>2. assigned[b].node = n => Over(b)
  <2>1. upload[b] # "none" /\ ~(assigned[b].node = n /\ upload[b] \in {"preparing", "sealed"}) /\ located[b][n] = 0
    BY DEF DispatchDelete, RetiredAt, OpLive, ClusterInv, NeverPlaced
  <2>2. upload[b] = "committed" => located[b][assigned[b].node] # 0
    BY DEF ClusterInv, CommittedRecorded, RecordedKnown, Over
  <2> QED BY <2>1, <2>2 DEF ClusterInv, ClusterTypeOK, Over
<1>3. ClusterTypeOK'
  <2>1. [kind |-> "delete", block |-> b, node |-> n, copy |-> 0] \in Grants
    BY <1>2, ClusterAssumption, ClusterTypes DEF ClusterInv, Grants, Kinds
  <2>2. granted' \subseteq Grants
    BY <2>1 DEF DispatchDelete, ClusterInv, ClusterTypeOK
  <2> QED BY <1>1, <2>1, <2>2 DEF ClusterInv, ClusterTypeOK
<1>4. NeverPlaced'
  BY <1>1 DEF ClusterInv, ClusterTypeOK, NeverPlaced, DispatchDelete, RetiredAt, OpLive
<1>5. GrantsInPlace'
  BY <1>1, <1>2, ClusterTypes DEF DispatchDelete, ClusterInv, GrantsInPlace, Over
<1>6. (PolicyFollowed /\ BootsCounted /\ PlacedSomewhere /\ WorkInPlace /\ PutKept /\ RecordedKnown
      /\ CommittedRecorded)'
  BY <1>1 DEF ClusterInv, PolicyFollowed, BootsCounted, PlacedSomewhere, WorkInPlace, PutKept, RecordedKnown,
     CommittedRecorded, Over, Under
<1> QED BY <1>3, <1>4, <1>5, <1>6 DEF ClusterInv

\* The administrator orders a copy between nodes that serve.
LEMMA CopyBlockKept ==
  ASSUME ClusterInv, NEW b \in Blocks, NEW s \in DataNodes, NEW d \in DataNodes, CopyBlock(b, s, d) PROVE ClusterInv'
<1>1. UNCHANGED <<upload, assigned, recorded, located, enabled, listed, deletion, blockFiles, index, incarnation,
                  agent, putBoot, granted, working, done, deleted, changes, troubles>>
  BY DEF CopyBlock, catalogue, policies, volumes, Fresh, Serves
<1> DEFINE v == [block |-> b, source |-> s, dest |-> d, boot |-> listed[d].boot, state |-> "ACCEPTED", live |-> TRUE]
<1>2. PICK k \in Copies : copies' = [copies EXCEPT ![k] = v]
  BY DEF CopyBlock
<1>3. v \in CopyTasks /\ v.block = b /\ v.source = s /\ v.dest = d
  BY ClusterTypes DEF CopyTasks, NodeRecords, ClusterInv
<1>4. enabled[s] /\ enabled[d] /\ upload[b] # "none"
  BY DEF CopyBlock, Fresh, Serves, ClusterInv, PolicyFollowed, NeverPlaced
<1> HIDE DEF v
<1>5. /\ copies' \in [Copies -> CopyTasks] /\ copies'[k] = v
      /\ \A j \in Copies : j # k => copies'[j] = copies[j]
  BY <1>2, <1>3, CopiesType DEF ClusterInv
<1>6. ClusterTypeOK'
  BY <1>1, <1>5 DEF ClusterInv, ClusterTypeOK, CopyTasks
<1>7. PolicyFollowed'
  BY <1>1, <1>3, <1>4, <1>5 DEF ClusterInv, PolicyFollowed, Under
<1>8. (BootsCounted /\ NeverPlaced /\ PlacedSomewhere /\ GrantsInPlace /\ WorkInPlace /\ PutKept
      /\ RecordedKnown /\ CommittedRecorded)'
  BY <1>1 DEF ClusterInv, BootsCounted, NeverPlaced, PlacedSomewhere, GrantsInPlace, WorkInPlace, PutKept,
     RecordedKnown, CommittedRecorded, Over
<1> QED BY <1>6, <1>7, <1>8 DEF ClusterInv

\* The outcome of a copy is reported.
LEMMA ReportCopyKept == ASSUME ClusterInv, NEW k \in Copies, ReportCopy(k) PROVE ClusterInv'
<1>1. UNCHANGED <<upload, assigned, recorded, enabled, listed, deletion, blockFiles, index, incarnation, agent,
                  putBoot, granted, working, done, deleted, changes, troubles>>
  BY DEF ReportCopy, catalogue, policies, volumes, Unexpired, Under
<1>2. ClusterTypeOK
  BY DEF ClusterInv
<1> DEFINE v == [copies[k] EXCEPT !.state = done[k]]
<1>3. v \in CopyTasks
  <2>1. done[k] \in {"NONE", "ACCEPTED", "FINISHED", "FAILED"}
    BY <1>2 DEF ClusterTypeOK
  <2>2. copies[k] \in CopyTasks
    BY <1>2, ClusterTypes
  <2> QED BY <2>1, <2>2 DEF CopyTasks
<1>4. copies' = [copies EXCEPT ![k] = v]
  BY DEF ReportCopy
<1> HIDE DEF v
<1>5. copies' \in [Copies -> CopyTasks]
  BY <1>3, <1>4, <1>2, CopiesType
<1>6. copies[k].block \in Blocks /\ copies[k].dest \in DataNodes
  BY DEF ReportCopy, Unexpired, Under, ClusterInv, PolicyFollowed
<1>7. located' = located \/ located' = Changed(located, copies[k].block, copies[k].dest, listed[copies[k].dest].boot)
  BY DEF ReportCopy, Changed
<1>8. /\ located' \in [Blocks -> [DataNodes -> Nat]]
      /\ \A c \in Blocks, m \in DataNodes : located'[c][m] = located[c][m] \/ located'[c][m] = listed[m].boot
  <2>1. CASE located' = located
    BY <1>2, <2>1 DEF ClusterTypeOK
  <2>2. CASE located' = Changed(located, copies[k].block, copies[k].dest, listed[copies[k].dest].boot)
    <3>1. listed[copies[k].dest].boot \in Nat
      BY <1>6, <1>2, ClusterTypes DEF NodeRecords
    <3> DEFINE b == copies[k].block
               n == copies[k].dest
               boot == listed[n].boot
    <3>2. /\ located' \in [Blocks -> [DataNodes -> Nat]] /\ located'[b][n] = boot
          /\ \A c \in Blocks, m \in DataNodes : c # b \/ m # n => located'[c][m] = located[c][m]
      BY <1>6, <1>2, <2>2, <3>1, LocatedType
    <3> QED BY <3>2
  <2> QED BY <1>7, <2>1, <2>2
<1>9. \A c \in Blocks : c \in recorded => assigned[c].node \in DataNodes
  BY DEF ClusterInv, PlacedSomewhere, NeverPlaced
<1>10. \A n \in DataNodes : listed[n].boot # 0
  BY DEF ClusterInv, BootsCounted
<1>11. ClusterTypeOK'
  BY <1>1, <1>5, <1>8 DEF ClusterInv, ClusterTypeOK, CopyTasks
<1>12. PolicyFollowed'
  BY <1>1 DEF ClusterInv, ClusterTypeOK, PolicyFollowed, Under, ReportCopy, Unexpired, Under
<1>13. RecordedKnown'
  BY <1>1, <1>8, <1>9, <1>10 DEF ClusterInv, RecordedKnown, Over
<1>14. (BootsCounted /\ NeverPlaced /\ PlacedSomewhere /\ GrantsInPlace /\ WorkInPlace /\ PutKept
      /\ CommittedRecorded)'
  BY <1>1 DEF ClusterInv, BootsCounted, NeverPlaced, PlacedSomewhere, GrantsInPlace, WorkInPlace, PutKept,
     CommittedRecorded, Over
<1> QED BY <1>11, <1>12, <1>13, <1>14 DEF ClusterInv

\* The end of a deletion is reported.
LEMMA ReportDeleteKept ==
  ASSUME ClusterInv, NEW b \in Blocks, NEW n \in DataNodes, ReportDelete(b, n) PROVE ClusterInv'
<1>1. UNCHANGED <<upload, assigned, recorded, located, enabled, listed, copies, blockFiles, index, incarnation,
                  agent, putBoot, granted, working, done, deleted, changes, troubles>>
  BY DEF ReportDelete, catalogue, policies, volumes
<1>2. ClusterTypeOK'
  BY <1>1, ClusterAssumption DEF ClusterInv, ClusterTypeOK, ReportDelete
<1>3. NeverPlaced'
  BY <1>1 DEF ClusterInv, ClusterTypeOK, NeverPlaced, ReportDelete
<1>4. (PolicyFollowed /\ BootsCounted /\ PlacedSomewhere /\ GrantsInPlace /\ WorkInPlace /\ PutKept
      /\ RecordedKnown /\ CommittedRecorded)'
  BY <1>1 DEF ClusterInv, PolicyFollowed, BootsCounted, PlacedSomewhere, GrantsInPlace, WorkInPlace, PutKept,
     RecordedKnown, CommittedRecorded, Over, Under
<1> QED BY <1>2, <1>3, <1>4 DEF ClusterInv

\* A node is disabled, and its tasks fail; or it is enabled.
LEMMA SetNodeAuthorizationKept == ASSUME ClusterInv, NEW n \in DataNodes, SetNodeAuthorization(n) PROVE ClusterInv'
<1>1. UNCHANGED <<upload, assigned, recorded, located, blockFiles, index, incarnation, agent, putBoot, granted,
                  working, done, deleted, troubles>>
  BY DEF SetNodeAuthorization, catalogue, policies, volumes, Touches
<1>2. ClusterTypeOK
  BY DEF ClusterInv
<1> DEFINE v == [listed[n] EXCEPT !.disabled = ~~enabled[n], !.reconciled = @ /\ ~~enabled[n]]
<1>3. v \in NodeRecords /\ v.disabled = enabled[n] /\ v.boot = listed[n].boot
  <2>1. enabled[n] \in BOOLEAN /\ listed[n] \in NodeRecords
    BY <1>2, ClusterTypes DEF ClusterTypeOK
  <2> QED BY <2>1 DEF NodeRecords
<1>4. listed' = [listed EXCEPT ![n] = v]
  BY DEF SetNodeAuthorization
<1> HIDE DEF v
<1>5. enabled' = [enabled EXCEPT ![n] = ~enabled[n]]
  BY DEF SetNodeAuthorization
<1>6. /\ listed' \in [DataNodes -> NodeRecords] /\ listed'[n].disabled = enabled[n] /\ listed'[n].boot = listed[n].boot
      /\ \A m \in DataNodes : m # n => listed'[m] = listed[m]
  BY <1>3, <1>4, <1>2, ListedType
<1>7. /\ copies' \in [Copies -> CopyTasks]
      /\ \A k \in Copies : /\ copies'[k].block = copies[k].block /\ copies'[k].source = copies[k].source
                           /\ copies'[k].dest = copies[k].dest /\ copies'[k].state \in {copies[k].state, "FAILED"}
                           /\ copies[k].state = "NONE" => copies'[k].state = "NONE"
                           /\ enabled[n] /\ n \in {copies[k].source, copies[k].dest} => copies'[k].state # "ACCEPTED"
  <2> DEFINE failed(k) == [copies[k] EXCEPT !.state = "FAILED", !.live = FALSE]
             hit(k) == ~~enabled[n] /\ Under(k) /\ Touches(k, n)
  <2>1. copies' = [k \in Copies |-> IF hit(k) THEN failed(k) ELSE copies[k]]
    BY DEF SetNodeAuthorization
  <2>2. \A k \in Copies : /\ failed(k) \in CopyTasks /\ failed(k).block = copies[k].block /\ failed(k).state = "FAILED"
                          /\ failed(k).source = copies[k].source /\ failed(k).dest = copies[k].dest
                          /\ copies[k] \in CopyTasks
    BY <1>2, ClusterTypes DEF CopyTasks
  <2>3. \A k \in Copies : /\ hit(k) => copies[k].state = "ACCEPTED"
                          /\ copies[k].state = "ACCEPTED" /\ enabled[n] /\ n \in {copies[k].source, copies[k].dest} => hit(k)
    BY DEF Under, Touches
  <2> HIDE DEF failed, hit
  <2> QED BY <2>1, <2>2, <2>3
<1>8. /\ deletion' \in [Blocks -> [DataNodes -> {"NONE", "ACCEPTED", "FINISHED", "FAILED"}]]
      /\ \A b \in Blocks, m \in DataNodes : deletion[b][m] = "NONE" => deletion'[b][m] = "NONE"
  <2> DEFINE row(b) == [deletion[b] EXCEPT ![n] = IF ~~enabled[n] /\ @ = "ACCEPTED" THEN "FAILED" ELSE @]
  <2>1. deletion' = [b \in Blocks |-> row(b)]
    BY DEF SetNodeAuthorization
  <2>2. \A b \in Blocks : deletion[b] \in [DataNodes -> {"NONE", "ACCEPTED", "FINISHED", "FAILED"}]
    BY <1>2 DEF ClusterTypeOK
  <2>3. \A b \in Blocks : /\ row(b) \in [DataNodes -> {"NONE", "ACCEPTED", "FINISHED", "FAILED"}]
                          /\ \A m \in DataNodes : deletion[b][m] = "NONE" => row(b)[m] = "NONE"
    BY <2>2
  <2> HIDE DEF row
  <2> QED BY <2>1, <2>3
<1>9. \A c \in Blocks : c \in recorded => assigned[c].node \in DataNodes
  BY DEF ClusterInv, PlacedSomewhere, NeverPlaced
<1>10. ClusterTypeOK'
  <2>1. enabled' \in [DataNodes -> BOOLEAN]
    BY <1>5, <1>2 DEF ClusterTypeOK
  <2>2. changes \in 0..MaxChanges
    BY <1>2 DEF ClusterTypeOK
  <2>3. changes < MaxChanges /\ changes' = changes + 1
    BY DEF SetNodeAuthorization
  <2>4. changes' \in 0..MaxChanges
    BY <2>2, <2>3, ClusterAssumption
  <2> QED BY <1>1, <2>1, <2>2, <2>3, <2>4, <1>6, <1>7, <1>8 DEF ClusterInv, ClusterTypeOK, CopyTasks, NodeRecords
<1>11. PolicyFollowed'
  BY <1>1, <1>5, <1>6, <1>7 DEF ClusterInv, ClusterTypeOK, PolicyFollowed, Under
<1>12. BootsCounted'
  BY <1>1, <1>6 DEF ClusterInv, BootsCounted
<1>13. NeverPlaced'
  BY <1>1, <1>8 DEF ClusterInv, NeverPlaced
<1>14. RecordedKnown'
  BY <1>1, <1>6, <1>9 DEF ClusterInv, RecordedKnown, Over
<1>15. (PlacedSomewhere /\ GrantsInPlace /\ WorkInPlace /\ PutKept /\ CommittedRecorded)'
  BY <1>1 DEF ClusterInv, PlacedSomewhere, GrantsInPlace, WorkInPlace, PutKept, CommittedRecorded, Over
<1> QED BY <1>10, <1>11, <1>12, <1>13, <1>14, <1>15 DEF ClusterInv

\* A put takes the pin.
LEMMA StartPutKept == ASSUME ClusterInv, NEW r \in granted, StartPut(r) PROVE ClusterInv'
<1>1. UNCHANGED <<upload, assigned, recorded, located, enabled, listed, copies, deletion, blockFiles, index,
                  incarnation, agent, putBoot, done, deleted, changes, troubles>>
  BY DEF StartPut, catalogue, policies, volumes, Starts
<1>2. ClusterTypeOK
  BY DEF ClusterInv
<1> DEFINE n == r.node
           b == r.block
           v == [kind |-> "put", copy |-> 0, step |-> "reserved"]
<1>3. n \in DataNodes /\ b \in Blocks /\ r.kind \in Kinds /\ r.copy \in 0..MaxCopies /\ working[n][b] = NoWork
  BY <1>2, ClusterTypes DEF StartPut, Starts
<1>4. v \in WorkStates /\ v.kind = "put" /\ v.step = "reserved"
  BY <1>3, ClusterAssumption DEF WorkStates, Kinds
<1>5. upload[b] # "none"
  BY <1>3 DEF ClusterInv, NeverPlaced
<1>6. working' = Changed(working, n, b, v)
  BY DEF Changed, StartPut
<1> HIDE DEF v
<1>7. /\ working' \in [DataNodes -> [Blocks -> WorkStates]] /\ working'[n][b] = v
      /\ \A m \in DataNodes, c \in Blocks : m # n \/ c # b => working'[m][c] = working[m][c]
  BY <1>3, <1>4, <1>6, <1>2, WorkType
<1>8. assigned[b].node = n
  BY DEF StartPut, Starts, ClusterInv, GrantsInPlace
<1>9. ClusterTypeOK'
  <2>1. granted' \subseteq Grants
    BY <1>2 DEF StartPut, ClusterTypeOK
  <2> QED BY <1>1, <2>1, <1>7 DEF ClusterInv, ClusterTypeOK, WorkStates
<1>10. NeverPlaced'
  BY <1>1, <1>5, <1>7 DEF StartPut, ClusterInv, NeverPlaced
<1>11. GrantsInPlace'
  BY <1>1 DEF ClusterInv, ClusterTypeOK, GrantsInPlace, Over, StartPut, Starts
<1>12. WorkInPlace'
  BY <1>1, <1>4, <1>7, <1>8 DEF ClusterInv, WorkInPlace, Over
<1>13. (PolicyFollowed /\ BootsCounted /\ PlacedSomewhere /\ PutKept /\ RecordedKnown /\ CommittedRecorded)'
  BY <1>1 DEF ClusterInv, PolicyFollowed, BootsCounted, PlacedSomewhere, PutKept, RecordedKnown, CommittedRecorded,
     Over, Under
<1> QED BY <1>9, <1>10, <1>11, <1>12, <1>13 DEF ClusterInv

\* A copy takes the pin, or finds the block there.
LEMMA StartCopyKept == ASSUME ClusterInv, NEW r \in granted, StartCopy(r) PROVE ClusterInv'
<1>1. UNCHANGED <<upload, assigned, recorded, located, enabled, listed, copies, deletion, blockFiles, index,
                  incarnation, agent, putBoot, deleted, changes, troubles>>
  BY DEF StartCopy, catalogue, policies, volumes, Starts
<1>2. ClusterTypeOK'
  BY <1>1, ClusterAssumption DEF ClusterInv, ClusterTypeOK, Grants, Kinds, NoWork, Copies, StartCopy, Starts
<1>3. NeverPlaced'
  BY <1>1 DEF ClusterInv, ClusterTypeOK, NeverPlaced, StartCopy, Starts
<1>4. GrantsInPlace'
  BY <1>1 DEF ClusterInv, ClusterTypeOK, GrantsInPlace, Over, StartCopy, Starts
<1>5. WorkInPlace'
  BY <1>1 DEF ClusterInv, ClusterTypeOK, WorkInPlace, Over, StartCopy, Starts
<1>6. (PolicyFollowed /\ BootsCounted /\ PlacedSomewhere /\ PutKept /\ RecordedKnown /\ CommittedRecorded)'
  BY <1>1 DEF ClusterInv, PolicyFollowed, BootsCounted, PlacedSomewhere, PutKept, RecordedKnown, CommittedRecorded,
     Over, Under
<1> QED BY <1>2, <1>3, <1>4, <1>5, <1>6 DEF ClusterInv

\* A deletion takes the pin and the file goes.
LEMMA StartDeleteKept == ASSUME ClusterInv, NEW r \in granted, StartDelete(r) PROVE ClusterInv'
<1>1. UNCHANGED <<upload, assigned, recorded, located, enabled, listed, copies, deletion, index, incarnation,
                  agent, putBoot, done, deleted, changes, troubles>>
  BY DEF StartDelete, catalogue, policies, volumes, Starts
<1>2. ClusterTypeOK
  BY DEF ClusterInv
<1> DEFINE n == r.node
           b == r.block
           v == [kind |-> "delete", copy |-> 0, step |-> "unlinked"]
<1>3. n \in DataNodes /\ b \in Blocks /\ r.kind \in Kinds /\ r.copy \in 0..MaxCopies /\ working[n][b] = NoWork
  BY <1>2, ClusterTypes DEF StartDelete, Starts
<1>4. v \in WorkStates /\ v.kind = "delete" /\ v.step = "unlinked"
  BY <1>3, ClusterAssumption DEF WorkStates, Kinds
<1>5. upload[b] # "none"
  BY <1>3 DEF ClusterInv, NeverPlaced
<1>6. working' = Changed(working, n, b, v)
  BY DEF Changed, StartDelete
<1> HIDE DEF v
<1>7. /\ working' \in [DataNodes -> [Blocks -> WorkStates]] /\ working'[n][b] = v
      /\ \A m \in DataNodes, c \in Blocks : m # n \/ c # b => working'[m][c] = working[m][c]
  BY <1>3, <1>4, <1>6, <1>2, WorkType
<1>8. n = assigned[b].node => Over(b)
  BY DEF StartDelete, Starts, ClusterInv, GrantsInPlace
<1>9. /\ blockFiles' \in [DataNodes -> SUBSET Blocks] /\ blockFiles'[n] = blockFiles[n] \ {b}
      /\ \A m \in DataNodes : m # n => blockFiles'[m] = blockFiles[m]
  BY <1>3, <1>2 DEF StartDelete, ClusterTypeOK
<1>10. \A c \in Blocks : putBoot[c] # 0 => assigned[c].node \in DataNodes
  BY DEF ClusterInv, PlacedSomewhere, NeverPlaced
<1>11. ClusterTypeOK'
  <2>1. granted' \subseteq Grants
    BY <1>2 DEF StartDelete, ClusterTypeOK
  <2> QED BY <1>1, <2>1, <1>7, <1>9 DEF ClusterInv, ClusterTypeOK, WorkStates
<1>12. NeverPlaced'
  BY <1>1, <1>3, <1>5, <1>7, <1>9 DEF StartDelete, ClusterInv, NeverPlaced
<1>13. GrantsInPlace'
  BY <1>1 DEF ClusterInv, ClusterTypeOK, GrantsInPlace, Over, StartDelete, Starts
<1>14. WorkInPlace'
  BY <1>1, <1>3, <1>4, <1>7, <1>8, <1>9 DEF ClusterInv, WorkInPlace, Over
<1>15. PutKept'
  BY <1>1, <1>3, <1>8, <1>9, <1>10 DEF ClusterInv, PutKept, Over
<1>16. (PolicyFollowed /\ BootsCounted /\ PlacedSomewhere /\ RecordedKnown /\ CommittedRecorded)'
  BY <1>1 DEF ClusterInv, PolicyFollowed, BootsCounted, PlacedSomewhere, RecordedKnown, CommittedRecorded, Over,
     Under
<1> QED BY <1>11, <1>12, <1>13, <1>14, <1>15, <1>16 DEF ClusterInv

\* A job does not start.
LEMMA RefuseJobKept == ASSUME ClusterInv, NEW r \in granted, RefuseJob(r) PROVE ClusterInv'
<1>1. UNCHANGED <<upload, assigned, recorded, located, enabled, listed, copies, deletion, blockFiles, index,
                  incarnation, agent, putBoot, working, deleted, changes, troubles>>
  BY DEF RefuseJob, catalogue, policies, volumes
<1>2. ClusterTypeOK'
  BY <1>1, ClusterAssumption DEF ClusterInv, ClusterTypeOK, Grants, Copies, RefuseJob
<1>3. NeverPlaced'
  BY <1>1 DEF ClusterInv, ClusterTypeOK, NeverPlaced, RefuseJob
<1>4. GrantsInPlace'
  BY <1>1 DEF ClusterInv, ClusterTypeOK, GrantsInPlace, Over, RefuseJob
<1>5. (PolicyFollowed /\ BootsCounted /\ PlacedSomewhere /\ WorkInPlace /\ PutKept /\ RecordedKnown
      /\ CommittedRecorded)'
  BY <1>1 DEF ClusterInv, PolicyFollowed, BootsCounted, PlacedSomewhere, WorkInPlace, PutKept, RecordedKnown,
     CommittedRecorded, Over, Under
<1> QED BY <1>2, <1>3, <1>4, <1>5 DEF ClusterInv

\* A staged file takes its name.
LEMMA WriteFileKept == ASSUME ClusterInv, NEW n \in DataNodes, NEW b \in Blocks, WriteFile(n, b) PROVE ClusterInv'
<1>1. UNCHANGED <<upload, assigned, recorded, located, enabled, listed, copies, deletion, index, incarnation,
                  agent, putBoot, granted, done, deleted, changes, troubles>>
  BY DEF WriteFile, catalogue, policies, volumes, Step
<1>2. ClusterTypeOK
  BY DEF ClusterInv
<1> DEFINE v == [working[n][b] EXCEPT !.step = "written"]
<1>3. v \in WorkStates /\ v.kind = working[n][b].kind /\ v.step = "written"
  BY ClusterTypes DEF WorkStates, ClusterInv
<1>4. working' = Changed(working, n, b, v)
  BY DEF Changed, WriteFile, Step
<1> HIDE DEF v
<1>5. /\ working' \in [DataNodes -> [Blocks -> WorkStates]] /\ working'[n][b] = v
      /\ \A m \in DataNodes, c \in Blocks : m # n \/ c # b => working'[m][c] = working[m][c]
  BY <1>3, <1>4, <1>2, WorkType
<1>6. upload[b] # "none"
  BY DEF WriteFile, ClusterInv, NeverPlaced, NoWork
<1>7. ClusterTypeOK'
  <2>1. blockFiles' \in [DataNodes -> SUBSET Blocks]
    BY DEF WriteFile, ClusterInv, ClusterTypeOK
  <2> QED BY <1>1, <2>1, <1>5 DEF ClusterInv, ClusterTypeOK, WorkStates
<1>8. NeverPlaced'
  BY <1>1, <1>5, <1>6 DEF WriteFile, ClusterInv, ClusterTypeOK, NeverPlaced
<1>9. WorkInPlace'
  BY <1>1, <1>3, <1>5 DEF WriteFile, ClusterInv, ClusterTypeOK, WorkInPlace, Over
<1>10. PutKept'
  BY <1>1 DEF ClusterInv, ClusterTypeOK, PutKept, Over, WriteFile, Step
<1>11. (PolicyFollowed /\ BootsCounted /\ PlacedSomewhere /\ GrantsInPlace /\ RecordedKnown /\ CommittedRecorded)'
  BY <1>1 DEF ClusterInv, PolicyFollowed, BootsCounted, PlacedSomewhere, GrantsInPlace, RecordedKnown,
     CommittedRecorded, Over, Under
<1> QED BY <1>7, <1>8, <1>9, <1>10, <1>11 DEF ClusterInv

\* A file gets its record.
LEMMA IndexFileKept == ASSUME ClusterInv, NEW n \in DataNodes, NEW b \in Blocks, IndexFile(n, b) PROVE ClusterInv'
<1>1. UNCHANGED <<upload, assigned, recorded, located, enabled, listed, copies, deletion, blockFiles, incarnation,
                  agent, granted, deleted, changes, troubles>>
  BY DEF IndexFile, catalogue, policies, volumes
<1>2. ClusterTypeOK
  BY DEF ClusterInv
<1> DEFINE v == NoWork
<1>3. v \in WorkStates /\ v.kind = "none" /\ v.step = "none"
  BY ClusterAssumption DEF WorkStates, NoWork
<1>4. working' = Changed(working, n, b, v)
  BY DEF Changed, IndexFile
<1> HIDE DEF v
<1>5. /\ working' \in [DataNodes -> [Blocks -> WorkStates]] /\ working'[n][b] = v
      /\ \A m \in DataNodes, c \in Blocks : m # n \/ c # b => working'[m][c] = working[m][c]
  BY <1>3, <1>4, <1>2, WorkType
<1>6. upload[b] # "none" /\ assigned[b].node \in DataNodes /\ b \in blockFiles[n]
      /\ (working[n][b].kind = "put" => assigned[b].node = n)
  BY DEF IndexFile, ClusterInv, NeverPlaced, NoWork, WorkInPlace, PlacedSomewhere
<1>7. index' = [index EXCEPT ![n] = @ \cup {b}]
  BY DEF IndexFile
<1>8. /\ putBoot' \in [Blocks -> Nat] /\ \A c \in Blocks : putBoot[c] # 0 => putBoot'[c] # 0
      /\ \A c \in Blocks : c # b => putBoot'[c] = putBoot[c]
      /\ putBoot'[b] # putBoot[b] => working[n][b].kind = "put"
  BY DEF IndexFile, ClusterInv, ClusterTypeOK, BootsCounted
<1>9. done' \in [Copies -> {"NONE", "ACCEPTED", "FINISHED", "FAILED"}]
  BY DEF IndexFile, ClusterInv, ClusterTypeOK
<1>10. \A c \in Blocks : putBoot[c] # 0 => assigned[c].node \in DataNodes
  BY DEF ClusterInv, PlacedSomewhere, NeverPlaced
<1>11. ClusterTypeOK'
  <2>1. index' \in [DataNodes -> SUBSET Blocks]
    BY <1>7 DEF ClusterInv, ClusterTypeOK
  <2> QED BY <1>1, <2>1, <1>5, <1>8, <1>9 DEF ClusterInv, ClusterTypeOK, WorkStates
<1>12. NeverPlaced'
  <2>1. \A c \in Blocks : upload[c] = "none" => /\ putBoot'[c] = 0 /\ c # b
    BY <1>6, <1>8 DEF ClusterInv, NeverPlaced
  <2>2. \A c \in Blocks, m \in DataNodes : c # b => working'[m][c] = working[m][c] /\ (c \in index'[m] => c \in index[m])
    BY <1>5, <1>7 DEF ClusterInv, ClusterTypeOK
  <2> QED BY <1>1, <2>1, <2>2 DEF ClusterInv, NeverPlaced
<1>13. WorkInPlace'
  BY <1>1, <1>3, <1>5 DEF ClusterInv, WorkInPlace, Over
<1>14. PutKept'
  <2> SUFFICES ASSUME NEW c \in Blocks, putBoot'[c] # 0, upload[c] \notin {"late", "removed", "ended"}
               PROVE  c \in blockFiles[assigned[c].node] /\ c \in index'[assigned[c].node]
    BY <1>1 DEF PutKept, Over
  <2>1. CASE putBoot'[c] = putBoot[c]
    BY <1>7, <1>10, <2>1 DEF ClusterInv, ClusterTypeOK, PutKept, Over
  <2>2. CASE putBoot'[c] # putBoot[c]
    BY <1>6, <1>7, <1>8, <2>2 DEF ClusterInv, ClusterTypeOK
  <2> QED BY <2>1, <2>2
<1>15. RecordedKnown'
  BY <1>1, <1>8 DEF ClusterInv, RecordedKnown, Over
<1>16. (PolicyFollowed /\ BootsCounted /\ PlacedSomewhere /\ GrantsInPlace /\ CommittedRecorded)'
  BY <1>1 DEF ClusterInv, PolicyFollowed, BootsCounted, PlacedSomewhere, GrantsInPlace, CommittedRecorded, Over,
     Under
<1> QED BY <1>11, <1>12, <1>13, <1>14, <1>15, <1>16 DEF ClusterInv

\* A store fails.
LEMMA FailJobKept == ASSUME ClusterInv, NEW n \in DataNodes, NEW b \in Blocks, FailJob(n, b) PROVE ClusterInv'
<1>1. UNCHANGED <<upload, assigned, recorded, located, enabled, listed, copies, deletion, blockFiles, index,
                  incarnation, agent, putBoot, granted, deleted, changes>>
  BY DEF FailJob, catalogue, policies, volumes
<1>2. ClusterTypeOK
  BY DEF ClusterInv
<1> DEFINE v == NoWork
<1>3. v \in WorkStates /\ v.kind = "none" /\ v.step = "none"
  BY ClusterAssumption DEF WorkStates, NoWork
<1>4. working' = Changed(working, n, b, v)
  BY DEF Changed, FailJob
<1> HIDE DEF v
<1>5. /\ working' \in [DataNodes -> [Blocks -> WorkStates]] /\ working'[n][b] = v
      /\ \A m \in DataNodes, c \in Blocks : m # n \/ c # b => working'[m][c] = working[m][c]
  BY <1>3, <1>4, <1>2, WorkType
<1>6. ClusterTypeOK'
  <2>1. troubles' \in 0..MaxTroubles
    BY ClusterAssumption DEF FailJob, ClusterInv, ClusterTypeOK
  <2>2. done' \in [Copies -> {"NONE", "ACCEPTED", "FINISHED", "FAILED"}]
    BY DEF FailJob, ClusterInv, ClusterTypeOK
  <2> QED BY <1>1, <2>1, <2>2, <1>5 DEF ClusterInv, ClusterTypeOK, WorkStates
<1>7. NeverPlaced'
  BY <1>1 DEF ClusterInv, ClusterTypeOK, NeverPlaced, FailJob
<1>8. WorkInPlace'
  BY <1>1, <1>3, <1>5 DEF ClusterInv, WorkInPlace, Over
<1>9. (PolicyFollowed /\ BootsCounted /\ PlacedSomewhere /\ GrantsInPlace /\ PutKept /\ RecordedKnown
      /\ CommittedRecorded)'
  BY <1>1 DEF ClusterInv, PolicyFollowed, BootsCounted, PlacedSomewhere, GrantsInPlace, PutKept, RecordedKnown,
     CommittedRecorded, Over, Under
<1> QED BY <1>6, <1>7, <1>8, <1>9 DEF ClusterInv

\* The record of a deleted file goes.
LEMMA ForgetKept == ASSUME ClusterInv, NEW n \in DataNodes, NEW b \in Blocks, Forget(n, b) PROVE ClusterInv'
<1>1. UNCHANGED <<upload, assigned, recorded, located, enabled, listed, copies, deletion, blockFiles, incarnation,
                  agent, putBoot, granted, done, changes, troubles>>
  BY DEF Forget, catalogue, policies, volumes
<1>2. ClusterTypeOK
  BY DEF ClusterInv
<1> DEFINE v == NoWork
<1>3. v \in WorkStates /\ v.kind = "none" /\ v.step = "none"
  BY ClusterAssumption DEF WorkStates, NoWork
<1>4. working' = Changed(working, n, b, v)
  BY DEF Changed, Forget
<1> HIDE DEF v
<1>5. /\ working' \in [DataNodes -> [Blocks -> WorkStates]] /\ working'[n][b] = v
      /\ \A m \in DataNodes, c \in Blocks : m # n \/ c # b => working'[m][c] = working[m][c]
  BY <1>3, <1>4, <1>2, WorkType
<1>6. \A c \in Blocks : putBoot[c] # 0 => assigned[c].node \in DataNodes
  BY DEF ClusterInv, PlacedSomewhere, NeverPlaced
<1>7. index' = [index EXCEPT ![n] = @ \ {b}] /\ (assigned[b].node = n => Over(b))
  BY DEF Forget, ClusterInv, WorkInPlace
<1>8. ClusterTypeOK'
  <2>1. index' \in [DataNodes -> SUBSET Blocks]
    BY <1>7 DEF ClusterInv, ClusterTypeOK
  <2>2. deleted' \subseteq Blocks \X DataNodes
    BY DEF Forget, ClusterInv, ClusterTypeOK
  <2> QED BY <1>1, <2>1, <2>2, <1>5 DEF ClusterInv, ClusterTypeOK, WorkStates
<1>9. NeverPlaced'
  BY <1>1 DEF ClusterInv, ClusterTypeOK, NeverPlaced, Forget
<1>10. WorkInPlace'
  BY <1>1, <1>3, <1>5 DEF ClusterInv, WorkInPlace, Over
<1>11. PutKept'
  BY <1>1, <1>6, <1>7 DEF ClusterInv, ClusterTypeOK, PutKept, Over
<1>12. (PolicyFollowed /\ BootsCounted /\ PlacedSomewhere /\ GrantsInPlace /\ RecordedKnown /\ CommittedRecorded)'
  BY <1>1 DEF ClusterInv, PolicyFollowed, BootsCounted, PlacedSomewhere, GrantsInPlace, RecordedKnown,
     CommittedRecorded, Over, Under
<1> QED BY <1>8, <1>9, <1>10, <1>11, <1>12 DEF ClusterInv

\* A node starts again.
LEMMA RebootNodeKept == ASSUME ClusterInv, NEW n \in DataNodes, RebootNode(n) PROVE ClusterInv'
<1>1. UNCHANGED <<upload, assigned, recorded, located, enabled, listed, copies, deletion, blockFiles, putBoot,
                  done, deleted, changes>>
  BY DEF RebootNode, catalogue, policies, volumes
<1>2. NoWork \in WorkStates /\ NoWork.kind = "none" /\ NoWork.step = "none"
  BY ClusterAssumption DEF WorkStates, NoWork
<1>3. /\ working' \in [DataNodes -> [Blocks -> WorkStates]] /\ \A b \in Blocks : working'[n][b] = NoWork
      /\ \A m \in DataNodes : m # n => working'[m] = working[m]
  BY <1>2 DEF RebootNode, ClusterInv, ClusterTypeOK, WorkStates
<1>4. ClusterTypeOK'
  <2>1. troubles' \in 0..MaxTroubles
    BY ClusterAssumption DEF RebootNode, ClusterInv, ClusterTypeOK
  <2>2. incarnation' \in [DataNodes -> Nat] /\ index' \in [DataNodes -> SUBSET Blocks] /\ granted' \subseteq Grants
    BY DEF RebootNode, ClusterInv, ClusterTypeOK
  <2>3. agent' \in [DataNodes -> [phase : {"new", "registered", "read", "ready", "beat"}, inventory : SUBSET Blocks]]
    BY DEF RebootNode, ClusterInv, ClusterTypeOK
  <2> QED BY <1>1, <2>1, <2>2, <2>3, <1>3 DEF ClusterInv, ClusterTypeOK, WorkStates
<1>5. BootsCounted'
  BY <1>1 DEF ClusterInv, ClusterTypeOK, BootsCounted, RebootNode
<1>6. NeverPlaced'
  BY <1>1 DEF ClusterInv, ClusterTypeOK, NeverPlaced, RebootNode
<1>7. GrantsInPlace'
  BY <1>1 DEF ClusterInv, ClusterTypeOK, GrantsInPlace, Over, RebootNode
<1>8. WorkInPlace'
  BY <1>1, <1>2, <1>3 DEF ClusterInv, WorkInPlace, Over
<1>9. PutKept'
  BY <1>1 DEF ClusterInv, ClusterTypeOK, PutKept, Over, RebootNode
<1>10. RecordedKnown'
  BY <1>1 DEF ClusterInv, ClusterTypeOK, RecordedKnown, Over, RebootNode
<1>11. (PolicyFollowed /\ PlacedSomewhere /\ CommittedRecorded)'
  BY <1>1 DEF ClusterInv, PolicyFollowed, PlacedSomewhere, CommittedRecorded, Under
<1> QED BY <1>4, <1>5, <1>6, <1>7, <1>8, <1>9, <1>10, <1>11 DEF ClusterInv

\* A node registers, and the uploads of its last boot end.
LEMMA RegisterNodeKept == ASSUME ClusterInv, NEW n \in DataNodes, RegisterNode(n) PROVE ClusterInv'
<1>1. UNCHANGED <<assigned, recorded, located, enabled, copies, deletion, blockFiles, index, incarnation, putBoot,
                  granted, working, done, deleted, changes, troubles>>
  BY DEF RegisterNode, catalogue, policies, volumes, Goes
<1>2. \A c \in Blocks : Over(c) => Over(c)'
  BY DEF RegisterNode, Over
<1>3. \A c \in Blocks : upload'[c] = "none" <=> upload[c] = "none"
  BY DEF RegisterNode
<1>4. enabled[n] /\ listed'[n].disabled = FALSE /\ \A m \in DataNodes : m # n => listed'[m] = listed[m]
  BY DEF RegisterNode, ClusterInv, ClusterTypeOK
<1>5. ClusterTypeOK'
  BY <1>1, ClusterAssumption DEF ClusterInv, ClusterTypeOK, RegisterNode, Goes
<1>6. PolicyFollowed'
  BY <1>1, <1>3, <1>4 DEF ClusterInv, PolicyFollowed, Under
<1>7. BootsCounted'
  BY <1>1 DEF ClusterInv, ClusterTypeOK, BootsCounted, RegisterNode, Goes
<1>8. NeverPlaced'
  BY <1>1 DEF ClusterInv, ClusterTypeOK, NeverPlaced, RegisterNode, Goes
<1>9. PlacedSomewhere'
  BY <1>1 DEF ClusterInv, ClusterTypeOK, PlacedSomewhere, RegisterNode, Goes
<1>10. GrantsInPlace'
  BY <1>1, <1>2, JobsStay
<1>11. WorkInPlace'
  BY <1>1, <1>2, JobsStay
<1>12. PutKept'
  BY <1>1 DEF ClusterInv, ClusterTypeOK, PutKept, Over, RegisterNode, Goes
<1>13. RecordedKnown'
  BY <1>1 DEF ClusterInv, ClusterTypeOK, RecordedKnown, Over, RegisterNode, Goes
<1>14. CommittedRecorded'
  BY <1>1 DEF ClusterInv, ClusterTypeOK, CommittedRecorded, RegisterNode, Goes
<1> QED BY <1>5, <1>6, <1>7, <1>8, <1>9, <1>10, <1>11, <1>12, <1>13, <1>14 DEF ClusterInv

\* A node reads its inventory.
LEMMA ReadInventoryKept == ASSUME ClusterInv, NEW n \in DataNodes, ReadInventory(n) PROVE ClusterInv'
<1>1. UNCHANGED <<upload, assigned, recorded, located, enabled, listed, copies, deletion, blockFiles, index,
                  incarnation, putBoot, granted, working, done, deleted, changes, troubles>>
  BY DEF ReadInventory, catalogue, policies, volumes, Goes
<1>2. /\ agent'[n].inventory = index[n] \cap blockFiles[n]
      /\ \A m \in DataNodes : m # n => agent'[m] = agent[m]
  BY DEF ReadInventory, Goes, ClusterInv, ClusterTypeOK
<1>3. \A c \in Blocks : c \in recorded => assigned[c].node \in DataNodes
  BY DEF ClusterInv, PlacedSomewhere, NeverPlaced
<1>4. ClusterTypeOK'
  BY <1>1, ClusterAssumption DEF ClusterInv, ClusterTypeOK, ReadInventory, Goes
<1>5. NeverPlaced'
  BY <1>1 DEF ClusterInv, ClusterTypeOK, NeverPlaced, ReadInventory, Goes
<1>6. RecordedKnown'
  BY <1>1, <1>2, <1>3 DEF ClusterInv, RecordedKnown, PutKept, Over
<1>7. (PolicyFollowed /\ BootsCounted /\ PlacedSomewhere /\ GrantsInPlace /\ WorkInPlace /\ PutKept
      /\ CommittedRecorded)'
  BY <1>1 DEF ClusterInv, PolicyFollowed, BootsCounted, PlacedSomewhere, GrantsInPlace, WorkInPlace, PutKept,
     CommittedRecorded, Over, Under
<1> QED BY <1>4, <1>5, <1>6, <1>7 DEF ClusterInv

\* A report confirms what is in the inventory.
LEMMA BlockReportKept == ASSUME ClusterInv, NEW n \in DataNodes, BlockReport(n) PROVE ClusterInv'
<1>1. UNCHANGED <<upload, assigned, recorded, enabled, copies, blockFiles, index, incarnation, putBoot, granted,
                  working, done, deleted, changes, troubles>>
  BY DEF BlockReport, catalogue, policies, volumes, Goes, Retired
<1>2. ClusterTypeOK
  BY DEF ClusterInv
<1> DEFINE v == [listed[n] EXCEPT !.reconciled = TRUE, !.seen = "fresh"]
<1>3. v \in NodeRecords /\ v.boot = listed[n].boot /\ listed' = [listed EXCEPT ![n] = v]
  BY <1>2, ClusterTypes DEF BlockReport, NodeRecords
<1> HIDE DEF v
<1>4. /\ listed' \in [DataNodes -> NodeRecords] /\ listed'[n].boot = listed[n].boot
      /\ \A m \in DataNodes : m # n => listed'[m] = listed[m]
  BY <1>3, <1>2, ListedType
<1>5. /\ located' \in [Blocks -> [DataNodes -> Nat]]
      /\ \A c \in Blocks, m \in DataNodes : m # n => located'[c][m] = located[c][m]
      /\ \A c \in Blocks : located[c][n] # 0 /\ (c \in agent[n].inventory \/ located[c][n] = listed[n].boot)
                           => located'[c][n] = listed[n].boot
  BY DEF BlockReport, ClusterInv, ClusterTypeOK
<1>6. agent'[n].phase = "ready" /\ \A m \in DataNodes : m # n => agent'[m] = agent[m]
  BY DEF BlockReport, Goes, ClusterInv, ClusterTypeOK
<1>7. \A c \in Blocks : c \in recorded => assigned[c].node \in DataNodes
  BY DEF ClusterInv, PlacedSomewhere, NeverPlaced
<1>8. listed[n].boot # 0 /\ agent[n].phase = "read"
  BY DEF BlockReport, ClusterInv, BootsCounted
<1>9. ClusterTypeOK'
  <2>1. deletion' \in [Blocks -> [DataNodes -> {"NONE", "ACCEPTED", "FINISHED", "FAILED"}]]
    BY DEF BlockReport, Retired, ClusterInv, ClusterTypeOK
  <2>2. agent' \in [DataNodes -> [phase : {"new", "registered", "read", "ready", "beat"}, inventory : SUBSET Blocks]]
    BY DEF BlockReport, Goes, ClusterInv, ClusterTypeOK
  <2> QED BY <1>1, <2>1, <2>2, <1>4, <1>5 DEF ClusterInv, ClusterTypeOK, NodeRecords
<1>10. PolicyFollowed'
  BY <1>1 DEF ClusterInv, ClusterTypeOK, PolicyFollowed, Under, BlockReport, Goes, Retired
<1>11. BootsCounted'
  BY <1>1 DEF ClusterInv, ClusterTypeOK, BootsCounted, BlockReport, Goes, Retired
<1>12. NeverPlaced'
  BY <1>1 DEF ClusterInv, ClusterTypeOK, NeverPlaced, BlockReport, Goes, Retired
<1>13. RecordedKnown'
  BY <1>1, <1>4, <1>5, <1>6, <1>7, <1>8 DEF ClusterInv, RecordedKnown, Over
<1>14. (PlacedSomewhere /\ GrantsInPlace /\ WorkInPlace /\ PutKept /\ CommittedRecorded)'
  BY <1>1 DEF ClusterInv, PlacedSomewhere, GrantsInPlace, WorkInPlace, PutKept, CommittedRecorded, Over
<1> QED BY <1>9, <1>10, <1>11, <1>12, <1>13, <1>14 DEF ClusterInv

\* A heartbeat passes the policy.
LEMMA BeginHeartbeatKept == ASSUME ClusterInv, NEW n \in DataNodes, BeginHeartbeat(n) PROVE ClusterInv'
<1>1. UNCHANGED <<upload, assigned, recorded, located, enabled, listed, copies, deletion, blockFiles, index,
                  incarnation, putBoot, granted, working, done, deleted, changes, troubles>>
  BY DEF BeginHeartbeat, catalogue, policies, volumes, Goes
<1>2. ClusterTypeOK'
  BY <1>1, ClusterAssumption DEF ClusterInv, ClusterTypeOK, BeginHeartbeat, Goes
<1>3. NeverPlaced'
  BY <1>1 DEF ClusterInv, ClusterTypeOK, NeverPlaced, BeginHeartbeat, Goes
<1>4. RecordedKnown'
  BY <1>1 DEF ClusterInv, ClusterTypeOK, RecordedKnown, Over, BeginHeartbeat, Goes
<1>5. (PolicyFollowed /\ BootsCounted /\ PlacedSomewhere /\ GrantsInPlace /\ WorkInPlace /\ PutKept
      /\ CommittedRecorded)'
  BY <1>1 DEF ClusterInv, PolicyFollowed, BootsCounted, PlacedSomewhere, GrantsInPlace, WorkInPlace, PutKept,
     CommittedRecorded, Over, Under
<1> QED BY <1>2, <1>3, <1>4, <1>5 DEF ClusterInv

\* A heartbeat is taken.
LEMMA HeartbeatKept == ASSUME ClusterInv, NEW n \in DataNodes, Heartbeat(n) PROVE ClusterInv'
<1>1. UNCHANGED <<upload, assigned, recorded, located, enabled, copies, deletion, blockFiles, index, incarnation,
                  putBoot, granted, working, done, deleted, changes, troubles>>
  BY DEF Heartbeat, catalogue, policies, volumes, Goes, Known
<1>2. ClusterTypeOK
  BY DEF ClusterInv
<1> DEFINE v == [listed[n] EXCEPT !.seen = "fresh"]
<1>3. listed' = listed \/ listed' = [listed EXCEPT ![n] = v]
  BY DEF Heartbeat
<1>4. v \in NodeRecords
  BY <1>2, ClusterTypes DEF NodeRecords
<1> HIDE DEF v
<1>5. listed' \in [DataNodes -> NodeRecords]
  <2>1. listed \in [DataNodes -> NodeRecords]
    BY <1>2 DEF ClusterTypeOK, NodeRecords
  <2> QED BY <1>3, <1>4, <1>2, <2>1, ListedType
<1>6. ClusterTypeOK'
  <2>1. agent' \in [DataNodes -> [phase : {"new", "registered", "read", "ready", "beat"}, inventory : SUBSET Blocks]]
    BY DEF Heartbeat, Goes, ClusterInv, ClusterTypeOK
  <2> QED BY <1>1, <2>1, <1>5 DEF ClusterInv, ClusterTypeOK, NodeRecords
<1>7. PolicyFollowed'
  BY <1>1 DEF ClusterInv, ClusterTypeOK, PolicyFollowed, Under, Heartbeat, Goes, Known
<1>8. BootsCounted'
  BY <1>1 DEF ClusterInv, ClusterTypeOK, BootsCounted, Heartbeat, Goes, Known
<1>9. NeverPlaced'
  BY <1>1 DEF ClusterInv, ClusterTypeOK, NeverPlaced, Heartbeat, Goes, Known
<1>10. RecordedKnown'
  BY <1>1 DEF ClusterInv, ClusterTypeOK, RecordedKnown, Over, Heartbeat, Goes, Known
<1>11. (PlacedSomewhere /\ GrantsInPlace /\ WorkInPlace /\ PutKept /\ CommittedRecorded)'
  BY <1>1 DEF ClusterInv, PlacedSomewhere, GrantsInPlace, WorkInPlace, PutKept, CommittedRecorded, Over
<1> QED BY <1>6, <1>7, <1>8, <1>9, <1>10, <1>11 DEF ClusterInv

\* A node is not heard of.
LEMMA SilenceKept == ASSUME ClusterInv, NEW n \in DataNodes, Silence(n) PROVE ClusterInv'
<1>1. UNCHANGED <<upload, assigned, recorded, located, enabled, copies, deletion, blockFiles, index, incarnation,
                  agent, putBoot, granted, working, done, deleted, changes>>
  BY DEF Silence, catalogue, policies, volumes
<1>2. ClusterTypeOK
  BY DEF ClusterInv
<1> DEFINE v == [listed[n] EXCEPT !.seen = IF listed[n].seen = "fresh" THEN "late" ELSE "gone"]
<1>3. listed' = [listed EXCEPT ![n] = v]
  BY DEF Silence
<1>4. v \in NodeRecords
  BY <1>2, ClusterTypes DEF NodeRecords
<1> HIDE DEF v
<1>5. /\ listed' \in [DataNodes -> NodeRecords] /\ listed'[n] = v /\ \A m \in DataNodes : m # n => listed'[m] = listed[m]
  BY <1>3, <1>4, <1>2, ListedType
<1>6. ClusterTypeOK'
  <2>1. troubles' \in 0..MaxTroubles
    BY ClusterAssumption DEF Silence, ClusterInv, ClusterTypeOK
  <2> QED BY <1>1, <2>1, <1>5 DEF ClusterInv, ClusterTypeOK, NodeRecords
<1>7. PolicyFollowed'
  BY <1>1 DEF ClusterInv, ClusterTypeOK, PolicyFollowed, Under, Silence
<1>8. BootsCounted'
  BY <1>1 DEF ClusterInv, ClusterTypeOK, BootsCounted, Silence
<1>9. RecordedKnown'
  BY <1>1 DEF ClusterInv, ClusterTypeOK, RecordedKnown, Over, Silence
<1>10. (NeverPlaced /\ PlacedSomewhere /\ GrantsInPlace /\ WorkInPlace /\ PutKept /\ CommittedRecorded)'
  BY <1>1 DEF ClusterInv, NeverPlaced, PlacedSomewhere, GrantsInPlace, WorkInPlace, PutKept, CommittedRecorded, Over
<1> QED BY <1>6, <1>7, <1>8, <1>9, <1>10 DEF ClusterInv

\* A copy runs out of time.
LEMMA CopyLateKept == ASSUME ClusterInv, NEW k \in Copies, CopyLate(k) PROVE ClusterInv'
<1>1. UNCHANGED <<upload, assigned, recorded, located, enabled, listed, deletion, blockFiles, index, incarnation,
                  agent, putBoot, granted, working, done, deleted, changes>>
  BY DEF CopyLate, catalogue, policies, volumes, Unexpired, Under
<1> DEFINE v == [copies[k] EXCEPT !.live = FALSE]
<1>2. v \in CopyTasks
  BY ClusterTypes DEF CopyTasks, ClusterInv, CopyLate
<1>3. copies' = [copies EXCEPT ![k] = v]
  BY DEF CopyLate
<1> HIDE DEF v
<1>4. copies' \in [Copies -> CopyTasks]
  BY <1>2, <1>3, CopiesType DEF ClusterInv
<1>5. ClusterTypeOK'
  <2>1. troubles' \in 0..MaxTroubles
    BY ClusterAssumption DEF CopyLate, ClusterInv, ClusterTypeOK
  <2> QED BY <1>1, <2>1, <1>4 DEF ClusterInv, ClusterTypeOK, CopyTasks
<1>6. PolicyFollowed'
  BY <1>1 DEF ClusterInv, ClusterTypeOK, PolicyFollowed, Under, CopyLate, Unexpired, Under
<1>7. (BootsCounted /\ NeverPlaced /\ PlacedSomewhere /\ GrantsInPlace /\ WorkInPlace /\ PutKept
      /\ RecordedKnown /\ CommittedRecorded)'
  BY <1>1 DEF ClusterInv, BootsCounted, NeverPlaced, PlacedSomewhere, GrantsInPlace, WorkInPlace, PutKept,
     RecordedKnown, CommittedRecorded, Over
<1> QED BY <1>5, <1>6, <1>7 DEF ClusterInv

\* The control starts again.
LEMMA ControlRestartsKept == ASSUME ClusterInv, ControlRestarts PROVE ClusterInv'
<1>1. UNCHANGED <<assigned, recorded, located, enabled, copies, deletion, blockFiles, index, incarnation, agent,
                  putBoot, granted, working, done, deleted, changes>>
  BY DEF ControlRestarts, catalogue, policies, volumes
<1>2. ClusterTypeOK
  BY DEF ClusterInv
<1>3. \A c \in Blocks : Over(c) => Over(c)'
  BY DEF ControlRestarts, Over
<1>4. /\ listed' \in [DataNodes -> NodeRecords]
      /\ \A n \in DataNodes : listed'[n].boot = listed[n].boot /\ listed'[n].disabled = listed[n].disabled
  <2> DEFINE v(n) == [listed[n] EXCEPT !.seen = "gone", !.reconciled = FALSE]
  <2>1. \A n \in DataNodes : v(n) \in NodeRecords /\ v(n).boot = listed[n].boot /\ v(n).disabled = listed[n].disabled
    BY <1>2, ClusterTypes DEF NodeRecords
  <2>2. listed' = [n \in DataNodes |-> v(n)]
    BY DEF ControlRestarts
  <2> HIDE DEF v
  <2> QED BY <2>1, <2>2
<1>5. \A c \in Blocks : c \in recorded => assigned[c].node \in DataNodes
  BY DEF ClusterInv, PlacedSomewhere, NeverPlaced
<1>6. \A c \in Blocks : upload'[c] = "none" <=> upload[c] = "none"
  BY DEF ControlRestarts
<1>7. ClusterTypeOK'
  <2>1. troubles \in 0..MaxTroubles
    BY <1>2 DEF ClusterTypeOK
  <2>2. troubles < MaxTroubles /\ troubles' = troubles + 1
    BY DEF ControlRestarts
  <2>3. troubles' \in 0..MaxTroubles
    BY <2>1, <2>2, ClusterAssumption
  <2>4. upload' \in [Blocks -> {"none", "preparing", "sealed", "late", "committed", "removed", "ended"}]
    BY <1>2 DEF ControlRestarts, ClusterTypeOK
  <2> QED BY <1>1, <2>1, <2>2, <2>3, <2>4, <1>4 DEF ClusterInv, ClusterTypeOK, NodeRecords
<1>8. PolicyFollowed'
  BY <1>1, <1>4, <1>6 DEF ClusterInv, PolicyFollowed, Under
<1>9. BootsCounted'
  BY <1>1, <1>4 DEF ClusterInv, BootsCounted
<1>10. NeverPlaced'
  BY <1>1, <1>6 DEF ClusterInv, NeverPlaced
<1>11. PlacedSomewhere'
  BY <1>1 DEF ClusterInv, ClusterTypeOK, PlacedSomewhere, ControlRestarts
<1>12. GrantsInPlace'
  BY <1>1, <1>3, JobsStay
<1>13. WorkInPlace'
  BY <1>1, <1>3, JobsStay
<1>14. PutKept'
  BY <1>1 DEF ClusterInv, ClusterTypeOK, PutKept, Over, ControlRestarts
<1>15. RecordedKnown'
  BY <1>1, <1>3, <1>4, <1>5 DEF ClusterInv, RecordedKnown, Over
<1>16. CommittedRecorded'
  BY <1>1 DEF ClusterInv, ClusterTypeOK, CommittedRecorded, ControlRestarts
<1> QED BY <1>7, <1>8, <1>9, <1>10, <1>11, <1>12, <1>13, <1>14, <1>15, <1>16 DEF ClusterInv

\* The state at the start.
LEMMA ClusterInitInv == ClusterInit => ClusterInv
<1> SUFFICES ASSUME ClusterInit PROVE ClusterInv
  OBVIOUS
<1>1. ClusterTypeOK
  BY ClusterAssumption DEF ClusterInit, ClusterTypeOK, NoCopy, NoWork, Copies
<1>2. PolicyFollowed /\ BootsCounted
  BY DEF ClusterInit, PolicyFollowed, BootsCounted, NoCopy, Under
<1>3. NeverPlaced /\ PlacedSomewhere
  BY DEF ClusterInit, NeverPlaced, PlacedSomewhere
<1>4. GrantsInPlace /\ WorkInPlace
  BY DEF ClusterInit, GrantsInPlace, WorkInPlace, NoWork
<1>5. PutKept /\ RecordedKnown /\ CommittedRecorded
  BY DEF ClusterInit, PutKept, RecordedKnown, CommittedRecorded
<1> QED BY <1>1, <1>2, <1>3, <1>4, <1>5 DEF ClusterInv

\* Every step keeps the invariant.
LEMMA ClusterNextInv == ASSUME ClusterInv, [ClusterNext]_clusterVars PROVE ClusterInv'
<1>1. ASSUME NEW b \in Blocks, Place(b) PROVE ClusterInv'
  BY <1>1, PlaceKept
<1>2. ASSUME NEW b \in Blocks, AuthorizePut(b) PROVE ClusterInv'
  BY <1>2, AuthorizePutKept
<1>3. ASSUME NEW b \in Blocks, ReportDurable(b) PROVE ClusterInv'
  BY <1>3, ReportDurableKept
<1>4. ASSUME NEW b \in Blocks, Seal(b) PROVE ClusterInv'
  BY <1>4, SealKept
<1>5. ASSUME NEW b \in Blocks, CommitPlaced(b) PROVE ClusterInv'
  BY <1>5, CommitPlacedKept
<1>6. ASSUME NEW b \in Blocks, AbortOrRemove(b) PROVE ClusterInv'
  BY <1>6, AbortOrRemoveKept
<1>7. ASSUME NEW b \in Blocks, UploadLate(b) PROVE ClusterInv'
  BY <1>7, UploadLateKept
<1>8. CASE CollectBlocks
  BY <1>8, CollectBlocksKept
<1>9. CASE CollectCopies
  BY <1>9, CollectCopiesKept
<1>10. ASSUME NEW k \in Copies, FailExpired(k) PROVE ClusterInv'
  BY <1>10, FailExpiredKept
<1>11. ASSUME NEW k \in Copies, DispatchCopy(k) PROVE ClusterInv'
  BY <1>11, DispatchCopyKept
<1>12. ASSUME NEW b \in Blocks, NEW n \in DataNodes, DispatchDelete(b, n) PROVE ClusterInv'
  BY <1>12, DispatchDeleteKept
<1>13. ASSUME NEW b \in Blocks, NEW s \in DataNodes, NEW d \in DataNodes, CopyBlock(b, s, d) PROVE ClusterInv'
  BY <1>13, CopyBlockKept
<1>14. ASSUME NEW k \in Copies, ReportCopy(k) PROVE ClusterInv'
  BY <1>14, ReportCopyKept
<1>15. ASSUME NEW b \in Blocks, NEW n \in DataNodes, ReportDelete(b, n) PROVE ClusterInv'
  BY <1>15, ReportDeleteKept
<1>16. ASSUME NEW n \in DataNodes, SetNodeAuthorization(n) PROVE ClusterInv'
  BY <1>16, SetNodeAuthorizationKept
<1>17. ASSUME NEW r \in granted, StartPut(r) PROVE ClusterInv'
  BY <1>17, StartPutKept
<1>18. ASSUME NEW r \in granted, StartCopy(r) PROVE ClusterInv'
  BY <1>18, StartCopyKept
<1>19. ASSUME NEW r \in granted, StartDelete(r) PROVE ClusterInv'
  BY <1>19, StartDeleteKept
<1>20. ASSUME NEW r \in granted, RefuseJob(r) PROVE ClusterInv'
  BY <1>20, RefuseJobKept
<1>21. ASSUME NEW n \in DataNodes, NEW b \in Blocks, WriteFile(n, b) PROVE ClusterInv'
  BY <1>21, WriteFileKept
<1>22. ASSUME NEW n \in DataNodes, NEW b \in Blocks, IndexFile(n, b) PROVE ClusterInv'
  BY <1>22, IndexFileKept
<1>23. ASSUME NEW n \in DataNodes, NEW b \in Blocks, FailJob(n, b) PROVE ClusterInv'
  BY <1>23, FailJobKept
<1>24. ASSUME NEW n \in DataNodes, NEW b \in Blocks, Forget(n, b) PROVE ClusterInv'
  BY <1>24, ForgetKept
<1>25. ASSUME NEW n \in DataNodes, RebootNode(n) PROVE ClusterInv'
  BY <1>25, RebootNodeKept
<1>26. ASSUME NEW n \in DataNodes, RegisterNode(n) PROVE ClusterInv'
  BY <1>26, RegisterNodeKept
<1>27. ASSUME NEW n \in DataNodes, ReadInventory(n) PROVE ClusterInv'
  BY <1>27, ReadInventoryKept
<1>28. ASSUME NEW n \in DataNodes, BlockReport(n) PROVE ClusterInv'
  BY <1>28, BlockReportKept
<1>29. ASSUME NEW n \in DataNodes, BeginHeartbeat(n) PROVE ClusterInv'
  BY <1>29, BeginHeartbeatKept
<1>30. ASSUME NEW n \in DataNodes, Heartbeat(n) PROVE ClusterInv'
  BY <1>30, HeartbeatKept
<1>31. ASSUME NEW n \in DataNodes, Silence(n) PROVE ClusterInv'
  BY <1>31, SilenceKept
<1>32. ASSUME NEW k \in Copies, CopyLate(k) PROVE ClusterInv'
  BY <1>32, CopyLateKept
<1>33. CASE ControlRestarts
  BY <1>33, ControlRestartsKept
<1>34. CASE UNCHANGED clusterVars
  BY <1>34 DEF ClusterInv, ClusterTypeOK, PolicyFollowed, BootsCounted, NeverPlaced, PlacedSomewhere, GrantsInPlace,
              WorkInPlace, PutKept, RecordedKnown, CommittedRecorded, Over, Under, clusterVars
<1> QED BY <1>1, <1>2, <1>3, <1>4, <1>5, <1>6, <1>7, <1>8, <1>9, <1>10, <1>11, <1>12, <1>13, <1>14, <1>15, <1>16,
           <1>17, <1>18, <1>19, <1>20, <1>21, <1>22, <1>23, <1>24, <1>25, <1>26, <1>27, <1>28, <1>29, <1>30,
           <1>31, <1>32, <1>33, <1>34 DEF ClusterNext

\* The invariant of Cluster.
THEOREM ClusterCorrect == ClusterSpec => []ClusterInv
BY ClusterInitInv, ClusterNextInv, PTL DEF ClusterSpec

\* A node that is disabled is out, and the content that was committed is where it was placed
\* and known to be there, for any number of nodes and blocks, reboots, reports, retirements
\* and deletions (SetNodeAuthorization, BlockReport, retire_copy, retired_at_node).
THEOREM PlacedContentStays == ClusterSpec => []PlacementSound
<1>1. ClusterInv => PlacementSound
  <2> SUFFICES ASSUME ClusterInv PROVE PlacementSound
    OBVIOUS
  <2>1. DisabledOut
    <3>1. ASSUME NEW n \in DataNodes, ~enabled[n]
          PROVE  ~Serves(n) /\ \A k \in Copies : n \in {copies[k].source, copies[k].dest} => ~Under(k)
      BY <3>1 DEF ClusterInv, PolicyFollowed, Serves
    <3> QED BY <3>1 DEF DisabledOut
  <2>2. PlacedContentKept
    BY DEF ClusterInv, CommittedRecorded, RecordedKnown, PutKept, Over, PlacedContentKept
  <2> QED BY <2>1, <2>2 DEF ClusterInv, PlacementSound
<1> QED BY <1>1, ClusterCorrect, PTL
=============================================================================
