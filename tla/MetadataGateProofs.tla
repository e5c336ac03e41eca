------------------------- MODULE MetadataGateProofs -------------------------
(***************************************************************************)
(* Theorems about what a caller is told: about MetadataGate, for every      *)
(* number of threads, transactions, leases, endpoints and owners, and about *)
(* the calls of the SDK (Client), for every number of repeated calls,       *)
(* replicas, blocks, chunks and retries.                                    *)
(***************************************************************************)
EXTENDS MetadataGate, Client, SequenceTheorems, TLAPS

ThreadType == [phase : Phases, tx : 0..MaxTx, lease : Leases \cup {NoLease},
               attempt : 0..Endpoints, answer : {"none", "yes", "no"}, previous_marker : 0..MaxTx]
TxType == [lease : Leases \cup {NoLease}, content : SUBSET Tx, revision : Nat,
           guard : 0..MaxOwners, changes : BOOLEAN, previous : 0..MaxTx, outcome : Outcomes]

(***************************************************************************)
(* The invariant.  A transaction that has not sent its commit has no commit *)
(* request on its way and was not published (Unsent); its thread alone      *)
(* works on it (Owned).  What a transaction read is the root, or an older   *)
(* one, and the root it read is gone once it is published (Reads), so that  *)
(* a repeated request finds the comparison with the revision false.         *)
(***************************************************************************)
Preparing == {"acquiring", "holding", "working"}
Serving == Preparing \cup {"committing", "checking"}

Owned ==
  \A t \in Threads : thread[t].tx \in 0..seq /\ (thread[t].phase \in Serving =>
    /\ thread[t].tx \in 1..seq
    /\ \A u \in Threads : u # t => thread[u].tx # thread[t].tx)

Unsent ==
  /\ \A t \in Threads : thread[t].phase \in Preparing =>
       /\ \A m \in net : m.kind = "commit" => m.tx # thread[t].tx
       /\ applied[thread[t].tx] = 0
       /\ txs[thread[t].tx].outcome = "none"
       /\ thread[t].tx \notin markers
  /\ \A x \in Tx : x > seq =>
       /\ \A m \in net : m.tx # x
       /\ applied[x] = 0 /\ txs[x].outcome = "none" /\ x \notin markers

Reads ==
  \A x \in Tx :
    /\ txs[x].revision <= root.revision
    /\ txs[x].revision = root.revision => txs[x].content = root.content
    /\ applied[x] > 0 => applied[x] = 1 /\ txs[x].revision < root.revision /\ x \in root.content

\* What threads are told of publications is true.
Told ==
  /\ \A x \in Tx : txs[x].changes /\ (x \in markers \/ txs[x].outcome = "committed") => x \in root.content
  /\ \A t \in Threads : thread[t].phase = "committing" /\ thread[t].answer = "yes" =>
       (txs[thread[t].tx].changes => thread[t].tx \in root.content)

GateInv == TypeOK /\ Owned /\ Unsent /\ Reads /\ Told

-----------------------------------------------------------------------------
(* Type correctness.                                                        *)

\* The types of the variables, one by one.
TypeParts ==
  /\ gate \in 0..MaxTx
  /\ root \in [content : SUBSET Tx, revision : Nat]
  /\ key \in 0..MaxOwners /\ owners \in 0..MaxOwners
  /\ markers \subseteq Tx
  /\ lease \in [Leases -> 0..LeaseTTL]
  /\ net \subseteq Messages
  /\ thread \in [Threads -> ThreadType]
  /\ txs \in [Tx -> TxType]
  /\ applied \in [Tx -> Nat]
  /\ seq \in 0..MaxTx

\* TypeOK with the record types named.
LEMMA TypeNamed == (TypeOK <=> TypeParts) /\ (TypeOK' <=> TypeParts')
BY DEF TypeOK, TypeParts, ThreadType, TxType

\* The empty store is well typed.
LEMMA TypeInit == Init => TypeParts
<1> SUFFICES ASSUME Init PROVE TypeParts
  OBVIOUS
<1>1. NoTx \in TxType
  BY GateAssumption DEF NoTx, TxType, Outcomes
<1>2. thread \in [Threads -> ThreadType]
  BY GateAssumption DEF Init, ThreadType, Phases
<1> QED BY <1>1, <1>2, GateAssumption DEF Init, TypeParts, Tx

\* An answer changes only the field it is kept in.
LEMMA TypeAnswered ==
  ASSUME TypeParts, NEW m, NEW answer \in {"yes", "no"}
  PROVE  Answered(m, answer) \in [Threads -> ThreadType]
BY DEF Answered, TypeParts, ThreadType

\* Steps of etcd keep the types.
LEMMA TypeEtcd ==
  ASSUME TypeParts, Tick \/ KeyExpires \/ KeyTaken
  PROVE  TypeParts'
<1>1. CASE Tick
  <2> DEFINE left == [l \in Leases |-> IF lease[l] > 0 THEN lease[l] - 1 ELSE 0]
  <2>1. lease' = left /\ gate' \in {0, gate} /\ markers' \subseteq markers
    BY <1>1 DEF Tick
  <2>2. left \in [Leases -> 0..LeaseTTL]
    BY GateAssumption DEF TypeParts
  <2>3. UNCHANGED <<root, key, owners, net, thread, txs, applied, seq>>
    BY <1>1 DEF Tick
  <2> QED BY <2>1, <2>2, <2>3, GateAssumption DEF TypeParts
<1>2. CASE KeyExpires
  BY <1>2, GateAssumption DEF KeyExpires, TypeParts
<1>3. CASE KeyTaken
  BY <1>3, GateAssumption DEF KeyTaken, TypeParts
<1> QED BY <1>1, <1>2, <1>3

\* Applying a request keeps the types.
LEMMA TypeApply ==
  ASSUME TypeParts, NEW m \in net, ApplyAcquire(m) \/ ApplyCommit(m) \/ ApplyCleanup(m)
  PROVE  TypeParts'
<1>0. m \in Messages /\ m.tx \in Tx /\ m.tx \in 0..MaxTx
  BY GateAssumption DEF TypeParts, Messages, Tx
<1>1. CASE ApplyAcquire(m)
  <2>1. gate' \in {gate, m.tx} /\ net' \subseteq net
    BY <1>1 DEF ApplyAcquire
  <2>2. thread' \in [Threads -> ThreadType]
    BY <1>1, TypeAnswered DEF ApplyAcquire, TypeParts
  <2>3. UNCHANGED <<root, key, owners, markers, lease, txs, applied, seq>>
    BY <1>1 DEF ApplyAcquire
  <2> QED BY <1>0, <2>1, <2>2, <2>3 DEF TypeParts
<1>2. CASE ApplyCommit(m)
  <2>1. net' \subseteq net /\ UNCHANGED <<key, owners, lease, txs, seq>>
    BY <1>2 DEF ApplyCommit
  <2>2. thread' \in [Threads -> ThreadType]
    BY <1>2, TypeAnswered DEF ApplyCommit
  <2>3. gate' \in {gate, 0} /\ markers' \subseteq markers \cup {m.tx}
    BY <1>2 DEF ApplyCommit
  <2>4. root' \in [content : SUBSET Tx, revision : Nat]
    <3>1. root' = root \/ root' = [content |-> txs[m.tx].content \cup {m.tx}, revision |-> root.revision + 1]
      BY <1>2 DEF ApplyCommit
    <3>2. txs[m.tx].content \subseteq Tx /\ root.revision + 1 \in Nat
      BY <1>0 DEF TypeParts, TxType
    <3> QED BY <1>0, <3>1, <3>2 DEF TypeParts
  <2>5. applied' \in [Tx -> Nat]
    <3>1. applied' = applied \/ applied' = [applied EXCEPT ![m.tx] = IF txs[m.tx].changes THEN applied[m.tx] + 1 ELSE applied[m.tx]]
      BY <1>2 DEF ApplyCommit
    <3> QED BY <1>0, <3>1 DEF TypeParts
  <2> QED BY <1>0, <2>1, <2>2, <2>3, <2>4, <2>5, GateAssumption DEF TypeParts
<1>3. CASE ApplyCleanup(m)
  <2>1. gate' \in {gate, 0} /\ net' \subseteq net
    BY <1>3 DEF ApplyCleanup
  <2>2. UNCHANGED <<root, key, owners, markers, lease, thread, txs, applied, seq>>
    BY <1>3 DEF ApplyCleanup
  <2> QED BY <2>1, <2>2, GateAssumption DEF TypeParts
<1> QED BY <1>1, <1>2, <1>3

\* Steps of a thread.
ThreadStep(t) ==
  \/ Begin(t) \/ KeepAliveFails(t) \/ Acquire(t) \/ GiveUp(t) \/ Repeat(t) \/ Unavailable(t)
  \/ LostRace(t) \/ Acquired(t) \/ ReadRoot(t) \/ Refuse(t) \/ SendCommit(t)
  \/ Succeeded(t) \/ NotSucceeded(t) \/ CheckMarker(t)

\* A thread that works on a transaction works on one that was drawn.
LEMMA ServingTx ==
  ASSUME TypeParts, Owned, NEW t \in Threads, thread[t].phase \in Serving
  PROVE  thread[t].tx \in Tx /\ thread[t].tx \in 1..seq
BY GateAssumption DEF Owned, TypeParts, Tx

\* A well-typed state of one thread is a well-typed state of all.
LEMMA ThreadUpdate ==
  ASSUME TypeParts, NEW t \in Threads, NEW v \in ThreadType,
         thread' = [thread EXCEPT ![t] = v]
  PROVE  thread' \in [Threads -> ThreadType]
BY DEF TypeParts

\* Updates of a thread's record keep its type.
LEMMA ThreadFields ==
  ASSUME NEW w \in ThreadType
  PROVE  /\ \A p \in Phases, x \in 0..MaxTx, l \in Leases \cup {NoLease}, n \in 0..Endpoints,
               a \in {"none", "yes", "no"} :
              [w EXCEPT !.phase = p, !.tx = x, !.lease = l, !.attempt = n, !.answer = a] \in ThreadType
         /\ \A p \in Phases, l \in Leases \cup {NoLease} :
              [w EXCEPT !.lease = l, !.phase = p] \in ThreadType
         /\ \A p \in Phases, x \in 0..MaxTx, n \in 0..Endpoints, a \in {"none", "yes", "no"} :
              [w EXCEPT !.tx = x, !.phase = p, !.attempt = n, !.answer = a] \in ThreadType
         /\ \A n \in 0..Endpoints, a \in {"none", "yes", "no"} :
              [w EXCEPT !.attempt = n, !.answer = a] \in ThreadType
         /\ \A p \in Phases, n \in 0..Endpoints, a \in {"none", "yes", "no"} :
              [w EXCEPT !.phase = p, !.attempt = n, !.answer = a] \in ThreadType
         /\ \A p \in Phases : [w EXCEPT !.phase = p] \in ThreadType
BY DEF ThreadType

\* Requests are well formed.
LEMMA MessageType ==
  ASSUME NEW x \in Tx, NEW n \in 1..Endpoints, NEW sort \in {"acquire", "commit", "cleanup"}
  PROVE  [kind |-> sort, tx |-> x, attempt |-> n] \in Messages
BY DEF Messages

\* A transaction's record with another outcome is a transaction's record.
LEMMA TxEnded ==
  ASSUME NEW r \in TxType, NEW outcome \in Outcomes
  PROVE  [r EXCEPT !.outcome = outcome] \in TxType
BY DEF TxType

\* The end of a transaction that was not released keeps the types.
LEMMA TypeUnwind ==
  ASSUME TypeParts, NEW t \in Threads, thread[t].tx \in Tx, NEW outcome \in Outcomes,
         Unwind(t, outcome)
  PROVE  TypeParts'
<1> DEFINE x == thread[t].tx
<1>1. net' = net \cup {[kind |-> "cleanup", tx |-> x, attempt |-> 1]}
  BY DEF Unwind
<1>2. net' \subseteq Messages
  <2>1. 1 \in 1..Endpoints
    BY GateAssumption
  <2>2. [kind |-> "cleanup", tx |-> x, attempt |-> 1] \in Messages
    BY <2>1, MessageType
  <2> QED BY <1>1, <2>2 DEF TypeParts
<1>3. thread' \in [Threads -> ThreadType]
  <2>1. thread' = [thread EXCEPT ![t] = [thread[t] EXCEPT !.phase = "idle", !.tx = 0, !.lease = NoLease,
                                                         !.attempt = 0, !.answer = "none"]]
    BY DEF Unwind, LeaseAfterFailure, TypeParts
  <2>2. "idle" \in Phases /\ 0 \in 0..MaxTx /\ 0 \in 0..Endpoints /\ thread[t] \in ThreadType
    BY GateAssumption DEF Phases, TypeParts
  <2> QED BY <2>1, <2>2, ThreadFields, ThreadUpdate
<1>4. txs' = [txs EXCEPT ![x].outcome = outcome]
  BY DEF Unwind
<1>5. txs' \in [Tx -> TxType]
  <2>1. txs \in [Tx -> TxType] /\ x \in Tx
    BY DEF TypeParts
  <2>2. [txs[x] EXCEPT !.outcome = outcome] \in TxType
    BY <2>1, TxEnded
  <2> HIDE DEF x
  <2> QED BY <1>4, <2>1, <2>2
<1>6. UNCHANGED <<etcd, seq>>
  BY DEF Unwind
<1> QED BY <1>2, <1>3, <1>5, <1>6 DEF TypeParts, etcd

\* The end of a transaction that was released keeps the types.
LEMMA TypeReleased ==
  ASSUME TypeParts, NEW t \in Threads, thread[t].tx \in Tx, Released(t)
  PROVE  TypeParts'
<1> DEFINE x == thread[t].tx
<1>3. thread' \in [Threads -> ThreadType]
  BY GateAssumption, SMTT(30) DEF Released, TypeParts, ThreadType, Phases, Tx
<1>4. txs' = [txs EXCEPT ![x].outcome = "committed"]
  BY DEF Released
<1>5. txs' \in [Tx -> TxType]
  <2>1. txs \in [Tx -> TxType] /\ x \in Tx
    BY DEF TypeParts
  <2>2. [txs[x] EXCEPT !.outcome = "committed"] \in TxType
    BY <2>1, TxEnded DEF Outcomes
  <2> HIDE DEF x
  <2> QED BY <1>4, <2>1, <2>2
<1>6. UNCHANGED <<etcd, net, seq>>
  BY DEF Released
<1> QED BY <1>3, <1>5, <1>6 DEF TypeParts, etcd

\* Steps of a thread keep the types.
LEMMA TypeThread ==
  ASSUME TypeParts, Owned, NEW t \in Threads, ThreadStep(t)
  PROVE  TypeParts'
<1>1. CASE Begin(t)
  <2>1. PICK l \in Leases : /\ lease' = [lease EXCEPT ![l] = LeaseTTL]
                            /\ thread' = [thread EXCEPT ![t].lease = l, ![t].phase = "polling"]
    BY <1>1 DEF Begin
  <2>2. lease' \in [Leases -> 0..LeaseTTL]
    BY <2>1, GateAssumption DEF TypeParts
  <2>3. thread' \in [Threads -> ThreadType]
    <3>1. thread' = [thread EXCEPT ![t] = [thread[t] EXCEPT !.lease = l, !.phase = "polling"]]
      BY <2>1 DEF TypeParts
    <3>2. "polling" \in Phases /\ thread[t] \in ThreadType
      BY DEF Phases, TypeParts
    <3>3. [thread[t] EXCEPT !.lease = l, !.phase = "polling"] \in ThreadType
      BY <3>2, ThreadFields
    <3> QED BY <3>1, <3>3, ThreadUpdate
  <2>4. UNCHANGED <<gate, root, key, owners, markers, net, txs, applied, seq>>
    BY <1>1 DEF Begin
  <2> QED BY <2>2, <2>3, <2>4 DEF TypeParts
<1>2. CASE KeepAliveFails(t) \/ GiveUp(t) \/ Acquired(t) \/ NotSucceeded(t)
  <2>1. thread' \in [Threads -> ThreadType]
    BY <1>2, SMTT(30) DEF KeepAliveFails, GiveUp, Acquired, NotSucceeded, LeaseAfterFailure, TypeParts, ThreadType, Phases
  <2>2. UNCHANGED <<etcd, net, txs, seq>>
    BY <1>2 DEF KeepAliveFails, GiveUp, Acquired, NotSucceeded
  <2> QED BY <2>1, <2>2 DEF TypeParts, etcd
<1>3. CASE Acquire(t)
  <2>1. seq + 1 \in Tx /\ seq + 1 \in 0..MaxTx /\ 1 \in 1..Endpoints /\ 1 \in 0..Endpoints
    BY <1>3, GateAssumption DEF Acquire, TypeParts, Tx
  <2>2. /\ seq' = seq + 1
        /\ txs' = [txs EXCEPT ![seq + 1].lease = thread[t].lease]
        /\ net' = net \cup {[kind |-> "acquire", tx |-> seq + 1, attempt |-> 1]}
        /\ thread' = [thread EXCEPT ![t].tx = seq + 1, ![t].phase = "acquiring", ![t].attempt = 1,
                                    ![t].answer = "none"]
        /\ UNCHANGED etcd
    BY <1>3 DEF Acquire
  <2>3. thread' \in [Threads -> ThreadType]
    <3>1. thread' = [thread EXCEPT ![t] = [thread[t] EXCEPT !.tx = seq + 1, !.phase = "acquiring",
                                                           !.attempt = 1, !.answer = "none"]]
      BY <2>2 DEF TypeParts
    <3>2. "acquiring" \in Phases /\ thread[t] \in ThreadType
      BY DEF Phases, TypeParts
    <3>3. [thread[t] EXCEPT !.tx = seq + 1, !.phase = "acquiring", !.attempt = 1, !.answer = "none"] \in ThreadType
      BY <2>1, <3>2, ThreadFields
    <3> QED BY <3>1, <3>3, ThreadUpdate
  <2>4. thread[t].lease \in Leases \cup {NoLease}
    BY DEF TypeParts, ThreadType
  <2>5. txs' \in [Tx -> TxType]
    BY <2>1, <2>2, <2>4 DEF TypeParts, TxType
  <2>6. net' \subseteq Messages
    BY <2>1, <2>2, MessageType DEF TypeParts
  <2> QED BY <2>1, <2>2, <2>3, <2>5, <2>6 DEF TypeParts, etcd
<1>4. CASE Repeat(t) \/ LostRace(t)
  <2>1. thread[t].tx \in Tx /\ thread[t].attempt + 1 \in 1..Endpoints
    <3>1. thread[t].phase \in Serving /\ thread[t].attempt < Endpoints
      BY <1>4 DEF Repeat, LostRace, Serving, Preparing
    <3>2. thread[t].attempt \in 0..Endpoints
      BY DEF TypeParts, ThreadType
    <3> QED BY <3>1, <3>2, ServingTx, GateAssumption
  <2>2. PICK sort \in {"acquire", "commit"} :
          net' = net \cup {[kind |-> sort, tx |-> thread[t].tx, attempt |-> thread[t].attempt + 1]}
    BY <1>4 DEF Repeat, LostRace
  <2>3. net' \subseteq Messages
    <3>1. [kind |-> sort, tx |-> thread[t].tx, attempt |-> thread[t].attempt + 1] \in Messages
      BY <2>1, MessageType
    <3> QED BY <2>2, <3>1 DEF TypeParts
  <2>4. thread' = [thread EXCEPT ![t].attempt = thread[t].attempt + 1, ![t].answer = "none"]
    BY <1>4 DEF Repeat, LostRace, TypeParts, ThreadType
  <2>5. thread[t].attempt + 1 \in 0..Endpoints
    BY <2>1, GateAssumption
  <2>6. thread' \in [Threads -> ThreadType]
    <3>1. thread' = [thread EXCEPT ![t] = [thread[t] EXCEPT !.attempt = thread[t].attempt + 1, !.answer = "none"]]
      BY <2>4 DEF TypeParts
    <3>2. thread[t] \in ThreadType
      BY DEF TypeParts
    <3>3. [thread[t] EXCEPT !.attempt = thread[t].attempt + 1, !.answer = "none"] \in ThreadType
      BY <2>5, <3>2, ThreadFields
    <3> QED BY <3>1, <3>3, ThreadUpdate
  <2>7. UNCHANGED <<etcd, txs, seq>>
    BY <1>4 DEF Repeat, LostRace
  <2> QED BY <2>3, <2>6, <2>7 DEF TypeParts, etcd
<1>5. CASE Unavailable(t) \/ Refuse(t)
  <2>1. thread[t].phase \in Serving
    BY <1>5 DEF Unavailable, Refuse, Serving, Preparing
  <2>2. thread[t].tx \in Tx
    BY <2>1, ServingTx
  <2>3. Unwind(t, "unavailable") \/ Unwind(t, "refused")
    BY <1>5 DEF Unavailable, Refuse
  <2> QED BY <2>2, <2>3, TypeUnwind DEF Outcomes
<1>6. CASE ReadRoot(t)
  <2> DEFINE x == thread[t].tx
  <2>1. x \in Tx
    BY <1>6, ServingTx DEF ReadRoot, Serving, Preparing
  <2>2. PICK changes \in BOOLEAN, guard \in 0..owners :
          txs' = [txs EXCEPT ![x].content = root.content, ![x].revision = root.revision,
                             ![x].changes = changes, ![x].guard = guard,
                             ![x].previous = thread[t].previous_marker]
    BY <1>6 DEF ReadRoot
  <2>3. guard \in 0..MaxOwners
    BY GateAssumption DEF TypeParts
  <2>4. root.content \subseteq Tx /\ root.revision \in Nat /\ thread[t].previous_marker \in 0..MaxTx
    BY DEF TypeParts, ThreadType
  <2>5. txs' \in [Tx -> TxType]
    <3> DEFINE r == [txs[x] EXCEPT !.content = root.content, !.revision = root.revision,
                                   !.changes = changes, !.guard = guard,
                                   !.previous = thread[t].previous_marker]
    <3>1. txs' = [txs EXCEPT ![x] = r]
      BY <2>1, <2>2 DEF TypeParts
    <3>2. txs[x] \in TxType
      BY <2>1 DEF TypeParts
    <3>3. r \in TxType
      BY <2>3, <2>4, <3>2 DEF TxType
    <3> HIDE DEF r
    <3> QED BY <3>1, <3>3 DEF TypeParts
  <2>6. thread' \in [Threads -> ThreadType]
    <3>1. thread' = [thread EXCEPT ![t] = [thread[t] EXCEPT !.phase = "working"]]
      BY <1>6 DEF ReadRoot, TypeParts
    <3>2. "working" \in Phases /\ thread[t] \in ThreadType
      BY DEF Phases, TypeParts
    <3>3. [thread[t] EXCEPT !.phase = "working"] \in ThreadType
      BY <3>2, ThreadFields
    <3> QED BY <3>1, <3>3, ThreadUpdate
  <2>7. UNCHANGED <<etcd, net, seq>>
    BY <1>6 DEF ReadRoot
  <2> QED BY <2>5, <2>6, <2>7 DEF TypeParts, etcd
<1>7. CASE SendCommit(t)
  <2>1. thread[t].tx \in Tx
    BY <1>7, ServingTx DEF SendCommit, Serving, Preparing
  <2>2. net' \subseteq Messages
    <3>1. net' = net \cup {[kind |-> "commit", tx |-> thread[t].tx, attempt |-> 1]}
      BY <1>7 DEF SendCommit
    <3>2. 1 \in 1..Endpoints
      BY GateAssumption
    <3>3. [kind |-> "commit", tx |-> thread[t].tx, attempt |-> 1] \in Messages
      BY <2>1, <3>2, MessageType
    <3> QED BY <3>1, <3>3 DEF TypeParts
  <2>3. thread' \in [Threads -> ThreadType]
    <3>1. thread' = [thread EXCEPT ![t] = [thread[t] EXCEPT !.phase = "committing", !.attempt = 1, !.answer = "none"]]
      BY <1>7 DEF SendCommit, TypeParts
    <3>2. "committing" \in Phases /\ thread[t] \in ThreadType /\ 1 \in 0..Endpoints
      BY GateAssumption DEF Phases, TypeParts
    <3>3. [thread[t] EXCEPT !.phase = "committing", !.attempt = 1, !.answer = "none"] \in ThreadType
      BY <3>2, ThreadFields
    <3> QED BY <3>1, <3>3, ThreadUpdate
  <2>4. UNCHANGED <<etcd, txs, seq>>
    BY <1>7 DEF SendCommit
  <2> QED BY <2>2, <2>3, <2>4 DEF TypeParts, etcd
<1>8. CASE Succeeded(t) \/ CheckMarker(t)
  <2>1. thread[t].phase \in Serving
    BY <1>8 DEF Succeeded, CheckMarker, Serving
  <2>2. thread[t].tx \in Tx
    BY <2>1, ServingTx
  <2>3. Released(t) \/ Unwind(t, "conflict")
    BY <1>8 DEF Succeeded, CheckMarker
  <2> QED BY <2>2, <2>3, TypeUnwind, TypeReleased DEF Outcomes
<1> QED BY <1>1, <1>2, <1>3, <1>4, <1>5, <1>6, <1>7, <1>8 DEF ThreadStep

-----------------------------------------------------------------------------
(* The rest of the invariant.                                               *)

Rest == Owned /\ Unsent /\ Reads /\ Told

\* Steps that publish nothing, tell nothing and read nothing keep the invariant: they
\* send or lose requests, lose markers, and move threads on without a publication.
LEMMA Quiet ==
  ASSUME TypeParts, TypeParts', Rest,
         UNCHANGED <<root, applied, seq, txs>>, markers' \subseteq markers,
         \A m \in net' : m \in net \/
           (m.tx \in 1..seq /\ (m.kind = "commit" =>
              \A t \in Threads : thread'[t].phase \in Preparing => thread[t].tx # m.tx)),
         \A t \in Threads :
           /\ thread'[t].tx = thread[t].tx
           /\ thread'[t].phase \in Serving => thread[t].phase \in Serving
           /\ thread'[t].phase \in Preparing => thread[t].phase \in Preparing
           /\ thread'[t].phase = "committing" /\ thread'[t].answer = "yes" =>
                thread[t].phase = "committing" /\ thread[t].answer = "yes"
  PROVE  Rest'
<1>1. Owned'
  BY DEF Rest, Owned
<1>2. Unsent'
  <2>1. \A t \in Threads : thread'[t].phase \in Preparing =>
          /\ \A m \in net' : m.kind = "commit" => m.tx # thread'[t].tx
          /\ applied'[thread'[t].tx] = 0 /\ txs'[thread'[t].tx].outcome = "none"
          /\ thread'[t].tx \notin markers'
    BY DEF Rest, Unsent
  <2>2. \A x \in Tx : x > seq => \A m \in net' : m.tx # x
    BY GateAssumption DEF Rest, Unsent, TypeParts, Tx
  <2>3. \A x \in Tx : x > seq' => applied'[x] = 0 /\ txs'[x].outcome = "none" /\ x \notin markers'
    BY DEF Rest, Unsent
  <2> QED BY <2>1, <2>2, <2>3 DEF Unsent
<1>3. Reads'
  BY DEF Rest, Reads
<1>4. Told'
  BY DEF Rest, Told
<1> QED BY <1>1, <1>2, <1>3, <1>4 DEF Rest

\* The invariant holds of the empty store.
LEMMA RestInit == Init => Rest
<1> SUFFICES ASSUME Init PROVE Rest
  OBVIOUS
<1>1. Owned
  BY DEF Init, Owned, Serving, Preparing
<1>2. Unsent
  BY DEF Init, Unsent, Preparing, NoTx, Tx
<1>3. Reads
  BY DEF Init, Reads, NoTx
<1>4. Told
  BY DEF Init, Told, NoTx
<1> QED BY <1>1, <1>2, <1>3, <1>4 DEF Rest

\* An answer moves no thread on.
LEMMA AnswerKeeps ==
  ASSUME TypeParts, NEW m, NEW answer, NEW t \in Threads
  PROVE  /\ Answered(m, answer)[t].tx = thread[t].tx
         /\ Answered(m, answer)[t].phase = thread[t].phase
         /\ Answered(m, answer)[t].answer # thread[t].answer =>
              /\ thread[t].tx = m.tx
              /\ thread[t].phase = (IF m.kind = "acquire" THEN "acquiring" ELSE "committing")
              /\ Answered(m, answer)[t].answer = answer
BY DEF Answered, TypeParts, ThreadType

\* Expiry, and the ownership key, keep the invariant.
LEMMA RestEtcd ==
  ASSUME TypeParts, TypeParts', Rest, Tick \/ KeyExpires \/ KeyTaken
  PROVE  Rest'
<1>1. UNCHANGED <<root, applied, seq, txs, net, thread>> /\ markers' \subseteq markers
  BY DEF Tick, KeyExpires, KeyTaken
<1> QED BY <1>1, Quiet

\* Requests that publish nothing keep the invariant.
LEMMA RestRequests ==
  ASSUME TypeParts, TypeParts', Rest, NEW m \in net,
         ApplyAcquire(m) \/ ApplyCleanup(m) \/ (ApplyCommit(m) /\ ~CommitGuards(m.tx))
  PROVE  Rest'
<1>1. UNCHANGED <<root, applied, seq, txs, markers>> /\ net' \subseteq net
  BY DEF ApplyAcquire, ApplyCleanup, ApplyCommit
<1>2. \/ thread' = thread
      \/ m.kind = "acquire" /\ thread' = Answered(m, "yes")
      \/ thread' = Answered(m, "no")
  BY DEF ApplyAcquire, ApplyCleanup, ApplyCommit
<1>3. \A t \in Threads :
        /\ thread'[t].tx = thread[t].tx /\ thread'[t].phase = thread[t].phase
        /\ thread'[t].phase = "committing" /\ thread'[t].answer = "yes" => thread[t].answer = "yes"
  <2>1. CASE thread' = thread
    BY <2>1
  <2>2. CASE m.kind = "acquire" /\ thread' = Answered(m, "yes")
    BY <2>2, AnswerKeeps
  <2>3. CASE thread' = Answered(m, "no")
    BY <2>3, AnswerKeeps
  <2> QED BY <1>2, <2>1, <2>2, <2>3
<1> QED BY <1>1, <1>3, Quiet

\* A publication keeps the invariant: what the transaction read is the root it
\* replaces, so the new root has all of the old one.
LEMMA RestPublish ==
  ASSUME TypeParts, TypeParts', Rest, NEW m \in net, ApplyCommit(m), CommitGuards(m.tx)
  PROVE  Rest' /\ root'.content \in {root.content, root.content \cup {m.tx}}
               /\ (m.tx \in root.content => root'.content = root.content)
<1> DEFINE x == m.tx
<1>1. x \in Tx /\ x <= seq /\ x \in 1..seq
  <2>1. x \in Tx
    BY DEF TypeParts, Messages
  <2> QED BY <2>1, GateAssumption DEF Rest, Unsent, TypeParts, Tx
<1>2. /\ m.kind = "commit" /\ net' \subseteq net /\ UNCHANGED <<txs, seq>>
      /\ root' = IF txs[x].changes
                 THEN [content |-> txs[x].content \cup {x}, revision |-> root.revision + 1] ELSE root
      /\ markers' \subseteq markers \cup {x}
      /\ applied' = [applied EXCEPT ![x] = IF txs[x].changes THEN applied[x] + 1 ELSE applied[x]]
      /\ thread' = Answered(m, "yes")
  BY DEF ApplyCommit
<1>3. root.revision \in Nat /\ txs[x].revision = root.revision /\ txs[x].content = root.content
  BY <1>1 DEF CommitGuards, Rest, Reads, TypeParts
<1>4. applied[x] = 0
  BY <1>1, <1>3 DEF Rest, Reads, TypeParts
<1>5. /\ root'.content = (IF txs[x].changes THEN root.content \cup {x} ELSE root.content)
      /\ root'.revision = (IF txs[x].changes THEN root.revision + 1 ELSE root.revision)
  BY <1>2, <1>3
<1>6. \A y \in Tx : applied'[y] = (IF y = x /\ txs[x].changes THEN 1 ELSE applied[y])
  BY <1>1, <1>2, <1>4 DEF TypeParts
<1>7. \A t \in Threads :
        /\ thread'[t].tx = thread[t].tx /\ thread'[t].phase = thread[t].phase
        /\ thread'[t].answer = thread[t].answer \/ thread[t].tx = x
  BY <1>2, AnswerKeeps
<1>8. Owned'
  BY <1>2, <1>7 DEF Rest, Owned
<1>9. Unsent'
  <2>1. \A t \in Threads : thread[t].phase \in Preparing => thread[t].tx # x /\ thread[t].tx \in Tx
    BY <1>2, ServingTx DEF Rest, Unsent, Serving
  <2>2. \A t \in Threads : thread'[t].phase \in Preparing =>
          /\ \A n \in net' : n.kind = "commit" => n.tx # thread'[t].tx
          /\ applied'[thread'[t].tx] = 0 /\ txs'[thread'[t].tx].outcome = "none"
          /\ thread'[t].tx \notin markers'
    BY <1>2, <1>6, <1>7, <2>1 DEF Rest, Unsent
  <2>3. \A y \in Tx : y > seq => y # x
    BY <1>1, GateAssumption DEF Tx, TypeParts
  <2>4. \A y \in Tx : y > seq' =>
          /\ \A n \in net' : n.tx # y
          /\ applied'[y] = 0 /\ txs'[y].outcome = "none" /\ y \notin markers'
    BY <1>2, <1>6, <2>3 DEF Rest, Unsent
  <2> QED BY <2>2, <2>4 DEF Unsent
<1>10. Reads'
  <2> SUFFICES ASSUME NEW y \in Tx
               PROVE /\ txs[y].revision <= root'.revision
                     /\ txs[y].revision = root'.revision => txs[y].content = root'.content
                     /\ applied'[y] > 0 => applied'[y] = 1 /\ txs[y].revision < root'.revision /\ y \in root'.content
    BY <1>2 DEF Reads
  <2>1. txs[y].revision \in Nat /\ applied[y] \in Nat
    BY DEF TypeParts, TxType
  <2>2. /\ txs[y].revision <= root.revision
        /\ txs[y].revision = root.revision => txs[y].content = root.content
        /\ applied[y] > 0 => applied[y] = 1 /\ txs[y].revision < root.revision /\ y \in root.content
    BY DEF Rest, Reads
  <2>3. CASE txs[x].changes
    BY <1>3, <1>5, <1>6, <2>1, <2>2, <2>3
  <2>4. CASE ~txs[x].changes
    BY <1>3, <1>5, <1>6, <2>1, <2>2, <2>4
  <2> QED BY <2>3, <2>4
<1>11. Told'
  <2>1. root.content \subseteq root'.content /\ (txs[x].changes => x \in root'.content)
    BY <1>5
  <2>2. \A y \in Tx : txs'[y].changes /\ (y \in markers' \/ txs'[y].outcome = "committed") => y \in root'.content
    BY <1>2, <2>1 DEF Rest, Told
  <2>3. \A t \in Threads : thread'[t].phase = "committing" /\ thread'[t].answer = "yes" =>
          (txs'[thread'[t].tx].changes => thread'[t].tx \in root'.content)
    BY <1>2, <1>7, <2>1 DEF Rest, Told
  <2> QED BY <2>2, <2>3 DEF Told
<1> QED BY <1>5, <1>8, <1>9, <1>10, <1>11 DEF Rest

\* A transaction that ends unreleased is told nothing that must be true of the root.
LEMMA RestUnwind ==
  ASSUME TypeParts, TypeParts', Rest, NEW t \in Threads, thread[t].phase \in Serving,
         NEW outcome, outcome # "committed", Unwind(t, outcome)
  PROVE  Rest'
<1> DEFINE x == thread[t].tx
<1>1. x \in Tx /\ x \in 1..seq /\ \A u \in Threads : u # t => thread[u].tx # x
  BY ServingTx DEF Rest, Owned
<1>2. /\ UNCHANGED <<root, applied, markers, seq>>
      /\ net' = net \cup {[kind |-> "cleanup", tx |-> x, attempt |-> 1]}
  BY DEF Unwind, etcd
<1>3. thread'[t].phase = "idle" /\ thread'[t].tx = 0 /\ \A u \in Threads \ {t} : thread'[u] = thread[u]
  BY DEF Unwind, TypeParts, ThreadType
<1>4. /\ \A y \in Tx \ {x} : txs'[y] = txs[y]
      /\ txs'[x].outcome = outcome /\ txs'[x].changes = txs[x].changes
      /\ txs'[x].content = txs[x].content /\ txs'[x].revision = txs[x].revision
  BY <1>1 DEF Unwind, TypeParts, TxType
<1>5. "idle" \notin Serving /\ "idle" \notin Preparing /\ Preparing \subseteq Serving
  BY DEF Serving, Preparing
<1>6. seq \in Nat
  BY GateAssumption DEF TypeParts
<1>7. Owned'
  BY <1>1, <1>2, <1>3, <1>5, <1>6 DEF Rest, Owned
<1>8. Unsent'
  <2>1. \A u \in Threads : thread'[u].phase \in Preparing => u # t /\ thread'[u].tx # x /\ thread'[u].tx \in Tx
    BY <1>1, <1>3, <1>5, ServingTx DEF Rest
  <2>2. \A u \in Threads : thread'[u].phase \in Preparing =>
          /\ \A n \in net' : n.kind = "commit" => n.tx # thread'[u].tx
          /\ applied'[thread'[u].tx] = 0 /\ txs'[thread'[u].tx].outcome = "none"
          /\ thread'[u].tx \notin markers'
    BY <1>2, <1>3, <1>4, <2>1 DEF Rest, Unsent
  <2>3. \A y \in Tx : y > seq => y # x
    BY <1>1, <1>6 DEF Tx
  <2>4. \A y \in Tx : y > seq' =>
          /\ \A n \in net' : n.tx # y
          /\ applied'[y] = 0 /\ txs'[y].outcome = "none" /\ y \notin markers'
    BY <1>2, <1>4, <2>3 DEF Rest, Unsent
  <2> QED BY <2>2, <2>4 DEF Unsent
<1>9. Reads'
  BY <1>2, <1>4 DEF Rest, Reads
<1>10. Told'
  <2>1. \A y \in Tx : txs'[y].changes /\ (y \in markers' \/ txs'[y].outcome = "committed") => y \in root'.content
    BY <1>2, <1>4 DEF Rest, Told
  <2>2. \A u \in Threads : thread'[u].phase = "committing" /\ thread'[u].answer = "yes" =>
          (txs'[thread'[u].tx].changes => thread'[u].tx \in root'.content)
    <3> SUFFICES ASSUME NEW u \in Threads, thread'[u].phase = "committing", thread'[u].answer = "yes"
                 PROVE  txs'[thread'[u].tx].changes => thread'[u].tx \in root'.content
      OBVIOUS
    <3>1. u # t /\ thread'[u] = thread[u] /\ thread[u].phase \in Serving
      BY <1>3 DEF Serving
    <3>2. thread[u].tx \in Tx \ {x}
      BY <1>1, <3>1, ServingTx DEF Rest
    <3> QED BY <1>2, <1>4, <3>1, <3>2 DEF Rest, Told
  <2> QED BY <2>1, <2>2 DEF Told
<1> QED BY <1>7, <1>8, <1>9, <1>10 DEF Rest

\* A transaction told that it committed is in the root, if it changes anything.
LEMMA RestReleased ==
  ASSUME TypeParts, TypeParts', Rest, NEW t \in Threads, thread[t].phase \in Serving,
         txs[thread[t].tx].changes => thread[t].tx \in root.content, Released(t)
  PROVE  Rest'
<1> DEFINE x == thread[t].tx
<1>1. x \in Tx /\ x \in 1..seq /\ \A u \in Threads : u # t => thread[u].tx # x
  BY ServingTx DEF Rest, Owned
<1>2. UNCHANGED <<root, applied, markers, seq, net>>
  BY DEF Released, etcd
<1>3. thread'[t].phase = "idle" /\ thread'[t].tx = 0 /\ \A u \in Threads \ {t} : thread'[u] = thread[u]
  BY DEF Released, TypeParts, ThreadType
<1>4. /\ \A y \in Tx \ {x} : txs'[y] = txs[y]
      /\ txs'[x].outcome = "committed" /\ txs'[x].changes = txs[x].changes
      /\ txs'[x].content = txs[x].content /\ txs'[x].revision = txs[x].revision
  BY <1>1 DEF Released, TypeParts, TxType
<1>5. "idle" \notin Serving /\ "idle" \notin Preparing /\ Preparing \subseteq Serving
  BY DEF Serving, Preparing
<1>6. seq \in Nat
  BY GateAssumption DEF TypeParts
<1>7. Owned'
  BY <1>1, <1>2, <1>3, <1>5, <1>6 DEF Rest, Owned
<1>8. Unsent'
  <2>1. \A u \in Threads : thread'[u].phase \in Preparing => u # t /\ thread'[u].tx # x /\ thread'[u].tx \in Tx
    BY <1>1, <1>3, <1>5, ServingTx DEF Rest
  <2>2. \A u \in Threads : thread'[u].phase \in Preparing =>
          /\ \A n \in net' : n.kind = "commit" => n.tx # thread'[u].tx
          /\ applied'[thread'[u].tx] = 0 /\ txs'[thread'[u].tx].outcome = "none"
          /\ thread'[u].tx \notin markers'
    BY <1>2, <1>3, <1>4, <2>1 DEF Rest, Unsent
  <2>3. \A y \in Tx : y > seq => y # x
    BY <1>1, <1>6 DEF Tx
  <2>4. \A y \in Tx : y > seq' =>
          /\ \A n \in net' : n.tx # y
          /\ applied'[y] = 0 /\ txs'[y].outcome = "none" /\ y \notin markers'
    BY <1>2, <1>4, <2>3 DEF Rest, Unsent
  <2> QED BY <2>2, <2>4 DEF Unsent
<1>9. Reads'
  BY <1>2, <1>4 DEF Rest, Reads
<1>10. Told'
  <2>1. \A y \in Tx : txs'[y].changes /\ (y \in markers' \/ txs'[y].outcome = "committed") => y \in root'.content
    BY <1>2, <1>4 DEF Rest, Told
  <2>2. \A u \in Threads : thread'[u].phase = "committing" /\ thread'[u].answer = "yes" =>
          (txs'[thread'[u].tx].changes => thread'[u].tx \in root'.content)
    <3> SUFFICES ASSUME NEW u \in Threads, thread'[u].phase = "committing", thread'[u].answer = "yes"
                 PROVE  txs'[thread'[u].tx].changes => thread'[u].tx \in root'.content
      OBVIOUS
    <3>1. u # t /\ thread'[u] = thread[u] /\ thread[u].phase \in Serving
      BY <1>3 DEF Serving
    <3>2. thread[u].tx \in Tx \ {x}
      BY <1>1, <3>1, ServingTx DEF Rest
    <3> QED BY <1>2, <1>4, <3>1, <3>2 DEF Rest, Told
  <2> QED BY <2>1, <2>2 DEF Told
<1> QED BY <1>7, <1>8, <1>9, <1>10 DEF Rest

\* A new transaction starts with nothing sent, read or told.
LEMMA RestAcquire ==
  ASSUME TypeParts, TypeParts', Rest, NEW t \in Threads, Acquire(t)
  PROVE  Rest'
<1> DEFINE x == seq + 1
<1>1. seq \in Nat /\ x \in Tx /\ x > seq
  BY GateAssumption DEF Acquire, TypeParts, Tx
<1>2. /\ UNCHANGED <<root, applied, markers>> /\ seq' = x
      /\ net' = net \cup {[kind |-> "acquire", tx |-> x, attempt |-> 1]}
  BY DEF Acquire, etcd
<1>3. thread'[t].phase = "acquiring" /\ thread'[t].tx = x /\ \A u \in Threads \ {t} : thread'[u] = thread[u]
  BY DEF Acquire, TypeParts, ThreadType
<1>4. \A y \in Tx : /\ txs'[y].outcome = txs[y].outcome /\ txs'[y].changes = txs[y].changes
                     /\ txs'[y].content = txs[y].content /\ txs'[y].revision = txs[y].revision
  BY <1>1 DEF Acquire, TypeParts, TxType
<1>5. Owned'
  <2>1. \A u \in Threads : thread[u].tx \in 0..seq
    BY DEF Rest, Owned
  <2>2. \A u \in Threads \ {t} : thread'[u].tx \in 0..seq' /\ thread'[u].tx # x
    BY <1>1, <1>2, <1>3, <2>1
  <2>3. \A u \in Threads \ {t} : thread'[u].phase \in Serving =>
          thread'[u].tx \in 1..seq' /\ \A w \in Threads : w # u => thread'[w].tx # thread'[u].tx
    <3> SUFFICES ASSUME NEW u \in Threads \ {t}, thread'[u].phase \in Serving
                 PROVE  thread'[u].tx \in 1..seq' /\ \A w \in Threads : w # u => thread'[w].tx # thread'[u].tx
      OBVIOUS
    <3>1. thread[u].tx \in 1..seq /\ \A w \in Threads : w # u => thread[w].tx # thread[u].tx
      BY <1>3 DEF Rest, Owned
    <3> QED BY <1>1, <1>2, <1>3, <2>2, <3>1
  <2>4. thread'[t].tx \in 1..seq' /\ thread'[t].tx \in 0..seq'
    BY <1>1, <1>2, <1>3
  <2> QED BY <1>3, <2>2, <2>3, <2>4 DEF Owned
<1>6. Unsent'
  <2>1. \A u \in Threads \ {t} : thread'[u].phase \in Preparing => thread'[u].tx \in Tx
    BY <1>3, ServingTx DEF Rest, Serving
  <2>2. \A u \in Threads \ {t} : thread'[u].phase \in Preparing =>
          /\ \A n \in net' : n.kind = "commit" => n.tx # thread'[u].tx
          /\ applied'[thread'[u].tx] = 0 /\ txs'[thread'[u].tx].outcome = "none"
          /\ thread'[u].tx \notin markers'
    BY <1>2, <1>3, <1>4, <2>1 DEF Rest, Unsent
  <2>3. /\ \A n \in net' : n.kind = "commit" => n.tx # x
        /\ applied'[x] = 0 /\ txs'[x].outcome = "none" /\ x \notin markers'
    BY <1>1, <1>2, <1>4 DEF Rest, Unsent
  <2>4. \A y \in Tx : y > seq' => y > seq /\ y # x
    BY <1>1, <1>2 DEF Tx
  <2>5. \A y \in Tx : y > seq' =>
          /\ \A n \in net' : n.tx # y
          /\ applied'[y] = 0 /\ txs'[y].outcome = "none" /\ y \notin markers'
    BY <1>2, <1>4, <2>4 DEF Rest, Unsent
  <2> QED BY <1>3, <2>2, <2>3, <2>5 DEF Unsent
<1>7. Reads'
  BY <1>2, <1>4 DEF Rest, Reads
<1>8. Told'
  <2>1. \A y \in Tx : txs'[y].changes /\ (y \in markers' \/ txs'[y].outcome = "committed") => y \in root'.content
    BY <1>2, <1>4 DEF Rest, Told
  <2>2. \A u \in Threads : thread'[u].phase = "committing" /\ thread'[u].answer = "yes" =>
          (txs'[thread'[u].tx].changes => thread'[u].tx \in root'.content)
    <3> SUFFICES ASSUME NEW u \in Threads, thread'[u].phase = "committing", thread'[u].answer = "yes"
                 PROVE  txs'[thread'[u].tx].changes => thread'[u].tx \in root'.content
      OBVIOUS
    <3>1. u # t /\ thread'[u] = thread[u] /\ thread[u].phase \in Serving
      BY <1>3 DEF Serving
    <3>2. thread[u].tx \in Tx
      BY <3>1, ServingTx DEF Rest
    <3> QED BY <1>2, <1>4, <3>1, <3>2 DEF Rest, Told
  <2> QED BY <2>1, <2>2 DEF Told
<1> QED BY <1>5, <1>6, <1>7, <1>8 DEF Rest

\* A transaction that reads the root was not published, marked or told of before.
LEMMA RestReadRoot ==
  ASSUME TypeParts, TypeParts', Rest, NEW t \in Threads, ReadRoot(t)
  PROVE  Rest'
<1> DEFINE x == thread[t].tx
<1>0. thread[t].phase = "holding" /\ thread[t].phase \in Serving /\ thread[t].phase \in Preparing
  BY DEF ReadRoot, Serving, Preparing
<1>1. x \in Tx /\ x \in 1..seq /\ \A u \in Threads : u # t => thread[u].tx # x
  BY <1>0, ServingTx DEF Rest, Owned
<1>2. UNCHANGED <<root, applied, markers, seq, net>>
  BY DEF ReadRoot, etcd
<1>3. thread'[t].phase = "working" /\ thread'[t].tx = x /\ \A u \in Threads \ {t} : thread'[u] = thread[u]
  BY DEF ReadRoot, TypeParts, ThreadType
<1>4. /\ \A y \in Tx \ {x} : txs'[y] = txs[y]
      /\ txs'[x].outcome = txs[x].outcome
      /\ txs'[x].content = root.content /\ txs'[x].revision = root.revision
  <2>1. PICK changes \in BOOLEAN, guard \in 0..owners :
          txs' = [txs EXCEPT ![x].content = root.content, ![x].revision = root.revision,
                             ![x].changes = changes, ![x].guard = guard,
                             ![x].previous = thread[t].previous_marker]
    BY DEF ReadRoot
  <2> DEFINE r == [txs[x] EXCEPT !.content = root.content, !.revision = root.revision,
                                 !.changes = changes, !.guard = guard,
                                 !.previous = thread[t].previous_marker]
  <2>2. txs' = [txs EXCEPT ![x] = r] /\ txs[x] \in TxType
    BY <1>1, <2>1 DEF TypeParts
  <2>3. r.outcome = txs[x].outcome /\ r.content = root.content /\ r.revision = root.revision
    BY <2>2 DEF TxType
  <2> HIDE DEF r
  <2> QED BY <1>1, <2>2, <2>3 DEF TypeParts
<1>5. applied[x] = 0 /\ txs[x].outcome = "none" /\ x \notin markers
      /\ \A m \in net : m.kind = "commit" => m.tx # x
  BY <1>0 DEF Rest, Unsent
<1>6. Owned'
  BY <1>0, <1>1, <1>2, <1>3 DEF Rest, Owned
<1>7. Unsent'
  <2>1. \A u \in Threads \ {t} : thread'[u].phase \in Preparing => thread'[u].tx \in Tx \ {x}
    BY <1>1, <1>3, ServingTx DEF Rest, Serving
  <2>2. \A u \in Threads : thread'[u].phase \in Preparing =>
          /\ \A n \in net' : n.kind = "commit" => n.tx # thread'[u].tx
          /\ applied'[thread'[u].tx] = 0 /\ txs'[thread'[u].tx].outcome = "none"
          /\ thread'[u].tx \notin markers'
    BY <1>2, <1>3, <1>4, <1>5, <2>1 DEF Rest, Unsent
  <2>3. \A y \in Tx : y > seq' =>
          /\ \A n \in net' : n.tx # y
          /\ applied'[y] = 0 /\ txs'[y].outcome = "none" /\ y \notin markers'
    BY <1>2, <1>4 DEF Rest, Unsent
  <2> QED BY <2>2, <2>3 DEF Unsent
<1>8. Reads'
  <2>1. root.revision \in Nat
    BY DEF TypeParts
  <2> QED BY <1>2, <1>4, <1>5, <2>1 DEF Rest, Reads
<1>9. Told'
  <2>1. \A y \in Tx : txs'[y].changes /\ (y \in markers' \/ txs'[y].outcome = "committed") => y \in root'.content
    BY <1>2, <1>4, <1>5 DEF Rest, Told
  <2>2. \A u \in Threads : thread'[u].phase = "committing" /\ thread'[u].answer = "yes" =>
          (txs'[thread'[u].tx].changes => thread'[u].tx \in root'.content)
    <3> SUFFICES ASSUME NEW u \in Threads, thread'[u].phase = "committing", thread'[u].answer = "yes"
                 PROVE  txs'[thread'[u].tx].changes => thread'[u].tx \in root'.content
      OBVIOUS
    <3>1. u # t /\ thread'[u] = thread[u] /\ thread[u].phase \in Serving
      BY <1>3 DEF Serving
    <3>2. thread[u].tx \in Tx \ {x}
      BY <1>1, <3>1, ServingTx DEF Rest
    <3> QED BY <1>2, <1>4, <3>1, <3>2 DEF Rest, Told
  <2> QED BY <2>1, <2>2 DEF Told
<1> QED BY <1>6, <1>7, <1>8, <1>9 DEF Rest

\* Steps of a thread keep the invariant.
LEMMA RestThread ==
  ASSUME TypeParts, TypeParts', Rest, NEW t \in Threads, ThreadStep(t)
  PROVE  Rest'
<1>1. CASE Begin(t) \/ KeepAliveFails(t) \/ GiveUp(t) \/ Acquired(t) \/ NotSucceeded(t)
  <2>1. UNCHANGED <<root, applied, seq, txs, markers, net>>
    BY <1>1 DEF Begin, KeepAliveFails, GiveUp, Acquired, NotSucceeded, etcd
  <2>2. \A u \in Threads \ {t} : thread'[u] = thread[u]
    BY <1>1 DEF Begin, KeepAliveFails, GiveUp, Acquired, NotSucceeded, TypeParts
  <2>3. /\ thread'[t].tx = thread[t].tx
        /\ \/ thread'[t].phase \in {"idle", "polling"}
           \/ thread[t].phase = "acquiring" /\ thread'[t].phase = "holding"
           \/ thread[t].phase = "committing" /\ thread'[t].phase = "checking"
    <3>1. CASE Begin(t)
      BY <3>1 DEF Begin, TypeParts, ThreadType
    <3>2. CASE KeepAliveFails(t) \/ GiveUp(t)
      BY <3>2 DEF KeepAliveFails, GiveUp, TypeParts, ThreadType
    <3>3. CASE Acquired(t) \/ NotSucceeded(t)
      BY <3>3 DEF Acquired, NotSucceeded, TypeParts, ThreadType
    <3> QED BY <1>1, <3>1, <3>2, <3>3
  <2>4. \A u \in Threads :
           /\ thread'[u].tx = thread[u].tx
           /\ thread'[u].phase \in Serving => thread[u].phase \in Serving
           /\ thread'[u].phase \in Preparing => thread[u].phase \in Preparing
           /\ thread'[u].phase = "committing" /\ thread'[u].answer = "yes" =>
                thread[u].phase = "committing" /\ thread[u].answer = "yes"
    BY <2>2, <2>3 DEF Serving, Preparing
  <2> QED BY <2>1, <2>4, Quiet
<1>2. CASE Repeat(t) \/ LostRace(t) \/ SendCommit(t)
  <2>1. UNCHANGED <<root, applied, seq, txs, markers>>
    BY <1>2 DEF Repeat, LostRace, SendCommit, etcd
  <2>2. \A u \in Threads \ {t} : thread'[u] = thread[u]
    BY <1>2 DEF Repeat, LostRace, SendCommit, TypeParts
  <2>3. /\ thread'[t].tx = thread[t].tx /\ thread'[t].answer = "none"
        /\ thread[t].phase \in Serving
        /\ thread'[t].phase \in {thread[t].phase, "committing"}
    <3>1. CASE Repeat(t)
      <4>1. thread' = [thread EXCEPT ![t].attempt = @ + 1, ![t].answer = "none"]
            /\ thread[t].phase \in {"acquiring", "committing"}
        BY <3>1 DEF Repeat
      <4> QED BY <4>1 DEF TypeParts, ThreadType, Serving, Preparing
    <3>2. CASE LostRace(t)
      <4>1. thread' = [thread EXCEPT ![t].attempt = @ + 1, ![t].answer = "none"]
            /\ thread[t].phase = "acquiring"
        BY <3>2 DEF LostRace
      <4> QED BY <4>1 DEF TypeParts, ThreadType, Serving, Preparing
    <3>3. CASE SendCommit(t)
      <4>1. thread' = [thread EXCEPT ![t].phase = "committing", ![t].attempt = 1, ![t].answer = "none"]
            /\ thread[t].phase = "working"
        BY <3>3 DEF SendCommit
      <4> QED BY <4>1 DEF TypeParts, ThreadType, Serving, Preparing
    <3> QED BY <1>2, <3>1, <3>2, <3>3
  <2>4. PICK sort, a : /\ net' = net \cup {[kind |-> sort, tx |-> thread[t].tx, attempt |-> a]}
                       /\ sort = "commit" => thread'[t].phase = "committing"
    <3>1. CASE Repeat(t) /\ thread[t].phase = "committing"
      BY <3>1, <2>3 DEF Repeat
    <3>2. CASE Repeat(t) /\ thread[t].phase # "committing"
      <4>1. net' = net \cup {[kind |-> "acquire", tx |-> thread[t].tx, attempt |-> thread[t].attempt + 1]}
        BY <3>2 DEF Repeat
      <4>2. "acquire" # "commit"
        OBVIOUS
      <4> QED BY <4>1, <4>2
    <3>3. CASE LostRace(t)
      <4>1. net' = net \cup {[kind |-> "acquire", tx |-> thread[t].tx, attempt |-> thread[t].attempt + 1]}
        BY <3>3 DEF LostRace
      <4>2. "acquire" # "commit"
        OBVIOUS
      <4> QED BY <4>1, <4>2
    <3>4. CASE SendCommit(t)
      BY <3>4 DEF SendCommit, TypeParts, ThreadType
    <3> QED BY <1>2, <3>1, <3>2, <3>3, <3>4
  <2>5. thread[t].tx \in 1..seq /\ \A u \in Threads : u # t => thread[u].tx # thread[t].tx
    BY <2>3 DEF Rest, Owned
  <2>6. \A m \in net' : m \in net \/
           (m.tx \in 1..seq /\ (m.kind = "commit" =>
              \A u \in Threads : thread'[u].phase \in Preparing => thread[u].tx # m.tx))
    BY <2>3, <2>4, <2>5 DEF Preparing
  <2>7. \A u \in Threads :
           /\ thread'[u].tx = thread[u].tx
           /\ thread'[u].phase \in Serving => thread[u].phase \in Serving
           /\ thread'[u].phase \in Preparing => thread[u].phase \in Preparing
           /\ thread'[u].phase = "committing" /\ thread'[u].answer = "yes" =>
                thread[u].phase = "committing" /\ thread[u].answer = "yes"
    BY <2>2, <2>3 DEF Serving, Preparing
  <2> QED BY <2>1, <2>6, <2>7, Quiet
<1>3. CASE Unavailable(t) \/ Refuse(t)
  <2>1. thread[t].phase \in Serving
    BY <1>3 DEF Unavailable, Refuse, Serving, Preparing
  <2>2. Unwind(t, "unavailable") \/ Unwind(t, "refused")
    BY <1>3 DEF Unavailable, Refuse
  <2> QED BY <2>1, <2>2, RestUnwind
<1>4. CASE Succeeded(t)
  <2>1. thread[t].phase \in Serving /\ Released(t)
    BY <1>4 DEF Succeeded, Serving
  <2>2. txs[thread[t].tx].changes => thread[t].tx \in root.content
    BY <1>4 DEF Succeeded, Rest, Told
  <2> QED BY <2>1, <2>2, RestReleased
<1>5. CASE CheckMarker(t)
  <2>1. thread[t].phase \in Serving
    BY <1>5 DEF CheckMarker, Serving
  <2>2. CASE thread[t].tx \in markers
    <3>1. Released(t)
      BY <1>5, <2>2 DEF CheckMarker
    <3>2. txs[thread[t].tx].changes => thread[t].tx \in root.content
      BY <2>1, <2>2, ServingTx DEF Rest, Told
    <3> QED BY <2>1, <3>1, <3>2, RestReleased
  <2>3. CASE thread[t].tx \notin markers
    <3>1. Unwind(t, "conflict")
      BY <1>5, <2>3 DEF CheckMarker
    <3> QED BY <2>1, <3>1, RestUnwind
  <2> QED BY <2>2, <2>3
<1> QED BY <1>1, <1>2, <1>3, <1>4, <1>5, RestAcquire, RestReadRoot DEF ThreadStep

-----------------------------------------------------------------------------
(* Theorems.                                                                *)

\* The invariant is inductive.
LEMMA Inductive == GateInv /\ [Next]_vars => GateInv'
<1> SUFFICES ASSUME TypeParts, Rest, [Next]_vars PROVE TypeParts' /\ Rest'
  BY TypeNamed DEF GateInv, Rest
<1>1. CASE UNCHANGED vars
  <2>1. TypeParts'
    BY <1>1 DEF vars, TypeParts
  <2> QED BY <1>1, <2>1, Quiet DEF vars
<1>2. CASE Tick \/ KeyExpires \/ KeyTaken
  BY <1>2, TypeEtcd, RestEtcd
<1>3. ASSUME NEW m \in net, ApplyAcquire(m) \/ ApplyCommit(m) \/ ApplyCleanup(m)
      PROVE  TypeParts' /\ Rest'
  <2>1. TypeParts'
    BY <1>3, TypeApply
  <2> QED BY <1>3, <2>1, RestRequests, RestPublish
<1>4. ASSUME NEW t \in Threads, ThreadStep(t) PROVE TypeParts' /\ Rest'
  BY <1>4, TypeThread, RestThread DEF Rest
<1> QED BY <1>1, <1>2, <1>3, <1>4 DEF Next, ThreadStep

\* Every state of the store has the invariant.
THEOREM GateInvariant == Spec => []GateInv
<1>1. Init => GateInv
  BY TypeInit, RestInit, TypeNamed DEF GateInv, Rest
<1> QED BY <1>1, Inductive, PTL DEF Spec

\* The types of the store, of its requests and of its threads.
THEOREM GateTypes == Spec => []TypeOK
<1>1. GateInv => TypeOK
  BY DEF GateInv
<1> QED BY <1>1, GateInvariant, PTL

\* Repeated and late commit requests publish a transaction at most once.
THEOREM PublishedAtMostOnce == Spec => []AtMostOnce
<1>1. GateInv => AtMostOnce
  BY TypeNamed DEF GateInv, Reads, AtMostOnce, TypeParts
<1> QED BY <1>1, GateInvariant, PTL

\* What a caller was told is committed is in the root, for ever.
THEOREM CommittedIsTrue == Spec => []CommittedIsPublished
<1>1. GateInv => CommittedIsPublished
  BY DEF GateInv, Told, CommittedIsPublished
<1> QED BY <1>1, GateInvariant, PTL

\* Only a commit request whose guards hold publishes anything.
LEMMA OnlyCommitsPublish ==
  ASSUME GateInv, [Next]_vars
  PROVE  \/ UNCHANGED <<root, applied>>
         \/ \E m \in net : ApplyCommit(m) /\ CommitGuards(m.tx)
<1>1. CASE UNCHANGED vars
  BY <1>1 DEF vars
<1>2. CASE Tick \/ KeyExpires \/ KeyTaken
  BY <1>2 DEF Tick, KeyExpires, KeyTaken
<1>3. ASSUME NEW m \in net, ApplyAcquire(m) \/ ApplyCommit(m) \/ ApplyCleanup(m)
      PROVE  UNCHANGED <<root, applied>> \/ (ApplyCommit(m) /\ CommitGuards(m.tx))
  BY <1>3 DEF ApplyAcquire, ApplyCommit, ApplyCleanup
<1>4. ASSUME NEW t \in Threads, ThreadStep(t) PROVE UNCHANGED <<root, applied>>
  <2>1. CASE Unavailable(t) \/ Refuse(t) \/ Succeeded(t) \/ CheckMarker(t)
    BY <2>1 DEF Unavailable, Refuse, Succeeded, CheckMarker, Released, Unwind, etcd
  <2>2. CASE Begin(t) \/ KeepAliveFails(t) \/ Acquire(t) \/ GiveUp(t) \/ Repeat(t) \/ LostRace(t)
    BY <2>2 DEF Begin, KeepAliveFails, Acquire, GiveUp, Repeat, LostRace, etcd
  <2>3. CASE Acquired(t) \/ ReadRoot(t) \/ SendCommit(t) \/ NotSucceeded(t)
    BY <2>3 DEF Acquired, ReadRoot, SendCommit, NotSucceeded, etcd
  <2> QED BY <1>4, <2>1, <2>2, <2>3 DEF ThreadStep
<1> QED BY <1>1, <1>2, <1>3, <1>4 DEF Next, ThreadStep

\* The gate, the revision comparison and the repeated requests together implement
\* the abstract store: publications take effect one by one and none is lost.
THEOREM ImplementsAtomicPublication == Spec => PublishesAtomically
<1>1. Init => Abstract!Init
  BY DEF Init, Abstract!Init
<1>2. ASSUME GateInv, [Next]_vars PROVE [Abstract!Next]_(root.content)
  <2>1. TypeParts /\ TypeParts' /\ Rest
    BY <1>2, Inductive, TypeNamed DEF GateInv, Rest
  <2>2. CASE UNCHANGED <<root, applied>>
    BY <2>2
  <2>3. ASSUME NEW m \in net, ApplyCommit(m), CommitGuards(m.tx)
        PROVE  [Abstract!Next]_(root.content)
    <3>1. m.tx \in Tx
      BY <2>1 DEF TypeParts, Messages
    <3>2. /\ root'.content \in {root.content, root.content \cup {m.tx}}
          /\ (m.tx \in root.content => root'.content = root.content)
      BY <2>1, <2>3, RestPublish
    <3> QED BY <3>1, <3>2 DEF Abstract!Next, Abstract!Publish
  <2> QED BY <1>2, <2>2, <2>3, OnlyCommitsPublish
<1> QED BY <1>1, <1>2, GateInvariant, PTL DEF Spec, PublishesAtomically, Abstract!Spec

-----------------------------------------------------------------------------
(* The truth of a conflict.                                                 *)

\* A thread at work on a transaction has its lease, and nobody has cleaned up after it.
Leased ==
  \A t \in Threads :
    /\ thread[t].phase = "polling" => thread[t].lease \in Leases
    /\ thread[t].phase \in Serving =>
         /\ thread[t].lease \in Leases /\ txs[thread[t].tx].lease = thread[t].lease
         /\ txs[thread[t].tx].outcome = "none"
         /\ \A m \in net : m.tx = thread[t].tx => m.kind # "cleanup"

\* The gate goes with its lease.
GateAlive == gate # 0 => gate <= seq /\ Alive(gate)

\* The marker a publication deletes is of a transaction that is over.
MarkersOver ==
  /\ \A x \in Tx : txs[x].previous # 0 => txs[txs[x].previous].outcome = "committed"
  /\ \A t \in Threads : thread[t].previous_marker # 0 => txs[thread[t].previous_marker].outcome = "committed"

\* Values of the ownership key are new.
GuardsDrawn == key <= owners /\ \A x \in Tx : txs[x].guard <= owners

\* What is in the root was published.
ContentApplied == \A x \in root.content : applied[x] > 0

\* Until its lease runs out or it is published, a transaction that got the gate has it, and the
\* root stays the one it read; so what it is refused for is the ownership key.
Entered(w) ==
  w.phase \in {"holding", "working", "committing", "checking"} \/ (w.phase = "acquiring" /\ w.answer = "yes")
Rejected(w) == (w.phase = "committing" /\ w.answer = "no") \/ w.phase = "checking"
AfterReading == {"working", "committing", "checking"}
Stale(x) == txs[x].guard # 0 /\ txs[x].guard # key
Secure(t) ==
  Entered(thread[t]) /\ Alive(thread[t].tx) /\ thread[t].tx \notin markers =>
    /\ gate = thread[t].tx /\ applied[thread[t].tx] = 0
    /\ thread[t].phase \in AfterReading => txs[thread[t].tx].revision = root.revision
    /\ Rejected(thread[t]) => Stale(thread[t].tx)
HoldsGate == \A t \in Threads : Secure(t)

\* A transaction told of a conflict cannot be published any more.
ConflictFinal ==
  \A x \in Tx : txs[x].outcome = "conflict" => Stale(x) \/ ~Alive(x) \/ \A m \in net : m.tx # x

Fate == Leased /\ GateAlive /\ MarkersOver /\ GuardsDrawn /\ ContentApplied /\ HoldsGate /\ ConflictFinal

\* A thread that got the gate works on a transaction.
LEMMA EnteredServing == \A w : Entered(w) => w.phase \in Serving
BY DEF Entered, Serving, Preparing

\* The empty store.
LEMMA FateInit == Init => Fate
<1> SUFFICES ASSUME Init PROVE Fate
  OBVIOUS
<1>1. Leased /\ GateAlive /\ HoldsGate
  BY DEF Init, Leased, GateAlive, HoldsGate, Secure, Entered, Serving, Preparing
<1>2. MarkersOver /\ GuardsDrawn /\ ContentApplied /\ ConflictFinal
  BY GateAssumption DEF Init, NoTx, MarkersOver, GuardsDrawn, ContentApplied, ConflictFinal
<1> QED BY <1>1, <1>2 DEF Fate

\* The marker before a transaction's or a thread's own is of a transaction.
LEMMA PreviousTx ==
  ASSUME TypeParts
  PROVE  /\ \A x \in Tx : txs[x].previous # 0 => txs[x].previous \in Tx
         /\ \A t \in Threads : thread[t].previous_marker # 0 => thread[t].previous_marker \in Tx
<1>1. ASSUME NEW n \in 0..MaxTx, n # 0 PROVE n \in Tx
  BY <1>1, GateAssumption DEF Tx
<1>2. ASSUME NEW x \in Tx PROVE txs[x].previous \in 0..MaxTx
  BY DEF TypeParts, TxType
<1>3. ASSUME NEW t \in Threads PROVE thread[t].previous_marker \in 0..MaxTx
  BY DEF TypeParts, ThreadType
<1> QED BY <1>1, <1>2, <1>3

\* Steps of threads, and answers, that change nothing else: no thread enters or is rejected by
\* them, and what they send is of a transaction at work.
LEMMA FateQuiet ==
  ASSUME TypeParts, Rest, Fate, UNCHANGED <<etcd, txs, seq>>,
         \A m \in net' : m \in net \/
           (m.kind # "cleanup" /\ \E t \in Threads : thread[t].phase \in Serving /\ m.tx = thread[t].tx),
         \A t \in Threads :
           /\ thread'[t].tx = thread[t].tx /\ thread'[t].previous_marker = thread[t].previous_marker
           /\ thread'[t].phase = "polling" => thread[t].phase = "polling" /\ thread'[t].lease = thread[t].lease
           /\ thread'[t].phase \in Serving => thread[t].phase \in Serving /\ thread'[t].lease = thread[t].lease
           /\ Entered(thread'[t]) => Entered(thread[t])
           /\ thread'[t].phase \in AfterReading => thread[t].phase \in AfterReading
           /\ Rejected(thread'[t]) => Rejected(thread[t])
  PROVE  Fate'
<1>1. \A x : Alive(x)' = Alive(x)
  BY DEF Alive, etcd
<1>2. \A x : Stale(x)' = Stale(x)
  BY DEF Stale, etcd
<1>3. Leased'
  BY DEF Fate, Leased
<1>4. GateAlive' /\ MarkersOver' /\ GuardsDrawn' /\ ContentApplied'
  BY <1>1 DEF Fate, GateAlive, MarkersOver, GuardsDrawn, ContentApplied, etcd
<1>5. HoldsGate'
  BY <1>1, <1>2 DEF Fate, HoldsGate, Secure, etcd
<1>6. ConflictFinal'
  <2>1. \A t \in Threads : thread[t].phase \in Serving => txs[thread[t].tx].outcome = "none"
    BY DEF Fate, Leased
  <2> QED BY <1>1, <1>2, <2>1 DEF Fate, ConflictFinal
<1> QED BY <1>3, <1>4, <1>5, <1>6 DEF Fate

\* A lease runs out: what lives after it lived before.
LEMMA FateTick == ASSUME TypeParts, Rest, Fate, Tick PROVE Fate'
<1> DEFINE left == [l \in Leases |-> IF lease[l] > 0 THEN lease[l] - 1 ELSE 0]
           gone == {x \in Tx : txs[x].lease # NoLease /\ left[txs[x].lease] = 0}
<1>1. /\ lease' = left /\ gate' = (IF gate \in gone THEN 0 ELSE gate) /\ markers' = markers \ gone
      /\ UNCHANGED <<root, key, owners, net, thread, txs, applied, seq>>
  BY DEF Tick
<1>2. ASSUME NEW x \in Tx, Alive(x)' PROVE Alive(x) /\ x \notin gone
  <2>1. txs[x].lease # NoLease /\ lease'[txs[x].lease] > 0 /\ txs[x].lease \in Leases
    BY <1>1, <1>2 DEF Alive, TypeParts, TxType
  <2>2. lease[txs[x].lease] \in Nat
    BY <2>1, GateAssumption DEF TypeParts
  <2> QED BY <1>1, <2>1, <2>2 DEF Alive
<1>3. ASSUME NEW x \in Tx, Alive(x), x \notin gone PROVE Alive(x)'
  <2>1. txs[x].lease # NoLease /\ txs[x].lease \in Leases /\ left[txs[x].lease] # 0
    BY <1>3 DEF Alive, TypeParts, TxType
  <2>2. lease[txs[x].lease] \in Nat
    BY <2>1, GateAssumption DEF TypeParts
  <2>3. left[txs[x].lease] > 0
    BY <2>1, <2>2
  <2> QED BY <1>1, <2>1, <2>3 DEF Alive
<1> HIDE DEF left, gone
<1>4. Leased' /\ MarkersOver' /\ GuardsDrawn' /\ ContentApplied'
  BY <1>1 DEF Fate, Leased, MarkersOver, GuardsDrawn, ContentApplied
<1>5. GateAlive'
  <2>1. gate # 0 => gate \in Tx
    BY GateAssumption DEF TypeParts, Tx
  <2> QED BY <1>1, <1>3, <2>1 DEF Fate, GateAlive
<1>6. HoldsGate'
  <2> SUFFICES ASSUME NEW t \in Threads, NEW x, x = thread[t].tx,
                      Entered(thread[t]), Alive(x)', x \notin markers'
               PROVE  /\ gate' = x /\ applied[x] = 0
                      /\ thread[t].phase \in AfterReading => txs[x].revision = root.revision
                      /\ Rejected(thread[t]) => Stale(x)
    BY <1>1 DEF HoldsGate, Secure, Stale, Alive
  <2>1. x \in Tx
    BY EnteredServing, ServingTx DEF Rest
  <2>2. Alive(x) /\ x \notin gone
    BY <1>2, <2>1
  <2>3. x \notin markers
    BY <1>1, <2>2
  <2> QED BY <1>1, <2>2, <2>3 DEF Fate, HoldsGate, Secure
<1>7. ConflictFinal'
  BY <1>1, <1>2 DEF Fate, ConflictFinal, Stale
<1> QED BY <1>4, <1>5, <1>6, <1>7 DEF Fate

\* The ownership key expires or is taken with a new value: what was stale stays so.
LEMMA FateKey == ASSUME TypeParts, Rest, Fate, KeyExpires \/ KeyTaken PROVE Fate'
<1>1. UNCHANGED <<gate, root, markers, lease, net, thread, txs, applied, seq>>
  BY DEF KeyExpires, KeyTaken
<1>2. /\ key' = 0 \/ key' = owners + 1
      /\ owners' = owners \/ owners' = owners + 1
      /\ key' <= owners' /\ owners <= owners' /\ owners \in Nat
  BY GateAssumption DEF KeyExpires, KeyTaken, TypeParts
<1>3. \A x : Alive(x)' = Alive(x)
  BY <1>1 DEF Alive
<1>4. \A x \in Tx : txs[x].guard \in Nat /\ txs[x].guard <= owners
  BY GateAssumption DEF Fate, GuardsDrawn, TypeParts, TxType
<1>5. \A x \in Tx : Stale(x) => Stale(x)'
  BY <1>1, <1>2, <1>4 DEF Stale
<1>6. Leased' /\ GateAlive' /\ MarkersOver' /\ ContentApplied'
  BY <1>1, <1>3 DEF Fate, Leased, GateAlive, MarkersOver, ContentApplied
<1>7. GuardsDrawn'
  BY <1>1, <1>2, <1>4 DEF GuardsDrawn
<1>8. HoldsGate'
  <2>1. \A t \in Threads : Entered(thread[t]) => thread[t].tx \in Tx
    BY EnteredServing, ServingTx DEF Rest
  <2> QED BY <1>1, <1>3, <1>5, <2>1 DEF Fate, HoldsGate, Secure
<1>9. ConflictFinal'
  BY <1>1, <1>3, <1>5 DEF Fate, ConflictFinal
<1> QED BY <1>6, <1>7, <1>8, <1>9 DEF Fate

\* An answer changes no other field.
LEMMA AnswerOnly ==
  ASSUME TypeParts, NEW m, NEW answer, NEW t \in Threads
  PROVE  /\ Answered(m, answer)[t].lease = thread[t].lease
         /\ Answered(m, answer)[t].previous_marker = thread[t].previous_marker
BY DEF Answered, TypeParts, ThreadType

\* The gate is taken, or not: whoever had entered before has lost its lease or is published.
LEMMA FateAcquired == ASSUME TypeParts, Rest, Fate, NEW m \in net, ApplyAcquire(m) PROVE Fate'
<1>0. /\ m.kind = "acquire" /\ net' \subseteq net /\ m.tx \in Tx /\ m.tx <= seq
      /\ UNCHANGED <<root, key, owners, markers, lease, txs, applied, seq>>
  <2>1. m.tx \in Tx
    BY DEF TypeParts, Messages
  <2> QED BY <2>1, GateAssumption DEF ApplyAcquire, Rest, Unsent, TypeParts, Tx
<1>1. CASE gate = 0 /\ Alive(m.tx) /\ gate' = m.tx /\ thread' = Answered(m, "yes")
  <2>1. \A x : Alive(x)' = Alive(x) /\ Stale(x)' = Stale(x)
    BY <1>0 DEF Alive, Stale
  <2>2. \A t \in Threads :
          /\ thread'[t].tx = thread[t].tx /\ thread'[t].phase = thread[t].phase
          /\ thread'[t].lease = thread[t].lease /\ thread'[t].previous_marker = thread[t].previous_marker
          /\ thread'[t].answer # thread[t].answer => thread[t].tx = m.tx /\ thread[t].phase = "acquiring"
    BY <1>0, <1>1, AnswerKeeps, AnswerOnly
  <2>3. Leased' /\ MarkersOver' /\ GuardsDrawn' /\ ContentApplied'
    BY <1>0, <2>2 DEF Fate, Leased, MarkersOver, GuardsDrawn, ContentApplied
  <2>4. GateAlive'
    BY <1>0, <1>1, <2>1 DEF GateAlive
  <2>5. HoldsGate'
    <3> SUFFICES ASSUME NEW t \in Threads, Entered(thread'[t]), Alive(thread[t].tx), thread[t].tx \notin markers
                 PROVE  /\ gate' = thread[t].tx /\ applied[thread[t].tx] = 0
                        /\ thread[t].phase \notin AfterReading /\ ~Rejected(thread'[t])
      BY <1>0, <2>1, <2>2 DEF HoldsGate, Secure
    <3>1. thread[t].tx \in Tx /\ thread[t].tx # 0
      <4>1. thread[t].phase \in Serving
        BY <2>2, EnteredServing
      <4>2. thread[t].tx \in Tx
        BY <4>1, ServingTx DEF Rest
      <4> QED BY <4>2 DEF Tx
    <3>2. ~Entered(thread[t])
      BY <1>1, <3>1 DEF Fate, HoldsGate, Secure
    <3>3. thread[t].tx = m.tx /\ thread[t].phase = "acquiring"
      BY <2>2, <3>2 DEF Entered
    <3> QED BY <1>1, <2>2, <3>3 DEF Rest, Unsent, Preparing, AfterReading, Rejected
  <2>6. ConflictFinal'
    BY <1>0, <2>1 DEF Fate, ConflictFinal
  <2> QED BY <2>3, <2>4, <2>5, <2>6 DEF Fate
<1>2. CASE UNCHANGED gate /\ thread' \in {thread, Answered(m, "no")}
  <2>1. \A t \in Threads :
          /\ thread'[t].tx = thread[t].tx /\ thread'[t].phase = thread[t].phase
          /\ thread'[t].lease = thread[t].lease /\ thread'[t].previous_marker = thread[t].previous_marker
          /\ thread'[t].answer # thread[t].answer => thread'[t].answer = "no" /\ thread[t].phase = "acquiring"
    BY <1>0, <1>2, AnswerKeeps, AnswerOnly
  <2>2. \A t \in Threads : /\ Entered(thread'[t]) => Entered(thread[t])
                           /\ Rejected(thread'[t]) => Rejected(thread[t])
    BY <2>1 DEF Entered, Rejected
  <2>3. UNCHANGED <<etcd, txs, seq>>
    BY <1>0, <1>2 DEF etcd
  <2> QED BY <1>0, <2>1, <2>2, <2>3, FateQuiet
<1> QED BY <1>1, <1>2 DEF ApplyAcquire

\* A commit request is refused, with the gate held and the root unchanged only for the key; or
\* it is applied, and its marker and the gate tell everybody else.
LEMMA FateCommit == ASSUME TypeParts, Rest, Fate, NEW m \in net, ApplyCommit(m) PROVE Fate'
<1> DEFINE x == m.tx
<1>0. m.kind = "commit" /\ net' \subseteq net /\ x \in Tx /\ UNCHANGED <<key, owners, lease, txs, seq>>
  BY DEF ApplyCommit, TypeParts, Messages
<1>1. \A y : Alive(y)' = Alive(y) /\ Stale(y)' = Stale(y)
  BY <1>0 DEF Alive, Stale
<1>2. PICK answer : thread' = Answered(m, answer)
  BY DEF ApplyCommit
<1>3. \A t \in Threads :
        /\ thread'[t].tx = thread[t].tx /\ thread'[t].phase = thread[t].phase
        /\ thread'[t].lease = thread[t].lease /\ thread'[t].previous_marker = thread[t].previous_marker
        /\ thread'[t].answer # thread[t].answer => thread[t].tx = x /\ thread[t].phase = "committing"
  BY <1>0, <1>2, AnswerKeeps, AnswerOnly
<1>4. \A t \in Threads : Entered(thread'[t]) => Entered(thread[t])
  BY <1>3 DEF Entered
<1>5. Leased' /\ MarkersOver' /\ GuardsDrawn'
  BY <1>0, <1>3 DEF Fate, Leased, MarkersOver, GuardsDrawn
<1>6. ConflictFinal'
  BY <1>0, <1>1 DEF Fate, ConflictFinal
<1>7. CASE ~CommitGuards(x)
  <2>1. UNCHANGED <<root, markers, gate, applied>>
    BY <1>7 DEF ApplyCommit
  <2>2. GateAlive' /\ ContentApplied'
    BY <1>0, <1>1, <2>1 DEF Fate, GateAlive, ContentApplied
  <2>3. HoldsGate'
    <3> SUFFICES ASSUME NEW t \in Threads, Entered(thread'[t]), Alive(thread[t].tx), thread[t].tx \notin markers
                 PROVE  /\ gate = thread[t].tx /\ applied[thread[t].tx] = 0
                        /\ thread[t].phase \in AfterReading => txs[thread[t].tx].revision = root.revision
                        /\ Rejected(thread'[t]) => Stale(thread[t].tx)
      BY <1>0, <1>1, <1>3, <2>1 DEF HoldsGate, Secure
    <3>1. /\ gate = thread[t].tx /\ applied[thread[t].tx] = 0
          /\ thread[t].phase \in AfterReading => txs[thread[t].tx].revision = root.revision
          /\ Rejected(thread[t]) => Stale(thread[t].tx)
      BY <1>4 DEF Fate, HoldsGate, Secure
    <3>2. CASE thread'[t].answer = thread[t].answer
      BY <1>3, <3>1, <3>2 DEF Rejected
    <3>3. CASE thread'[t].answer # thread[t].answer
      BY <1>3, <1>7, <3>1, <3>3 DEF CommitGuards, AfterReading, Stale
    <3> QED BY <3>1, <3>2, <3>3
  <2> QED BY <1>5, <1>6, <2>2, <2>3 DEF Fate
<1>8. CASE CommitGuards(x)
  <2>1. /\ root' = IF txs[x].changes
                   THEN [content |-> txs[x].content \cup {x}, revision |-> root.revision + 1] ELSE root
        /\ markers' = (markers \cup {x}) \ {txs[x].previous} /\ gate' = 0
        /\ applied' = [applied EXCEPT ![x] = IF txs[x].changes THEN applied[x] + 1 ELSE applied[x]]
    BY <1>8 DEF ApplyCommit
  <2>2. gate = x /\ txs[x].content = root.content
    BY <1>0, <1>8 DEF CommitGuards, Rest, Reads
  <2>3. GateAlive'
    BY <2>1 DEF GateAlive
  <2>4. ContentApplied'
    <3>1. \A y \in Tx : applied[y] \in Nat /\ (applied[y] > 0 => applied'[y] > 0)
      BY <1>0, <2>1 DEF TypeParts
    <3>2. txs[x].changes => applied'[x] > 0
      BY <1>0, <2>1, <3>1 DEF TypeParts
    <3>3. root'.content \subseteq (IF txs[x].changes THEN root.content \cup {x} ELSE root.content)
      BY <2>1, <2>2
    <3>4. root.content \subseteq Tx
      BY DEF TypeParts
    <3> QED BY <3>1, <3>2, <3>3, <3>4 DEF Fate, ContentApplied
  <2>5. HoldsGate'
    <3> SUFFICES ASSUME NEW t \in Threads, Entered(thread'[t]), Alive(thread[t].tx), thread[t].tx \notin markers'
                 PROVE  FALSE
      BY <1>1, <1>3 DEF HoldsGate, Secure
    <3>1. Entered(thread[t]) /\ thread[t].phase \in Serving
      BY <1>4, EnteredServing
    <3>2. txs[thread[t].tx].outcome = "none" /\ thread[t].tx # 0
      <4>1. thread[t].tx \in Tx
        BY <3>1, ServingTx DEF Rest
      <4> QED BY <3>1, <4>1 DEF Fate, Leased, Tx
    <3>3. thread[t].tx # txs[x].previous
      BY <1>0, <3>2 DEF Fate, MarkersOver
    <3>4. thread[t].tx # x /\ thread[t].tx \notin markers
      BY <2>1, <3>3
    <3> QED BY <2>2, <3>1, <3>4 DEF Fate, HoldsGate, Secure
  <2> QED BY <1>5, <1>6, <2>3, <2>4, <2>5 DEF Fate
<1> QED BY <1>7, <1>8

\* A cleanup is of a transaction nobody works on.
LEMMA FateCleanup == ASSUME TypeParts, Rest, Fate, NEW m \in net, ApplyCleanup(m) PROVE Fate'
<1>1. /\ m.kind = "cleanup" /\ net' \subseteq net /\ gate' = (IF gate = m.tx THEN 0 ELSE gate)
      /\ UNCHANGED <<root, key, owners, markers, lease, thread, txs, applied, seq>>
  BY DEF ApplyCleanup
<1>2. \A x : Alive(x)' = Alive(x) /\ Stale(x)' = Stale(x)
  BY <1>1 DEF Alive, Stale
<1>3. Leased' /\ MarkersOver' /\ GuardsDrawn' /\ ContentApplied'
  BY <1>1 DEF Fate, Leased, MarkersOver, GuardsDrawn, ContentApplied
<1>4. GateAlive'
  BY <1>1, <1>2 DEF Fate, GateAlive
<1>5. HoldsGate'
  <2>1. \A t \in Threads : Entered(thread[t]) => thread[t].tx # m.tx
    BY <1>1, EnteredServing DEF Fate, Leased
  <2> QED BY <1>1, <1>2, <2>1 DEF Fate, HoldsGate, Secure
<1>6. ConflictFinal'
  BY <1>1, <1>2 DEF Fate, ConflictFinal
<1> QED BY <1>3, <1>4, <1>5, <1>6 DEF Fate

\* A lease is kept alive, or granted under an identifier that nothing refers to.
LEMMA FateBegin == ASSUME TypeParts, Rest, Fate, NEW t \in Threads, Begin(t) PROVE Fate'
<1>1. PICK l \in Leases :
        /\ IF thread[t].lease # NoLease /\ lease[thread[t].lease] > 0
           THEN l = thread[t].lease ELSE l \in Unused
        /\ lease' = [lease EXCEPT ![l] = LeaseTTL]
        /\ thread' = [thread EXCEPT ![t].lease = l, ![t].phase = "polling"]
  BY DEF Begin
<1>2. UNCHANGED <<gate, root, key, owners, markers, net, txs, applied, seq>> /\ thread[t].phase = "idle"
  BY DEF Begin
<1>3. /\ \A u \in Threads \ {t} : thread'[u] = thread[u]
      /\ thread'[t].lease = l /\ thread'[t].phase = "polling"
      /\ thread'[t].previous_marker = thread[t].previous_marker
  BY <1>1 DEF TypeParts, ThreadType
<1>4. lease[l] > 0 \/ l \in Unused
  BY <1>1
<1>5. \A x : Alive(x) => Alive(x)'
  BY <1>1, <1>2, GateAssumption DEF Alive, TypeParts
<1>6. ASSUME NEW x \in Tx, Alive(x)', ~Alive(x) PROVE txs[x].lease = l /\ l \in Unused
  <2>1. txs[x].lease \in Leases /\ lease'[txs[x].lease] > 0
    BY <1>2, <1>6 DEF Alive, TypeParts, TxType
  <2>2. txs[x].lease = l
    BY <1>1, <1>2, <1>6, <2>1 DEF Alive, TypeParts
  <2>3. l # NoLease
    BY GateAssumption
  <2> QED BY <1>4, <1>6, <2>2, <2>3 DEF Alive
<1>7. \A x : Stale(x)' = Stale(x)
  BY <1>2 DEF Stale
<1>8. Leased'
  BY <1>2, <1>3 DEF Fate, Leased, Serving, Preparing
<1>9. GateAlive' /\ MarkersOver' /\ GuardsDrawn' /\ ContentApplied'
  BY <1>2, <1>3, <1>5 DEF Fate, GateAlive, MarkersOver, GuardsDrawn, ContentApplied
<1>10. HoldsGate'
  <2> SUFFICES ASSUME NEW u \in Threads, Entered(thread'[u]), Alive(thread[u].tx)'
               PROVE  thread'[u] = thread[u] /\ Alive(thread[u].tx)
    BY <1>2, <1>7 DEF Fate, HoldsGate, Secure
  <2>1. u # t
    BY <1>3 DEF Entered
  <2>2. thread'[u] = thread[u] /\ thread[u].phase \in Serving
    BY <1>3, <2>1, EnteredServing
  <2>3. thread[u].tx \in Tx /\ txs[thread[u].tx].lease = thread[u].lease
    BY <2>2, ServingTx DEF Rest, Fate, Leased
  <2>4. l \in Unused => thread[u].lease # l
    BY DEF Unused
  <2> QED BY <1>6, <2>2, <2>3, <2>4
<1>11. ConflictFinal'
  <2> SUFFICES ASSUME NEW x \in Tx, txs[x].outcome = "conflict", Alive(x)', ~Alive(x)
               PROVE  \A m \in net : m.tx # x
    BY <1>2, <1>7 DEF Fate, ConflictFinal
  <2>1. txs[x].lease = l /\ l \in Unused
    BY <1>6
  <2> QED BY <2>1 DEF Unused
<1> QED BY <1>8, <1>9, <1>10, <1>11 DEF Fate

\* A new transaction has only its lease.
LEMMA FateAsks == ASSUME TypeParts, Rest, Fate, NEW t \in Threads, Acquire(t) PROVE Fate'
<1> DEFINE x == seq + 1
<1>1. seq \in Nat /\ x \in Tx /\ x > seq /\ x # 0 /\ gate = 0
  BY GateAssumption DEF Acquire, TypeParts, Tx
<1>2. /\ UNCHANGED <<gate, root, key, owners, markers, lease, applied>> /\ seq' = x
      /\ net' = net \cup {[kind |-> "acquire", tx |-> x, attempt |-> 1]}
      /\ txs' = [txs EXCEPT ![x].lease = thread[t].lease] /\ thread[t].phase = "polling"
  BY DEF Acquire, etcd
<1>3. /\ thread'[t].phase = "acquiring" /\ thread'[t].tx = x /\ thread'[t].answer = "none"
      /\ thread'[t].lease = thread[t].lease /\ thread'[t].previous_marker = thread[t].previous_marker
      /\ \A u \in Threads \ {t} : thread'[u] = thread[u]
  BY DEF Acquire, TypeParts, ThreadType
<1>4. /\ \A y \in Tx : /\ txs'[y].outcome = txs[y].outcome /\ txs'[y].previous = txs[y].previous
                       /\ txs'[y].guard = txs[y].guard
      /\ \A y \in Tx \ {x} : txs'[y] = txs[y]
      /\ txs'[x].lease = thread[t].lease
  BY <1>1, <1>2 DEF TypeParts, TxType
<1>5. /\ txs[x].outcome = "none" /\ \A m \in net : m.tx # x
  BY <1>1 DEF Rest, Unsent
<1>6. \A u \in Threads \ {t} : thread[u].phase \in Serving => thread[u].tx \in Tx \ {x}
  <2> SUFFICES ASSUME NEW u \in Threads \ {t}, thread[u].phase \in Serving PROVE thread[u].tx \in Tx \ {x}
    OBVIOUS
  <2>1. thread[u].tx \in Tx /\ thread[u].tx \in 1..seq
    BY ServingTx DEF Rest
  <2> QED BY <1>1, <2>1
<1> HIDE DEF x
<1>7. Leased'
  <2> SUFFICES ASSUME NEW u \in Threads
               PROVE  /\ thread'[u].phase = "polling" => thread'[u].lease \in Leases
                      /\ thread'[u].phase \in Serving =>
                           /\ thread'[u].lease \in Leases /\ txs'[thread'[u].tx].lease = thread'[u].lease
                           /\ txs'[thread'[u].tx].outcome = "none"
                           /\ \A m \in net' : m.tx = thread'[u].tx => m.kind # "cleanup"
    BY DEF Leased
  <2>1. CASE u = t
    BY <1>1, <1>2, <1>3, <1>4, <1>5, <2>1 DEF Fate, Leased
  <2>2. CASE u # t
    BY <1>2, <1>3, <1>4, <1>6, <2>2 DEF Fate, Leased
  <2> QED BY <2>1, <2>2
<1>8. GateAlive' /\ ContentApplied'
  BY <1>1, <1>2 DEF Fate, GateAlive, ContentApplied
<1>9. MarkersOver' /\ GuardsDrawn'
  <2>1. /\ \A y \in Tx : txs[y].previous # 0 => txs[y].previous \in Tx
        /\ \A u \in Threads : thread[u].previous_marker # 0 => thread[u].previous_marker \in Tx
    BY PreviousTx
  <2>2. \A u \in Threads : thread'[u].previous_marker = thread[u].previous_marker
    BY <1>3
  <2> QED BY <1>2, <1>4, <2>1, <2>2 DEF Fate, MarkersOver, GuardsDrawn
<1>10. HoldsGate'
  <2> SUFFICES ASSUME NEW u \in Threads, Entered(thread'[u]) PROVE Secure(u)'
    BY DEF HoldsGate, Secure
  <2>1. u # t
    BY <1>3 DEF Entered
  <2>2. thread'[u] = thread[u] /\ thread[u].tx \in Tx \ {x}
    BY <1>3, <1>6, <2>1, EnteredServing
  <2>3. txs'[thread[u].tx] = txs[thread[u].tx]
    BY <1>4, <2>2
  <2>4. Secure(u)
    BY DEF Fate, HoldsGate
  <2> QED BY <1>2, <2>2, <2>3, <2>4 DEF Secure, Alive, Stale
<1>11. ConflictFinal'
  <2> SUFFICES ASSUME NEW y \in Tx, txs'[y].outcome = "conflict"
               PROVE  Stale(y)' \/ ~Alive(y)' \/ \A m \in net' : m.tx # y
    BY DEF ConflictFinal
  <2>1. y # x /\ txs'[y] = txs[y]
    BY <1>4, <1>5
  <2>2. Stale(y) \/ ~Alive(y) \/ \A m \in net : m.tx # y
    BY <2>1 DEF Fate, ConflictFinal
  <2> QED BY <1>2, <2>1, <2>2 DEF Stale, Alive
<1> QED BY <1>7, <1>8, <1>9, <1>10, <1>11 DEF Fate

\* The root is read while the gate is held.
LEMMA FateReads == ASSUME TypeParts, Rest, Fate, NEW t \in Threads, ReadRoot(t) PROVE Fate'
<1> DEFINE x == thread[t].tx
<1>0. thread[t].phase = "holding" /\ thread[t].phase \in Serving
  BY DEF ReadRoot, Serving, Preparing
<1>1. x \in Tx /\ txs[x].outcome = "none" /\ \A u \in Threads : u # t => thread[u].tx # x
  BY <1>0, ServingTx DEF Rest, Owned, Fate, Leased
<1>2. UNCHANGED <<gate, root, key, owners, markers, lease, applied, net, seq>>
  BY DEF ReadRoot, etcd
<1>3. /\ thread'[t].phase = "working" /\ thread'[t].tx = x /\ thread'[t].lease = thread[t].lease
      /\ thread'[t].previous_marker = thread[t].previous_marker
      /\ \A u \in Threads \ {t} : thread'[u] = thread[u]
  BY DEF ReadRoot, TypeParts, ThreadType
<1>4. /\ \A y \in Tx \ {x} : txs'[y] = txs[y]
      /\ txs'[x].outcome = txs[x].outcome /\ txs'[x].lease = txs[x].lease
      /\ txs'[x].revision = root.revision /\ txs'[x].guard \in 0..owners
      /\ txs'[x].previous = thread[t].previous_marker
  <2>1. PICK changes \in BOOLEAN, guard \in 0..owners :
          txs' = [txs EXCEPT ![x].content = root.content, ![x].revision = root.revision,
                             ![x].changes = changes, ![x].guard = guard,
                             ![x].previous = thread[t].previous_marker]
    BY DEF ReadRoot
  <2> DEFINE r == [txs[x] EXCEPT !.content = root.content, !.revision = root.revision,
                                 !.changes = changes, !.guard = guard,
                                 !.previous = thread[t].previous_marker]
  <2>2. txs' = [txs EXCEPT ![x] = r] /\ txs[x] \in TxType
    BY <1>1, <2>1 DEF TypeParts
  <2>3. /\ r.outcome = txs[x].outcome /\ r.lease = txs[x].lease /\ r.revision = root.revision /\ r.guard = guard
        /\ r.previous = thread[t].previous_marker
    BY <2>2 DEF TxType
  <2> HIDE DEF r
  <2> QED BY <1>1, <2>2, <2>3 DEF TypeParts
<1>5. \A y \in Tx : txs'[y].outcome = txs[y].outcome /\ txs'[y].lease = txs[y].lease
  BY <1>4
<1>6. \A y \in Tx : Alive(y)' = Alive(y)
  BY <1>2, <1>5 DEF Alive
<1>7. \A u \in Threads : thread[u].phase \in Serving => thread[u].tx \in Tx
  BY ServingTx DEF Rest
<1> HIDE DEF x
<1>8. Leased'
  <2>1. \A u \in Threads : /\ thread'[u].tx = thread[u].tx /\ thread'[u].lease = thread[u].lease
                           /\ thread'[u].phase \in Serving => thread[u].phase \in Serving
                           /\ thread'[u].phase = "polling" => thread[u].phase = "polling"
    BY <1>0, <1>3 DEF x
  <2> QED BY <1>2, <1>5, <1>7, <2>1 DEF Fate, Leased
<1>9. GateAlive' /\ ContentApplied'
  <2>1. gate # 0 => gate \in Tx
    BY GateAssumption DEF TypeParts, Tx
  <2> QED BY <1>2, <1>6, <2>1 DEF Fate, GateAlive, ContentApplied
<1>10. MarkersOver' /\ GuardsDrawn'
  <2>1. /\ \A y \in Tx : txs[y].previous # 0 => txs[y].previous \in Tx
        /\ \A u \in Threads : thread[u].previous_marker # 0 => thread[u].previous_marker \in Tx
    BY PreviousTx
  <2>2. \A u \in Threads : thread'[u].previous_marker = thread[u].previous_marker
    BY <1>3
  <2>3. MarkersOver'
    BY <1>4, <1>5, <2>1, <2>2 DEF Fate, MarkersOver
  <2>4. GuardsDrawn'
    BY <1>2, <1>4 DEF Fate, GuardsDrawn
  <2> QED BY <2>3, <2>4
<1>11. HoldsGate'
  <2> SUFFICES ASSUME NEW u \in Threads, Entered(thread'[u]) PROVE Secure(u)'
    BY DEF HoldsGate, Secure
  <2>0. Secure(u)
    BY DEF Fate, HoldsGate
  <2>1. CASE u = t
    <3>1. Entered(thread[t]) /\ ~Rejected(thread'[t])
      BY <1>0, <1>3 DEF Entered, Rejected
    <3> QED BY <1>1, <1>2, <1>3, <1>4, <1>6, <2>0, <2>1, <3>1 DEF Secure, x
  <2>2. CASE u # t
    <3>1. thread'[u] = thread[u] /\ thread[u].tx \in Tx \ {x}
      BY <1>1, <1>3, <1>7, <2>2, EnteredServing
    <3>2. txs'[thread[u].tx] = txs[thread[u].tx]
      BY <1>4, <3>1
    <3> QED BY <1>2, <2>0, <3>1, <3>2 DEF Secure, Alive, Stale
  <2> QED BY <2>1, <2>2
<1>12. ConflictFinal'
  <2> SUFFICES ASSUME NEW y \in Tx, txs'[y].outcome = "conflict"
               PROVE  Stale(y)' \/ ~Alive(y)' \/ \A m \in net' : m.tx # y
    BY DEF ConflictFinal
  <2>1. txs'[y] = txs[y]
    BY <1>1, <1>4
  <2> QED BY <1>2, <1>6, <2>1 DEF Fate, ConflictFinal, Stale
<1> QED BY <1>8, <1>9, <1>10, <1>11, <1>12 DEF Fate

\* A transaction ends, released or not; a conflict is told of one that is rejected and unmarked.
LEMMA FateEnds ==
  ASSUME TypeParts, Rest, Fate, NEW t \in Threads, thread[t].phase \in Serving,
         \/ Released(t)
         \/ \E outcome \in Outcomes \ {"none", "committed"} :
              /\ Unwind(t, outcome)
              /\ outcome = "conflict" => thread[t].phase = "checking" /\ thread[t].tx \notin markers
  PROVE  Fate'
<1> DEFINE x == thread[t].tx
<1>1. x \in Tx /\ txs[x].outcome = "none" /\ \A u \in Threads : u # t => thread[u].tx # x
  BY ServingTx DEF Rest, Owned, Fate, Leased
<1>2. /\ UNCHANGED <<gate, root, key, owners, markers, lease, applied, seq>>
      /\ net' \subseteq net \cup {[kind |-> "cleanup", tx |-> x, attempt |-> 1]}
  BY DEF Released, Unwind, etcd
<1>3. PICK outcome : /\ txs' = [txs EXCEPT ![x].outcome = outcome]
                     /\ outcome = "conflict" => thread[t].phase = "checking" /\ x \notin markers
                     /\ outcome # "committed" => thread'[t].previous_marker = thread[t].previous_marker
                     /\ thread'[t].previous_marker \in {thread[t].previous_marker, x}
  <2>1. CASE Released(t)
    <3>1. txs' = [txs EXCEPT ![x].outcome = "committed"]
      BY <2>1 DEF Released
    <3>2. thread'[t].previous_marker = x
      BY <2>1 DEF Released, TypeParts, ThreadType
    <3> QED BY <3>1, <3>2
  <2>2. ASSUME NEW outcome \in Outcomes \ {"none", "committed"}, Unwind(t, outcome),
               outcome = "conflict" => thread[t].phase = "checking" /\ thread[t].tx \notin markers
        PROVE  /\ txs' = [txs EXCEPT ![x].outcome = outcome]
               /\ thread'[t].previous_marker = thread[t].previous_marker
    BY <2>2 DEF Unwind, TypeParts, ThreadType
  <2> QED BY <2>1, <2>2
<1>4. /\ thread'[t].phase = "idle" /\ \A u \in Threads \ {t} : thread'[u] = thread[u]
  <2>1. CASE Released(t)
    BY <2>1 DEF Released, TypeParts, ThreadType
  <2>2. ASSUME NEW o, Unwind(t, o) PROVE thread'[t].phase = "idle" /\ \A u \in Threads \ {t} : thread'[u] = thread[u]
    BY <2>2 DEF Unwind, TypeParts, ThreadType
  <2> QED BY <2>1, <2>2
<1>5. /\ \A y \in Tx \ {x} : txs'[y] = txs[y]
      /\ txs'[x].outcome = outcome
      /\ \A y \in Tx : /\ txs'[y].lease = txs[y].lease /\ txs'[y].previous = txs[y].previous
                       /\ txs'[y].guard = txs[y].guard
  BY <1>1, <1>3 DEF TypeParts, TxType
<1>6. \A y \in Tx : Alive(y)' = Alive(y) /\ Stale(y)' = Stale(y)
  BY <1>2, <1>5 DEF Alive, Stale
<1>7. \A u \in Threads : thread'[u].phase \in Serving =>
        u # t /\ thread'[u] = thread[u] /\ thread[u].tx \in Tx \ {x}
  <2>1. \A u \in Threads : thread[u].phase \in Serving => thread[u].tx \in Tx
    BY ServingTx DEF Rest
  <2> QED BY <1>1, <1>4, <2>1 DEF Serving, Preparing
<1>8. Leased'
  <2>1. \A u \in Threads : thread'[u].phase = "polling" => thread'[u] = thread[u]
    BY <1>4
  <2> QED BY <1>2, <1>5, <1>7, <2>1 DEF Fate, Leased
<1>9. GateAlive' /\ ContentApplied'
  <2>1. gate # 0 => gate \in Tx
    BY GateAssumption DEF TypeParts, Tx
  <2> QED BY <1>2, <1>6, <2>1 DEF Fate, GateAlive, ContentApplied
<1>10. MarkersOver' /\ GuardsDrawn'
  <2>1. /\ \A y \in Tx : txs[y].previous # 0 => txs[y].previous \in Tx
        /\ \A u \in Threads : thread[u].previous_marker # 0 => thread[u].previous_marker \in Tx
    BY PreviousTx
  <2>2. \A y \in Tx : txs[y].outcome = "committed" => txs'[y].outcome = "committed"
    BY <1>1, <1>5
  <2>3. \A y \in Tx : txs'[y].previous # 0 => txs'[txs'[y].previous].outcome = "committed"
    BY <1>5, <2>1, <2>2 DEF Fate, MarkersOver
  <2>4. \A u \in Threads \ {t} : thread'[u].previous_marker # 0 => txs'[thread'[u].previous_marker].outcome = "committed"
    BY <1>4, <2>1, <2>2 DEF Fate, MarkersOver
  <2>5. thread'[t].previous_marker # 0 => txs'[thread'[t].previous_marker].outcome = "committed"
    BY <1>3, <1>5, <2>1, <2>2 DEF Fate, MarkersOver
  <2>6. GuardsDrawn'
    BY <1>2, <1>5 DEF Fate, GuardsDrawn
  <2> QED BY <2>3, <2>4, <2>5, <2>6 DEF MarkersOver
<1>11. HoldsGate'
  <2> SUFFICES ASSUME NEW u \in Threads, Entered(thread'[u]) PROVE Secure(u)'
    BY DEF HoldsGate, Secure
  <2>1. thread'[u] = thread[u] /\ thread[u].tx \in Tx \ {x}
    BY <1>7, EnteredServing
  <2>2. txs'[thread[u].tx] = txs[thread[u].tx] /\ Secure(u)
    BY <1>5, <2>1 DEF Fate, HoldsGate
  <2> QED BY <1>2, <1>6, <2>1, <2>2 DEF Secure
<1>12. ConflictFinal'
  <2> SUFFICES ASSUME NEW y \in Tx, txs'[y].outcome = "conflict"
               PROVE  Stale(y) \/ ~Alive(y) \/ \A m \in net' : m.tx # y
    BY <1>6 DEF ConflictFinal
  <2>1. CASE y = x
    <3>1. thread[t].phase = "checking" /\ x \notin markers
      BY <1>3, <1>5, <2>1
    <3>2. Entered(thread[t]) /\ Rejected(thread[t])
      BY <3>1 DEF Entered, Rejected
    <3> QED BY <2>1, <3>1, <3>2 DEF Fate, HoldsGate, Secure
  <2>2. CASE y # x
    BY <1>2, <1>5, <2>2 DEF Fate, ConflictFinal
  <2> QED BY <2>1, <2>2
<1> QED BY <1>8, <1>9, <1>10, <1>11, <1>12 DEF Fate

\* Steps of a thread.
LEMMA FateThread == ASSUME TypeParts, Rest, Fate, NEW t \in Threads, ThreadStep(t) PROVE Fate'
<1>1. CASE KeepAliveFails(t) \/ GiveUp(t) \/ Acquired(t) \/ NotSucceeded(t)
  <2>1. UNCHANGED <<etcd, txs, seq, net>>
    BY <1>1 DEF KeepAliveFails, GiveUp, Acquired, NotSucceeded
  <2>2. \A u \in Threads \ {t} : thread'[u] = thread[u]
    BY <1>1 DEF KeepAliveFails, GiveUp, Acquired, NotSucceeded, TypeParts
  <2>3. /\ thread'[t].tx = thread[t].tx /\ thread'[t].previous_marker = thread[t].previous_marker
        /\ \/ thread'[t].phase = "idle"
           \/ /\ thread'[t].lease = thread[t].lease
              /\ \/ thread[t].phase = "acquiring" /\ thread[t].answer = "yes" /\ thread'[t].phase = "holding"
                 \/ thread[t].phase = "committing" /\ thread[t].answer = "no" /\ thread'[t].phase = "checking"
    <3>1. CASE KeepAliveFails(t) \/ GiveUp(t)
      BY <3>1 DEF KeepAliveFails, GiveUp, TypeParts, ThreadType
    <3>2. CASE Acquired(t) \/ NotSucceeded(t)
      BY <3>2 DEF Acquired, NotSucceeded, TypeParts, ThreadType
    <3> QED BY <1>1, <3>1, <3>2
  <2>4. /\ thread'[t].phase # "polling"
        /\ thread'[t].phase \in Serving => thread[t].phase \in Serving /\ thread'[t].lease = thread[t].lease
        /\ Entered(thread'[t]) => Entered(thread[t])
        /\ thread'[t].phase \in AfterReading => thread[t].phase \in AfterReading
        /\ Rejected(thread'[t]) => Rejected(thread[t])
    BY <2>3 DEF Serving, Preparing, Entered, AfterReading, Rejected
  <2> QED BY <2>1, <2>2, <2>3, <2>4, FateQuiet
<1>2. CASE Repeat(t) \/ LostRace(t) \/ SendCommit(t)
  <2>1. UNCHANGED <<etcd, txs, seq>>
    BY <1>2 DEF Repeat, LostRace, SendCommit
  <2>2. \A u \in Threads \ {t} : thread'[u] = thread[u]
    BY <1>2 DEF Repeat, LostRace, SendCommit, TypeParts
  <2>3. /\ thread'[t].tx = thread[t].tx /\ thread'[t].previous_marker = thread[t].previous_marker
        /\ thread'[t].lease = thread[t].lease /\ thread'[t].answer = "none"
        /\ \/ thread[t].phase \in {"acquiring", "committing"} /\ thread'[t].phase = thread[t].phase
           \/ thread[t].phase = "working" /\ thread'[t].phase = "committing"
    <3>1. CASE Repeat(t)
      <4>1. thread' = [thread EXCEPT ![t].attempt = @ + 1, ![t].answer = "none"]
            /\ thread[t].phase \in {"acquiring", "committing"}
        BY <3>1 DEF Repeat
      <4> QED BY <4>1 DEF TypeParts, ThreadType
    <3>2. CASE LostRace(t)
      <4>1. thread' = [thread EXCEPT ![t].attempt = @ + 1, ![t].answer = "none"]
            /\ thread[t].phase = "acquiring"
        BY <3>2 DEF LostRace
      <4> QED BY <4>1 DEF TypeParts, ThreadType
    <3>3. CASE SendCommit(t)
      <4>1. thread' = [thread EXCEPT ![t].phase = "committing", ![t].attempt = 1, ![t].answer = "none"]
            /\ thread[t].phase = "working"
        BY <3>3 DEF SendCommit
      <4> QED BY <4>1 DEF TypeParts, ThreadType
    <3> QED BY <1>2, <3>1, <3>2, <3>3
  <2>4. PICK sort, a : net' = net \cup {[kind |-> sort, tx |-> thread[t].tx, attempt |-> a]} /\ sort # "cleanup"
    <3>1. CASE Repeat(t) /\ thread[t].phase = "committing"
      <4>1. net' = net \cup {[kind |-> "commit", tx |-> thread[t].tx, attempt |-> thread[t].attempt + 1]}
        BY <3>1 DEF Repeat
      <4>2. "commit" # "cleanup"
        OBVIOUS
      <4> QED BY <4>1, <4>2
    <3>2. CASE (Repeat(t) /\ thread[t].phase # "committing") \/ LostRace(t)
      <4>1. net' = net \cup {[kind |-> "acquire", tx |-> thread[t].tx, attempt |-> thread[t].attempt + 1]}
        BY <3>2 DEF Repeat, LostRace
      <4>2. "acquire" # "cleanup"
        OBVIOUS
      <4> QED BY <4>1, <4>2
    <3>3. CASE SendCommit(t)
      <4>1. net' = net \cup {[kind |-> "commit", tx |-> thread[t].tx, attempt |-> 1]}
        BY <3>3 DEF SendCommit
      <4>2. "commit" # "cleanup"
        OBVIOUS
      <4> QED BY <4>1, <4>2
    <3> QED BY <1>2, <3>1, <3>2, <3>3
  <2>5. /\ thread[t].phase \in Serving /\ thread'[t].phase # "polling"
        /\ Entered(thread'[t]) => Entered(thread[t])
        /\ thread'[t].phase \in AfterReading => thread[t].phase \in AfterReading
        /\ ~Rejected(thread'[t])
    BY <2>3 DEF Serving, Preparing, Entered, AfterReading, Rejected
  <2>6. \A m \in net' : m \in net \/
          (m.kind # "cleanup" /\ \E u \in Threads : thread[u].phase \in Serving /\ m.tx = thread[u].tx)
    BY <2>4, <2>5
  <2> QED BY <2>1, <2>2, <2>3, <2>5, <2>6, FateQuiet
<1>3. CASE Unavailable(t) \/ Refuse(t)
  <2>1. thread[t].phase \in Serving
    BY <1>3 DEF Unavailable, Refuse, Serving, Preparing
  <2>2. \E outcome \in Outcomes \ {"none", "committed"} : Unwind(t, outcome) /\ outcome # "conflict"
    BY <1>3 DEF Unavailable, Refuse, Outcomes
  <2> QED BY <2>1, <2>2, FateEnds
<1>4. CASE Succeeded(t)
  BY <1>4, FateEnds DEF Succeeded, Serving
<1>5. CASE CheckMarker(t)
  <2>1. thread[t].phase \in Serving /\ thread[t].phase = "checking" /\ "conflict" \in Outcomes \ {"none", "committed"}
    BY <1>5 DEF CheckMarker, Serving, Outcomes
  <2>2. Released(t) \/ (Unwind(t, "conflict") /\ thread[t].tx \notin markers)
    BY <1>5 DEF CheckMarker
  <2> QED BY <2>1, <2>2, FateEnds
<1> QED BY <1>1, <1>2, <1>3, <1>4, <1>5, FateBegin, FateAsks, FateReads DEF ThreadStep

\* The fate of conflicts is kept by every step.
LEMMA FateNext == GateInv /\ Fate /\ [Next]_vars => Fate'
<1> SUFFICES ASSUME GateInv, Fate, [Next]_vars PROVE Fate'
  OBVIOUS
<1>0. TypeParts /\ Rest
  BY TypeNamed DEF GateInv, Rest
<1>1. CASE UNCHANGED vars
  <2>1. UNCHANGED <<etcd, txs, seq, net, thread>>
    BY <1>1 DEF vars, etcd
  <2> QED BY <1>0, <2>1, FateQuiet
<1>2. CASE Tick \/ KeyExpires \/ KeyTaken
  BY <1>0, <1>2, FateTick, FateKey
<1>3. ASSUME NEW m \in net, ApplyAcquire(m) \/ ApplyCommit(m) \/ ApplyCleanup(m) PROVE Fate'
  BY <1>0, <1>3, FateAcquired, FateCommit, FateCleanup
<1>4. ASSUME NEW t \in Threads, ThreadStep(t) PROVE Fate'
  BY <1>0, <1>4, FateThread
<1> QED BY <1>1, <1>2, <1>3, <1>4 DEF Next, ThreadStep

\* Only the look at the marker tells of a conflict.
LEMMA OnlyChecksTell ==
  ASSUME GateInv, [Next]_vars, NEW x \in Tx, txs[x].outcome = "none", txs'[x].outcome = "conflict"
  PROVE  \E t \in Threads : thread[t].phase = "checking" /\ thread[t].tx = x /\ x \notin markers
<1>0. TypeParts /\ Rest
  BY TypeNamed DEF GateInv, Rest
<1>1. CASE UNCHANGED txs
  BY <1>1
<1>2. ASSUME NEW t \in Threads, Unavailable(t) \/ Refuse(t) \/ Succeeded(t)
      PROVE  FALSE
  <2>1. PICK outcome \in {"unavailable", "refused", "committed"} :
          txs' = [txs EXCEPT ![thread[t].tx].outcome = outcome]
    BY <1>2 DEF Unavailable, Refuse, Succeeded, Unwind, Released
  <2> QED BY <1>0, <2>1 DEF TypeParts, TxType
<1>3. ASSUME NEW t \in Threads, CheckMarker(t)
      PROVE  thread[t].phase = "checking" /\ thread[t].tx = x /\ x \notin markers
  <2>1. thread[t].phase = "checking"
    BY <1>3 DEF CheckMarker
  <2>2. CASE thread[t].tx \in markers
    <3>1. txs' = [txs EXCEPT ![thread[t].tx].outcome = "committed"]
      BY <1>3, <2>2 DEF CheckMarker, Released
    <3> QED BY <1>0, <3>1 DEF TypeParts, TxType
  <2>3. CASE thread[t].tx \notin markers
    <3>1. txs' = [txs EXCEPT ![thread[t].tx].outcome = "conflict"]
      BY <1>3, <2>3 DEF CheckMarker, Unwind
    <3> QED BY <1>0, <2>1, <2>3, <3>1 DEF TypeParts, TxType
  <2> QED BY <2>2, <2>3
<1>4. ASSUME NEW t \in Threads, Acquire(t) PROVE FALSE
  <2>1. txs' = [txs EXCEPT ![seq + 1].lease = thread[t].lease]
    BY <1>4 DEF Acquire
  <2> QED BY <1>0, <2>1 DEF TypeParts, TxType
<1>5. ASSUME NEW t \in Threads, ReadRoot(t) PROVE FALSE
  <2>1. PICK changes \in BOOLEAN, guard \in 0..owners :
          txs' = [txs EXCEPT ![thread[t].tx].content = root.content, ![thread[t].tx].revision = root.revision,
                             ![thread[t].tx].changes = changes, ![thread[t].tx].guard = guard,
                             ![thread[t].tx].previous = thread[t].previous_marker]
    BY <1>5 DEF ReadRoot
  <2> QED BY <1>0, <2>1 DEF TypeParts, TxType
<1>6. ASSUME NEW t \in Threads,
             Begin(t) \/ KeepAliveFails(t) \/ GiveUp(t) \/ Repeat(t) \/ LostRace(t) \/ Acquired(t) \/ SendCommit(t)
             \/ NotSucceeded(t)
      PROVE  UNCHANGED txs
  BY <1>6 DEF Begin, KeepAliveFails, GiveUp, Repeat, LostRace, Acquired, SendCommit, NotSucceeded
<1>7. ASSUME NEW m \in net, ApplyAcquire(m) \/ ApplyCommit(m) \/ ApplyCleanup(m) PROVE UNCHANGED txs
  BY <1>7 DEF ApplyAcquire, ApplyCommit, ApplyCleanup
<1>8. ASSUME Tick \/ KeyExpires \/ KeyTaken \/ UNCHANGED vars PROVE UNCHANGED txs
  BY <1>8 DEF Tick, KeyExpires, KeyTaken, vars
<1> QED BY <1>1, <1>2, <1>3, <1>4, <1>5, <1>6, <1>7, <1>8 DEF Next

\* A conflict that is told while the lease lives has its reason, and no late attempt makes it
\* false, for every number of threads, transactions, leases, endpoints and owners.
THEOREM ConflictsAreTrue == Spec => ConflictIsTrue
<1> DEFINE step == \A x \in Tx :
             /\ txs[x].outcome = "none" /\ txs'[x].outcome = "conflict" /\ Alive(x) =>
                  x \notin root.content /\ txs[x].guard \notin {0, key}
             /\ txs[x].outcome = "conflict" /\ x \notin root.content => x \notin root'.content
<1>1. ASSUME GateInv, Fate, [Next]_vars PROVE step
  <2>0. TypeParts /\ TypeParts' /\ Rest
    BY <1>1, Inductive, TypeNamed DEF GateInv, Rest
  <2>1. ASSUME NEW x \in Tx, txs[x].outcome = "none", txs'[x].outcome = "conflict", Alive(x)
        PROVE  x \notin root.content /\ txs[x].guard \notin {0, key}
    <3>1. PICK t \in Threads : thread[t].phase = "checking" /\ thread[t].tx = x /\ x \notin markers
      BY <1>1, <2>1, OnlyChecksTell
    <3>2. Entered(thread[t]) /\ Rejected(thread[t])
      BY <3>1 DEF Entered, Rejected
    <3>3. applied[x] = 0 /\ Stale(x)
      BY <1>1, <2>1, <3>1, <3>2 DEF Fate, HoldsGate, Secure
    <3> QED BY <1>1, <3>3 DEF Fate, ContentApplied, Stale
  <2>2. ASSUME NEW x \in Tx, txs[x].outcome = "conflict", x \notin root.content, x \in root'.content
        PROVE  FALSE
    <3>1. PICK m \in net : ApplyCommit(m) /\ CommitGuards(m.tx)
      BY <1>1, <2>2, OnlyCommitsPublish
    <3>2. m.tx = x
      BY <2>0, <2>2, <3>1, RestPublish
    <3>3. gate = x /\ ~Stale(x) /\ x # 0
      BY <3>1, <3>2 DEF CommitGuards, Stale, Tx
    <3> QED BY <1>1, <2>2, <3>2, <3>3 DEF Fate, ConflictFinal, GateAlive
  <2> QED BY <2>1, <2>2
<1>2. Spec => []Fate
  BY FateInit, FateNext, GateInvariant, PTL DEF Spec
<1>3. ASSUME GateInv, Fate, [Next]_vars PROVE [step]_vars
  BY <1>1, <1>3
<1> QED BY <1>2, <1>3, GateInvariant, PTL DEF Spec, ConflictIsTrue

-----------------------------------------------------------------------------
(* ClientCommit.                                                            *)

ClientRecords ==
  [phase : ClientPhases, attempt : 1..MaxAttempts, error : {"failed", "unknown"},
   outcome : Endings, snapshot : 1..2, revision : 1..3]

\* Until its call has ended well the client's copy of the handle has no revision above the
\* published one, whatever renewals say.
RevisionBehind == (client.phase = "done" /\ client.outcome = "ok") \/ client.revision <= 2

\* A response in the ledger, and an upload on its way out, mean that the operation is
\* published; a write reported as failed has ended without being published, and no request
\* that is still under way can change that.
RecordedCommitted == recorded # {} => opState = "COMMITTED"
LeavingCommitted == client.phase = "leave" => opState = "COMMITTED"
FailedEnded ==
  kind = "write" /\ client.phase = "done" /\ client.outcome = "failed" => opState \in {"ABORTED", "EXPIRED"}
ReportedCommitted == client.outcome = "ok" => opState = "COMMITTED"
BeginningOpen == client.phase = "begin" => client.attempt < MaxAttempts /\ client.outcome = "none"

CommitInv ==
  /\ ClientTypeOK /\ RevisionBehind /\ RecordedCommitted /\ LeavingCommitted /\ FailedEnded /\ ReportedCommitted
  /\ BeginningOpen

\* What the server's variables may do: an operation that has ended stays as it ended.
ServerGoesOn ==
  /\ opState' \in States /\ recorded' \subseteq Requests /\ onServer' \in 1..2
  /\ recorded' # {} => opState' = "COMMITTED"
  /\ opState = "COMMITTED" => opState' = "COMMITTED"
  /\ opState \in {"ABORTED", "EXPIRED"} => opState' \in {"ABORTED", "EXPIRED"}

\* What the client's thread may do, given the state of the operation afterwards.
ClientGoesOn ==
  /\ client' \in ClientRecords
  /\ (client'.phase = "done" /\ client'.outcome = "ok") \/ client'.revision <= 2
  /\ client'.phase = "leave" => opState' = "COMMITTED"
  /\ client'.outcome = "ok" => opState' = "COMMITTED"
  /\ kind = "write" /\ client'.phase = "done" /\ client'.outcome = "failed" => opState' \in {"ABORTED", "EXPIRED"}
  /\ client'.phase = "begin" => client'.attempt < MaxAttempts /\ client'.outcome = "none"

\* The invariant gives what was asked for.
LEMMA CommitInvTrue == CommitInv => OutcomesTrue
  BY DEF CommitInv, FailedEnded, ReportedCommitted, OutcomesTrue

\* The requests are those of the attempts, and one to abort.
LEMMA RequestKinds == /\ <<"abort", 0>> \in Requests
                      /\ \A i \in 1..MaxAttempts : <<"commit", i>> \in Requests
  BY DEF Requests

\* Nothing was sent yet.
LEMMA CommitInitInv == ClientInit => CommitInv
<1> SUFFICES ASSUME ClientInit PROVE CommitInv
  OBVIOUS
<1>1. 1 \in 1..MaxAttempts
  BY AttemptsAssumption
<1>2. client \in ClientRecords
  BY <1>1 DEF ClientInit, ClientRecords, ClientPhases, Endings
<1>3. renewal \in [failed : BOOLEAN, answer : 0..2]
  <2>1. 0 \in 0..2
    OBVIOUS
  <2> QED BY <2>1 DEF ClientInit
<1>4. fenced \in BOOLEAN /\ durable \in BOOLEAN /\ authentic \in BOOLEAN
  BY Zenon DEF ClientInit
<1>5. ClientTypeOK
  BY <1>2, <1>3, <1>4 DEF ClientInit, ClientTypeOK, ClientRecords, States
<1> QED BY <1>5 DEF ClientInit, CommitInv, RevisionBehind, RecordedCommitted, LeavingCommitted, FailedEnded, ReportedCommitted,
                   BeginningOpen

\* What the invariant says of the server.
LEMMA ServerTypes == CommitInv => opState \in States /\ recorded \subseteq Requests /\ onServer \in 1..2 /\ sent \subseteq Requests
                                  /\ kind \in Kinds /\ client \in ClientRecords
  BY DEF CommitInv, ClientTypeOK, ClientRecords

\* A handler that does nothing.
LEMMA ServerRests == ASSUME CommitInv, UNCHANGED serverVars PROVE ServerGoesOn
  BY ServerTypes DEF CommitInv, RecordedCommitted, serverVars, ServerGoesOn

\* A handler that is executed, whenever that is.
LEMMA ServeGoesOn == ASSUME CommitInv, NEW q \in Requests, Serve(q) PROVE ServerGoesOn
<1>1. CASE UNCHANGED serverVars
  BY <1>1, ServerRests
<1>2. CASE q[1] = "commit" /\ ~UNCHANGED serverVars
  <2>1. Publishable(q) /\ opState' = "COMMITTED" /\ recorded' = recorded \cup {q} /\ onServer' \in 1..2
    BY <1>2, ServerTypes DEF Serve, ServeCommit
  <2> QED BY <2>1, ServerTypes DEF ServerGoesOn, States, Publishable
<1>3. CASE q[1] # "commit" /\ ~UNCHANGED serverVars
  <2>1. opState # "COMMITTED" /\ opState' = "ABORTED" /\ UNCHANGED <<recorded, onServer>>
    BY <1>3 DEF Serve, ServeAbort, Abortable
  <2> QED BY <2>1, ServerTypes DEF ServerGoesOn, States, CommitInv, RecordedCommitted
<1> QED BY <1>1, <1>2, <1>3

\* A call that the client makes: whatever it hears, the handler was executed or was not.
LEMMA CallGoesOn == ASSUME CommitInv, NEW q \in Requests, NEW a, Call(q, a) PROVE ServerGoesOn
  BY ServeGoesOn, ServerRests DEF Call

\* A commit that is answered with success is applied.
LEMMA CommitAnswered ==
  ASSUME CommitInv, NEW i \in 1..MaxAttempts, Call(<<"commit", i>>, "ok") PROVE opState' = "COMMITTED"
<1> DEFINE q == <<"commit", i>>
<1>1. q[1] = "commit" /\ q \in Requests
  BY RequestKinds
<1> HIDE DEF q
<1>2. CommitReply(q) = "ok" /\ ServeCommit(q)
  BY <1>1 DEF Call, Serve, q
<1>3. q \in recorded \/ Publishable(q)
  BY <1>2 DEF CommitReply
<1>4. CASE Publishable(q)
  BY <1>2, <1>4 DEF ServeCommit
<1>5. CASE ~Publishable(q)
  <2>1. opState = "COMMITTED" /\ opState' = opState
    BY <1>2, <1>3, <1>5 DEF ServeCommit, CommitInv, RecordedCommitted, serverVars
  <2> QED BY <2>1
<1> QED BY <1>4, <1>5

\* An abort that is answered with success has ended the operation.
LEMMA AbortAnswered == ASSUME Call(<<"abort", 0>>, "ok") PROVE opState' = "ABORTED"
  BY DEF Call, Serve, ServeAbort, Abortable

\* A state that is told is the state.
LEMMA StatusTrue ==
  ASSUME CommitInv, NEW a, Status(a)
  PROVE  ServerGoesOn /\ opState' = opState /\ (a \in States => a = opState)
<1>1. UNCHANGED serverVars
  BY DEF Status
<1>2. a \in States => a = opState
  BY DEF Status, States
<1> QED BY <1>1, <1>2, ServerRests DEF serverVars

\* What the thread's moves make of its record.
LEMMA ClientMoves ==
  ASSUME CommitInv
  PROVE  /\ \A p \in ClientPhases : Go(p) \in ClientRecords /\ Go(p).phase = p /\ Go(p).outcome = client.outcome
                                    /\ Go(p).revision = client.revision
         /\ \A e \in {"failed", "unknown"} : Raise(e) \in ClientRecords /\ Raise(e).phase = "look"
                                    /\ Raise(e).outcome = client.outcome /\ Raise(e).revision = client.revision
         /\ \A e \in {"ok", "failed", "unknown", "error"} : Finish(e) \in ClientRecords /\ Finish(e).phase = "done" /\ Finish(e).outcome = e
                                    /\ Finish(e).revision = client.revision
<1> USE ServerTypes DEF ClientRecords, ClientPhases, Endings
<1>1. \A p \in ClientPhases : Go(p) \in ClientRecords /\ Go(p).phase = p /\ Go(p).outcome = client.outcome
                              /\ Go(p).revision = client.revision
  BY DEF Go
<1>2. \A e \in {"failed", "unknown"} : Raise(e) \in ClientRecords /\ Raise(e).phase = "look"
                                    /\ Raise(e).outcome = client.outcome /\ Raise(e).revision = client.revision
  BY DEF Raise
<1>3. \A e \in {"ok", "failed", "unknown", "error"} : Finish(e) \in ClientRecords /\ Finish(e).phase = "done" /\ Finish(e).outcome = e
                                    /\ Finish(e).revision = client.revision
  BY DEF Finish
<1> QED BY <1>1, <1>2, <1>3

\* A call that ends well moves the handle on.
LEMMA ClientConfirms ==
  ASSUME CommitInv, client.phase # "done"
  PROVE  /\ Confirmed \in ClientRecords /\ Confirmed.phase = "done" /\ Confirmed.outcome = "ok"
         /\ LET f == [Finish("ok") EXCEPT !.snapshot = 2]
            IN  f \in ClientRecords /\ f.phase = "done" /\ f.outcome = "ok"
<1>1. client.revision <= 2
  BY DEF CommitInv, RevisionBehind
<1>2. PICK f \in ClientRecords : f = Finish("ok") /\ f.phase = "done" /\ f.outcome = "ok" /\ f.revision = client.revision
  <2>1. Finish("ok") \in ClientRecords /\ Finish("ok").phase = "done" /\ Finish("ok").outcome = "ok"
    BY ClientMoves
  <2>2. Finish("ok").revision = client.revision
    BY ServerTypes DEF Finish, ClientRecords
  <2> QED BY <2>1, <2>2
<1>3. PICK g \in ClientRecords : g = [f EXCEPT !.snapshot = 2] /\ g.phase = "done" /\ g.outcome = "ok" /\ g.revision = f.revision
  <2>1. 2 \in 1..2
    OBVIOUS
  <2>2. [f EXCEPT !.snapshot = 2] \in ClientRecords
    BY <2>1 DEF ClientRecords
  <2>3. LET g == [f EXCEPT !.snapshot = 2] IN g.phase = "done" /\ g.outcome = "ok" /\ g.revision = f.revision
    BY <1>2 DEF ClientRecords
  <2> QED BY <2>2, <2>3
<1>4. Confirmed = [g EXCEPT !.revision = g.revision + 1]
  BY <1>2, <1>3 DEF Confirmed, ClientRecords
<1>5. g.revision + 1 \in 1..3
  BY <1>1, <1>2, <1>3, ServerTypes DEF ClientRecords
<1>6. Confirmed \in ClientRecords /\ Confirmed.phase = "done" /\ Confirmed.outcome = "ok"
  BY <1>3, <1>4, <1>5 DEF ClientRecords
<1> QED BY <1>2, <1>3, <1>6

\* The parts put together.
LEMMA CommitTogether ==
  ASSUME CommitInv, ServerGoesOn, ClientGoesOn, kind' = kind, sent' \subseteq Requests,
         renewal' \in [failed : BOOLEAN, answer : 0..2],
         fenced' \in BOOLEAN /\ durable' \in BOOLEAN /\ authentic' \in BOOLEAN
  PROVE  CommitInv'
<1>1. ClientTypeOK'
  BY ServerTypes DEF ClientTypeOK, ServerGoesOn, ClientGoesOn, ClientRecords
<1> QED BY <1>1 DEF CommitInv, ServerGoesOn, ClientGoesOn, RevisionBehind, RecordedCommitted, LeavingCommitted, FailedEnded,
                   ReportedCommitted, BeginningOpen

\* A client that does not move, beside a server that does.
LEMMA ClientRests == ASSUME CommitInv, ServerGoesOn, client' = client PROVE ClientGoesOn
  BY ServerTypes DEF CommitInv, ServerGoesOn, ClientGoesOn, RevisionBehind, LeavingCommitted, FailedEnded, ReportedCommitted,
                     BeginningOpen

\* The thread goes to another phase, but not out, with the outcome it had.
LEMMA ClientContinues ==
  ASSUME CommitInv, ServerGoesOn, client.phase # "done",
         (\E p \in ClientPhases \ {"begin", "done", "leave"} : client' = Go(p)) \/ \E e \in {"failed", "unknown"} : client' = Raise(e)
  PROVE  ClientGoesOn
<1>1. client' \in ClientRecords /\ client'.phase \notin {"begin", "done", "leave"} /\ client'.outcome = client.outcome
      /\ client'.revision = client.revision
  BY ClientMoves
<1> QED BY <1>1 DEF CommitInv, ServerGoesOn, ClientGoesOn, RevisionBehind, ReportedCommitted

\* The thread ends with an outcome that claims nothing.
LEMMA ClientUnknown ==
  ASSUME CommitInv, client.phase # "done" \/ client.outcome # "ok", NEW e \in {"unknown", "error"}, client' = Finish(e)
  PROVE  ClientGoesOn
<1>1. client' \in ClientRecords /\ client'.phase = "done" /\ client'.outcome = e /\ client'.revision = client.revision
  BY ClientMoves
<1> QED BY <1>1 DEF ClientGoesOn, CommitInv, RevisionBehind

\* The thread reports the error it had met, of an operation that has ended.
LEMMA ClientFailed ==
  ASSUME CommitInv, client.phase # "done" \/ client.outcome # "ok", opState' \in {"ABORTED", "EXPIRED"},
         NEW e \in {"failed", "unknown"}, client' = Finish(e)
  PROVE  ClientGoesOn
<1>1. client' \in ClientRecords /\ client'.phase = "done" /\ client'.outcome = e /\ client'.revision = client.revision
  BY ClientMoves
<1> QED BY <1>1 DEF ClientGoesOn, CommitInv, RevisionBehind

\* The thread reports success, of an operation that is published.
LEMMA ClientSucceeds ==
  ASSUME CommitInv, opState' = "COMMITTED", client.phase # "done",
         client' \in {Confirmed, Finish("ok"), [Finish("ok") EXCEPT !.snapshot = 2]}
  PROVE  ClientGoesOn
<1>1. client' \in ClientRecords /\ client'.phase = "done" /\ client'.outcome = "ok"
  BY ClientMoves, ClientConfirms
<1> QED BY <1>1 DEF ClientGoesOn

\* commit_write, in its three calls.
LEMMA WriteCommitGoesOn ==
  ASSUME CommitInv, NEW a \in Answers, WriteCommit(a) \/ WriteStatus(a) \/ WriteAgain(a)
  PROVE  ServerGoesOn /\ ClientGoesOn
<1>1. client.attempt \in 1..MaxAttempts /\ MyCommit \in Requests
  BY ServerTypes, RequestKinds DEF ClientRecords, MyCommit
<1>2. CASE WriteCommit(a) \/ WriteAgain(a)
  <2>1. ServerGoesOn /\ client.phase # "done" /\ Call(MyCommit, a)
    BY <1>1, <1>2, CallGoesOn DEF WriteCommit, WriteAgain
  <2>2. CASE a = "ok"
    <3>1. opState' = "COMMITTED"
      BY <1>1, <2>1, <2>2, CommitAnswered DEF MyCommit
    <3>2. client' = Confirmed
      BY <1>2, <2>2 DEF WriteCommit, WriteAgain
    <3> QED BY <2>1, <3>1, <3>2, ClientSucceeds
  <2>3. CASE a # "ok"
    <3>1. client' = Go("status") \/ client' = Raise("failed")
      BY <1>2, <2>3 DEF WriteCommit, WriteAgain
    <3> QED BY <2>1, <3>1, ClientContinues DEF ClientPhases
  <2> QED BY <2>2, <2>3
<1>3. CASE WriteStatus(a)
  <2>1. ServerGoesOn /\ opState' = opState /\ (a \in States => a = opState) /\ client.phase # "done" /\ client' = AfterStatus(a)
    BY <1>3, StatusTrue DEF WriteStatus
  <2>2. CASE a = "COMMITTED"
    <3>1. client' = Confirmed /\ opState' = "COMMITTED"
      BY <2>1, <2>2 DEF AfterStatus, States
    <3> QED BY <2>1, <3>1, ClientSucceeds
  <2>3. CASE a # "COMMITTED"
    <3>1. client' = Go("again") \/ client' = Raise("failed") \/ client' = Raise("unknown")
      BY <2>1, <2>3 DEF AfterStatus
    <3> QED BY <2>1, <3>1, ClientContinues DEF ClientPhases
  <2> QED BY <2>2, <2>3
<1> QED BY <1>2, <1>3

\* The handler of _finish_write, and a write that is called again.
LEMMA WriteEndGoesOn ==
  ASSUME CommitInv, NEW a \in Answers, WriteLook(a) \/ WriteAbort(a) \/ Resume(a)
  PROVE  ServerGoesOn /\ ClientGoesOn
<1>1. client.error \in {"failed", "unknown"}
  BY ServerTypes DEF ClientRecords
<1>2. CASE WriteLook(a)
  <2>1. ServerGoesOn /\ opState' = opState /\ (a \in States => a = opState) /\ client.phase # "done" /\ client' = AfterLook(a)
    BY <1>2, StatusTrue DEF WriteLook
  <2>2. CASE a = "COMMITTED"
    <3>1. client' = [Finish("ok") EXCEPT !.snapshot = 2] /\ opState' = "COMMITTED"
      BY <2>1, <2>2 DEF AfterLook, States
    <3> QED BY <2>1, <3>1, ClientSucceeds
  <2>3. CASE a = "PREPARING"
    <3>1. client' = Go("abort")
      BY <2>1, <2>3 DEF AfterLook
    <3> QED BY <2>1, <3>1, ClientContinues DEF ClientPhases
  <2>4. CASE a \in {"ABORTED", "EXPIRED"}
    <3>1. client' = Finish(client.error) /\ opState' \in {"ABORTED", "EXPIRED"}
      BY <2>1, <2>4 DEF AfterLook, States
    <3> QED BY <1>1, <2>1, <3>1, ClientFailed
  <2>5. CASE a \notin States
    <3>1. client' = Finish("unknown")
      BY <2>1, <2>5 DEF AfterLook, States
    <3> QED BY <2>1, <3>1, ClientUnknown
  <2> QED BY <2>2, <2>3, <2>4, <2>5 DEF States
<1>3. CASE WriteAbort(a)
  <2>1. ServerGoesOn /\ client.phase # "done" /\ Call(<<"abort", 0>>, a) /\ client' = (IF a = "ok" THEN Finish(client.error) ELSE Finish("unknown"))
    BY <1>3, RequestKinds, CallGoesOn DEF WriteAbort
  <2>2. CASE a = "ok"
    <3>1. opState' \in {"ABORTED", "EXPIRED"} /\ client' = Finish(client.error)
      BY <2>1, <2>2, AbortAnswered
    <3> QED BY <1>1, <2>1, <3>1, ClientFailed
  <2>3. CASE a # "ok"
    BY <2>1, <2>3, ClientUnknown
  <2> QED BY <2>2, <2>3
<1>4. CASE Resume(a)
  <2>1. ServerGoesOn /\ opState' = opState /\ (a \in States => a = opState)
    BY <1>4, StatusTrue DEF Resume
  <2>2. client.phase = "done" /\ client.outcome \in {"unknown", "error"} /\ client.attempt < MaxAttempts
    BY <1>4 DEF Resume
  <2>3. CASE a = "COMMITTED"
    <3>1. client' = Finish("ok") /\ opState' = "COMMITTED"
      BY <1>4, <2>1, <2>3 DEF Resume, States
    <3>2. client' \in ClientRecords /\ client'.phase = "done" /\ client'.outcome = "ok"
      BY <3>1, ClientMoves
    <3> QED BY <2>1, <3>1, <3>2 DEF ClientGoesOn
  <2>4. CASE a = "PREPARING"
    <3>1. client' = [client EXCEPT !.phase = "begin", !.outcome = "none"]
      BY <1>4, <2>4 DEF Resume
    <3>2. client.revision \in 1..3 /\ client.revision <= 2
      BY <2>2, ServerTypes DEF ClientRecords, CommitInv, RevisionBehind
    <3>3. client' \in ClientRecords
      BY <3>1, ServerTypes DEF ClientRecords, ClientPhases, Endings
    <3>4. client'.phase = "begin" /\ client'.outcome = "none" /\ client'.revision = client.revision /\ client'.attempt = client.attempt
      BY <3>1, ServerTypes DEF ClientRecords
    <3> QED BY <2>1, <2>2, <3>2, <3>3, <3>4 DEF ClientGoesOn
  <2>5. CASE a \in {"ABORTED", "EXPIRED"}
    <3>1. client' = Finish("failed") /\ opState' \in {"ABORTED", "EXPIRED"}
      BY <1>4, <2>1, <2>5 DEF Resume, States
    <3> QED BY <2>1, <2>2, <3>1, ClientFailed
  <2>6. CASE a \notin States
    <3>1. client' = Finish("error")
      BY <1>4, <2>6 DEF Resume, States
    <3> QED BY <2>1, <2>2, <3>1, ClientUnknown
  <2> QED BY <2>3, <2>4, <2>5, <2>6 DEF States
<1> QED BY <1>2, <1>3, <1>4

\* BeginWrite is asked again, and a new attempt starts or the call ends.
LEMMA BeginGoesOn ==
  ASSUME CommitInv, BeginAgain
  PROVE  ServerGoesOn /\ ClientGoesOn /\ renewal' \in [failed : BOOLEAN, answer : 0..2]
<1>1. ServerGoesOn /\ opState' = opState
  BY ServerRests DEF BeginAgain, serverVars
<1>2. renewal \in [failed : BOOLEAN, answer : 0..2]
  BY DEF CommitInv, ClientTypeOK
<1>3. CASE client' = Finish("error") /\ UNCHANGED renewal
  BY <1>1, <1>2, <1>3, ClientUnknown DEF BeginAgain
<1>4. CASE /\ client' = [client EXCEPT !.phase = "prepare", !.error = "failed", !.attempt = @ + 1]
           /\ renewal' = [renewal EXCEPT !.failed = FALSE]
  <2>1. client.attempt + 1 \in 1..MaxAttempts /\ client.revision \in 1..3 /\ client.revision <= 2 /\ client.outcome # "ok"
    BY AttemptsAssumption, ServerTypes DEF BeginAgain, ClientRecords, CommitInv, RevisionBehind, BeginningOpen
  <2>2. client' \in ClientRecords
    BY <1>4, <2>1, ServerTypes DEF ClientRecords, ClientPhases
  <2>3. client'.phase = "prepare" /\ client'.outcome = client.outcome /\ client'.revision = client.revision
    BY <1>4, ServerTypes DEF ClientRecords
  <2>4. renewal' \in [failed : BOOLEAN, answer : 0..2]
    BY <1>2, <1>4
  <2> QED BY <1>1, <2>1, <2>2, <2>3, <2>4 DEF ClientGoesOn
<1> QED BY <1>3, <1>4 DEF BeginAgain

\* The end of an upload.
LEMMA UploadGoesOn ==
  ASSUME CommitInv, NEW a \in Answers, UploadCommit(a) \/ UploadStatus(a) \/ UploadAbort(a) \/ UploadLeave
  PROVE  ServerGoesOn /\ ClientGoesOn
<1>1. client.attempt \in 1..MaxAttempts /\ MyCommit \in Requests /\ kind = "upload"
  BY ServerTypes, RequestKinds DEF ClientRecords, MyCommit, UploadCommit, UploadStatus, UploadAbort, UploadLeave
<1>2. ASSUME ServerGoesOn, client.phase # "done", client' = Go("leave"), opState' = "COMMITTED" PROVE ClientGoesOn
  <2>1. client' \in ClientRecords /\ client'.phase = "leave" /\ client'.revision = client.revision
    BY <1>2, ClientMoves DEF ClientPhases
  <2> QED BY <1>2, <2>1 DEF CommitInv, RevisionBehind, ClientGoesOn
<1>3. CASE UploadCommit(a)
  <2>1. ServerGoesOn /\ client.phase # "done" /\ Call(MyCommit, a)
    BY <1>1, <1>3, CallGoesOn DEF UploadCommit
  <2>2. CASE a = "ok"
    <3>1. opState' = "COMMITTED"
      BY <1>1, <2>1, <2>2, CommitAnswered DEF MyCommit
    <3>2. client' = Go("leave")
      BY <1>3, <2>2 DEF UploadCommit
    <3> QED BY <1>2, <2>1, <3>1, <3>2
  <2>3. CASE a # "ok"
    <3>1. client' = Go("status") \/ client' = Go("abort")
      BY <1>3, <2>3 DEF UploadCommit
    <3> QED BY <2>1, <3>1, ClientContinues DEF ClientPhases
  <2> QED BY <2>2, <2>3
<1>4. CASE UploadStatus(a)
  <2>1. ServerGoesOn /\ opState' = opState /\ (a \in States => a = opState) /\ client.phase # "done"
    BY <1>4, StatusTrue DEF UploadStatus
  <2>2. CASE a = "COMMITTED"
    <3>1. client' = Go("leave") /\ opState' = "COMMITTED"
      BY <1>4, <2>1, <2>2 DEF UploadStatus, States
    <3> QED BY <1>2, <2>1, <3>1
  <2>3. CASE a # "COMMITTED"
    <3>1. client' = Finish("unknown")
      BY <1>4, <2>3 DEF UploadStatus
    <3> QED BY <2>1, <3>1, ClientUnknown
  <2> QED BY <2>2, <2>3
<1>5. CASE UploadAbort(a)
  <2>1. ServerGoesOn /\ client.phase # "done" /\ client' = Finish("failed")
    BY <1>5, RequestKinds, CallGoesOn DEF UploadAbort
  <2>2. client' \in ClientRecords /\ client'.phase = "done" /\ client'.outcome = "failed" /\ client'.revision = client.revision
    BY <2>1, ClientMoves
  <2> QED BY <1>1, <2>1, <2>2 DEF ClientGoesOn, CommitInv, RevisionBehind
<1>6. CASE UploadLeave
  <2>1. ServerGoesOn /\ opState' = opState /\ opState = "COMMITTED" /\ client.phase # "done"
    BY <1>6, ServerRests DEF UploadLeave, CommitInv, LeavingCommitted, serverVars
  <2>2. client' = Go("abort") \/ client' = Finish("ok")
    BY <1>6 DEF UploadLeave
  <2> QED BY <2>1, <2>2, ClientContinues, ClientSucceeds DEF ClientPhases
<1> QED BY <1>3, <1>4, <1>5, <1>6

\* The keepalive thread moves the copy of the handle, to what the server had.
LEMMA RenewGoesOn ==
  ASSUME CommitInv, RenewServed \/ RenewApplied \/ RenewFails
  PROVE  ClientGoesOn /\ ServerGoesOn /\ renewal' \in [failed : BOOLEAN, answer : 0..2]
<1>1. renewal \in [failed : BOOLEAN, answer : 0..2]
  BY DEF CommitInv, ClientTypeOK
<1>2. ServerGoesOn
  BY ServerRests DEF RenewServed, RenewApplied, RenewFails, serverVars
<1>3. CASE RenewServed
  <2>1. onServer \in 0..2
    BY ServerTypes
  <2>2. renewal' = [renewal EXCEPT !.answer = onServer] /\ client' = client
    BY <1>3 DEF RenewServed
  <2> QED BY <1>1, <1>2, <2>1, <2>2, ClientRests
<1>4. CASE RenewFails
  <2>1. 0 \in 0..2 /\ renewal' = [failed |-> TRUE, answer |-> 0] /\ client' = client
    BY <1>4 DEF RenewFails
  <2> QED BY <1>2, <2>1, ClientRests
<1>5. CASE RenewApplied
  <2>1. renewal' \in [failed : BOOLEAN, answer : 0..2]
    <3>1. 0 \in 0..2 /\ renewal' = [renewal EXCEPT !.answer = 0]
      BY <1>5 DEF RenewApplied
    <3> QED BY <1>1, <3>1
  <2>2. CASE client' = client
    BY <1>2, <2>1, <2>2, ClientRests
  <2>3. CASE client' # client
    <3>1. PICK n \in 1..2 : client' = [client EXCEPT !.revision = n, !.snapshot = n]
      <4>1. renewal.answer \in 1..2
        BY <1>1, <1>5 DEF RenewApplied
      <4>2. client' = [client EXCEPT !.revision = renewal.answer, !.snapshot = renewal.answer]
        BY <1>5, <2>3 DEF RenewApplied
      <4> QED BY <4>1, <4>2
    <3>2. n \in 1..3 /\ n <= 2
      OBVIOUS
    <3>3. client' \in ClientRecords
      BY <3>1, <3>2, ServerTypes DEF ClientRecords
    <3>4. client'.phase = client.phase /\ client'.outcome = client.outcome /\ client'.revision = n
          /\ client'.attempt = client.attempt
      BY <3>1, ServerTypes DEF ClientRecords
    <3>5. opState' = opState
      BY <1>5 DEF RenewApplied
    <3> QED BY <1>2, <2>1, <3>2, <3>3, <3>4, <3>5 DEF CommitInv, LeavingCommitted, FailedEnded, ReportedCommitted, BeginningOpen,
                                                                 ClientGoesOn
  <2> QED BY <2>2, <2>3
<1> QED BY <1>3, <1>4, <1>5

\* Every step keeps the invariant.
LEMMA CommitNextInv == ASSUME CommitInv, [ClientNext]_clientVars PROVE CommitInv'
<1>1. /\ renewal \in [failed : BOOLEAN, answer : 0..2] /\ sent \subseteq Requests
      /\ fenced \in BOOLEAN /\ durable \in BOOLEAN /\ authentic \in BOOLEAN
  BY DEF CommitInv, ClientTypeOK
<1>2. client.attempt \in 1..MaxAttempts /\ MyCommit \in Requests
  BY ServerTypes, RequestKinds DEF ClientRecords, MyCommit
<1>3. CASE ClientStep
  <2>1. ServerGoesOn /\ ClientGoesOn
    <3>1. "ok" \in Answers
      BY DEF Answers
    <3> QED BY <1>3, <3>1, WriteCommitGoesOn, WriteEndGoesOn, UploadGoesOn DEF ClientStep
  <2>2. sent' \subseteq Requests /\ UNCHANGED <<kind, fenced, durable, authentic, renewal>>
    BY <1>1, <1>3, RequestKinds DEF ClientStep
  <2> QED BY <1>1, <2>1, <2>2, CommitTogether
<1>4. CASE ApplicationRetries
  <2>1. ServerGoesOn /\ ClientGoesOn
    BY <1>4, WriteEndGoesOn DEF ApplicationRetries
  <2>2. UNCHANGED <<kind, fenced, durable, authentic, sent, renewal>>
    BY <1>4 DEF ApplicationRetries
  <2> QED BY <1>1, <2>1, <2>2, CommitTogether
<1>5. CASE Prepared \/ PrepareFails
  <2>1. ServerGoesOn
    BY <1>5, ServerRests DEF Prepared, PrepareFails, serverVars
  <2>2. ClientGoesOn
    <3>1. client.phase # "done" /\ (client' = Go("commit") \/ client' = Raise("failed") \/ client' = Go("abort"))
      BY <1>5 DEF Prepared, PrepareFails
    <3> QED BY <2>1, <3>1, ClientContinues DEF ClientPhases
  <2>3. sent' \subseteq Requests /\ UNCHANGED <<kind, fenced, durable, authentic, renewal>>
    BY <1>1, <1>2, <1>5 DEF Prepared, PrepareFails
  <2> QED BY <1>1, <2>1, <2>2, <2>3, CommitTogether
<1>6. CASE \E q \in Requests : Execute(q)
  <2>1. ServerGoesOn /\ UNCHANGED <<kind, fenced, durable, authentic, sent, client, renewal>>
    BY <1>6, ServeGoesOn DEF Execute
  <2> QED BY <1>1, <2>1, ClientRests, CommitTogether
<1>7. CASE ExpireOperation
  <2>1. UNCHANGED <<kind, fenced, durable, authentic, recorded, onServer, sent, client, renewal>>
        /\ opState = "PREPARING" /\ opState' = "EXPIRED"
    BY <1>7 DEF ExpireOperation
  <2>2. ServerGoesOn
    BY <2>1, ServerTypes DEF ServerGoesOn, States, CommitInv, RecordedCommitted
  <2> QED BY <1>1, <2>1, <2>2, ClientRests, CommitTogether
<1>8. CASE Environment
  <2>1. UNCHANGED <<kind, opState, recorded, onServer, sent, client, renewal>>
    BY <1>8 DEF Environment
  <2>2. fenced' \in BOOLEAN /\ durable' \in BOOLEAN /\ authentic' \in BOOLEAN
    BY <1>1, <1>8, Zenon DEF Environment
  <2>3. ServerGoesOn
    BY <2>1, ServerRests DEF serverVars
  <2> QED BY <1>1, <2>1, <2>2, <2>3, ClientRests, CommitTogether
<1>9. CASE RenewServed \/ RenewApplied \/ RenewFails
  <2>1. UNCHANGED <<kind, fenced, durable, authentic, sent>>
    BY <1>9 DEF RenewServed, RenewApplied, RenewFails
  <2> QED BY <1>1, <1>9, <2>1, RenewGoesOn, CommitTogether
<1>10. CASE UNCHANGED clientVars
  <2>1. UNCHANGED <<kind, fenced, durable, authentic, sent, client, renewal>> /\ UNCHANGED serverVars
    BY <1>10 DEF clientVars, serverVars
  <2> QED BY <1>1, <2>1, ServerRests, ClientRests, CommitTogether
<1>11. CASE BeginAgain
  <2>1. UNCHANGED <<kind, fenced, durable, authentic, sent>>
    BY <1>11 DEF BeginAgain
  <2> QED BY <1>1, <1>11, <2>1, BeginGoesOn, CommitTogether
<1> QED BY <1>3, <1>4, <1>5, <1>6, <1>7, <1>8, <1>9, <1>10, <1>11 DEF ClientNext

\* The inductive invariant of a call that commits, for any number of repeated calls: a
\* recorded response or a leaving upload means a published operation, and a write that was
\* reported as failed, other than by the plain error of a resumed call, has ended
\* (commit_write, _finish_write, _write_serialized, send).
THEOREM CommitCorrect == ClientSpec => []CommitInv
  BY CommitInitInv, CommitNextInv, PTL DEF ClientSpec

-----------------------------------------------------------------------------
(* ClientRead.                                                              *)

ReaderRecords ==
  [kind : {"range", "download"}, overwrite : BOOLEAN,
   phase : {"stream", "resolve", "next", "leave", "publish", "done", "error"},
   block : 1..MaxBlock, from : 0..MaxChunk, wire : 0..MaxChunk, retries : 0..MaxRetries,
   node : Replicas, failed : SUBSET Replicas]
Total == MaxBlock * MaxChunk

\* The chunks are the content from its beginning.
InOrder == Len(out) <= Total /\ \A i \in 1..Len(out) : out[i] = i

\* How many chunks there are says where the call is: in a stream, what was there when it was
\* asked for and what has come since; after a break, less than the block; between two blocks,
\* all of the first; at the end, everything.
Positioned ==
  /\ reader.phase = "stream" => Len(out) = Start(reader.block) + reader.from + reader.wire /\ reader.from + reader.wire <= MaxChunk
  /\ reader.phase = "resolve" =>
       IF reader.kind = "range"
       THEN Len(out) >= Start(reader.block) /\ Len(out) < Start(reader.block) + MaxChunk
       ELSE Len(out) = Start(reader.block)
  /\ reader.phase = "next" => Len(out) = Start(reader.block) + MaxChunk
  /\ reader.phase \in {"leave", "publish", "done"} => Len(out) = Total

ReadInv == ReadTypeOK /\ InOrder /\ Positioned /\ target # "partial"

\* Where blocks start.
LEMMA Starts ==
  /\ Total \in Nat /\ MaxChunk \in Nat /\ MaxBlock \in Nat /\ MaxRetries \in Nat /\ Start(1) = 0
  /\ \A b \in 1..MaxBlock : /\ Start(b) \in Nat /\ Start(b) + MaxChunk <= Total
                            /\ b < MaxBlock => b + 1 \in 1..MaxBlock /\ Start(b + 1) = Start(b) + MaxChunk
                            /\ b = MaxBlock => Start(b) + MaxChunk = Total
<1>1. MaxBlock \in Nat /\ MaxChunk \in Nat /\ MaxRetries \in Nat
  BY ReadAssumption
<1>2. \A m, n \in Nat : m * n \in Nat
  OBVIOUS
<1>3. Total \in Nat
  BY <1>1, <1>2 DEF Total
<1>4. ASSUME NEW b \in 1..MaxBlock
      PROVE  /\ Start(b) \in Nat /\ Start(b) + MaxChunk <= Total
             /\ b < MaxBlock => b + 1 \in 1..MaxBlock /\ Start(b + 1) = Start(b) + MaxChunk
             /\ b = MaxBlock => Start(b) + MaxChunk = Total
  <2>1. b - 1 \in Nat /\ MaxBlock - b \in Nat
    BY <1>1
  <2>2. Start(b) \in Nat /\ (MaxBlock - b) * MaxChunk \in Nat
    BY <1>1, <1>2, <2>1 DEF Start
  <2>3. Total = Start(b) + MaxChunk + (MaxBlock - b) * MaxChunk
    BY <1>1, <2>1 DEF Total, Start
  <2>4. Start(b + 1) = Start(b) + MaxChunk
    BY <1>1, <2>1 DEF Start
  <2>5. b = MaxBlock => (MaxBlock - b) * MaxChunk = 0
    BY <1>1
  <2> QED BY <1>1, <1>3, <2>1, <2>2, <2>3, <2>4, <2>5
<1>5. Start(1) = 0
  BY <1>1 DEF Start
<1> QED BY <1>1, <1>3, <1>4, <1>5

\* Chunks in order are a beginning of the content, and all of it when they are as many.
LEMMA InOrderWhole ==
  ASSUME ReadTypeOK, InOrder
  PROVE  out = SubSeq(Whole, 1, Len(out)) /\ (Len(out) = Total => out = Whole)
<1>1. out \in Seq(1..Total) /\ Len(out) \in Nat /\ Total \in Nat
  BY Starts DEF ReadTypeOK, Total
<1>2. Whole \in Seq(1..Total) /\ Len(Whole) = Total /\ \A i \in 1..Total : Whole[i] = i
  <2>1. Whole = [i \in 1..Total |-> i]
    BY DEF Whole, Total
  <2>2. Whole \in [1..Total -> 1..Total]
    BY <2>1
  <2> QED BY <1>1, <2>1, <2>2
<1>3. \A i \in 1..Len(out) : Whole[i] \in 1..Total /\ Whole[i] = i
  BY <1>1, <1>2 DEF InOrder
<1>4. /\ SubSeq(Whole, 1, Len(out)) \in Seq(1..Total) /\ Len(SubSeq(Whole, 1, Len(out))) = Len(out)
      /\ \A i \in 1..Len(out) : SubSeq(Whole, 1, Len(out))[i] = i
  <2>1. /\ SubSeq(Whole, 1, Len(out)) \in Seq(1..Total)
        /\ Len(SubSeq(Whole, 1, Len(out))) = IF 1 <= Len(out) THEN Len(out) - 1 + 1 ELSE 0
        /\ \A i \in 1..(Len(out) - 1 + 1) : SubSeq(Whole, 1, Len(out))[i] = Whole[1 + i - 1]
    BY <1>1, <1>3, SubSeqProperties
  <2> QED BY <1>1, <1>3, <2>1
<1>5. out = SubSeq(Whole, 1, Len(out))
  BY <1>1, <1>4, SeqEqual DEF InOrder
<1>6. Len(out) = Total => out = Whole
  BY <1>1, <1>2, SeqEqual DEF InOrder
<1> QED BY <1>5, <1>6

\* The invariant gives what was asked for.
LEMMA ReadInvWhole == ReadInv => ReadsWhole
  BY InOrderWhole DEF ReadInv, ReadsWhole, Positioned

\* Nothing was read.
LEMMA ReadInitInv == ReadInit => ReadInv
<1> SUFFICES ASSUME ReadInit PROVE ReadInv
  OBVIOUS
<1>1. 1 \in 1..MaxBlock /\ 0 \in 0..MaxChunk /\ 0 \in 0..MaxRetries
  BY ReadAssumption
<1>2. reader \in ReaderRecords
  BY <1>1 DEF ReadInit, ReaderRecords
<1>3. out \in Seq(1..Total) /\ Len(out) = 0
  BY DEF ReadInit
<1>4. lapsed \in BOOLEAN
  BY Zenon DEF ReadInit
<1>5. ReadTypeOK
  BY <1>2, <1>3, <1>4 DEF ReadInit, ReadTypeOK, ReaderRecords, Total
<1>6. reader.phase = "stream" /\ reader.block = 1 /\ reader.from = 0 /\ reader.wire = 0
  BY DEF ReadInit
<1> QED BY <1>3, <1>5, <1>6, Starts DEF ReadInit, ReadInv, InOrder, Positioned

\* What the invariant says of a reader.
LEMMA ReaderTypes ==
  ReadInv => reader \in ReaderRecords /\ out \in Seq(1..Total) /\ Len(out) \in Nat /\ lapsed \in BOOLEAN /\ listed \subseteq Replicas
             /\ target \in {"absent", "foreign", "whole"}
  BY DEF ReadInv, ReadTypeOK, ReaderRecords, Total

\* A step that goes to another phase.
LEMMA ToPhase ==
  ASSUME ReadInv, NEW p \in {"next", "leave", "publish", "done", "error"}
  PROVE  /\ To(p) \in ReaderRecords /\ To(p).phase = p /\ To(p).kind = reader.kind /\ To(p).block = reader.block
  BY ReaderTypes DEF To, ReaderRecords

\* The parts put together.
LEMMA ReadTogether ==
  ASSUME ReadInv, reader' \in ReaderRecords, out' \in Seq(1..Total), listed' \subseteq Replicas, lapsed' \in BOOLEAN,
         target' \in {"absent", "foreign", "whole"}, InOrder', Positioned'
  PROVE  ReadInv'
<1>1. ReadTypeOK'
  BY DEF ReadTypeOK, ReaderRecords, Total
<1> QED BY <1>1 DEF ReadInv

\* A step that leaves what was read alone and goes to a later phase.
LEMMA PhaseInv ==
  ASSUME ReadInv, NEW p \in {"next", "leave", "publish", "done", "error"}, reader' = To(p), out' = out, listed' = listed, lapsed' = lapsed,
         target' \in {"absent", "foreign", "whole"},
         p = "next" => Len(out) = Start(reader.block) + MaxChunk,
         p \in {"leave", "publish", "done"} => Len(out) = Total
  PROVE  ReadInv'
<1>1. reader' \in ReaderRecords /\ reader'.phase = p /\ reader'.block = reader.block
  BY ToPhase
<1>2. InOrder'
  BY DEF ReadInv, InOrder
<1>3. Positioned'
  BY <1>1 DEF Positioned
<1> QED BY <1>1, <1>2, <1>3, ReaderTypes, ReadTogether

\* A chunk arrives.
LEMMA ChunkInv == ASSUME ReadInv, Chunk PROVE ReadInv'
<1>1. reader \in ReaderRecords /\ out \in Seq(1..Total) /\ Len(out) \in Nat
  BY ReaderTypes
<1>2. reader.from \in Nat /\ reader.wire \in Nat /\ reader.block \in 1..MaxBlock /\ MaxChunk \in Nat /\ Total \in Nat
  BY <1>1, Starts DEF ReaderRecords
<1>3. Start(reader.block) \in Nat /\ Start(reader.block) + MaxChunk <= Total
  BY <1>2, Starts
<1>4. Len(out) = Start(reader.block) + reader.from + reader.wire /\ reader.from + reader.wire < MaxChunk
  BY DEF Chunk, ReadInv, Positioned
<1>5. Len(out) + 1 \in 1..Total /\ out' = Append(out, Len(out) + 1)
  <2>1. Start(reader.block) + reader.from + reader.wire + 1 = Len(out) + 1
    BY <1>4
  <2>2. Len(out) + 1 \in 1..Total
    <3>1. \A l, c, f, w, m, n \in Nat : l = c + f + w /\ f + w < m /\ c + m <= n => l + 1 \in 1..n
      OBVIOUS
    <3> QED BY <1>1, <1>2, <1>3, <1>4, <3>1
  <2> QED BY <2>1, <2>2 DEF Chunk
<1>6. /\ out' \in Seq(1..Total) /\ Len(out') = Len(out) + 1 /\ out'[Len(out) + 1] = Len(out) + 1
      /\ \A i \in 1..Len(out) : out'[i] = out[i]
  BY <1>1, <1>5, AppendProperties
<1>7. InOrder'
  <2>1. \A i \in 1..(Len(out) + 1) : out'[i] = i
    BY <1>1, <1>6 DEF ReadInv, InOrder
  <2> QED BY <1>1, <1>2, <1>5, <1>6, <2>1 DEF InOrder
<1>8. reader' = [reader EXCEPT !.wire = reader.wire + 1] /\ reader.wire + 1 \in 0..MaxChunk
  BY <1>2, <1>4 DEF Chunk
<1>9. reader' \in ReaderRecords
  BY <1>1, <1>8 DEF ReaderRecords
<1>10. reader'.phase = "stream" /\ reader'.block = reader.block /\ reader'.from = reader.from /\ reader'.wire = reader.wire + 1
  BY <1>1, <1>8 DEF ReaderRecords, Chunk
<1>11. Positioned'
  <2>1. Start(reader'.block) = Start(reader.block)
    BY <1>10
  <2>2. Len(out') = Start(reader.block) + reader.from + (reader.wire + 1) /\ reader.from + (reader.wire + 1) <= MaxChunk
    <3>1. PICK l, c, f, w \in Nat : l = Len(out) /\ c = Start(reader.block) /\ f = reader.from /\ w = reader.wire
      BY <1>1, <1>2, <1>3
    <3>2. l = c + f + w /\ f + w < MaxChunk
      BY <1>4, <3>1
    <3>3. l + 1 = c + f + (w + 1) /\ f + (w + 1) <= MaxChunk
      BY <1>2, <3>2
    <3> QED BY <1>6, <3>1, <3>3
  <2> QED BY <1>10, <2>1, <2>2 DEF Positioned
<1>12. listed' = listed /\ lapsed' = lapsed /\ target' = target
  BY DEF Chunk
<1> QED BY <1>6, <1>7, <1>9, <1>11, <1>12, ReaderTypes, ReadTogether

\* A stream breaks: a range keeps its chunks, a download those of the blocks before.
LEMMA StreamBreaksInv == ASSUME ReadInv, StreamBreaks PROVE ReadInv'
<1>1. reader \in ReaderRecords /\ out \in Seq(1..Total) /\ Len(out) \in Nat
  BY ReaderTypes
<1>2. reader.from \in Nat /\ reader.wire \in Nat /\ reader.block \in 1..MaxBlock /\ MaxChunk \in Nat /\ Total \in Nat
      /\ reader.retries \in 0..MaxRetries /\ MaxRetries \in Nat
  BY <1>1, Starts DEF ReaderRecords
<1>3. Start(reader.block) \in Nat /\ Start(reader.block) + MaxChunk <= Total
  BY <1>2, Starts
<1>4. Len(out) = Start(reader.block) + reader.from + reader.wire /\ reader.from + reader.wire <= MaxChunk
  BY DEF StreamBreaks, ReadInv, Positioned
<1>5. listed' = listed /\ lapsed' = lapsed /\ target' = target
  BY DEF StreamBreaks
<1>6. CASE reader' = To("error") /\ UNCHANGED out
  BY <1>5, <1>6, ReaderTypes, PhaseInv
<1>7. CASE ~(reader' = To("error") /\ UNCHANGED out)
  <2>1. /\ reader.retries < MaxRetries /\ (reader.kind = "range" => Received < MaxChunk)
        /\ reader' = [reader EXCEPT !.phase = "resolve", !.retries = @ + 1, !.failed = @ \cup {reader.node}]
        /\ out' = RollBack
    BY <1>7 DEF StreamBreaks
  <2>2. reader.retries + 1 \in 0..MaxRetries /\ reader.failed \cup {reader.node} \in SUBSET Replicas
    BY <1>1, <1>2, <2>1 DEF ReaderRecords
  <2>3. reader' \in ReaderRecords
    BY <1>1, <2>1, <2>2 DEF ReaderRecords
  <2>4. reader'.phase = "resolve" /\ reader'.kind = reader.kind /\ reader'.block = reader.block
    BY <1>1, <2>1 DEF ReaderRecords
  <2>5. CASE reader.kind = "range"
    <3>1. out' = out /\ Len(out) - Start(reader.block) < MaxChunk
      BY <2>1, <2>5 DEF RollBack, Received
    <3>2. InOrder'
      BY <3>1 DEF ReadInv, InOrder
    <3>3. Positioned'
      <4>1. Len(out) >= Start(reader.block) /\ Len(out) < Start(reader.block) + MaxChunk
        BY <1>1, <1>2, <1>3, <1>4, <3>1
      <4>2. Start(reader'.block) = Start(reader.block) /\ Len(out') = Len(out)
        BY <2>4, <3>1
      <4> QED BY <2>4, <2>5, <4>1, <4>2 DEF Positioned
    <3> QED BY <1>1, <1>5, <2>3, <3>1, <3>2, <3>3, ReaderTypes, ReadTogether
  <2>6. CASE reader.kind # "range"
    <3> DEFINE n == Start(reader.block)
    <3>1. reader.kind = "download" /\ out' = SubSeq(out, 1, n) /\ n \in Nat /\ n <= Len(out) /\ n <= Total
      <4>1. reader.kind = "download"
        BY <1>1, <2>6 DEF ReaderRecords
      <4>2. \A l, c, f, w, m, t \in Nat : l = c + f + w /\ c + m <= t => c <= l /\ c <= t
        OBVIOUS
      <4> QED BY <1>1, <1>2, <1>3, <1>4, <2>1, <4>1, <4>2 DEF RollBack
    <3> HIDE DEF n
    <3>2. \A i \in 1..n : out[i] = i /\ out[i] \in 1..Total
      <4>1. \A i \in 1..n : i \in 1..Len(out) /\ i \in 1..Total
        BY <1>1, <1>2, <3>1
      <4>2. \A i \in 1..Len(out) : out[i] = i
        BY DEF ReadInv, InOrder
      <4> QED BY <4>1, <4>2
    <3>3. /\ out' \in Seq(1..Total) /\ Len(out') = (IF 1 <= n THEN n - 1 + 1 ELSE 0)
          /\ \A i \in 1..(n - 1 + 1) : out'[i] = out[1 + i - 1]
      BY <3>1, <3>2, SubSeqProperties
    <3>4. Len(out') = n /\ \A i \in 1..n : out'[i] = i
      BY <3>1, <3>2, <3>3
    <3>5. InOrder'
      BY <3>1, <3>4 DEF InOrder
    <3>6. Positioned'
      BY <2>4, <3>1, <3>4 DEF Positioned, n
    <3> QED BY <1>5, <2>3, <3>3, <3>5, <3>6, ReaderTypes, ReadTogether
  <2> QED BY <2>5, <2>6
<1> QED BY <1>6, <1>7

\* A new stream is asked for from where what was read ends.
LEMMA ResolveInv == ASSUME ReadInv, Resolve PROVE ReadInv'
<1>1. reader \in ReaderRecords /\ out' = out /\ Len(out) \in Nat /\ listed' = listed /\ lapsed' = lapsed /\ target' = target
      /\ reader.phase = "resolve" /\ out \in Seq(1..Total)
  BY ReaderTypes DEF Resolve
<1>2. CASE reader' = To("error")
  BY <1>1, <1>2, ReaderTypes, PhaseInv
<1>3. CASE reader' # To("error")
  <2>1. PICK n \in Replicas : reader' = Retry(n)
    BY <1>3, ReaderTypes DEF Resolve
  <2>2. Start(reader.block) \in Nat /\ MaxChunk \in Nat /\ reader.kind \in {"range", "download"}
    BY <1>1, Starts DEF ReaderRecords
  <2>3. ResumeAt \in 0..MaxChunk /\ Len(out) = Start(reader.block) + ResumeAt
    BY <1>1, <2>2 DEF ReadInv, Positioned, ResumeAt, Received
  <2>4. PICK m \in 0..MaxChunk : m = ResumeAt
    BY <2>3
  <2>5. reader' = [reader EXCEPT !.phase = "stream", !.node = n, !.from = m, !.wire = 0] /\ 0 \in 0..MaxChunk
    BY <2>1, <2>2, <2>4 DEF Retry
  <2>6. reader' \in ReaderRecords
    BY <1>1, <2>5 DEF ReaderRecords
  <2>7. reader'.phase = "stream" /\ reader'.block = reader.block /\ reader'.from = m /\ reader'.wire = 0
    BY <1>1, <2>5 DEF ReaderRecords
  <2>8. Positioned'
    BY <1>1, <2>2, <2>3, <2>4, <2>7 DEF Positioned
  <2>9. InOrder'
    BY <1>1 DEF ReadInv, InOrder
  <2> QED BY <1>1, <2>6, <2>8, <2>9, ReaderTypes, ReadTogether
<1> QED BY <1>2, <1>3

\* The next block starts where this one ends.
LEMMA NextBlockInv == ASSUME ReadInv, NextBlock PROVE ReadInv'
<1>1. reader \in ReaderRecords /\ out' = out /\ Len(out) \in Nat /\ listed' = listed /\ lapsed' = lapsed /\ target' = target
      /\ reader.phase = "next" /\ out \in Seq(1..Total) /\ reader.block \in 1..MaxBlock
  BY ReaderTypes DEF NextBlock, ReaderRecords
<1>2. Len(out) = Start(reader.block) + MaxChunk
  BY <1>1 DEF ReadInv, Positioned
<1>3. CASE reader.block = MaxBlock /\ reader' = To("leave")
  <2>1. Len(out) = Total
    BY <1>1, <1>2, <1>3, Starts
  <2> QED BY <1>1, <1>3, <2>1, ReaderTypes, PhaseInv
<1>4. CASE ~(reader.block = MaxBlock /\ reader' = To("leave"))
  <2>1. PICK n \in Replicas :
          reader' = [reader EXCEPT !.phase = "stream", !.block = reader.block + 1, !.from = 0, !.wire = 0,
                                   !.retries = 0, !.node = n, !.failed = {}]
    BY <1>4 DEF NextBlock
  <2>2. /\ reader.block < MaxBlock /\ reader.block + 1 \in 1..MaxBlock /\ Start(reader.block + 1) = Start(reader.block) + MaxChunk
        /\ MaxChunk \in Nat /\ 0 \in 0..MaxChunk /\ 0 \in 0..MaxRetries
    <3>1. reader.block < MaxBlock
      BY <1>4 DEF NextBlock
    <3>2. MaxChunk \in Nat /\ MaxRetries \in Nat
      BY Starts
    <3>3. reader.block + 1 \in 1..MaxBlock /\ Start(reader.block + 1) = Start(reader.block) + MaxChunk
      <4>1. PICK b \in 1..MaxBlock : b = reader.block
        BY <1>1
      <4>2. b + 1 \in 1..MaxBlock /\ Start(b + 1) = Start(b) + MaxChunk
        BY <3>1, <4>1, Starts
      <4> QED BY <4>1, <4>2
    <3> QED BY <3>1, <3>2, <3>3
  <2>3. reader' \in ReaderRecords
    BY <1>1, <2>1, <2>2 DEF ReaderRecords
  <2>4. reader'.phase = "stream" /\ reader'.block = reader.block + 1 /\ reader'.from = 0 /\ reader'.wire = 0
    BY <1>1, <2>1 DEF ReaderRecords
  <2>5. Positioned'
    BY <1>1, <1>2, <2>2, <2>4 DEF Positioned
  <2>6. InOrder'
    BY <1>1 DEF ReadInv, InOrder
  <2> QED BY <1>1, <2>3, <2>5, <2>6, ReaderTypes, ReadTogether
<1> QED BY <1>3, <1>4

\* The end of a stream and of a call.
LEMMA ReadEndsInv == ASSUME ReadInv, StreamEnds \/ Fails \/ Leave \/ PublishFile PROVE ReadInv'
<1>1. reader \in ReaderRecords /\ out' = out /\ Len(out) \in Nat /\ listed' = listed /\ lapsed' = lapsed
  BY ReaderTypes DEF StreamEnds, Fails, Leave, PublishFile
<1>2. reader.from \in Nat /\ reader.wire \in Nat
  BY <1>1 DEF ReaderRecords
<1>3. CASE StreamEnds \/ Fails
  <2>1. target' = target /\ (reader' = To("error") \/ (reader' = To("next") /\ reader.phase = "stream" /\ reader.from + reader.wire = MaxChunk))
    BY <1>3 DEF StreamEnds, Fails
  <2>2. reader' = To("next") => Len(out) = Start(reader.block) + MaxChunk \/ reader' = To("error")
    <3>1. reader.block \in 1..MaxBlock
      BY <1>1 DEF ReaderRecords
    <3>2. Start(reader.block) \in Nat
      BY <3>1, Starts
    <3> QED BY <1>2, <2>1, <3>2 DEF ReadInv, Positioned
  <2>3. CASE reader' = To("error")
    BY <1>1, <2>1, <2>3, ReaderTypes, PhaseInv
  <2>4. CASE reader' # To("error")
    BY <1>1, <2>1, <2>2, <2>4, ReaderTypes, PhaseInv
  <2> QED BY <2>3, <2>4
<1>4. CASE Leave
  <2>1. Len(out) = Total /\ target' = target
    BY <1>4 DEF Leave, ReadInv, Positioned
  <2>2. reader' = To("error") \/ reader' = To("publish") \/ reader' = To("done")
    BY <1>4 DEF Leave
  <2> QED BY <1>1, <2>1, <2>2, ReaderTypes, PhaseInv
<1>5. CASE PublishFile
  <2>1. Len(out) = Total
    BY <1>5 DEF PublishFile, ReadInv, Positioned
  <2>2. Content = "whole"
    BY <2>1, InOrderWhole DEF Content, ReadInv
  <2>3. target' \in {"absent", "foreign", "whole"} /\ (reader' = To("done") \/ reader' = To("error"))
    BY <1>5, <2>2, ReaderTypes DEF PublishFile
  <2> QED BY <1>1, <2>1, <2>3, PhaseInv
<1> QED BY <1>3, <1>4, <1>5

\* Every step keeps the invariant.
LEMMA ReadNextInv == ASSUME ReadInv, [ReadNext]_readVars PROVE ReadInv'
<1>1. CASE Around \/ UNCHANGED readVars
  <2>1. reader' = reader /\ out' = out
    BY <1>1 DEF Around, readVars
  <2>2. lapsed' \in BOOLEAN
    <3>1. lapsed \in BOOLEAN
      BY ReaderTypes
    <3> QED BY <1>1, <3>1, Zenon DEF Around, readVars
  <2>3. listed' \subseteq Replicas /\ target' \in {"absent", "foreign", "whole"}
    BY <1>1, ReaderTypes DEF Around, readVars
  <2>4. InOrder' /\ Positioned'
    BY <2>1 DEF ReadInv, InOrder, Positioned
  <2> QED BY <2>1, <2>2, <2>3, <2>4, ReaderTypes, ReadTogether
<1>2. CASE ReadStep
  BY <1>2, ChunkInv, StreamBreaksInv, ResolveInv, NextBlockInv, ReadEndsInv DEF ReadStep
<1> QED BY <1>1, <1>2 DEF ReadNext

\* The inductive invariant of a read, for any number of replicas, blocks, chunks and
\* retries: the number of chunks says where the call is (_iter_read, download_block).
THEOREM ReadCorrect == ReadSpec => []ReadInv
  BY ReadInitInv, ReadNextInv, PTL DEF ReadSpec

-----------------------------------------------------------------------------
(* Client.                                                                  *)

\* For any number of repeated calls, replicas, blocks, chunks and retries: what the SDK
\* reports as written is published, a write it reports as failed is not and never will be,
\* and what a caller has read is the content from its beginning, all of it when the call
\* succeeds (commit_write, _finish_write, send, _iter_read, receive_handle).
THEOREM ClientToldTruth == SDKSpec => []ToldTrue
<1>1. CommitInv /\ ReadInv => ToldTrue
  BY CommitInvTrue, ReadInvWhole DEF ToldTrue
<1> QED BY <1>1, CommitCorrect, ReadCorrect, PTL DEF SDKSpec
=============================================================================
