---------------------------- MODULE MetadataGate ----------------------------
(***************************************************************************)
(* The write transaction of the etcd metadata store: several worker threads *)
(* of several controls take a gate key, read the root, work, and publish a  *)
(* new root with one guarded etcd Txn, over a channel that repeats a request *)
(* on the next endpoint when an answer does not come in time.               *)
(*                                                                          *)
(* etcd itself is external: a Txn or a read is atomic and linearizable, and *)
(* the keys attached to a lease vanish when it runs out.  An attempt that   *)
(* timed out may have been applied, may be applied later, or never.         *)
(*                                                                          *)
(* A transaction is named by its owner uuid.  The content of the root is    *)
(* the set of transactions published in it, which is what a digest of all   *)
(* records tells apart here.                                                *)
(***************************************************************************)
EXTENDS Integers, FiniteSets

CONSTANTS
  Threads,   \* worker threads, each with its thread-local gate lease
  MaxTx,     \* transactions that ever send a request
  Leases,    \* identifiers of gate leases
  LeaseTTL,  \* metadata_gate_lease_seconds, in ticks
  Endpoints, \* etcd endpoints, hence attempts per request
  MaxOwners, \* times the ownership key (a lease, the maintenance leader) is taken
  NoLease

ASSUME GateAssumption ==
  /\ MaxTx \in Nat /\ LeaseTTL \in Nat \ {0} /\ Endpoints \in Nat \ {0}
  /\ MaxOwners \in Nat /\ NoLease \notin Leases

Tx == 1..MaxTx

VARIABLES
  gate,    \* transaction holding the gate key, 0 for none
  root,    \* published content and its modification revision
  key,     \* value of the lease-backed ownership key, 0 when it is gone
  owners,  \* ownership values drawn so far
  markers, \* commits/<owner> keys
  lease,   \* remaining life of each gate lease
  net,     \* requests sent and not yet applied
  thread,  \* state of each worker thread
  txs,     \* what each transaction read and was told
  applied, \* history: how many times each transaction was published
  seq      \* transactions drawn so far

vars == <<gate, root, key, owners, markers, lease, net, thread, txs, applied, seq>>
etcd == <<gate, root, key, owners, markers, lease, applied>>

Phases == {"idle", "polling", "acquiring", "holding", "working", "committing", "checking"}
Outcomes == {"none", "committed", "conflict", "unavailable", "refused"}
Messages == [kind : {"acquire", "commit", "cleanup"}, tx : Tx, attempt : 1..Endpoints]

\* Threads, transactions, requests, leases and the root are well typed; a request is repeated at
\* most as often as there are endpoints (FailoverChannel).
TypeOK ==
  /\ gate \in 0..MaxTx
  /\ root \in [content : SUBSET Tx, revision : Nat]
  /\ key \in 0..MaxOwners /\ owners \in 0..MaxOwners
  /\ markers \subseteq Tx
  /\ lease \in [Leases -> 0..LeaseTTL]
  /\ net \subseteq Messages
  /\ thread \in [Threads -> [phase : Phases, tx : 0..MaxTx, lease : Leases \cup {NoLease},
                             attempt : 0..Endpoints, answer : {"none", "yes", "no"},
                             previous_marker : 0..MaxTx]]
  /\ txs \in [Tx -> [lease : Leases \cup {NoLease}, content : SUBSET Tx, revision : Nat,
                     guard : 0..MaxOwners, changes : BOOLEAN, previous : 0..MaxTx,
                     outcome : Outcomes]]
  /\ applied \in [Tx -> Nat]
  /\ seq \in 0..MaxTx

NoTx == [lease |-> NoLease, content |-> {}, revision |-> 0, guard |-> 0, changes |-> FALSE,
         previous |-> 0, outcome |-> "none"]

Init ==
  /\ gate = 0 /\ root = [content |-> {}, revision |-> 1]
  /\ key = 0 /\ owners = 0 /\ markers = {}
  /\ lease = [l \in Leases |-> 0]
  /\ net = {}
  /\ thread = [t \in Threads |-> [phase |-> "idle", tx |-> 0, lease |-> NoLease, attempt |-> 0,
                                  answer |-> "none", previous_marker |-> 0]]
  /\ txs = [x \in Tx |-> NoTx]
  /\ applied = [x \in Tx |-> 0]
  /\ seq = 0

-----------------------------------------------------------------------------
(* etcd.                                                                    *)

\* A lease runs out: its keys go with it.
Tick ==
  LET left == [l \in Leases |-> IF lease[l] > 0 THEN lease[l] - 1 ELSE 0]
      gone == {x \in Tx : txs[x].lease # NoLease /\ left[txs[x].lease] = 0}
  IN  /\ \E l \in Leases : lease[l] > 0
      /\ lease' = left
      /\ gate' = IF gate \in gone THEN 0 ELSE gate
      /\ markers' = markers \ gone
      /\ UNCHANGED <<root, key, owners, net, thread, txs, applied, seq>>

\* The ownership key expires, or a new owner takes it with a fresh value.
KeyExpires ==
  /\ key # 0 /\ key' = 0
  /\ UNCHANGED <<gate, root, owners, markers, lease, net, thread, txs, applied, seq>>
KeyTaken ==
  /\ key = 0 /\ owners < MaxOwners
  /\ owners' = owners + 1 /\ key' = owners + 1
  /\ UNCHANGED <<gate, root, markers, lease, net, thread, txs, applied, seq>>

\* The answer to the attempt a thread is waiting for; earlier attempts' answers
\* were given up.
Answered(m, answer) ==
  [t \in Threads |->
     IF /\ thread[t].tx = m.tx /\ thread[t].attempt = m.attempt
        /\ thread[t].phase = (IF m.kind = "acquire" THEN "acquiring" ELSE "committing")
     THEN [thread[t] EXCEPT !.answer = answer] ELSE thread[t]]

Alive(x) == txs[x].lease # NoLease /\ lease[txs[x].lease] > 0

\* Txn: create the gate if no one has it.  A put under a lease that ran out is an
\* error of etcd and no answer, which the thread meets as Unavailable.
ApplyAcquire(m) ==
  /\ m.kind = "acquire"
  /\ net' = net \ {m}
  /\ \/ /\ gate = 0 /\ Alive(m.tx)
        /\ gate' = m.tx
        /\ thread' = Answered(m, "yes")
     \/ /\ gate = 0 /\ ~Alive(m.tx)
        /\ UNCHANGED <<gate, thread>>
     \/ /\ gate # 0
        /\ thread' = Answered(m, "no")
        /\ UNCHANGED gate
  /\ UNCHANGED <<root, key, owners, markers, lease, txs, applied, seq>>

\* Mutant: the publication is guarded by the gate alone.
CommitGuardsGate(x) == gate = x
\* The guards of the publication: gate ownership, root revision, ownership keys.
CommitGuards(x) ==
  /\ gate = x
  /\ root.revision = txs[x].revision
  /\ txs[x].guard # 0 => key = txs[x].guard

\* Txn: publish, leave a marker, delete the worker's previous marker, free the gate.
ApplyCommit(m) ==
  LET x == m.tx
  IN  /\ m.kind = "commit"
      /\ net' = net \ {m}
      /\ \/ /\ CommitGuards(x)
            /\ root' = IF txs[x].changes
                       THEN [content |-> txs[x].content \cup {x}, revision |-> root.revision + 1]
                       ELSE root
            /\ markers' = (markers \cup {x}) \ {txs[x].previous}
            /\ gate' = 0
            /\ applied' = [applied EXCEPT ![x] = IF txs[x].changes THEN @ + 1 ELSE @]
            /\ thread' = Answered(m, "yes")
         \/ /\ ~CommitGuards(x)
            /\ thread' = Answered(m, "no")
            /\ UNCHANGED <<root, markers, gate, applied>>
      /\ UNCHANGED <<key, owners, lease, txs, seq>>

\* Txn: delete the gate if it is still this transaction's.
ApplyCleanup(m) ==
  /\ m.kind = "cleanup"
  /\ gate' = IF gate = m.tx THEN 0 ELSE gate
  /\ net' = net \ {m}
  /\ UNCHANGED <<root, key, owners, markers, lease, thread, txs, applied, seq>>

-----------------------------------------------------------------------------
(* A worker thread.                                                         *)

\* Identifiers of leases that no key, thread or request can still refer to.
Unused == {l \in Leases : /\ lease[l] = 0
                          /\ \A t \in Threads : thread[t].lease # l
                          /\ \A m \in net : txs[m.tx].lease # l}

\* The lease a thread goes on with after a transaction that was not released: none,
\* so that the next one cannot keep an abandoned gate alive.
LeaseAfterFailure(t) == NoLease

\* gate_lease(): keep the thread's lease alive, or grant a new one if it has none
\* or it ran out.
Begin(t) ==
  /\ thread[t].phase = "idle"
  /\ \E l \in Leases :
       /\ IF thread[t].lease # NoLease /\ lease[thread[t].lease] > 0
          THEN l = thread[t].lease ELSE l \in Unused
       /\ lease' = [lease EXCEPT ![l] = LeaseTTL]
       /\ thread' = [thread EXCEPT ![t].lease = l, ![t].phase = "polling"]
  /\ UNCHANGED <<gate, root, key, owners, markers, net, txs, applied, seq>>

\* The keepalive gets no answer: the request fails before it has a lease.
KeepAliveFails(t) ==
  /\ thread[t].phase = "idle"
  /\ thread[t].lease # NoLease
  /\ thread' = [thread EXCEPT ![t].lease = NoLease]
  /\ UNCHANGED <<etcd, net, txs, seq>>

\* The poll finds the gate free and sends the acquiring Txn.
Acquire(t) ==
  LET x == seq + 1
  IN  /\ thread[t].phase = "polling"
      /\ gate = 0
      /\ seq < MaxTx
      /\ seq' = x
      /\ txs' = [txs EXCEPT ![x].lease = thread[t].lease]
      /\ net' = net \cup {[kind |-> "acquire", tx |-> x, attempt |-> 1]}
      /\ thread' = [thread EXCEPT ![t].tx = x, ![t].phase = "acquiring", ![t].attempt = 1,
                                  ![t].answer = "none"]
      /\ UNCHANGED etcd

\* The wait for the gate runs out, or the poll fails, before any request was sent:
\* the cleanup finds no gate of this owner.
GiveUp(t) ==
  /\ thread[t].phase = "polling"
  /\ thread' = [thread EXCEPT ![t].phase = "idle", ![t].lease = LeaseAfterFailure(t)]
  /\ UNCHANGED <<etcd, net, txs, seq>>

\* Mutant: the endpoints are tried again and again.
RepeatForEver(t) ==
  /\ thread[t].phase \in {"acquiring", "committing"}
  /\ thread' = [thread EXCEPT ![t].attempt = @ + 1, ![t].answer = "none"]
  /\ UNCHANGED <<etcd, net, txs, seq>>

\* The next endpoint is tried with the same request.
Repeat(t) ==
  LET x == thread[t].tx
  IN  /\ thread[t].phase \in {"acquiring", "committing"}
      /\ thread[t].attempt < Endpoints
      /\ net' = net \cup {[kind |-> IF thread[t].phase = "acquiring" THEN "acquire" ELSE "commit",
                           tx |-> x, attempt |-> thread[t].attempt + 1]}
      /\ thread' = [thread EXCEPT ![t].attempt = @ + 1, ![t].answer = "none"]
      /\ UNCHANGED <<etcd, txs, seq>>

\* finally, when the transaction was not released: forget the lease, try to delete
\* the gate, ignore the failure of that.
Unwind(t, outcome) ==
  LET x == thread[t].tx
  IN  /\ txs' = [txs EXCEPT ![x].outcome = outcome]
      /\ net' = net \cup {[kind |-> "cleanup", tx |-> x, attempt |-> 1]}
      /\ thread' = [thread EXCEPT ![t].phase = "idle", ![t].tx = 0,
                                  ![t].lease = LeaseAfterFailure(t),
                                  ![t].attempt = 0, ![t].answer = "none"]
      /\ UNCHANGED <<etcd, seq>>

\* The attempts or their time budget run out, or a read fails: SERVICE_UNAVAILABLE.
Unavailable(t) ==
  /\ thread[t].phase \in {"acquiring", "holding", "committing", "checking"}
  /\ Unwind(t, "unavailable")

\* Another owner won: unless its deadline has passed (Unavailable), the thread polls
\* again and sends a new request with the same owner uuid.  The model bounds these
\* requests together with the repetitions.
LostRace(t) ==
  /\ thread[t].phase = "acquiring" /\ thread[t].answer = "no"
  /\ gate = 0
  /\ thread[t].attempt < Endpoints
  /\ net' = net \cup {[kind |-> "acquire", tx |-> thread[t].tx, attempt |-> thread[t].attempt + 1]}
  /\ thread' = [thread EXCEPT ![t].attempt = @ + 1, ![t].answer = "none"]
  /\ UNCHANGED <<etcd, txs, seq>>

Acquired(t) ==
  /\ thread[t].phase = "acquiring" /\ thread[t].answer = "yes"
  /\ thread' = [thread EXCEPT ![t].phase = "holding", ![t].answer = "none"]
  /\ UNCHANGED <<etcd, net, txs, seq>>

\* Read the root.  The work will change records or not, and depend on the ownership
\* key or not: on its present value (lease_live) or on the one the thread was given
\* earlier (required_guards).
ReadRoot(t) ==
  LET x == thread[t].tx
  IN  /\ thread[t].phase = "holding"
      /\ \E changes \in BOOLEAN, guard \in 0..owners :
           txs' = [txs EXCEPT ![x].content = root.content, ![x].revision = root.revision,
                              ![x].changes = changes, ![x].guard = guard,
                              ![x].previous = thread[t].previous_marker]
      /\ thread' = [thread EXCEPT ![t].phase = "working"]
      /\ UNCHANGED <<etcd, net, seq>>

\* The handler refuses the request: nothing is sent.
Refuse(t) == thread[t].phase = "working" /\ Unwind(t, "refused")

SendCommit(t) ==
  /\ thread[t].phase = "working"
  /\ net' = net \cup {[kind |-> "commit", tx |-> thread[t].tx, attempt |-> 1]}
  /\ thread' = [thread EXCEPT ![t].phase = "committing", ![t].attempt = 1, ![t].answer = "none"]
  /\ UNCHANGED <<etcd, txs, seq>>

\* released: the lease is kept for the next transaction of the thread.
Released(t) ==
  LET x == thread[t].tx
  IN  /\ txs' = [txs EXCEPT ![x].outcome = "committed"]
      /\ thread' = [thread EXCEPT ![t].phase = "idle", ![t].tx = 0, ![t].attempt = 0,
                                  ![t].answer = "none", ![t].previous_marker = x]
      /\ UNCHANGED <<etcd, net, seq>>

Succeeded(t) ==
  /\ thread[t].phase = "committing" /\ thread[t].answer = "yes"
  /\ Released(t)

\* The Txn was answered "not succeeded": an earlier attempt may have committed.
NotSucceeded(t) ==
  /\ thread[t].phase = "committing" /\ thread[t].answer = "no"
  /\ thread' = [thread EXCEPT ![t].phase = "checking"]
  /\ UNCHANGED <<etcd, net, txs, seq>>

\* Mutant: a rejected commit is taken for a lost answer whatever the marker says.
CheckNothing(t) == thread[t].phase = "checking" /\ Released(t)

\* Mutant: a rejected commit is always a conflict.
CheckRejected(t) == thread[t].phase = "checking" /\ Unwind(t, "conflict")

\* The marker decides between a lost answer and VERSION_CONFLICT.
CheckMarker(t) ==
  /\ thread[t].phase = "checking"
  /\ IF thread[t].tx \in markers THEN Released(t) ELSE Unwind(t, "conflict")

Next ==
  \/ Tick \/ KeyExpires \/ KeyTaken
  \/ \E m \in net : ApplyAcquire(m) \/ ApplyCommit(m) \/ ApplyCleanup(m)
  \/ \E t \in Threads :
       \/ Begin(t) \/ KeepAliveFails(t) \/ Acquire(t) \/ GiveUp(t) \/ Repeat(t) \/ Unavailable(t) \/ LostRace(t)
       \/ Acquired(t) \/ ReadRoot(t) \/ Refuse(t) \/ SendCommit(t)
       \/ Succeeded(t) \/ NotSucceeded(t) \/ CheckMarker(t)

Spec == Init /\ [][Next]_vars

\* Time passes; nothing is assumed of threads or of the network.
FairSpec == Spec /\ WF_vars(Tick)

-----------------------------------------------------------------------------
(* Properties.                                                              *)

\* The root is a store with atomic write transactions.
Abstract == INSTANCE AtomicPublication WITH Transactions <- Tx, published <- root.content

\* The store as its callers see it: publications take effect one at a time and none
\* is lost, though gates expire under their owners and requests arrive twice or
\* late (transaction()).
PublishesAtomically == Abstract!Spec

\* A transaction is published at most once, although its requests are repeated.
AtMostOnce == \A x \in Tx : applied[x] <= 1

\* A caller told "committed" has its changes in the root.
CommittedIsPublished ==
  \A x \in Tx : txs[x].outcome = "committed" /\ txs[x].changes => x \in root.content

\* VERSION_CONFLICT is true: a caller whose gate lease lives is told so only if none of its
\* attempts was applied and the ownership key it relied on has changed hands or expired, since
\* nobody else can move the root meanwhile; and one that was told so and is not published by
\* then never is, by an attempt that comes late (transaction(), CheckMarker).  If the lease has
\* run out its marker has gone with it, and what was published may be reported as a conflict.
ConflictIsTrue ==
  [][\A x \in Tx :
       /\ txs[x].outcome = "none" /\ txs'[x].outcome = "conflict" /\ Alive(x) =>
            x \notin root.content /\ txs[x].guard \notin {0, key}
       /\ txs[x].outcome = "conflict" /\ x \notin root.content => x \notin root'.content]_vars

\* An abandoned gate is free again in the end, even if its thread keeps retrying.
GateFreed == \A x \in Tx : []<>(gate # x)
=============================================================================
