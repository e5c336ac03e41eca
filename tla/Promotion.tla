----------------------------- MODULE Promotion -----------------------------
(***************************************************************************)
(* The protection policy of one file: a file that was kept in one copy      *)
(* (R = 1, W = 1) is promoted to R = 3, W = 2 behind a barrier that aborts  *)
(* the writes in preparation and refuses new ones until every version in    *)
(* use has three copies, or five minutes have passed.                       *)
(*                                                                          *)
(* Of the copies of a block version only their number matters here: the     *)
(* domains that ever confirmed one, and those that could serve it now.      *)
(* Where they are and how they are made is in Replication.  The client of a *)
(* change that needs several copies waits for them before it commits: it    *)
(* asks for the protection of the operation, page by page and round by      *)
(* round, while all of the above goes on.  A page has one version here.     *)
(***************************************************************************)
EXTENDS Integers, FiniteSets

CONSTANTS
  Versions,    \* block versions; one that nothing uses any more may be taken again
  MaxPolicy    \* revisions of the policy

ASSUME PolicyAssumption == MaxPolicy \in Nat \ {0}

VARIABLES
  policy,      \* r, revision and state
  copies,      \* each version: domains that confirmed it, and eligible ones
  current,     \* versions of the published snapshot
  pinned,      \* versions of the snapshot of a live handle
  draft,       \* the write or upload in preparation: its state, the policy and the W it
               \* captured, the versions it makes and those it replaces
  waiter       \* its client in wait_durable: the pages left of this round, all ready so far

promotionVars == <<policy, copies, current, pinned, draft, waiter>>

NoDraft == [state |-> "none", revision |-> 0, w |-> 1, new |-> {}, replaced |-> {}]
NoWait == [at |-> "none", left |-> {}, ready |-> FALSE]

PromotionTypeOK ==
  /\ policy \in [r : {1, 3}, revision : 1..MaxPolicy, state : {"ACTIVE", "PROMOTING", "PROMOTION_BLOCKED"}]
  /\ copies \in [Versions -> {k \in [confirmed : 0..3, eligible : 0..3] : k.eligible <= k.confirmed}]
  /\ current \subseteq Versions /\ pinned \subseteq Versions
  /\ draft \in [state : {"none", "PREPARING", "ABORTED"}, revision : 0..MaxPolicy, w : 1..2,
                new : SUBSET Versions, replaced : SUBSET Versions]
  /\ waiter \in [at : {"none", "rounds", "durable"}, left : SUBSET Versions, ready : BOOLEAN]

\* An empty file of the profile with one replica.
PromotionInit ==
  /\ policy = [r |-> 1, revision |-> 1, state |-> "ACTIVE"]
  /\ copies = [v \in Versions |-> [confirmed |-> 0, eligible |-> 0]]
  /\ current = {} /\ pinned = {} /\ draft = NoDraft /\ waiter = NoWait

\* W follows R.
MinimumDurable == IF policy.r = 3 THEN 2 ELSE 1

\* useful(): versions of the published snapshot, of those of live handles, and of the write
\* in preparation.
Useful == current \cup pinned \cup (IF draft.state = "PREPARING" THEN draft.new ELSE {})

-----------------------------------------------------------------------------
(* Writes.                                                                  *)

\* BeginWrite, BeginUpload: not behind the barrier; the policy is captured.
BeginChange(new, replaced) ==
  /\ draft = NoDraft /\ policy.state # "PROMOTING"
  /\ new # {} /\ new \cap Useful = {} /\ \A v \in new : copies[v].confirmed = 0
  /\ draft' = [state |-> "PREPARING", revision |-> policy.revision, w |-> MinimumDurable,
               new |-> new, replaced |-> replaced]
  /\ UNCHANGED <<policy, copies, current, pinned, waiter>>

\* validate_policy.
PolicyHolds == draft.revision = policy.revision /\ policy.state # "PROMOTING"

\* W domains for what the change makes, something to read for what it leaves.
DurableNow ==
  /\ \A v \in draft.new : copies[v].confirmed >= MinimumDurable /\ copies[v].eligible >= MinimumDurable
  /\ \A v \in current \ draft.replaced : copies[v].eligible > 0

\* CommitUpload, CommitWrite, after the wait where W is more than one.
CommitChange ==
  /\ draft.state = "PREPARING" /\ PolicyHolds /\ DurableNow
  /\ draft.w > 1 => waiter.at = "durable"
  /\ current' = (current \ draft.replaced) \cup draft.new
  /\ draft' = NoDraft /\ waiter' = NoWait
  /\ UNCHANGED <<policy, copies, pinned>>

\* Its time is up.
ExpireChange ==
  /\ draft.state = "PREPARING"
  /\ draft' = [draft EXCEPT !.state = "ABORTED"]
  /\ UNCHANGED <<policy, copies, current, pinned, waiter>>

\* The client gives up, also when a call is refused, and aborts what is left of it.
AbortChange ==
  /\ draft # NoDraft
  /\ draft' = NoDraft /\ waiter' = NoWait
  /\ UNCHANGED <<policy, copies, current, pinned>>

OpenReader ==
  /\ pinned = {} /\ pinned' = current
  /\ UNCHANGED <<policy, copies, current, draft, waiter>>

\* Closed, or its lease has run out.
CloseReader ==
  /\ pinned # {} /\ pinned' = {}
  /\ UNCHANGED <<policy, copies, current, draft, waiter>>

-----------------------------------------------------------------------------
(* Copies.                                                                  *)

\* confirm_location of the first copy, that the client wrote.
FirstCopy(v) ==
  /\ draft.state = "PREPARING" /\ v \in draft.new /\ copies[v].confirmed = 0
  /\ copies' = [copies EXCEPT ![v] = [confirmed |-> 1, eligible |-> 1]]
  /\ UNCHANGED <<policy, current, pinned, draft, waiter>>

\* A copy that reconcile() ordered: on a domain that has had one before, or on a new one.
CopyMade(v) ==
  /\ v \in Useful /\ copies[v].eligible \in 1..(policy.r - 1)
  /\ \E n \in copies[v].confirmed..3 :
       /\ n <= copies[v].confirmed + 1 /\ copies[v].eligible + 1 <= n
       /\ copies' = [copies EXCEPT ![v] = [confirmed |-> n, eligible |-> @.eligible + 1]]
  /\ UNCHANGED <<policy, current, pinned, draft, waiter>>

\* Nodes go and come back, files rot and are found again.
CopyLost(v) ==
  /\ copies[v].eligible > 0
  /\ copies' = [copies EXCEPT ![v].eligible = @ - 1]
  /\ UNCHANGED <<policy, current, pinned, draft, waiter>>

CopyBack(v) ==
  /\ v \in Useful /\ copies[v].eligible < copies[v].confirmed
  /\ copies' = [copies EXCEPT ![v].eligible = @ + 1]
  /\ UNCHANGED <<policy, current, pinned, draft, waiter>>

\* The collector retires what nothing uses.
RetireVersion(v) ==
  /\ v \notin Useful /\ copies[v].confirmed > 0
  /\ copies' = [copies EXCEPT ![v] = [confirmed |-> 0, eligible |-> 0]]
  /\ UNCHANGED <<policy, current, pinned, draft, waiter>>

-----------------------------------------------------------------------------
(* The barrier.                                                             *)

\* PromoteProtection: of an R1 file, or again of one whose promotion was blocked.
PromoteProtection ==
  /\ policy.r = 1 \/ policy.state = "PROMOTION_BLOCKED"
  /\ policy.revision < MaxPolicy
  /\ policy' = [r |-> 3, revision |-> policy.revision + 1, state |-> "PROMOTING"]
  /\ draft' = IF draft.state = "PREPARING" THEN [draft EXCEPT !.state = "ABORTED"] ELSE draft
  /\ UNCHANGED <<copies, current, pinned, waiter>>

\* Mutant: only what is published is looked at.
PublishedRefs == current
\* The versions the end of the barrier looks at.
Refs == Useful

\* reconcile(), of a policy that is PROMOTING: three copies of everything, or time is up.
EndBarrier ==
  /\ policy.state = "PROMOTING"
  /\ \/ /\ \A v \in Refs : copies[v].eligible >= policy.r
        /\ policy' = [policy EXCEPT !.state = "ACTIVE"]
     \/ /\ \E v \in Refs : copies[v].eligible < policy.r
        /\ policy' = [policy EXCEPT !.state = "PROMOTION_BLOCKED"]
  /\ UNCHANGED <<copies, current, pinned, draft, waiter>>

-----------------------------------------------------------------------------
(* wait_durable.                                                            *)

\* The blocks are stored and the manifest is sealed.
BeginWait ==
  /\ draft.state = "PREPARING" /\ draft.w > 1 /\ waiter = NoWait
  /\ \A v \in draft.new : copies[v].confirmed > 0
  /\ waiter' = [at |-> "rounds", left |-> draft.new, ready |-> TRUE]
  /\ UNCHANGED <<policy, copies, current, pinned, draft>>

\* protection(): the domains that ever confirmed the version and the copies it has now,
\* against the W of the policy the file has now.
PageReady(v) == copies[v].confirmed >= MinimumDurable /\ copies[v].eligible >= MinimumDurable

\* GetProtection of the operation, one page; for one that is over the client raises
\* OPERATION_EXPIRED and ends with AbortChange.
ReadPage(v) ==
  /\ waiter.at = "rounds" /\ v \in waiter.left /\ draft.state = "PREPARING"
  /\ waiter' = [waiter EXCEPT !.left = @ \ {v}, !.ready = @ /\ PageReady(v)]
  /\ UNCHANGED <<policy, copies, current, pinned, draft>>

\* All pages of a round were ready, or another round.
EndRound ==
  /\ waiter.at = "rounds" /\ waiter.left = {}
  /\ waiter' = IF waiter.ready THEN [waiter EXCEPT !.at = "durable"]
               ELSE [waiter EXCEPT !.left = draft.new, !.ready = TRUE]
  /\ UNCHANGED <<policy, copies, current, pinned, draft>>

PromotionNext ==
  \/ \E new \in SUBSET Versions, replaced \in SUBSET current : BeginChange(new, replaced)
  \/ \E v \in Versions : \/ FirstCopy(v) \/ CopyMade(v) \/ CopyLost(v) \/ CopyBack(v)
                         \/ RetireVersion(v) \/ ReadPage(v)
  \/ CommitChange \/ ExpireChange \/ AbortChange \/ BeginWait \/ EndRound \/ OpenReader \/ CloseReader \/ PromoteProtection \/ EndBarrier

PromotionSpec == PromotionInit /\ [][PromotionNext]_promotionVars

-----------------------------------------------------------------------------
(* Property.                                                                *)

\* When a policy of three copies is ACTIVE, every version that is published, or that an open
\* handle reads, was confirmed by W domains at least: those written while the file was R1,
\* those a write was preparing when the promotion came, and those only an old handle still
\* reads (PromoteProtection, validate_policy, reconcile).  And a client that has waited, over
\* pages it read at different moments, waited for the W domains its plan asked for, of all
\* the blocks, as long as the operation lives (wait_durable, GetProtection).
PromotedDurable ==
  /\ policy.r = 3 /\ policy.state = "ACTIVE" => \A v \in current \cup pinned : copies[v].confirmed >= MinimumDurable
  /\ waiter.at = "durable" /\ draft.state = "PREPARING" => \A v \in draft.new : copies[v].confirmed >= draft.w
=============================================================================
