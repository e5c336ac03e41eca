---------------------------- MODULE ControlProofs ----------------------------
(***************************************************************************)
(* Proofs about parts of the control: the promotion of a file's protection  *)
(* (Promotion), the transition from SQLite to etcd (Migration), the watch   *)
(* of the root (RootWatch), the units of work on it (MetaUnit), the         *)
(* sessions (Sessions), the rights on files (Permissions) and the tree of   *)
(* names (Namespace).  Each part has an inductive invariant, a lemma per    *)
(* group of actions, and the theorem that states the property model         *)
(* checking looked at on a small instance.                                  *)
(***************************************************************************)
EXTENDS Promotion, Migration, RootWatch, MetaUnit, Sessions, Permissions, Namespace,
        FunctionTheorems, FiniteSetTheorems, WellFoundedInduction, TLAPS

-----------------------------------------------------------------------------
(* Promotion.                                                               *)

CopyStates == {k \in [confirmed : 0..3, eligible : 0..3] : k.eligible <= k.confirmed}

\* A policy of three copies that is ACTIVE: what readers see was confirmed by W domains.
ActiveDurable ==
  policy.r = 3 /\ policy.state = "ACTIVE" => \A v \in current \cup pinned : copies[v].confirmed >= 2

\* The W of a change in preparation is not above that of the policy: a promotion aborts it.
CapturedW == draft.state = "PREPARING" => draft.w <= MinimumDurable

\* The pages of this round that were read and found ready were confirmed by W domains, and
\* so was everything once a round was.
RoundTrue ==
  draft.state = "PREPARING" =>
    /\ waiter.at = "rounds" /\ waiter.ready => \A v \in draft.new \ waiter.left : copies[v].confirmed >= draft.w
    /\ waiter.at = "durable" => \A v \in draft.new : copies[v].confirmed >= draft.w

\* Nobody waits without a change.
WaitsForDraft == draft.state = "none" => waiter = NoWait

PromotionInv == PromotionTypeOK /\ ActiveDurable /\ CapturedW /\ RoundTrue /\ WaitsForDraft

\* An empty file of one copy.
LEMMA PromotionInitInv == PromotionInit => PromotionInv
<1> SUFFICES ASSUME PromotionInit PROVE PromotionInv
  OBVIOUS
<1> USE PolicyAssumption DEF PromotionInit, NoDraft, NoWait
<1>1. PromotionTypeOK
  <2>1. 1 \in 1..MaxPolicy /\ 0 \in 0..MaxPolicy
    OBVIOUS
  <2>2. copies \in [Versions -> CopyStates]
    BY DEF CopyStates
  <2>3. policy \in [r : {1, 3}, revision : 1..MaxPolicy, state : {"ACTIVE", "PROMOTING", "PROMOTION_BLOCKED"}]
    BY <2>1
  <2>4. draft \in [state : {"none", "PREPARING", "ABORTED"}, revision : 0..MaxPolicy, w : 1..2,
                   new : SUBSET Versions, replaced : SUBSET Versions]
    BY <2>1
  <2> QED BY <2>2, <2>3, <2>4 DEF PromotionTypeOK, CopyStates
<1>2. ActiveDurable /\ CapturedW /\ RoundTrue /\ WaitsForDraft
  BY DEF ActiveDurable, CapturedW, RoundTrue, WaitsForDraft
<1> QED BY <1>1, <1>2 DEF PromotionInv

\* A change begins, under the policy of the moment.
LEMMA BeginChangeInv ==
  ASSUME PromotionInv, NEW new \in SUBSET Versions, NEW replaced \in SUBSET current, BeginChange(new, replaced)
  PROVE  PromotionInv'
<1> USE PolicyAssumption DEF PromotionInv, BeginChange
<1>1. draft'.state = "PREPARING" /\ draft'.w = MinimumDurable /\ draft'.new = new /\ MinimumDurable \in 1..2
  BY DEF MinimumDurable
<1>2. PromotionTypeOK'
  <2>1. draft' \in [state : {"none", "PREPARING", "ABORTED"}, revision : 0..MaxPolicy, w : 1..2,
                    new : SUBSET Versions, replaced : SUBSET Versions]
    BY <1>1 DEF PromotionTypeOK
  <2> QED BY <2>1 DEF PromotionTypeOK
<1>3. waiter = NoWait
  BY DEF WaitsForDraft, NoDraft
<1>4. ActiveDurable' /\ RoundTrue' /\ WaitsForDraft'
  BY <1>1, <1>3 DEF ActiveDurable, RoundTrue, WaitsForDraft, NoWait
<1>5. CapturedW'
  BY <1>1 DEF CapturedW, MinimumDurable
<1> QED BY <1>2, <1>4, <1>5

\* It commits, if its blocks are durable now, expires or is given up.
LEMMA EndChangeInv ==
  ASSUME PromotionInv, CommitChange \/ ExpireChange \/ AbortChange
  PROVE  PromotionInv'
<1> USE PolicyAssumption DEF PromotionInv
<1>0. 0 \in 0..MaxPolicy
  OBVIOUS
<1>1. CASE CommitChange
  <2> USE <1>1 DEF CommitChange, NoDraft, NoWait
  <2>1. PromotionTypeOK'
    BY <1>0 DEF PromotionTypeOK
  <2>2. ActiveDurable'
    BY DEF PromotionTypeOK, ActiveDurable, DurableNow, MinimumDurable
  <2>3. CapturedW' /\ RoundTrue' /\ WaitsForDraft'
    BY DEF CapturedW, RoundTrue, WaitsForDraft
  <2> QED BY <2>1, <2>2, <2>3
<1>2. CASE ExpireChange
  <2> USE <1>2 DEF ExpireChange
  <2>1. draft'.state = "ABORTED" /\ PromotionTypeOK'
    BY DEF PromotionTypeOK
  <2>2. ActiveDurable' /\ CapturedW' /\ RoundTrue' /\ WaitsForDraft'
    BY <2>1 DEF ActiveDurable, CapturedW, RoundTrue, WaitsForDraft
  <2> QED BY <2>1, <2>2
<1>3. CASE AbortChange
  <2> USE <1>3 DEF AbortChange, NoDraft, NoWait
  <2>1. PromotionTypeOK'
    BY <1>0 DEF PromotionTypeOK
  <2>2. ActiveDurable' /\ CapturedW' /\ RoundTrue' /\ WaitsForDraft'
    BY DEF ActiveDurable, CapturedW, RoundTrue, WaitsForDraft
  <2> QED BY <2>1, <2>2
<1> QED BY <1>1, <1>2, <1>3

\* A reader opens what is published, or closes.
LEMMA ReaderInv ==
  ASSUME PromotionInv, OpenReader \/ CloseReader
  PROVE  PromotionInv'
<1> USE DEF PromotionInv, OpenReader, CloseReader
<1>1. PromotionTypeOK'
  BY DEF PromotionTypeOK
<1>2. ActiveDurable'
  BY DEF ActiveDurable
<1>3. CapturedW' /\ RoundTrue' /\ WaitsForDraft'
  BY DEF CapturedW, MinimumDurable, RoundTrue, WaitsForDraft
<1> QED BY <1>1, <1>2, <1>3

\* Copies come, go and come back; the domains that confirmed a version in use never become
\* fewer, for only what nothing uses is retired.
LEMMA CopyInv ==
  ASSUME PromotionInv, NEW v \in Versions,
         FirstCopy(v) \/ CopyMade(v) \/ CopyLost(v) \/ CopyBack(v) \/ RetireVersion(v)
  PROVE  PromotionInv'
<1> USE PolicyAssumption DEF PromotionInv
<1>1. /\ copies[v].confirmed \in 0..3 /\ copies[v].eligible \in 0..3 /\ copies[v].eligible <= copies[v].confirmed
      /\ copies[v] \in [confirmed : 0..3, eligible : 0..3]
  BY DEF PromotionTypeOK
<1>2. PICK k \in CopyStates :
        /\ copies' = [copies EXCEPT ![v] = k]
        /\ k.confirmed >= copies[v].confirmed \/ v \notin Useful
  <2>1. CASE FirstCopy(v)
    <3>1. PICK k : k = [confirmed |-> 1, eligible |-> 1]
      OBVIOUS
    <3>2. copies' = [copies EXCEPT ![v] = k]
      BY <1>1, <2>1, <3>1 DEF FirstCopy, PromotionTypeOK
    <3>3. k \in CopyStates /\ k.confirmed >= copies[v].confirmed
      BY <1>1, <2>1, <3>1 DEF FirstCopy, CopyStates
    <3> QED BY <3>2, <3>3
  <2>2. CASE CopyMade(v)
    <3>0. PICK n \in copies[v].confirmed..3 :
            /\ n <= copies[v].confirmed + 1 /\ copies[v].eligible + 1 <= n
            /\ copies' = [copies EXCEPT ![v] = [confirmed |-> n, eligible |-> copies[v].eligible + 1]]
      BY <2>2 DEF CopyMade
    <3>1. PICK k : k = [confirmed |-> n, eligible |-> copies[v].eligible + 1]
      OBVIOUS
    <3>2. copies' = [copies EXCEPT ![v] = k]
      BY <1>1, <2>2, <3>0, <3>1 DEF CopyMade, PromotionTypeOK
    <3>3. k \in CopyStates /\ k.confirmed >= copies[v].confirmed
      BY <1>1, <2>2, <3>0, <3>1 DEF CopyMade, CopyStates
    <3> QED BY <3>2, <3>3
  <2>3. CASE CopyLost(v)
    <3>1. PICK k : k = [confirmed |-> copies[v].confirmed, eligible |-> copies[v].eligible - 1]
      OBVIOUS
    <3>2. copies' = [copies EXCEPT ![v] = k]
      <4>1. copies' = [copies EXCEPT ![v] = [copies[v] EXCEPT !.eligible = copies[v].eligible - 1]]
        BY <2>3 DEF CopyLost
      <4>2. [copies[v] EXCEPT !.eligible = copies[v].eligible - 1] = k
        BY <1>1, <3>1
      <4> QED BY <4>1, <4>2
    <3>3. k \in CopyStates /\ k.confirmed >= copies[v].confirmed
      BY <1>1, <2>3, <3>1 DEF CopyLost, CopyStates
    <3> QED BY <3>2, <3>3
  <2>4. CASE CopyBack(v)
    <3>1. PICK k : k = [confirmed |-> copies[v].confirmed, eligible |-> copies[v].eligible + 1]
      OBVIOUS
    <3>2. copies' = [copies EXCEPT ![v] = k]
      <4>1. copies' = [copies EXCEPT ![v] = [copies[v] EXCEPT !.eligible = copies[v].eligible + 1]]
        BY <2>4 DEF CopyBack
      <4>2. [copies[v] EXCEPT !.eligible = copies[v].eligible + 1] = k
        BY <1>1, <3>1
      <4> QED BY <4>1, <4>2
    <3>3. k \in CopyStates /\ k.confirmed >= copies[v].confirmed
      BY <1>1, <2>4, <3>1 DEF CopyBack, CopyStates
    <3> QED BY <3>2, <3>3
  <2>5. CASE RetireVersion(v)
    <3>1. [confirmed |-> 0, eligible |-> 0] \in CopyStates
      BY DEF CopyStates
    <3> QED BY <2>5, <3>1 DEF RetireVersion
  <2> QED BY <2>1, <2>2, <2>3, <2>4, <2>5
<1>3. UNCHANGED <<policy, current, pinned, draft, waiter>>
  BY DEF FirstCopy, CopyMade, CopyLost, CopyBack, RetireVersion
<1>4. PromotionTypeOK'
  BY <1>2, <1>3 DEF PromotionTypeOK, CopyStates
<1>5. \A u \in Useful, n \in 1..2 : copies[u].confirmed >= n => copies'[u].confirmed >= n
  <2> SUFFICES ASSUME NEW u \in Useful, NEW n \in 1..2, copies[u].confirmed >= n PROVE copies'[u].confirmed >= n
    OBVIOUS
  <2>1. u \in Versions
    BY DEF PromotionTypeOK, Useful
  <2>2. CASE u # v
    BY <1>2, <2>1, <2>2 DEF PromotionTypeOK
  <2>3. CASE u = v
    <3>1. copies'[u] = k /\ k.confirmed >= copies[v].confirmed /\ k.confirmed \in 0..3
      BY <1>2, <2>3 DEF PromotionTypeOK, CopyStates
    <3> QED BY <1>1, <2>3, <3>1
  <2> QED BY <2>2, <2>3
<1>6. ActiveDurable'
  BY <1>3, <1>5 DEF ActiveDurable, Useful
<1>7. RoundTrue'
  <2>1. draft.w \in 1..2 /\ (draft.state = "PREPARING" => draft.new \subseteq Useful)
    BY DEF PromotionTypeOK, Useful
  <2> QED BY <1>3, <1>5, <2>1 DEF RoundTrue
<1>8. CapturedW' /\ WaitsForDraft'
  BY <1>3 DEF CapturedW, MinimumDurable, WaitsForDraft
<1> QED BY <1>4, <1>6, <1>7, <1>8

\* The barrier goes up, which aborts the change in preparation, and comes down when everything
\* in use has three copies.
LEMMA BarrierInv ==
  ASSUME PromotionInv, PromoteProtection \/ EndBarrier
  PROVE  PromotionInv'
<1> USE PolicyAssumption DEF PromotionInv
<1>1. CASE PromoteProtection
  <2>1. policy.revision + 1 \in 1..MaxPolicy
    BY <1>1 DEF PromoteProtection, PromotionTypeOK
  <2>2. policy' = [r |-> 3, revision |-> policy.revision + 1, state |-> "PROMOTING"]
    BY <1>1 DEF PromoteProtection
  <2>3. UNCHANGED <<copies, current, pinned, waiter>>
        /\ draft' \in [state : {"none", "PREPARING", "ABORTED"}, revision : 0..MaxPolicy, w : 1..2,
                       new : SUBSET Versions, replaced : SUBSET Versions]
        /\ draft'.state # "PREPARING" /\ (draft'.state = "none" => draft.state = "none")
    BY <1>1 DEF PromoteProtection, PromotionTypeOK
  <2>4. PromotionTypeOK'
    BY <2>1, <2>2, <2>3 DEF PromotionTypeOK
  <2>5. ActiveDurable' /\ CapturedW' /\ RoundTrue' /\ WaitsForDraft'
    BY <2>2, <2>3 DEF ActiveDurable, CapturedW, RoundTrue, WaitsForDraft
  <2> QED BY <2>4, <2>5
<1>2. CASE EndBarrier
  <2>1. PICK state \in {"ACTIVE", "PROMOTION_BLOCKED"} : policy' = [policy EXCEPT !.state = state]
    BY <1>2 DEF EndBarrier
  <2>2. UNCHANGED <<copies, current, pinned, draft, waiter>>
    BY <1>2 DEF EndBarrier
  <2>3. PromotionTypeOK' /\ policy'.r = policy.r
    BY <2>1, <2>2 DEF PromotionTypeOK
  <2>4. ActiveDurable'
    <3> SUFFICES ASSUME policy'.r = 3, policy'.state = "ACTIVE", NEW v \in current \cup pinned
                 PROVE copies[v].confirmed >= 2
      BY <2>2 DEF ActiveDurable
    <3>1. \A u \in Refs : copies[u].eligible >= 3
      BY <1>2, <2>3 DEF EndBarrier, PromotionTypeOK
    <3>2. copies[v].eligible >= 3 /\ v \in Versions
      BY <3>1 DEF Refs, Useful, PromotionTypeOK
    <3>3. copies[v].eligible \in 0..3 /\ copies[v].confirmed \in 0..3 /\ copies[v].eligible <= copies[v].confirmed
      BY <3>2 DEF PromotionTypeOK
    <3> QED BY <3>2, <3>3
  <2>5. CapturedW' /\ RoundTrue' /\ WaitsForDraft'
    BY <2>2, <2>3 DEF CapturedW, MinimumDurable, RoundTrue, WaitsForDraft
  <2> QED BY <2>3, <2>4, <2>5
<1> QED BY <1>1, <1>2

\* The client waits, page by page and round by round.
LEMMA WaitInv ==
  ASSUME PromotionInv, BeginWait \/ EndRound \/ \E v \in Versions : ReadPage(v)
  PROVE  PromotionInv'
<1> USE DEF PromotionInv
<1>1. UNCHANGED <<policy, copies, current, pinned, draft>>
  BY DEF BeginWait, EndRound, ReadPage
<1>2. ActiveDurable' /\ CapturedW'
  BY <1>1 DEF ActiveDurable, CapturedW, MinimumDurable
<1>3. CASE BeginWait
  <2>1. PromotionTypeOK'
    BY <1>1, <1>3 DEF BeginWait, PromotionTypeOK
  <2>2. RoundTrue' /\ WaitsForDraft'
    BY <1>1, <1>3 DEF BeginWait, RoundTrue, WaitsForDraft
  <2> QED BY <1>2, <2>1, <2>2
<1>4. CASE EndRound
  <2>1. CASE waiter.ready
    <3>1. waiter' = [waiter EXCEPT !.at = "durable"] /\ waiter.at = "rounds" /\ waiter.left = {}
      BY <1>4, <2>1 DEF EndRound
    <3>2. PromotionTypeOK' /\ waiter'.at = "durable"
      BY <1>1, <3>1 DEF PromotionTypeOK
    <3>3. RoundTrue' /\ WaitsForDraft'
      BY <1>1, <2>1, <3>1, <3>2 DEF RoundTrue, WaitsForDraft, NoWait
    <3> QED BY <1>2, <3>2, <3>3
  <2>2. CASE ~waiter.ready
    <3>1. waiter' = [waiter EXCEPT !.left = draft.new, !.ready = TRUE] /\ waiter.at = "rounds"
      BY <1>4, <2>2 DEF EndRound
    <3>2. PromotionTypeOK' /\ waiter'.at = "rounds" /\ waiter'.left = draft.new
      BY <1>1, <3>1 DEF PromotionTypeOK
    <3>3. RoundTrue' /\ WaitsForDraft'
      BY <1>1, <3>1, <3>2 DEF RoundTrue, WaitsForDraft, NoWait
    <3> QED BY <1>2, <3>2, <3>3
  <2> QED BY <2>1, <2>2
<1>5. ASSUME NEW v \in Versions, ReadPage(v) PROVE PromotionInv'
  <2>1. PICK b \in BOOLEAN : b = (waiter.ready /\ PageReady(v))
    BY DEF PageReady
  <2>2. waiter' = [waiter EXCEPT !.left = waiter.left \ {v}, !.ready = b]
        /\ waiter.at = "rounds" /\ draft.state = "PREPARING"
    BY <1>5, <2>1 DEF ReadPage
  <2>3. PromotionTypeOK' /\ waiter'.at = "rounds" /\ waiter'.left = waiter.left \ {v} /\ waiter'.ready = b
    BY <1>1, <2>2 DEF PromotionTypeOK
  <2>4. WaitsForDraft'
    BY <1>1, <2>2 DEF WaitsForDraft
  <2>5. RoundTrue'
    <3> SUFFICES ASSUME b, NEW u \in draft.new \ (waiter.left \ {v}) PROVE copies[u].confirmed >= draft.w
      BY <1>1, <2>3 DEF RoundTrue
    <3>1. CASE u # v
      BY <2>1, <2>2, <3>1 DEF RoundTrue
    <3>2. CASE u = v
      <4>1. copies[u].confirmed >= MinimumDurable /\ draft.w <= MinimumDurable
        BY <2>1, <2>2, <3>2 DEF PageReady, CapturedW
      <4>2. copies[u].confirmed \in 0..3 /\ draft.w \in 1..2 /\ MinimumDurable \in 1..2
        BY <3>2 DEF PromotionTypeOK, MinimumDurable
      <4> QED BY <4>1, <4>2
    <3> QED BY <3>1, <3>2
  <2> QED BY <1>2, <2>3, <2>4, <2>5
<1> QED BY <1>3, <1>4, <1>5

\* The protection of a file keeps its invariant.
THEOREM PromotionCorrect == PromotionSpec => []PromotionInv
<1>1. PromotionInv /\ [PromotionNext]_promotionVars => PromotionInv'
  <2> SUFFICES ASSUME PromotionInv, [PromotionNext]_promotionVars PROVE PromotionInv'
    OBVIOUS
  <2>1. CASE UNCHANGED promotionVars
    BY <2>1 DEF promotionVars, PromotionInv, PromotionTypeOK, ActiveDurable, CapturedW, MinimumDurable, RoundTrue, WaitsForDraft
  <2>2. ASSUME NEW new \in SUBSET Versions, NEW replaced \in SUBSET current, BeginChange(new, replaced) PROVE PromotionInv'
    BY <2>2, BeginChangeInv
  <2>3. ASSUME NEW v \in Versions, FirstCopy(v) \/ CopyMade(v) \/ CopyLost(v) \/ CopyBack(v) \/ RetireVersion(v)
        PROVE PromotionInv'
    BY <2>3, CopyInv
  <2>4. ASSUME BeginWait \/ EndRound \/ \E v \in Versions : ReadPage(v) PROVE PromotionInv'
    BY <2>4, WaitInv
  <2>5. ASSUME CommitChange \/ ExpireChange \/ AbortChange PROVE PromotionInv'
    BY <2>5, EndChangeInv
  <2>6. ASSUME OpenReader \/ CloseReader \/ PromoteProtection \/ EndBarrier PROVE PromotionInv'
    BY <2>6, ReaderInv, BarrierInv
  <2> QED BY <2>1, <2>2, <2>3, <2>4, <2>5, <2>6 DEF PromotionNext
<1> QED BY <1>1, PromotionInitInv, PTL DEF PromotionSpec

\* What an active policy of three copies and a client that has waited may rely on was
\* confirmed by W domains, for any number of versions and policies (PromotedDurable).
THEOREM ProtectionKept == PromotionSpec => []PromotedDurable
<1>1. PromotionInv => PromotedDurable
  BY DEF PromotionInv, ActiveDurable, RoundTrue, PromotedDurable, MinimumDurable
<1> QED BY <1>1, PromotionCorrect, PTL

-----------------------------------------------------------------------------
(* Migration.                                                               *)

RunStates == [source : Sources, step : Steps, backup : SUBSET Records,
              left : SUBSET Records, read : SUBSET Records]

\* The steps of a run that has disabled its source, and those after which a run leaves its
\* backup alone.
Carried == {"disabled", "verified", "read", "done"}
Sealed == Carried \cup {"failed", "lost"}

\* The lock of a source is held by the run, or by the control, that works on it.
HoldersOwn == \A m \in Runs : run[m].step \in Holding => owner[Source(m)] = m
ServersOwn == \A s \in Sources : server[s] = "serving" => owner[s] = Control

\* Nobody commits to a source between its backup and its end.
BackupsCurrent == \A m \in Runs : run[m].step = "backed" => run[m].backup = sqlite[Source(m)]

\* A disabled source is in the backup of a run that will not make another one.
DisabledBacked ==
  \A s \in Sources : disabled[s] =>
    \E m \in Runs : Source(m) = s /\ frozen[s] \subseteq run[m].backup /\ run[m].step \in Sealed

\* The run that disabled its source has everything the source had in its backup.
CarriedFrozen ==
  \A m \in Runs : run[m].step \in Carried => disabled[Source(m)] /\ frozen[Source(m)] = run[m].backup

\* Another source is being migrated too: it can replace records of the same identity.
Rivalled(m) == \E k \in Runs : Source(k) # Source(m) /\ disabled[Source(k)]

\* What of the backup a root must have, and which root it is at each step.
InRoot(m, root) == \A r \in run[m].backup : r \in root \/ (r[2] = 0 /\ Rivalled(m))

Imported ==
  \A m \in Runs :
    /\ run[m].step = "verified" => InRoot(m, importRoot)
    /\ run[m].step = "read" => InRoot(m, run[m].read)
    /\ run[m].step = "done" => InRoot(m, activeRoot)

\* Success is reported by the run that created the root.
OneDone ==
  /\ \A m \in Runs : run[m].step = "done" => active
  /\ \A m, k \in Runs : run[m].step = "done" /\ run[k].step = "done" => m = k

MigrationInv ==
  /\ MigrationTypeOK /\ HoldersOwn /\ ServersOwn /\ BackupsCurrent /\ DisabledBacked
  /\ CarriedFrozen /\ Imported /\ OneDone

\* Nothing is disabled, nobody has begun.
LEMMA MigrationInitInv == MigrationInit => MigrationInv
<1> SUFFICES ASSUME MigrationInit PROVE MigrationInv
  OBVIOUS
<1> USE RecordsAssumption DEF MigrationInit
<1>1. \A m \in Runs : run[m] \in RunStates /\ run[m].step = "new"
  BY DEF RunStates, Steps
<1>2. MigrationTypeOK
  <2>1. sqlite \in [Sources -> SUBSET Records]
    BY DEF Records
  <2>2. run \in [Runs -> RunStates]
    BY <1>1
  <2> QED BY <2>1, <2>2 DEF MigrationTypeOK, RunStates
<1>3. HoldersOwn /\ ServersOwn /\ BackupsCurrent /\ DisabledBacked /\ CarriedFrozen /\ Imported /\ OneDone
  BY <1>1 DEF HoldersOwn, ServersOwn, BackupsCurrent, DisabledBacked, CarriedFrozen, Imported, OneDone,
              Holding, Carried
<1> QED BY <1>2, <1>3 DEF MigrationInv

\* A control works on its own source: no run sees anything but the lock.
LEMMA ControlInv ==
  ASSUME MigrationInv, NEW s \in Sources,
         ControlChecks(s) \/ ControlLocks(s) \/ ControlCommits(s) \/ ControlStops(s)
  PROVE  MigrationInv'
<1> USE RecordsAssumption DEF MigrationInv
<1>1. run' = run /\ disabled' = disabled /\ frozen' = frozen /\ importRoot' = importRoot
      /\ activeRoot' = activeRoot /\ active' = active
  BY DEF ControlChecks, ControlLocks, ControlCommits, ControlStops
<1>2. DisabledBacked' /\ CarriedFrozen' /\ Imported' /\ OneDone'
  BY <1>1 DEF DisabledBacked, CarriedFrozen, Imported, OneDone, InRoot, Rivalled, Source
<1>3. Control # Nobody /\ \A m \in Runs : m # Nobody /\ m # Control
  BY DEF Control, Nobody
<1>4. MigrationTypeOK'
  <2>1. sqlite' \in [Sources -> SUBSET Records]
    <3>1. CASE ControlCommits(s)
      BY <3>1 DEF ControlCommits, MigrationTypeOK, Records
    <3>2. CASE ~ControlCommits(s)
      BY <3>2 DEF ControlChecks, ControlLocks, ControlStops, MigrationTypeOK
    <3> QED BY <3>1, <3>2
  <2>2. owner' \in [Sources -> {Nobody, Control} \cup Runs]
    BY DEF ControlChecks, ControlLocks, ControlCommits, ControlStops, MigrationTypeOK
  <2>3. server' \in [Sources -> {"off", "checked", "serving"}]
    BY DEF ControlChecks, ControlLocks, ControlCommits, ControlStops, MigrationTypeOK
  <2> QED BY <1>1, <2>1, <2>2, <2>3 DEF MigrationTypeOK
<1>5. HoldersOwn'
  BY <1>1, <1>3 DEF ControlChecks, ControlLocks, ControlCommits, ControlStops, MigrationTypeOK, HoldersOwn, Source
<1>6. ServersOwn'
  BY <1>1, <1>3 DEF ControlChecks, ControlLocks, ControlCommits, ControlStops, MigrationTypeOK, ServersOwn
<1>7. BackupsCurrent'
  <2> SUFFICES ASSUME NEW m \in Runs, run[m].step = "backed" PROVE run[m].backup = sqlite'[Source(m)]
    BY <1>1 DEF BackupsCurrent, Source
  <2>1. owner[Source(m)] = m /\ run[m].backup = sqlite[Source(m)] /\ Source(m) \in Sources
    BY DEF HoldersOwn, BackupsCurrent, Holding, MigrationTypeOK, Source
  <2>2. server[Source(m)] # "serving"
    BY <1>3, <2>1 DEF ServersOwn
  <2> QED BY <2>1, <2>2 DEF ControlChecks, ControlLocks, ControlCommits, ControlStops, MigrationTypeOK
<1> QED BY <1>2, <1>4, <1>5, <1>6, <1>7

\* A step of a run that disables nothing and writes under no root: it keeps its source; its
\* backup, unless it has just made it; what it said it carried over; and the lock of every
\* source but its own, which it takes when it is free or gives back when it holds it.
LEMMA RunStep ==
  ASSUME MigrationInv, NEW m \in Runs, NEW n \in RunStates,
         run' = [run EXCEPT ![m] = n], n.source = run[m].source,
         UNCHANGED <<sqlite, disabled, server, importRoot, activeRoot, active, frozen>>,
         \/ owner' = owner /\ (n.step \in Holding => run[m].step \in Holding)
         \/ owner[Source(m)] = Nobody /\ owner' = [owner EXCEPT ![Source(m)] = m]
         \/ run[m].step \in Holding /\ n.step \notin Holding /\ owner' = [owner EXCEPT ![Source(m)] = Nobody],
         run[m].step \in Sealed => n.step \in Sealed /\ n.backup = run[m].backup,
         n.step = "backed" => n.backup = sqlite[Source(m)],
         n.step \in Carried => run[m].step \in Carried,
         n.step = "verified" => InRoot(m, importRoot),
         n.step = "read" => InRoot(m, n.read),
         n.step # "done"
  PROVE  MigrationInv'
<1> USE RecordsAssumption DEF MigrationInv
<1>1. Control # Nobody /\ \A k \in Runs : k # Nobody /\ k # Control
  BY DEF Control, Nobody
<1>2. MigrationTypeOK'
  <2>1. run \in [Runs -> RunStates] /\ owner \in [Sources -> {Nobody, Control} \cup Runs] /\ Source(m) \in Sources
    BY DEF MigrationTypeOK, RunStates, Source
  <2>2. run' \in [Runs -> RunStates] /\ owner' \in [Sources -> {Nobody, Control} \cup Runs]
    BY <2>1
  <2> QED BY <2>2 DEF MigrationTypeOK, RunStates
<1>3. \A k \in Runs : /\ Source(k)' = Source(k) /\ Source(k) \in Sources
                      /\ k # m => run'[k] = run[k]
  BY DEF Source, MigrationTypeOK
<1>4. run'[m] = n
  BY DEF MigrationTypeOK
<1>5. \A k \in Runs : Rivalled(k)' <=> Rivalled(k)
  BY <1>3 DEF Rivalled
<1>6. HoldersOwn'
  <2> SUFFICES ASSUME NEW k \in Runs, run'[k].step \in Holding PROVE owner'[Source(k)] = k
    BY <1>3 DEF HoldersOwn
  <2>1. CASE k = m
    BY <1>3, <1>4, <2>1 DEF HoldersOwn, MigrationTypeOK
  <2>2. CASE k # m
    <3>1. owner[Source(k)] = k
      BY <1>3, <2>2 DEF HoldersOwn
    <3>2. run[m].step \in Holding => Source(k) # Source(m)
      BY <2>2, <3>1 DEF HoldersOwn
    <3> QED BY <1>1, <1>3, <2>2, <3>1, <3>2 DEF MigrationTypeOK
  <2> QED BY <2>1, <2>2
<1>7. ServersOwn'
  <2> SUFFICES ASSUME NEW s \in Sources, server[s] = "serving" PROVE owner'[s] = Control
    BY DEF ServersOwn
  <2>1. owner[s] = Control
    BY DEF ServersOwn
  <2>2. run[m].step \in Holding => Source(m) # s
    BY <1>1, <2>1 DEF HoldersOwn
  <2> QED BY <1>1, <1>3, <2>1, <2>2 DEF MigrationTypeOK
<1>8. BackupsCurrent'
  BY <1>3, <1>4 DEF BackupsCurrent
<1>9. DisabledBacked'
  <2> SUFFICES ASSUME NEW s \in Sources, disabled[s]
               PROVE \E k \in Runs : Source(k) = s /\ frozen[s] \subseteq run'[k].backup /\ run'[k].step \in Sealed
    BY <1>3 DEF DisabledBacked
  <2>1. PICK k \in Runs : Source(k) = s /\ frozen[s] \subseteq run[k].backup /\ run[k].step \in Sealed
    BY DEF DisabledBacked
  <2>2. frozen[s] \subseteq run'[k].backup /\ run'[k].step \in Sealed
    BY <1>3, <1>4, <2>1
  <2> QED BY <2>1, <2>2
<1>10. CarriedFrozen'
  <2> SUFFICES ASSUME NEW k \in Runs, run'[k].step \in Carried
               PROVE disabled[Source(k)] /\ frozen[Source(k)] = run'[k].backup
    BY <1>3 DEF CarriedFrozen
  <2>1. run[k].step \in Carried /\ run'[k].backup = run[k].backup
    BY <1>3, <1>4 DEF Sealed
  <2> QED BY <2>1 DEF CarriedFrozen
<1>11. Imported'
  <2> SUFFICES ASSUME NEW k \in Runs
               PROVE /\ run'[k].step = "verified" => InRoot(k, importRoot)'
                     /\ run'[k].step = "read" => InRoot(k, run[k].read)'
                     /\ run'[k].step = "done" => InRoot(k, activeRoot)'
    BY DEF Imported
  <2>1. CASE k # m
    BY <1>3, <1>5, <2>1 DEF Imported, InRoot
  <2>2. CASE k = m
    <3>1. n.step \in Carried => n.backup = run[m].backup
      BY DEF Sealed
    <3>2. n.step \in {"verified", "read"} => n.step \in Carried
      BY DEF Carried
    <3> QED BY <1>4, <1>5, <2>2, <3>1, <3>2 DEF InRoot
  <2> QED BY <2>1, <2>2
<1>12. OneDone'
  BY <1>3, <1>4 DEF OneDone
<1> QED BY <1>2, <1>6, <1>7, <1>8, <1>9, <1>10, <1>11, <1>12

\* The failure of a run that holds the lock.
LEMMA FailInv ==
  ASSUME MigrationInv, NEW m \in Runs, run[m].step \in Holding, NEW e \in {"failed", "lost"}, Ends(m, e),
         UNCHANGED <<sqlite, disabled, server, importRoot, activeRoot, active, frozen>>
  PROVE  MigrationInv'
<1>1. PICK n \in RunStates : n = [run[m] EXCEPT !.step = e]
  BY DEF MigrationInv, MigrationTypeOK, RunStates, Steps
<1>2. run' = [run EXCEPT ![m] = n] /\ owner' = [owner EXCEPT ![Source(m)] = Nobody]
  BY <1>1 DEF Ends, Step, MigrationInv, MigrationTypeOK
<1>3. n.step = e /\ n.source = run[m].source /\ n.backup = run[m].backup
  BY <1>1 DEF MigrationInv, MigrationTypeOK
<1>4. n.step \notin Holding /\ n.step \in Sealed /\ n.step \notin Carried /\ n.step # "backed"
  BY <1>3 DEF Holding, Sealed, Carried
<1> QED BY <1>2, <1>3, <1>4, RunStep DEF Carried

\* The steps of a run that only it can see.
LEMMA OwnStepInv ==
  ASSUME MigrationInv, NEW m \in Runs, Begin(m) \/ TakeOwner(m) \/ Backup(m) \/ ReadImportRoot(m) \/ Dies(m)
  PROVE  MigrationInv'
<1>1. run[m] \in RunStates /\ run \in [Runs -> RunStates] /\ Source(m) \in Sources /\ sqlite[Source(m)] \in SUBSET Records
      /\ importRoot \in SUBSET Records
  BY DEF MigrationInv, MigrationTypeOK, RunStates, Source
<1>2. CASE Begin(m)
  <2>1. PICK t \in {"failed", "started"} : run' = Step(m, t)
    BY <1>2 DEF Begin
  <2>2. PICK n \in RunStates : n = [run[m] EXCEPT !.step = t]
    BY <1>1, <2>1 DEF RunStates, Steps
  <2>3. run' = [run EXCEPT ![m] = n] /\ n.step = t /\ n.source = run[m].source
    BY <1>1, <2>1, <2>2 DEF Step, RunStates
  <2>4. n.step \notin Holding /\ n.step \notin Carried /\ run[m].step \notin Sealed
        /\ n.step \notin {"backed", "verified", "read", "done"}
    BY <1>2, <2>1, <2>3 DEF Begin, Holding, Carried, Sealed
  <2>5. UNCHANGED <<sqlite, disabled, owner, server, importRoot, activeRoot, active, frozen>>
    BY <1>2 DEF Begin
  <2> QED BY <2>3, <2>4, <2>5, RunStep
<1>3. CASE TakeOwner(m)
  <2>1. PICK t \in {"failed", "locked"} :
          /\ run' = Step(m, t)
          /\ \/ t = "failed" /\ owner' = owner
             \/ owner[Source(m)] = Nobody /\ owner' = [owner EXCEPT ![Source(m)] = m]
    BY <1>3 DEF TakeOwner, Free
  <2>2. PICK n \in RunStates : n = [run[m] EXCEPT !.step = t]
    BY <1>1, <2>1 DEF RunStates, Steps
  <2>3. run' = [run EXCEPT ![m] = n] /\ n.step = t /\ n.source = run[m].source
    BY <1>1, <2>1, <2>2 DEF Step, RunStates
  <2>4. n.step \notin Carried /\ run[m].step \notin Sealed
        /\ n.step \notin {"backed", "verified", "read", "done"} /\ (t = "failed" => n.step \notin Holding)
    BY <1>3, <2>1, <2>3 DEF TakeOwner, Holding, Carried, Sealed
  <2>5. UNCHANGED <<sqlite, disabled, server, importRoot, activeRoot, active, frozen>>
    BY <1>3 DEF TakeOwner
  <2> QED BY <2>1, <2>3, <2>4, <2>5, RunStep
<1>4. CASE Backup(m)
  <2>2. PICK n \in RunStates : n = [run[m] EXCEPT !.step = "backed", !.backup = sqlite[Source(m)], !.left = sqlite[Source(m)]]
    BY <1>1 DEF RunStates, Steps
  <2>3. run' = [run EXCEPT ![m] = n] /\ n.step = "backed" /\ n.source = run[m].source /\ n.backup = sqlite[Source(m)]
    BY <1>1, <1>4, <2>2 DEF Backup, RunStates
  <2>4. n.step \notin Carried /\ run[m].step \notin Sealed /\ run[m].step \in Holding
        /\ n.step \notin {"verified", "read", "done"}
    BY <1>4, <2>3 DEF Backup, Holding, Carried, Sealed
  <2>5. UNCHANGED <<sqlite, disabled, owner, server, importRoot, activeRoot, active, frozen>>
    BY <1>4 DEF Backup
  <2> QED BY <2>3, <2>4, <2>5, RunStep
<1>5. CASE ReadImportRoot(m)
  <2>2. PICK n \in RunStates : n = [run[m] EXCEPT !.step = "read", !.read = importRoot]
    BY <1>1 DEF RunStates, Steps
  <2>3. run' = [run EXCEPT ![m] = n] /\ n.step = "read" /\ n.source = run[m].source /\ n.backup = run[m].backup
        /\ n.read = importRoot
    BY <1>1, <1>5, <2>2 DEF ReadImportRoot, RunStates
  <2>4. n.step \in Carried /\ run[m].step \in Carried /\ n.step \in Sealed /\ run[m].step \in Holding
        /\ n.step \notin {"backed", "verified", "done"}
    BY <1>5, <2>3 DEF ReadImportRoot, Holding, Carried, Sealed
  <2>5. UNCHANGED <<sqlite, disabled, owner, server, importRoot, activeRoot, active, frozen>>
    BY <1>5 DEF ReadImportRoot
  <2>6. InRoot(m, n.read)
    BY <1>5, <2>3 DEF ReadImportRoot, MigrationInv, Imported
  <2> QED BY <2>3, <2>4, <2>5, <2>6, RunStep
<1>6. CASE Dies(m)
  BY <1>6, FailInv DEF Dies, Fail
<1> QED BY <1>2, <1>3, <1>4, <1>5, <1>6

\* The staging root has all of the backup, or the run fails.
LEMMA VerifyInv == ASSUME MigrationInv, NEW m \in Runs, Verify(m) PROVE MigrationInv'
<1>1. run[m] \in RunStates /\ run \in [Runs -> RunStates]
  BY DEF MigrationInv, MigrationTypeOK, RunStates
<1>2. UNCHANGED <<sqlite, disabled, server, importRoot, activeRoot, active, frozen>> /\ run[m].step = "disabled"
  BY DEF Verify
<1>3. CASE run[m].backup \subseteq importRoot
  <2>2. PICK n \in RunStates : n = [run[m] EXCEPT !.step = "verified"]
    BY <1>1 DEF RunStates, Steps
  <2>3. run' = [run EXCEPT ![m] = n] /\ n.step = "verified" /\ n.source = run[m].source /\ n.backup = run[m].backup
        /\ owner' = owner
    BY <1>1, <1>3, <2>2 DEF Verify, Step, RunStates
  <2>4. n.step \in Carried /\ run[m].step \in Carried /\ n.step \in Sealed /\ run[m].step \in Holding
        /\ n.step \notin {"backed", "read", "done"}
    BY <1>2, <2>3 DEF Holding, Carried, Sealed
  <2>5. InRoot(m, importRoot)
    BY <1>3 DEF InRoot
  <2> QED BY <1>2, <2>3, <2>4, <2>5, RunStep
<1>4. CASE ~(run[m].backup \subseteq importRoot)
  <2>1. Fail(m) /\ run[m].step \in Holding
    BY <1>2, <1>4 DEF Verify, Holding
  <2> QED BY <1>2, <2>1, FailInv DEF Fail
<1> QED BY <1>3, <1>4

\* The source is disabled: nothing was committed to it since the backup.
LEMMA DisableInv == ASSUME MigrationInv, NEW m \in Runs, Disable(m) PROVE MigrationInv'
<1> USE RecordsAssumption DEF MigrationInv
<1>1. run[m] \in RunStates /\ run \in [Runs -> RunStates] /\ Source(m) \in Sources
      /\ disabled \in [Sources -> BOOLEAN] /\ frozen \in [Sources -> SUBSET Records] /\ sqlite[Source(m)] \in SUBSET Records
  BY DEF MigrationTypeOK, RunStates, Source
<1>2. UNCHANGED <<sqlite, server, importRoot, activeRoot, active>> /\ run[m].step = "backed" /\ run[m].step \in Holding
  BY DEF Disable, Holding
<1>3. CASE disabled[Source(m)]
  <2>1. Fail(m) /\ UNCHANGED <<disabled, frozen>>
    BY <1>3 DEF Disable
  <2> QED BY <1>2, <2>1, FailInv DEF Fail
<1>4. CASE ~disabled[Source(m)]
  <2>1. PICK n \in RunStates : n = [run[m] EXCEPT !.step = "disabled"]
    BY <1>1 DEF RunStates, Steps
  <2>2. run' = [run EXCEPT ![m] = n] /\ n.step = "disabled" /\ n.source = run[m].source /\ n.backup = run[m].backup
        /\ owner' = owner /\ disabled' = [disabled EXCEPT ![Source(m)] = TRUE]
        /\ frozen' = [frozen EXCEPT ![Source(m)] = sqlite[Source(m)]]
    BY <1>1, <1>4, <2>1 DEF Disable, Step, RunStates
  <2>3. /\ run'[m] = n
        /\ \A k \in Runs : Source(k)' = Source(k) /\ Source(k) \in Sources /\ (k # m => run'[k] = run[k])
    BY <1>1, <2>2 DEF Source, RunStates
  <2>4. MigrationTypeOK'
    <3>1. run' \in [Runs -> RunStates] /\ disabled' \in [Sources -> BOOLEAN] /\ frozen' \in [Sources -> SUBSET Records]
      BY <1>1, <2>2
    <3> QED BY <1>2, <2>2, <3>1 DEF MigrationTypeOK, RunStates
  <2>5. HoldersOwn' /\ ServersOwn' /\ BackupsCurrent' /\ OneDone'
    BY <1>2, <2>2, <2>3 DEF HoldersOwn, ServersOwn, BackupsCurrent, OneDone, Holding
  <2>6. run[m].backup = sqlite[Source(m)] /\ disabled'[Source(m)] /\ frozen'[Source(m)] = run[m].backup
    BY <1>1, <1>2, <2>2 DEF BackupsCurrent
  <2>7. \A s \in Sources : disabled[s] => disabled'[s] /\ frozen'[s] = frozen[s] /\ s # Source(m)
    BY <1>1, <1>4, <2>2
  <2>8. DisabledBacked'
    <3> SUFFICES ASSUME NEW s \in Sources, disabled'[s]
                 PROVE \E k \in Runs : Source(k) = s /\ frozen'[s] \subseteq run'[k].backup /\ run'[k].step \in Sealed
      BY <2>3 DEF DisabledBacked
    <3>1. CASE s = Source(m)
      <4>1. frozen'[s] \subseteq run'[m].backup /\ run'[m].step \in Sealed
        BY <2>2, <2>3, <2>6, <3>1 DEF Sealed, Carried
      <4> QED BY <3>1, <4>1
    <3>2. CASE s # Source(m)
      <4>1. disabled[s]
        BY <1>1, <2>2, <3>2
      <4>2. PICK k \in Runs : Source(k) = s /\ frozen[s] \subseteq run[k].backup /\ run[k].step \in Sealed
        BY <4>1 DEF DisabledBacked
      <4>3. frozen'[s] \subseteq run'[k].backup /\ run'[k].step \in Sealed
        BY <2>3, <2>7, <3>2, <4>1, <4>2
      <4> QED BY <4>2, <4>3
    <3> QED BY <3>1, <3>2
  <2>9. CarriedFrozen'
    <3> SUFFICES ASSUME NEW k \in Runs, run'[k].step \in Carried
                 PROVE disabled'[Source(k)] /\ frozen'[Source(k)] = run'[k].backup
      BY <2>3 DEF CarriedFrozen
    <3>1. CASE k = m
      BY <2>2, <2>3, <2>6, <3>1
    <3>2. CASE k # m
      BY <2>3, <2>7, <3>2 DEF CarriedFrozen
    <3> QED BY <3>1, <3>2
  <2>10. Imported'
    <3>1. \A k \in Runs : Rivalled(k) => Rivalled(k)'
      BY <2>3, <2>7 DEF Rivalled
    <3> SUFFICES ASSUME NEW k \in Runs
                 PROVE /\ run'[k].step = "verified" => InRoot(k, importRoot)'
                       /\ run'[k].step = "read" => InRoot(k, run[k].read)'
                       /\ run'[k].step = "done" => InRoot(k, activeRoot)'
      BY DEF Imported
    <3>2. CASE k # m
      BY <1>2, <2>3, <3>1, <3>2 DEF Imported, InRoot
    <3>3. CASE k = m
      BY <2>2, <2>3, <3>3
    <3> QED BY <3>2, <3>3
  <2> QED BY <2>4, <2>5, <2>8, <2>9, <2>10
<1> QED BY <1>3, <1>4

\* A record is written under the staging root: what it replaces belongs to another source,
\* because this source's lock is held.
LEMMA ImportInv == ASSUME MigrationInv, NEW m \in Runs, Import(m) PROVE MigrationInv'
<1> USE RecordsAssumption DEF MigrationInv
<1>1. run[m] \in RunStates /\ run \in [Runs -> RunStates] /\ importRoot \in SUBSET Records
  BY DEF MigrationTypeOK, RunStates
<1>2. UNCHANGED <<sqlite, disabled, owner, server, activeRoot, active, frozen>> /\ run[m].step = "disabled"
  BY DEF Import
<1>3. PICK r \in run[m].left :
        /\ importRoot' = {x \in importRoot : ~(x[2] = 0 /\ r[2] = 0)} \cup {r}
        /\ run' = [run EXCEPT ![m].left = @ \ {r}]
  BY DEF Import
<1>4. PICK n \in RunStates : n = [run[m] EXCEPT !.left = run[m].left \ {r}]
  BY <1>1 DEF RunStates
<1>5. run' = [run EXCEPT ![m] = n]
  BY <1>1, <1>3, <1>4
<1>6. \A k \in Runs : /\ Source(k)' = Source(k) /\ run'[k].step = run[k].step /\ run'[k].backup = run[k].backup
                      /\ run'[k].read = run[k].read
  BY <1>1, <1>4, <1>5 DEF Source, RunStates
<1>7. MigrationTypeOK'
  <2>1. run' \in [Runs -> RunStates] /\ importRoot' \subseteq Records
    BY <1>1, <1>3, <1>5 DEF RunStates
  <2> QED BY <1>2, <2>1 DEF MigrationTypeOK, RunStates
<1>8. HoldersOwn' /\ ServersOwn' /\ BackupsCurrent' /\ OneDone' /\ CarriedFrozen'
  BY <1>2, <1>6 DEF HoldersOwn, ServersOwn, BackupsCurrent, OneDone, CarriedFrozen
<1>9. DisabledBacked'
  BY <1>2, <1>6 DEF DisabledBacked
<1>10. \A k \in Runs : Rivalled(k)' <=> Rivalled(k)
  BY <1>2, <1>6 DEF Rivalled
<1>11. ASSUME NEW k \in Runs, run[k].step = "verified" PROVE InRoot(k, importRoot)'
  <2>1. Source(k) # Source(m)
    BY <1>2, <1>11 DEF HoldersOwn, Holding
  <2>2. Rivalled(k)
    BY <1>2, <2>1 DEF Rivalled, CarriedFrozen, Carried
  <2>3. \A x \in importRoot : x \in importRoot' \/ x[2] = 0
    BY <1>3
  <2> QED BY <1>6, <1>10, <1>11, <2>2, <2>3 DEF Imported, InRoot
<1>12. Imported'
  BY <1>2, <1>6, <1>10, <1>11 DEF Imported, InRoot
<1> QED BY <1>7, <1>8, <1>9, <1>12

\* The root is created by one transaction, from what was read; the run is told, or is not.
LEMMA ActivateInv == ASSUME MigrationInv, NEW m \in Runs, Activate(m) \/ ActivatesLate(m) PROVE MigrationInv'
<1> USE RecordsAssumption DEF MigrationInv
<1>1. run[m] \in RunStates /\ run \in [Runs -> RunStates] /\ Source(m) \in Sources
      /\ owner \in [Sources -> {Nobody, Control} \cup Runs]
  BY DEF MigrationTypeOK, RunStates, Source
<1>2. UNCHANGED <<sqlite, disabled, server, importRoot, frozen>>
  BY DEF Activate, ActivatesLate
<1>3. CASE UNCHANGED <<active, activeRoot>>
  <2>1. CASE Activate(m)
    <3>1. run[m].step \in Holding
      BY <2>1 DEF Activate, Holding
    <3>2. \E e \in {"failed", "lost"} : Ends(m, e)
      <4>1. CASE active
        BY <2>1, <4>1 DEF Activate, Vacant, Fail
      <4>2. CASE ~active
        BY <1>3, <2>1, <4>2 DEF Activate, Vacant
      <4> QED BY <4>1, <4>2
    <3> QED BY <1>2, <1>3, <3>1, <3>2, FailInv
  <2>2. CASE ActivatesLate(m)
    BY <1>3, <2>2 DEF ActivatesLate, Vacant
  <2> QED BY <2>1, <2>2
<1>4. CASE ~(UNCHANGED <<active, activeRoot>>)
  <2>0. /\ ~active /\ active' = TRUE /\ activeRoot' = run[m].read
        /\ \E e \in {"done", "failed"} :
             /\ run' = Step(m, e) /\ (e = "done" => run[m].step = "read")
             /\ \/ owner' = owner /\ run[m].step = "lost"
                \/ owner' = [owner EXCEPT ![Source(m)] = Nobody] /\ run[m].step = "read"
    <3>1. CASE Activate(m)
      BY <1>4, <3>1 DEF Activate, Vacant, Fail, Ends
    <3>2. CASE ActivatesLate(m)
      BY <3>2 DEF ActivatesLate, Vacant
    <3> QED BY <3>1, <3>2
  <2>1. PICK e \in {"done", "failed"} :
          /\ run' = Step(m, e) /\ (e = "done" => run[m].step = "read")
          /\ \/ owner' = owner /\ run[m].step = "lost"
             \/ owner' = [owner EXCEPT ![Source(m)] = Nobody] /\ run[m].step = "read"
    BY <2>0
  <2>2. PICK n \in RunStates : n = [run[m] EXCEPT !.step = e]
    BY <1>1 DEF RunStates, Steps
  <2>3. /\ run'[m] = n /\ run' = [run EXCEPT ![m] = n] /\ n.step = e /\ n.backup = run[m].backup
        /\ \A k \in Runs : Source(k)' = Source(k) /\ Source(k) \in Sources /\ (k # m => run'[k] = run[k])
    BY <1>1, <2>1, <2>2 DEF Step, Source, RunStates
  <2>4. MigrationTypeOK'
    <3>1. run' \in [Runs -> RunStates] /\ owner' \in [Sources -> {Nobody, Control} \cup Runs]
          /\ activeRoot' \subseteq Records
      BY <1>1, <2>0, <2>1, <2>3 DEF RunStates
    <3> QED BY <1>2, <2>0, <3>1 DEF MigrationTypeOK, RunStates
  <2>5. HoldersOwn'
    <3> SUFFICES ASSUME NEW k \in Runs, run'[k].step \in Holding PROVE owner'[Source(k)] = k
      BY <2>3 DEF HoldersOwn
    <3>1. k # m /\ owner[Source(k)] = k /\ Source(k) \in Sources
      BY <2>1, <2>3 DEF HoldersOwn, Holding
    <3>2. run[m].step = "read" => Source(k) # Source(m)
      BY <3>1 DEF HoldersOwn, Holding
    <3> QED BY <1>1, <2>1, <3>1, <3>2
  <2>6. ServersOwn'
    <3> SUFFICES ASSUME NEW s \in Sources, server[s] = "serving" PROVE owner'[s] = Control
      BY <1>2 DEF ServersOwn
    <3>1. owner[s] = Control /\ (run[m].step = "read" => owner[Source(m)] = m) /\ m # Control
      BY DEF ServersOwn, HoldersOwn, Holding
    <3> QED BY <1>1, <2>1, <3>1
  <2>7. BackupsCurrent' /\ CarriedFrozen'
    BY <1>2, <2>1, <2>3 DEF BackupsCurrent, CarriedFrozen, Carried
  <2>8. DisabledBacked'
    <3> SUFFICES ASSUME NEW s \in Sources, disabled[s]
                 PROVE \E k \in Runs : Source(k) = s /\ frozen[s] \subseteq run'[k].backup /\ run'[k].step \in Sealed
      BY <1>2, <2>3 DEF DisabledBacked
    <3>1. PICK k \in Runs : Source(k) = s /\ frozen[s] \subseteq run[k].backup /\ run[k].step \in Sealed
      BY DEF DisabledBacked
    <3>2. frozen[s] \subseteq run'[k].backup /\ run'[k].step \in Sealed
      BY <2>1, <2>3, <3>1 DEF Sealed, Carried
    <3> QED BY <3>1, <3>2
  <2>9. OneDone'
    BY <2>0, <2>1, <2>3 DEF OneDone
  <2>10. Imported'
    <3>1. \A k \in Runs : Rivalled(k)' <=> Rivalled(k)
      BY <1>2, <2>3 DEF Rivalled
    <3> SUFFICES ASSUME NEW k \in Runs
                 PROVE /\ run'[k].step = "verified" => InRoot(k, importRoot)'
                       /\ run'[k].step = "read" => InRoot(k, run[k].read)'
                       /\ run'[k].step = "done" => InRoot(k, activeRoot)'
      BY DEF Imported
    <3>2. CASE k # m
      BY <1>2, <2>0, <2>3, <3>1, <3>2 DEF Imported, InRoot, OneDone
    <3>3. CASE k = m
      BY <1>2, <2>0, <2>1, <2>3, <3>1, <3>3 DEF Imported, InRoot
    <3> QED BY <3>2, <3>3
  <2> QED BY <2>4, <2>5, <2>6, <2>7, <2>8, <2>9, <2>10
<1> QED BY <1>3, <1>4

\* The transition keeps its invariant.
THEOREM MigrationCorrect == MigrationSpec => []MigrationInv
<1>1. MigrationInv /\ [MigrationNext]_migrationVars => MigrationInv'
  <2> SUFFICES ASSUME MigrationInv, [MigrationNext]_migrationVars PROVE MigrationInv'
    OBVIOUS
  <2>1. CASE UNCHANGED migrationVars
    BY <2>1 DEF migrationVars, MigrationInv, MigrationTypeOK, HoldersOwn, ServersOwn, BackupsCurrent, DisabledBacked,
                CarriedFrozen, Imported, InRoot, Rivalled, OneDone, Source
  <2>2. ASSUME NEW s \in Sources, ControlChecks(s) \/ ControlLocks(s) \/ ControlCommits(s) \/ ControlStops(s)
        PROVE MigrationInv'
    BY <2>2, ControlInv
  <2>3. ASSUME NEW m \in Runs,
               \/ Begin(m) \/ TakeOwner(m) \/ Backup(m) \/ Disable(m) \/ Import(m)
               \/ Verify(m) \/ ReadImportRoot(m) \/ Activate(m) \/ ActivatesLate(m) \/ Dies(m)
        PROVE MigrationInv'
    BY <2>3, OwnStepInv, VerifyInv, DisableInv, ImportInv, ActivateInv
  <2> QED BY <2>1, <2>2, <2>3 DEF MigrationNext
<1> QED BY <1>1, MigrationInitInv, PTL DEF MigrationSpec

\* For any number of sources, runs and records: what a source held when it was disabled is in
\* a backup, a run that reports success left it under the active root, and one run does
\* (NothingLost).
THEOREM MigrationSafe == MigrationSpec => []NothingLost
<1>1. MigrationInv => NothingLost
  <2> SUFFICES ASSUME MigrationInv PROVE NothingLost
    OBVIOUS
  <2>1. \A s \in Sources : disabled[s] => \E m \in Runs : Source(m) = s /\ frozen[s] \subseteq run[m].backup
    BY DEF MigrationInv, DisabledBacked
  <2>2. ASSUME NEW m \in Runs, run[m].step = "done" PROVE frozen[Source(m)] = run[m].backup /\ InRoot(m, activeRoot)
    BY <2>2 DEF MigrationInv, CarriedFrozen, Carried, Imported
  <2>3. \A m \in Runs : run[m].step = "done" =>
          \A r \in frozen[Source(m)] :
            r \in activeRoot \/ (r[2] = 0 /\ \E k \in Runs : Source(k) # Source(m) /\ disabled[Source(k)])
    BY <2>2 DEF InRoot, Rivalled
  <2> QED BY <2>1, <2>3 DEF MigrationInv, OneDone, NothingLost
<1> QED BY <1>1, MigrationCorrect, PTL

-----------------------------------------------------------------------------
(* RootWatch.                                                               *)

WatcherStates == [at : {"top", "read", "connect", "stream", "ended"}, seen : 0..MaxEtcdRevision, disconnected : BOOLEAN]
FeedStates == [open : BOOLEAN, next : 1..MaxEtcdRevision + 1]

\* Nothing the watch knows of is later than what etcd has done.
OfThePast ==
  /\ rootRevs \subseteq 1..etcdRev /\ told \subseteq rootRevs /\ reread \subseteq rootRevs
  /\ watcher.seen <= etcdRev /\ feed.next <= etcdRev + 1

\* A thread that has seen something has seen the events it counted, has seen something
\* before it connects, and its stream is past what it has seen.
SeenInOrder ==
  /\ watcher.seen = 0 \/ \A r \in told : r <= watcher.seen
  /\ watcher.at \in {"connect", "stream"} => watcher.seen # 0
  /\ watcher.at = "stream" /\ feed.open => watcher.seen < feed.next

WatchInv == WatchTypeOK /\ OfThePast /\ SeenInOrder /\ WatchComplete

\* A set of numbers up to a bound has a newest one, and Newest is it.
LEMMA NewestOf ==
  ASSUME NEW bound \in Nat, NEW revs \in SUBSET (1..bound), revs # {}
  PROVE  Newest(revs) \in revs /\ \A r \in revs : r <= Newest(revs)
<1>1. PICK T : T = {bound - r : r \in revs}
  OBVIOUS
<1>2. T \subseteq Nat /\ T # {}
  <2>1. \A r \in revs : bound - r \in Nat
    OBVIOUS
  <2>2. PICK r \in revs : TRUE
    OBVIOUS
  <2>3. bound - r \in T
    BY <1>1
  <2> QED BY <1>1, <2>1, <2>3
<1>3. PICK x \in T : \A y \in T : ~(<<y, x>> \in OpToRel(<, Nat))
  BY <1>2, NatLessThanWellFounded, WFMin
<1>4. PICK r \in revs : x = bound - r
  BY <1>1, <1>3
<1>5. \A s \in revs : s <= r
  <2> SUFFICES ASSUME NEW s \in revs, r < s PROVE FALSE
    OBVIOUS
  <2>1. bound - s \in T /\ bound - s \in Nat /\ x \in Nat /\ bound - s < x
    BY <1>1, <1>2, <1>4
  <2>2. <<bound - s, x>> \in OpToRel(<, Nat)
    BY <2>1 DEF OpToRel
  <2> QED BY <1>3, <2>1, <2>2
<1> QED BY <1>4, <1>5 DEF Newest

\* The watch begins.
LEMMA WatchInitInv == WatchInit => WatchInv
<1> SUFFICES ASSUME WatchInit PROVE WatchInv
  OBVIOUS
<1> USE WatchAssumption DEF WatchInit
<1>1. WatchTypeOK
  <2>1. watcher \in WatcherStates /\ feed \in FeedStates
    BY DEF WatcherStates, FeedStates
  <2>2. 1 \in 1..MaxEtcdRevision /\ 0 \in 0..MaxEtcdRevision /\ 0 \in 0..Endpoints - 1
    OBVIOUS
  <2> QED BY <2>1, <2>2 DEF WatchTypeOK, WatcherStates, FeedStates
<1>2. OfThePast /\ SeenInOrder
  BY DEF OfThePast, SeenInOrder
<1>3. WatchComplete
  BY FS_EmptySet DEF WatchComplete
<1> QED BY <1>1, <1>2, <1>3 DEF WatchInv

\* etcd goes on, and forgets: the watch is where it was.
LEMMA EtcdInv == ASSUME WatchInv, (\E isRoot \in BOOLEAN : PutKey(isRoot)) \/ Compact PROVE WatchInv'
<1> USE WatchAssumption DEF WatchInv
<1>1. UNCHANGED <<watcher, feed, orders, events, told, reread, endpoint>>
  BY DEF PutKey, Compact
<1>2. etcdRev \in 1..MaxEtcdRevision /\ watcher.seen \in 0..MaxEtcdRevision /\ feed.next \in 1..MaxEtcdRevision + 1
  BY DEF WatchTypeOK
<1>3. ASSUME NEW isRoot \in BOOLEAN, PutKey(isRoot) PROVE WatchInv'
  <2>1. etcdRev' = etcdRev + 1 /\ etcdRev' \in 1..MaxEtcdRevision /\ compacted' = compacted
        /\ rootRevs \subseteq rootRevs' /\ rootRevs' \subseteq rootRevs \cup {etcdRev + 1}
    BY <1>2, <1>3 DEF PutKey
  <2>2. WatchTypeOK'
    BY <1>1, <2>1 DEF WatchTypeOK
  <2>3. OfThePast' /\ SeenInOrder'
    BY <1>1, <1>2, <2>1 DEF OfThePast, SeenInOrder
  <2>4. WatchComplete'
    BY <1>1, <1>2, <2>1 DEF WatchComplete, OfThePast
  <2> QED BY <2>2, <2>3, <2>4
<1>4. CASE Compact
  <2>1. etcdRev' = etcdRev /\ rootRevs' = rootRevs /\ compacted' \in 0..MaxEtcdRevision
    BY <1>2, <1>4 DEF Compact, WatchTypeOK
  <2> QED BY <1>1, <2>1 DEF WatchTypeOK, OfThePast, SeenInOrder, WatchComplete
<1> QED BY <1>3, <1>4

\* The stream is cancelled or left alone and the thread keeps what it has seen, or forgets it.
LEMMA CalmWatch ==
  ASSUME WatchInv, NEW w \in WatcherStates, NEW f \in FeedStates,
         watcher' = w, feed' = f, f.next = feed.next, f.open => feed.open,
         w.seen \in {0, watcher.seen},
         w.at = "stream" => watcher.at = "stream" /\ w.seen = watcher.seen,
         w.at \in {"connect", "stream"} => w.seen # 0,
         orders' \in [paused : BOOLEAN, stop : BOOLEAN], endpoint' \in 0..Endpoints - 1,
         UNCHANGED <<etcdRev, rootRevs, compacted, events, told, reread>>
  PROVE  WatchInv'
<1> USE WatchAssumption DEF WatchInv
<1>1. etcdRev \in 1..MaxEtcdRevision /\ watcher.seen \in 0..MaxEtcdRevision /\ w.seen \in 0..MaxEtcdRevision
      /\ feed.next \in 1..MaxEtcdRevision + 1
  BY DEF WatchTypeOK, WatcherStates
<1>2. WatchTypeOK'
  BY DEF WatchTypeOK, WatcherStates, FeedStates
<1>3. OfThePast' /\ SeenInOrder'
  BY <1>1 DEF OfThePast, SeenInOrder
<1>4. WatchComplete'
  <2>1. \A r \in rootRevs : r <= w.seen => r \in told \cup reread
    BY <1>1 DEF WatchComplete, OfThePast
  <2> QED BY <2>1 DEF WatchComplete
<1> QED BY <1>2, <1>3, <1>4

\* Orders, the head of the loop, a failure and a stream behind a compaction.
LEMMA TurnInv ==
  ASSUME WatchInv, Pause \/ Resume \/ CloseWatch \/ LoopHead \/ CompactedAway \/ WatchFails
  PROVE  WatchInv'
<1> USE WatchAssumption
<1>1. watcher \in WatcherStates /\ feed \in FeedStates /\ orders \in [paused : BOOLEAN, stop : BOOLEAN]
      /\ endpoint \in 0..Endpoints - 1
  BY DEF WatchInv, WatchTypeOK, WatcherStates, FeedStates
<1>2. PICK f \in FeedStates : f = [feed EXCEPT !.open = FALSE]
  BY <1>1 DEF FeedStates
<1>3. f.next = feed.next /\ ~f.open
  BY <1>1, <1>2 DEF FeedStates
<1>4. watcher.at \in {"connect", "stream"} => watcher.seen # 0
  BY DEF WatchInv, SeenInOrder
<1>5. PICK back \in WatcherStates : back = [watcher EXCEPT !.at = "top", !.disconnected = TRUE]
  BY <1>1 DEF WatcherStates
<1>6. back.at = "top" /\ back.seen = watcher.seen
  BY <1>1, <1>5 DEF WatcherStates
<1>7. CASE Pause \/ CloseWatch \/ Resume
  <2>1. watcher' = watcher /\ (feed' = f \/ feed' = feed) /\ orders' \in [paused : BOOLEAN, stop : BOOLEAN] /\ endpoint' = endpoint
        /\ UNCHANGED <<etcdRev, rootRevs, compacted, events, told, reread>>
    BY <1>1, <1>2, <1>7 DEF Pause, CloseWatch, Resume, Cancelled
  <2>2. CASE feed' = f
    BY <1>1, <1>3, <1>4, <2>1, <2>2, CalmWatch
  <2>3. CASE feed' = feed
    BY <1>1, <1>4, <2>1, <2>3, CalmWatch
  <2> QED BY <2>1, <2>2, <2>3
<1>8. CASE LoopHead
  <2>1. PICK w \in WatcherStates : watcher' = w /\ w.seen = watcher.seen /\ w.at # "stream"
                                   /\ (w.at = "connect" => w.seen # 0)
    <3>1. CASE orders.stop
      <4>1. [watcher EXCEPT !.at = "ended"] \in WatcherStates
        BY <1>1 DEF WatcherStates
      <4> QED BY <1>1, <1>8, <3>1, <4>1 DEF LoopHead, WatcherStates
    <3>2. CASE ~orders.stop /\ orders.paused
      <4>1. [watcher EXCEPT !.disconnected = TRUE] \in WatcherStates
        BY <1>1 DEF WatcherStates
      <4> QED BY <1>1, <1>8, <3>2, <4>1 DEF LoopHead, WatcherStates
    <3>3. CASE ~orders.stop /\ ~orders.paused
      <4>1. PICK t \in {"read", "connect"} : t = (IF watcher.seen = 0 THEN "read" ELSE "connect")
        OBVIOUS
      <4>2. watcher' = [watcher EXCEPT !.at = t, !.disconnected = FALSE] /\ (t = "connect" => watcher.seen # 0)
        BY <1>8, <3>3, <4>1 DEF LoopHead
      <4>3. watcher' \in WatcherStates /\ watcher'.seen = watcher.seen /\ watcher'.at = t
        BY <1>1, <4>2 DEF WatcherStates
      <4> QED BY <4>1, <4>2, <4>3
    <3> QED BY <3>1, <3>2, <3>3
  <2>2. UNCHANGED <<etcdRev, rootRevs, compacted, feed, orders, events, told, reread, endpoint>>
    BY <1>8 DEF LoopHead
  <2> QED BY <1>1, <2>1, <2>2, CalmWatch
<1>9. CASE CompactedAway
  <2>1. PICK w \in WatcherStates : w = [back EXCEPT !.seen = 0]
    <3>1. 0 \in 0..MaxEtcdRevision
      OBVIOUS
    <3> QED BY <3>1 DEF WatcherStates
  <2>2. w.at = "top" /\ w.seen = 0
    BY <1>6, <2>1 DEF WatcherStates
  <2>3. watcher' = w /\ feed' = f /\ UNCHANGED <<etcdRev, rootRevs, compacted, orders, events, told, reread, endpoint>>
    BY <1>2, <1>5, <1>9, <2>1 DEF CompactedAway, LoopAgain, Cancelled
  <2> QED BY <1>1, <1>3, <2>2, <2>3, CalmWatch
<1>10. CASE WatchFails
  <2>1. endpoint' \in 0..Endpoints - 1
    <3>1. endpoint + 1 \in Nat /\ Endpoints \in Nat \ {0}
      BY <1>1
    <3>2. (endpoint + 1) % Endpoints \in 0..Endpoints - 1
      BY <3>1
    <3> QED BY <1>10, <3>2 DEF WatchFails, NextEndpoint
  <2>2. watcher' = back /\ feed' = f /\ UNCHANGED <<etcdRev, rootRevs, compacted, orders, events, told, reread>>
    BY <1>2, <1>5, <1>10 DEF WatchFails, LoopAgain, Cancelled
  <2> QED BY <1>1, <1>3, <1>6, <2>1, <2>2, CalmWatch
<1> QED BY <1>7, <1>8, <1>9, <1>10

\* The root is read, and the stream is asked for from the revision of that read.
LEMMA ReadConnectInv == ASSUME WatchInv, ReadRootNow \/ Connect PROVE WatchInv'
<1> USE WatchAssumption DEF WatchInv
<1>1. watcher \in WatcherStates /\ feed \in FeedStates /\ etcdRev \in 1..MaxEtcdRevision
      /\ watcher.seen \in 0..MaxEtcdRevision /\ feed.next \in 1..MaxEtcdRevision + 1
  BY DEF WatchTypeOK, WatcherStates, FeedStates
<1>2. CASE ReadRootNow
  <2>1. watcher' = [watcher EXCEPT !.at = "connect", !.seen = etcdRev] /\ reread' = reread \cup rootRevs
        /\ UNCHANGED <<etcdRev, rootRevs, compacted, feed, orders, events, told, endpoint>>
    BY <1>2 DEF ReadRootNow
  <2>2. watcher' \in WatcherStates /\ watcher'.at = "connect" /\ watcher'.seen = etcdRev
    <3>1. etcdRev \in 0..MaxEtcdRevision
      BY <1>1
    <3> QED BY <1>1, <2>1, <3>1 DEF WatcherStates
  <2>3. WatchTypeOK'
    BY <2>1, <2>2 DEF WatchTypeOK, WatcherStates, OfThePast
  <2>4. OfThePast' /\ SeenInOrder'
    BY <1>1, <2>1, <2>2 DEF OfThePast, SeenInOrder
  <2>5. WatchComplete'
    BY <2>1, <2>2 DEF WatchComplete
  <2> QED BY <2>3, <2>4, <2>5
<1>3. CASE Connect
  <2>1. feed' = [open |-> TRUE, next |-> watcher.seen + 1] /\ watcher' = [watcher EXCEPT !.at = "stream"]
        /\ UNCHANGED <<etcdRev, rootRevs, compacted, orders, events, told, reread, endpoint>> /\ watcher.at = "connect"
    BY <1>3 DEF Connect, ResumeFrom
  <2>2. watcher' \in WatcherStates /\ watcher'.at = "stream" /\ watcher'.seen = watcher.seen
    BY <1>1, <2>1 DEF WatcherStates
  <2>3. feed' \in FeedStates /\ feed'.next = watcher.seen + 1
    BY <1>1, <2>1 DEF FeedStates
  <2>4. WatchTypeOK'
    BY <2>1, <2>2, <2>3 DEF WatchTypeOK, WatcherStates, FeedStates
  <2>5. OfThePast' /\ SeenInOrder'
    BY <1>1, <2>1, <2>2, <2>3 DEF OfThePast, SeenInOrder
  <2>6. WatchComplete'
    <3>1. \A r \in rootRevs : ~(watcher.seen < r /\ r < watcher.seen + 1)
      BY <1>1 DEF OfThePast
    <3> QED BY <2>1, <2>2, <2>3, <3>1 DEF WatchComplete
  <2> QED BY <2>4, <2>5, <2>6
<1> QED BY <1>2, <1>3

\* A response with events: they are the changes of the root from where the stream was, none
\* was counted before, and the newest of them is what has been seen.
LEMMA DeliverInv == ASSUME WatchInv, Deliver PROVE WatchInv'
<1> USE WatchAssumption DEF WatchInv
<1>1. watcher \in WatcherStates /\ feed \in FeedStates /\ etcdRev \in 1..MaxEtcdRevision
      /\ watcher.seen \in 0..MaxEtcdRevision /\ feed.next \in 1..MaxEtcdRevision + 1
  BY DEF WatchTypeOK, WatcherStates, FeedStates
<1>2. watcher.at = "stream" /\ feed.open /\ UNCHANGED <<etcdRev, rootRevs, compacted, orders, reread, endpoint>>
  BY DEF Deliver
<1>3. PICK over \in BOOLEAN : over = (orders.stop \/ orders.paused)
  BY DEF WatchTypeOK
<1>4. PICK upTo \in feed.next..etcdRev :
        /\ Batch(upTo) # {}
        /\ told' = told \cup Batch(upTo) /\ events' = events + Cardinality(Batch(upTo))
        /\ watcher' = IF over THEN [[watcher EXCEPT !.seen = Newest(Batch(upTo))] EXCEPT !.at = "top", !.disconnected = TRUE]
                              ELSE [watcher EXCEPT !.seen = Newest(Batch(upTo))]
        /\ feed' = [feed EXCEPT !.next = upTo + 1, !.open = ~over]
  BY <1>3 DEF Deliver
<1>5. PICK batch : batch = Batch(upTo)
  OBVIOUS
<1>6. batch \subseteq rootRevs /\ batch # {} /\ (\A r \in rootRevs : r \in batch <=> feed.next <= r /\ r <= upTo)
      /\ batch \in SUBSET (1..etcdRev) /\ batch \in SUBSET (1..MaxEtcdRevision)
  BY <1>1, <1>4, <1>5 DEF Batch, OfThePast
<1>7. PICK newest \in batch : newest = Newest(batch) /\ \A r \in batch : r <= newest
  BY <1>1, <1>6, NewestOf
<1>8. newest \in 1..MaxEtcdRevision /\ newest <= upTo /\ feed.next <= newest /\ newest <= etcdRev /\ newest \in rootRevs
  BY <1>1, <1>4, <1>6, <1>7
<1>9. watcher' \in WatcherStates /\ watcher'.seen = newest /\ watcher'.at \in {"top", "stream"}
  <2>1. [watcher EXCEPT !.seen = newest] \in WatcherStates
    BY <1>1, <1>8 DEF WatcherStates
  <2>2. CASE over
    BY <1>1, <1>4, <1>5, <1>7, <2>1, <2>2 DEF WatcherStates
  <2>3. CASE ~over
    BY <1>1, <1>2, <1>4, <1>5, <1>7, <2>1, <2>3 DEF WatcherStates
  <2> QED BY <2>2, <2>3
<1>10. feed' \in FeedStates /\ feed'.next = upTo + 1
  <2>1. upTo + 1 \in 1..MaxEtcdRevision + 1
    BY <1>1, <1>4
  <2>2. feed' = [feed EXCEPT !.next = upTo + 1, !.open = ~over] /\ (~over) \in BOOLEAN
    BY <1>4
  <2> QED BY <1>1, <2>1, <2>2 DEF FeedStates
<1>11. told' = told \cup batch /\ told \cap batch = {} /\ watcher.seen < feed.next
  BY <1>1, <1>2, <1>4, <1>5, <1>6 DEF SeenInOrder, OfThePast
<1>12. IsFiniteSet(told) /\ IsFiniteSet(batch)
  <2>1. IsFiniteSet(1..MaxEtcdRevision)
    BY FS_Interval
  <2>2. told \in SUBSET (1..MaxEtcdRevision)
    BY DEF WatchTypeOK
  <2> QED BY <1>6, <2>1, <2>2, FS_Subset
<1>13. Cardinality(batch) \in Nat /\ Cardinality(told) \in Nat /\ Cardinality(told') = Cardinality(told) + Cardinality(batch)
       /\ events' = events + Cardinality(batch)
  BY SMTT(40), <1>4, <1>5, <1>11, <1>12, FS_CardinalityType, FS_Union, FS_EmptySet
<1>14. WatchTypeOK'
  <2>1. events' \in Nat /\ told' \subseteq 1..MaxEtcdRevision
    <3>1. events \in Nat /\ told \subseteq 1..MaxEtcdRevision
      BY DEF WatchTypeOK
    <3> QED BY <1>6, <1>11, <1>13, <3>1
  <2> QED BY <1>2, <1>9, <1>10, <2>1 DEF WatchTypeOK, WatcherStates, FeedStates
<1>15. OfThePast' /\ SeenInOrder'
  <2>1. \A r \in told' : r <= newest
    <3>1. \A r \in told : r <= watcher.seen /\ r \in 1..etcdRev
      BY <1>2 DEF SeenInOrder, OfThePast
    <3>2. watcher.seen < newest /\ newest \in Int /\ watcher.seen \in Int
      BY <1>1, <1>8, <1>11
    <3>3. \A r \in told : r <= newest
      BY <3>1, <3>2
    <3> QED BY <1>7, <1>11, <3>3
  <2>2. OfThePast'
    BY <1>1, <1>2, <1>4, <1>6, <1>8, <1>9, <1>10, <1>11 DEF OfThePast
  <2>3. newest # 0 /\ newest < upTo + 1
    BY <1>4, <1>8
  <2> QED BY <1>9, <1>10, <2>1, <2>2, <2>3 DEF SeenInOrder
<1>16. WatchComplete'
  <2>1. ASSUME NEW r \in rootRevs, r <= upTo PROVE r \in told' \cup reread
    <3>1. r \in 1..etcdRev
      BY DEF OfThePast
    <3>2. CASE r < feed.next
      BY <1>1, <1>2, <1>11, <3>1, <3>2 DEF WatchComplete
    <3>3. CASE feed.next <= r
      BY <1>6, <1>11, <2>1, <3>3
    <3> QED BY <1>1, <3>1, <3>2, <3>3
  <2>2. \A r \in rootRevs : (r <= newest => r <= upTo) /\ (r < upTo + 1 => r <= upTo)
    BY <1>1, <1>4, <1>8 DEF OfThePast
  <2>3. events' = Cardinality(told')
    BY <1>13 DEF WatchComplete
  <2> QED BY <1>2, <1>9, <1>10, <2>1, <2>2, <2>3 DEF WatchComplete
<1> QED BY <1>14, <1>15, <1>16

\* A notification without events: the root did not change up to the revision of etcd.
LEMMA ProgressInv == ASSUME WatchInv, Progress PROVE WatchInv'
<1> USE WatchAssumption
<1>1. watcher \in WatcherStates /\ feed \in FeedStates /\ etcdRev \in 1..MaxEtcdRevision
      /\ orders \in [paused : BOOLEAN, stop : BOOLEAN] /\ endpoint \in 0..Endpoints - 1
      /\ watcher.seen \in 0..MaxEtcdRevision /\ feed.next \in 1..MaxEtcdRevision + 1
  BY DEF WatchInv, WatchTypeOK, WatcherStates, FeedStates
<1>2. UNCHANGED <<etcdRev, rootRevs, compacted, orders, events, told, reread, endpoint>>
      /\ watcher.at = "stream" /\ feed.open /\ feed.next <= etcdRev /\ Batch(etcdRev) = {}
  BY DEF Progress
<1>3. CASE orders.stop \/ orders.paused
  <2>1. PICK f \in FeedStates : f = [feed EXCEPT !.open = FALSE]
    BY <1>1 DEF FeedStates
  <2>2. PICK w \in WatcherStates : w = [watcher EXCEPT !.at = "top", !.disconnected = TRUE]
    BY <1>1 DEF WatcherStates
  <2>3. watcher' = w /\ feed' = f
    BY <1>3, <2>1, <2>2 DEF Progress, LoopAgain, Cancelled
  <2>4. f.next = feed.next /\ ~f.open /\ w.at = "top" /\ w.seen = watcher.seen
    BY <1>1, <2>1, <2>2 DEF FeedStates, WatcherStates
  <2> QED BY <1>1, <1>2, <2>3, <2>4, CalmWatch
<1>4. CASE ~(orders.stop \/ orders.paused)
  <2>1. watcher' = watcher /\ feed' = [feed EXCEPT !.next = etcdRev + 1]
    BY <1>4 DEF Progress
  <2>2. feed' \in FeedStates /\ feed'.next = etcdRev + 1 /\ feed'.open
    BY <1>1, <1>2, <2>1 DEF FeedStates
  <2>3. WatchTypeOK'
    BY <1>2, <2>1, <2>2 DEF WatchInv, WatchTypeOK, FeedStates
  <2>4. OfThePast' /\ SeenInOrder'
    BY <1>1, <1>2, <2>1, <2>2 DEF WatchInv, OfThePast, SeenInOrder
  <2>5. WatchComplete'
    <3>1. ASSUME NEW r \in rootRevs, watcher.seen < r PROVE r \in told \cup reread
      <4>1. r \in 1..etcdRev
        BY DEF WatchInv, OfThePast
      <4>2. r < feed.next
        BY <1>1, <1>2, <4>1 DEF Batch
      <4> QED BY <1>2, <3>1, <4>2 DEF WatchInv, WatchComplete
    <3> QED BY <1>2, <2>1, <3>1 DEF WatchInv, WatchComplete
  <2> QED BY <2>3, <2>4, <2>5 DEF WatchInv
<1> QED BY <1>3, <1>4

\* The watch keeps its invariant.
THEOREM WatchCorrect == WatchSpec => []WatchInv
<1>1. WatchInv /\ [WatchNext]_watchVars => WatchInv'
  <2> SUFFICES ASSUME WatchInv, [WatchNext]_watchVars PROVE WatchInv'
    OBVIOUS
  <2>1. CASE UNCHANGED watchVars
    BY <2>1 DEF watchVars, WatchInv, WatchTypeOK, OfThePast, SeenInOrder, WatchComplete
  <2>2. CASE WatchNext
    BY <2>2, EtcdInv, TurnInv, ReadConnectInv, DeliverInv, ProgressInv DEF WatchNext
  <2> QED BY <2>1, <2>2
<1> QED BY <1>1, WatchInitInv, PTL DEF WatchSpec

\* For any history of etcd, any number of endpoints and any orders: no change of the root is
\* missed or counted twice (WatchComplete).
THEOREM RootChangesSeen == WatchSpec => []WatchComplete
<1>1. WatchInv => WatchComplete
  BY DEF WatchInv
<1> QED BY <1>1, WatchCorrect, PTL

-----------------------------------------------------------------------------
(* MetaUnit.                                                                *)

\* Dictionaries from some of D to S.
Dict(D, S) == UNION {[d -> S] : d \in SUBSET D}

UnitOfWork ==
  [number : 0..MaxUnits, base : [Kinds -> Dict(Ids, MetaRecords)], rev : 0..MaxUnits,
   pending : Dict(Ids, MetaRecords), reads : Dict(Leased, 0..MaxLeases), guards : Dict(Leased, 1..MaxLeases),
   effects : Dict(Leased, 0..MaxLeases), ops : 0..MaxUnitOps, table : [Ids -> MetaRecords]]

\* The overlay and the effects of a unit, together with the root it has read, are its table.
Overlay(u) ==
  /\ \A k \in Kinds : \A i \in DOMAIN u.base[k] : KindOf(i) = k
  /\ \A i \in Ids : Get(u, i) = u.table[i]
  /\ \A i \in Leased :
       u.table[i].owner = IF i \in DOMAIN u.effects THEN u.effects[i] ELSE GetPublished(u, i).owner
  /\ \A i \in Plain : u.table[i].owner = 0

\* A unit is of its time: the root it has read is the present one unless a later revision
\* was published.
Dated(u) ==
  /\ u.rev <= metaRev /\ u.rev < u.number /\ u.number <= begun
  /\ u.rev = metaRev => u.base = metaRoot

\* The root is the table that SQLite has.
Published ==
  /\ \A k \in Kinds : \A i \in DOMAIN metaRoot[k] : KindOf(i) = k
  /\ \A i \in Ids : rows[i] = IF i \in DOMAIN metaRoot[KindOf(i)] THEN metaRoot[KindOf(i)][i] ELSE NoRecord
  /\ \A i \in Plain : rows[i].owner = 0

UnitTyped ==
  /\ metaRev \in 0..MaxUnits /\ unitGate \in 0..MaxUnits /\ begun \in 0..MaxUnits
  /\ leaseKeys \in [Leased -> 0..MaxLeases] /\ alive \subseteq 1..MaxLeases /\ granted \in 0..MaxLeases
  /\ rows \in [Ids -> MetaRecords]
  /\ metaRoot \in [Kinds -> Dict(Ids, MetaRecords)] /\ work \in [Threads -> UnitOfWork]

UnitInv ==
  /\ UnitTyped /\ metaRev <= begun
  /\ Published /\ LeasesNamed
  /\ \A w \in Threads : work[w].number # 0 => Overlay(work[w]) /\ Dated(work[w])

\* What is in a dictionary.
LEMMA DictFacts ==
  ASSUME NEW D, NEW S, NEW f \in Dict(D, S)
  PROVE  /\ DOMAIN f \subseteq D /\ \A i \in DOMAIN f : f[i] \in S
         /\ f \in [DOMAIN f -> S]
BY DEF Dict

\* Setting an item.
LEMMA DictEntered ==
  ASSUME NEW D, NEW S, NEW f \in Dict(D, S), NEW i \in D, NEW v \in S
  PROVE  /\ Entered(f, i, v) \in Dict(D, S)
         /\ DOMAIN Entered(f, i, v) = DOMAIN f \cup {i}
         /\ Entered(f, i, v)[i] = v
         /\ \A j \in DOMAIN f : j # i => Entered(f, i, v)[j] = f[j]
<1>1. DOMAIN f \subseteq D /\ \A j \in DOMAIN f : f[j] \in S
  BY DictFacts
<1>2. DOMAIN f \cup {i} \in SUBSET D
  BY <1>1
<1>3. Entered(f, i, v) \in [DOMAIN f \cup {i} -> S]
  BY <1>1 DEF Entered
<1>4. Entered(f, i, v) \in Dict(D, S)
  BY <1>2, <1>3 DEF Dict
<1> QED BY <1>4 DEF Entered

\* The numbers of the bounds.
LEMMA UnitBounds == MaxUnits \in Nat /\ MaxUnitOps \in Nat /\ MaxLeases \in Nat
BY UnitAssumption

\* A put, in both stores.
LEMMA KeepFacts ==
  ASSUME NEW u \in UnitOfWork, u.ops < MaxUnitOps, NEW i \in Ids, NEW r \in MetaRecords
  PROVE  /\ Keep(u, i, r) \in UnitOfWork
         /\ Keep(u, i, r).number = u.number /\ Keep(u, i, r).base = u.base /\ Keep(u, i, r).rev = u.rev
         /\ Keep(u, i, r).effects = u.effects
         /\ Keep(u, i, r).pending = Entered(u.pending, i, r)
         /\ Keep(u, i, r).table = [u.table EXCEPT ![i] = r]
<1>1. u.pending \in Dict(Ids, MetaRecords) /\ u.table \in [Ids -> MetaRecords] /\ u.ops \in 0..MaxUnitOps
  BY DEF UnitOfWork
<1>2. Entered(u.pending, i, r) \in Dict(Ids, MetaRecords)
  BY <1>1, DictEntered
<1>3. [u.table EXCEPT ![i] = r] \in [Ids -> MetaRecords]
  BY <1>1
<1>4. u.ops + 1 \in 0..MaxUnitOps
  BY <1>1, UnitBounds
<1>5. Keep(u, i, r) = [u EXCEPT !.pending = Entered(u.pending, i, r), !.table = [u.table EXCEPT ![i] = r],
                                !.ops = u.ops + 1]
  BY DEF Keep, UnitOfWork
<1> DEFINE p == Entered(u.pending, i, r)
           t == [u.table EXCEPT ![i] = r]
           o == u.ops + 1
<1> HIDE DEF p, t, o
<1>6. Keep(u, i, r) = [u EXCEPT !.pending = p, !.table = t, !.ops = o]
  BY <1>5 DEF p, t, o
<1>7. p \in Dict(Ids, MetaRecords) /\ t \in [Ids -> MetaRecords] /\ o \in 0..MaxUnitOps
  BY <1>2, <1>3, <1>4 DEF p, t, o
<1>8. Keep(u, i, r) \in UnitOfWork
  BY <1>6, <1>7 DEF UnitOfWork
<1>9. /\ Keep(u, i, r).number = u.number /\ Keep(u, i, r).base = u.base /\ Keep(u, i, r).rev = u.rev
      /\ Keep(u, i, r).effects = u.effects /\ Keep(u, i, r).pending = p /\ Keep(u, i, r).table = t
  BY <1>6 DEF UnitOfWork
<1> QED BY <1>8, <1>9 DEF p, t

\* A lease key that the publication is to change.
LEMMA EffectFacts ==
  ASSUME NEW u \in UnitOfWork, NEW i \in Leased, NEW l \in 0..MaxLeases
  PROVE  LET v == [u EXCEPT !.effects = Entered(@, i, l)]
         IN  /\ v \in UnitOfWork
             /\ v.number = u.number /\ v.base = u.base /\ v.rev = u.rev /\ v.pending = u.pending
             /\ v.table = u.table /\ v.effects = Entered(u.effects, i, l)
<1>1. Entered(u.effects, i, l) \in Dict(Leased, 0..MaxLeases)
  <2>1. u.effects \in Dict(Leased, 0..MaxLeases)
    BY DEF UnitOfWork
  <2> QED BY <2>1, DictEntered
<1> DEFINE e == Entered(u.effects, i, l)
<1> HIDE DEF e
<1>2. [u EXCEPT !.effects = Entered(@, i, l)] = [u EXCEPT !.effects = e]
  BY DEF e, UnitOfWork
<1>3. e \in Dict(Leased, 0..MaxLeases)
  BY <1>1 DEF e
<1>4. [u EXCEPT !.effects = e] \in UnitOfWork
  BY <1>3 DEF UnitOfWork
<1>5. LET v == [u EXCEPT !.effects = e]
      IN  /\ v.number = u.number /\ v.base = u.base /\ v.rev = u.rev /\ v.pending = u.pending
          /\ v.table = u.table /\ v.effects = e
  BY DEF UnitOfWork
<1> QED BY <1>2, <1>4, <1>5 DEF e

\* What lease_live leaves behind in the unit that asked.
LEMMA AskedFacts ==
  ASSUME leaseKeys \in [Leased -> 0..MaxLeases],
         NEW u \in UnitOfWork, NEW i \in Leased, NEW o \in 0..MaxLeases
  PROVE  LET v == AskedFor(u, i, o)
         IN  /\ v \in UnitOfWork
             /\ v.number = u.number /\ v.base = u.base /\ v.rev = u.rev /\ v.pending = u.pending
             /\ v.table = u.table /\ v.effects = u.effects /\ v.ops = u.ops
<1>1. CASE o = 0 \/ OwnPut(u, i)
  BY <1>1 DEF AskedFor
<1>2. CASE ~(o = 0 \/ OwnPut(u, i))
  <2> DEFINE r == IF i \in DOMAIN u.reads THEN u.reads ELSE Entered(u.reads, i, leaseKeys[i])
             g == IF LiveIn(u, i, o) /\ i \notin DOMAIN u.guards THEN Entered(u.guards, i, o) ELSE u.guards
  <2>1. u.reads \in Dict(Leased, 0..MaxLeases) /\ u.guards \in Dict(Leased, 1..MaxLeases)
    BY DEF UnitOfWork
  <2>2. o \in 1..MaxLeases
    BY <1>2, UnitBounds
  <2>3. r \in Dict(Leased, 0..MaxLeases)
    BY <2>1, DictEntered
  <2>4. g \in Dict(Leased, 1..MaxLeases)
    BY <2>1, <2>2, DictEntered
  <2>5. AskedFor(u, i, o) = [u EXCEPT !.reads = r, !.guards = g]
    BY <1>2 DEF AskedFor, UnitOfWork
  <2> HIDE DEF r, g
  <2>6. [u EXCEPT !.reads = r, !.guards = g] \in UnitOfWork
    BY <2>3, <2>4 DEF UnitOfWork
  <2>7. LET v == [u EXCEPT !.reads = r, !.guards = g]
        IN  /\ v.number = u.number /\ v.base = u.base /\ v.rev = u.rev /\ v.pending = u.pending
            /\ v.table = u.table /\ v.effects = u.effects /\ v.ops = u.ops
    BY DEF UnitOfWork
  <2> QED BY <2>5, <2>6, <2>7
<1> QED BY <1>1, <1>2

\* A record is put, and the owner it names is that of the lease key the unit is to leave.
LEMMA OverlayKept ==
  ASSUME NEW u \in UnitOfWork, NEW v \in UnitOfWork, NEW i \in Ids, NEW r \in MetaRecords,
         v.base = u.base, v.pending = Entered(u.pending, i, r), v.table = [u.table EXCEPT ![i] = r],
         Overlay(u), i \in Plain => r.owner = 0,
         i \in Leased => r.owner = IF i \in DOMAIN v.effects THEN v.effects[i] ELSE GetPublished(u, i).owner,
         \A j \in Leased : j # i =>
           /\ j \in DOMAIN v.effects <=> j \in DOMAIN u.effects
           /\ j \in DOMAIN u.effects => v.effects[j] = u.effects[j]
  PROVE  Overlay(v)
<1>1. /\ DOMAIN v.pending = DOMAIN u.pending \cup {i} /\ v.pending[i] = r
      /\ \A j \in DOMAIN u.pending : j # i => v.pending[j] = u.pending[j]
  <2>1. u.pending \in Dict(Ids, MetaRecords)
    BY DEF UnitOfWork
  <2> DEFINE p == u.pending
             q == Entered(p, i, r)
  <2> HIDE DEF p
  <2>2. /\ DOMAIN q = DOMAIN p \cup {i} /\ q[i] = r
        /\ \A j \in DOMAIN p : j # i => q[j] = p[j]
    BY DEF Entered
  <2>3. v.pending = q
    BY DEF p
  <2> HIDE DEF q
  <2> QED BY <2>2, <2>3 DEF p
<1>2. /\ v.table[i] = r /\ \A j \in Ids : j # i => v.table[j] = u.table[j]
  BY DEF UnitOfWork
<1>3. \A j \in Ids : Get(v, j) = v.table[j]
  <2>1. Get(v, i) = v.table[i]
    BY <1>1, <1>2 DEF Get
  <2>2. \A j \in Ids : j # i => Get(v, j) = Get(u, j)
    BY <1>1 DEF Get, Bucket
  <2> QED BY <1>2, <2>1, <2>2 DEF Overlay
<1>4. \A j \in Leased :
        v.table[j].owner = IF j \in DOMAIN v.effects THEN v.effects[j] ELSE GetPublished(v, j).owner
  <2>1. \A j \in Leased : GetPublished(v, j) = GetPublished(u, j) /\ j \in Ids
    BY DEF GetPublished, Bucket, Ids
  <2> QED BY <1>2, <2>1 DEF Overlay
<1>5. \A k \in Kinds : \A j \in DOMAIN v.base[k] : KindOf(j) = k
  BY DEF Overlay
<1>6. \A j \in Plain : v.table[j].owner = 0
  BY <1>2 DEF Overlay, Ids
<1> QED BY <1>3, <1>4, <1>5, <1>6 DEF Overlay

\* A call of a unit: nothing but that unit, and leases, changes.
LEMMA CallInv ==
  ASSUME UnitInv, NEW w \in Threads, NEW v \in UnitOfWork, work' = [work EXCEPT ![w] = v],
         Overlay(v), work[w].number # 0,
         v.number = work[w].number, v.base = work[w].base, v.rev = work[w].rev,
         UNCHANGED <<metaRoot, metaRev, unitGate, leaseKeys, begun, rows>>,
         alive' \subseteq 1..MaxLeases, granted' \in 0..MaxLeases
  PROVE  UnitInv'
<1>1. work' \in [Threads -> UnitOfWork] /\ work'[w] = v /\ \A x \in Threads : x # w => work'[x] = work[x]
  BY DEF UnitInv, UnitTyped
<1>2. UnitTyped'
  BY <1>1 DEF UnitInv, UnitTyped
<1>3. (metaRev <= begun /\ Published /\ LeasesNamed)'
  BY DEF UnitInv, Published, LeasesNamed
<1>4. \A x \in Threads : work'[x].number # 0 => Overlay(work'[x]) /\ Dated(work[x]) /\ work'[x].rev = work[x].rev
        /\ work'[x].number = work[x].number /\ work'[x].base = work[x].base
  BY <1>1 DEF UnitInv
<1>5. (\A x \in Threads : work[x].number # 0 => Overlay(work[x]) /\ Dated(work[x]))'
  BY <1>4 DEF Dated
<1> QED BY <1>2, <1>3, <1>5 DEF UnitInv

\* The type of a record.
LEMMA RecordTypes ==
  /\ NoRecord \in MetaRecords /\ NoRecord.owner = 0
  /\ \A o \in 0..MaxLeases, c \in BOOLEAN, d \in {0, 1} :
       LeaseRecord(o, c, d) \in MetaRecords /\ LeaseRecord(o, c, d).owner = o
  /\ \A r \in MetaRecords : /\ r.owner \in 0..MaxLeases
                            /\ [r EXCEPT !.closed = TRUE] \in MetaRecords
                            /\ [r EXCEPT !.closed = TRUE].owner = r.owner
<1>1. NoRecord \in MetaRecords /\ NoRecord.owner = 0
  BY UnitBounds DEF NoRecord, MetaRecords, LeaseRecord
<1>2. \A o \in 0..MaxLeases, c \in BOOLEAN, d \in {0, 1} :
        LeaseRecord(o, c, d) \in MetaRecords /\ LeaseRecord(o, c, d).owner = o
  BY DEF MetaRecords, LeaseRecord
<1>3. ASSUME NEW r \in MetaRecords
      PROVE  /\ r.owner \in 0..MaxLeases /\ [r EXCEPT !.closed = TRUE] \in MetaRecords
             /\ [r EXCEPT !.closed = TRUE].owner = r.owner
  BY DEF MetaRecords
<1> QED BY <1>1, <1>2, <1>3

\* What a unit that may go on is.
LEMMA ActiveUnit ==
  ASSUME UnitInv, NEW w \in Threads, Active(w)
  PROVE  /\ work[w] \in UnitOfWork /\ work[w].number # 0 /\ work[w].ops < MaxUnitOps /\ Overlay(work[w])
         /\ leaseKeys \in [Leased -> 0..MaxLeases] /\ alive \subseteq 1..MaxLeases /\ granted \in 0..MaxLeases
         /\ \A i \in Ids : Get(work[w], i) = work[w].table[i] /\ Get(work[w], i) \in MetaRecords
BY DEF UnitInv, UnitTyped, Active, Overlay, UnitOfWork

\* A record without a lease is put.
LEMMA PutPlainInv ==
  ASSUME UnitInv, NEW w \in Threads, NEW i \in Plain, NEW closed \in BOOLEAN, PutPlain(w, i, closed)
  PROVE  UnitInv'
<1> DEFINE u == work[w]
           r == LeaseRecord(0, closed, 0)
           v == Keep(u, i, r)
<1>1. Active(w) /\ work' = [work EXCEPT ![w] = v]
      /\ UNCHANGED <<metaRoot, metaRev, unitGate, leaseKeys, alive, granted, begun, rows>>
  BY DEF PutPlain
<1>2. r \in MetaRecords /\ r.owner = 0 /\ i \in Ids /\ i \notin Leased
  BY RecordTypes, UnitBounds, UnitAssumption DEF Ids
<1>3. u \in UnitOfWork /\ u.number # 0 /\ u.ops < MaxUnitOps /\ Overlay(u)
      /\ alive \subseteq 1..MaxLeases /\ granted \in 0..MaxLeases
  BY <1>1, ActiveUnit
<1> HIDE DEF r, u
<1>4. /\ v \in UnitOfWork /\ v.number = u.number /\ v.base = u.base /\ v.rev = u.rev /\ v.effects = u.effects
      /\ v.pending = Entered(u.pending, i, r) /\ v.table = [u.table EXCEPT ![i] = r]
  BY <1>2, <1>3, KeepFacts
<1> HIDE DEF v
<1>5. Overlay(v)
  BY <1>2, <1>3, <1>4, OverlayKept
<1> QED BY <1>1, <1>3, <1>4, <1>5, CallInv DEF u

\* A record with a new lease.
LEMMA KeepWithLeaseInv ==
  ASSUME UnitInv, NEW w \in Threads, Active(w), NEW i \in Leased, NEW u \in UnitOfWork, NEW d \in {0, 1},
         u.number = work[w].number, u.base = work[w].base, u.rev = work[w].rev, u.pending = work[w].pending,
         u.table = work[w].table, u.effects = work[w].effects, u.ops = work[w].ops,
         KeepWithLease(w, u, i, FALSE, d),
         UNCHANGED <<metaRoot, metaRev, unitGate, leaseKeys, begun, rows>>
  PROVE  UnitInv'
<1> DEFINE l == granted'
           r == LeaseRecord(l, FALSE, d)
           k == Keep(u, i, r)
           v == [k EXCEPT !.effects = Entered(@, i, l)]
<1>1. /\ l \in 0..MaxLeases /\ alive' \subseteq 1..MaxLeases
      /\ work' = [work EXCEPT ![w] = v]
  <2>1. granted \in 0..MaxLeases /\ alive \subseteq 1..MaxLeases
    BY ActiveUnit
  <2> QED BY <2>1, UnitBounds DEF KeepWithLease
<1>2. work[w].number # 0 /\ u.ops < MaxUnitOps /\ Overlay(work[w])
  BY ActiveUnit
<1>3. Overlay(u)
  BY <1>2 DEF Overlay, Get, GetPublished, Bucket
<1>4. r \in MetaRecords /\ r.owner = l /\ i \in Ids
  BY <1>1, RecordTypes DEF Ids
<1> HIDE DEF l, r
<1>5. /\ k \in UnitOfWork /\ k.number = u.number /\ k.base = u.base /\ k.rev = u.rev /\ k.effects = u.effects
      /\ k.pending = Entered(u.pending, i, r) /\ k.table = [u.table EXCEPT ![i] = r]
  BY <1>2, <1>4, KeepFacts
<1> HIDE DEF k
<1>6. /\ v \in UnitOfWork /\ v.number = u.number /\ v.base = u.base /\ v.rev = u.rev
      /\ v.effects = Entered(k.effects, i, l) /\ v.pending = k.pending /\ v.table = k.table
  BY <1>1, <1>5, EffectFacts
<1>7. /\ DOMAIN v.effects = DOMAIN u.effects \cup {i} /\ v.effects[i] = l
      /\ \A j \in DOMAIN u.effects : j # i => v.effects[j] = u.effects[j]
  <2>1. u.effects \in Dict(Leased, 0..MaxLeases)
    BY DEF UnitOfWork
  <2> DEFINE f == u.effects
             g == Entered(f, i, l)
  <2> HIDE DEF f
  <2>2. DOMAIN g = DOMAIN f \cup {i} /\ g[i] = l /\ \A j \in DOMAIN f : j # i => g[j] = f[j]
    BY DEF Entered
  <2>3. v.effects = g
    BY <1>5, <1>6 DEF f
  <2> HIDE DEF g, v
  <2> QED BY <2>2, <2>3 DEF f
<1> HIDE DEF v
<1>8. Overlay(v)
  BY <1>3, <1>4, <1>5, <1>6, <1>7, OverlayKept, UnitAssumption
<1> QED BY <1>1, <1>2, <1>6, <1>8, CallInv DEF l

\* A handle, a lock or a session is put for the first time.
LEMMA PutNewInv ==
  ASSUME UnitInv, NEW w \in Threads, NEW i \in Handles, PutNew(w, i) PROVE UnitInv'
<1>1. /\ Active(w) /\ KeepWithLease(w, work[w], i, FALSE, 0) /\ i \in Leased
      /\ UNCHANGED <<metaRoot, metaRev, unitGate, leaseKeys, begun, rows>>
  BY DEF PutNew, Leased
<1>2. work[w] \in UnitOfWork
  BY <1>1, ActiveUnit
<1> QED BY <1>1, <1>2, KeepWithLeaseInv

\* A record is put again with the owner it had.
LEMMA SameOwnerInv ==
  ASSUME UnitInv, NEW w \in Threads, Active(w), NEW i \in Leased, NEW u \in UnitOfWork, NEW r \in MetaRecords,
         u.number = work[w].number, u.base = work[w].base, u.rev = work[w].rev, u.pending = work[w].pending,
         u.table = work[w].table, u.effects = work[w].effects, u.ops = work[w].ops,
         r.owner = Get(work[w], i).owner,
         work' = [work EXCEPT ![w] = Keep(u, i, r)],
         UNCHANGED <<metaRoot, metaRev, unitGate, leaseKeys, alive, granted, begun, rows>>
  PROVE  UnitInv'
<1> DEFINE v == Keep(u, i, r)
<1>1. /\ work[w].number # 0 /\ u.ops < MaxUnitOps /\ Overlay(work[w]) /\ i \in Ids
      /\ alive \subseteq 1..MaxLeases /\ granted \in 0..MaxLeases /\ Get(work[w], i) = work[w].table[i]
  BY ActiveUnit DEF Ids
<1>2. Overlay(u)
  BY <1>1 DEF Overlay, Get, GetPublished, Bucket
<1>3. r.owner = IF i \in DOMAIN u.effects THEN u.effects[i] ELSE GetPublished(u, i).owner
  BY <1>1, <1>2 DEF Overlay
<1>4. /\ v \in UnitOfWork /\ v.number = u.number /\ v.base = u.base /\ v.rev = u.rev /\ v.effects = u.effects
      /\ v.pending = Entered(u.pending, i, r) /\ v.table = [u.table EXCEPT ![i] = r]
  BY <1>1, KeepFacts
<1> HIDE DEF v
<1>5. Overlay(v)
  BY <1>1, <1>2, <1>3, <1>4, OverlayKept, UnitAssumption
<1> QED BY <1>1, <1>4, <1>5, CallInv DEF v

\* A deadline is put off, while the lease of the record is live.
LEMMA PutRenewedInv ==
  ASSUME UnitInv, NEW w \in Threads, NEW i \in Handles, PutRenewed(w, i) PROVE UnitInv'
<1> DEFINE o == Get(work[w], i).owner
           u == AskedFor(work[w], i, o)
           r == LeaseRecord(o, FALSE, 1)
<1>1. /\ Active(w) /\ i \in Leased /\ i \in Ids /\ work' = [work EXCEPT ![w] = Keep(u, i, r)]
      /\ UNCHANGED <<metaRoot, metaRev, unitGate, leaseKeys, alive, granted, begun, rows>>
  BY DEF PutRenewed, Leased, Ids
<1>2. /\ o \in 0..MaxLeases /\ r \in MetaRecords /\ r.owner = o
  <2>1. Get(work[w], i) \in MetaRecords
    BY <1>1, ActiveUnit
  <2>2. o \in 0..MaxLeases
    BY <2>1, RecordTypes
  <2> HIDE DEF o
  <2> QED BY <2>2, RecordTypes
<1>3. work[w] \in UnitOfWork /\ leaseKeys \in [Leased -> 0..MaxLeases]
  BY <1>1, ActiveUnit
<1>4. /\ u \in UnitOfWork /\ u.number = work[w].number /\ u.base = work[w].base /\ u.rev = work[w].rev
      /\ u.pending = work[w].pending /\ u.table = work[w].table /\ u.effects = work[w].effects
      /\ u.ops = work[w].ops
  BY <1>1, <1>2, <1>3, AskedFacts
<1> HIDE DEF u, r
<1> QED BY <1>1, <1>2, <1>4, SameOwnerInv

\* A record is closed, and its lease key left as it is.
LEMMA PutClosedInv ==
  ASSUME UnitInv, NEW w \in Threads, NEW i \in Handles, PutClosed(w, i) PROVE UnitInv'
<1> DEFINE r == [Get(work[w], i) EXCEPT !.closed = TRUE]
<1>1. /\ Active(w) /\ i \in Leased /\ i \in Ids /\ work' = [work EXCEPT ![w] = Keep(work[w], i, r)]
      /\ UNCHANGED <<metaRoot, metaRev, unitGate, leaseKeys, alive, granted, begun, rows>>
  BY DEF PutClosed, Leased, Ids
<1>2. work[w] \in UnitOfWork /\ Get(work[w], i) \in MetaRecords
  BY <1>1, ActiveUnit
<1>3. r \in MetaRecords /\ r.owner = Get(work[w], i).owner
  BY <1>2, RecordTypes
<1> HIDE DEF r
<1> QED BY <1>1, <1>2, <1>3, SameOwnerInv

\* A DataNode is registered again, with its lease or with a new one.
LEMMA PutNodeInv ==
  ASSUME UnitInv, NEW w \in Threads, NEW i \in Registered, PutNode(w, i) PROVE UnitInv'
<1> DEFINE o == Get(work[w], i).owner
           u == AskedFor(work[w], i, o)
           r == LeaseRecord(o, FALSE, 1)
<1>1. /\ Active(w) /\ i \in Leased /\ i \in Ids
      /\ \/ /\ work' = [work EXCEPT ![w] = Keep(u, i, r)]
            /\ UNCHANGED <<alive, granted>>
         \/ KeepWithLease(w, u, i, FALSE, 1)
      /\ UNCHANGED <<metaRoot, metaRev, unitGate, leaseKeys, begun, rows>>
  BY DEF PutNode, Leased, Ids
<1>2. /\ o \in 0..MaxLeases /\ r \in MetaRecords /\ r.owner = o
  <2>1. Get(work[w], i) \in MetaRecords
    BY <1>1, ActiveUnit
  <2>2. o \in 0..MaxLeases
    BY <2>1, RecordTypes
  <2> HIDE DEF o
  <2> QED BY <2>2, RecordTypes
<1>3. work[w] \in UnitOfWork /\ leaseKeys \in [Leased -> 0..MaxLeases]
  BY <1>1, ActiveUnit
<1>4. /\ u \in UnitOfWork /\ u.number = work[w].number /\ u.base = work[w].base /\ u.rev = work[w].rev
      /\ u.pending = work[w].pending /\ u.table = work[w].table /\ u.effects = work[w].effects
      /\ u.ops = work[w].ops
  BY <1>1, <1>2, <1>3, AskedFacts
<1> HIDE DEF u, r
<1>5. CASE work' = [work EXCEPT ![w] = Keep(u, i, r)] /\ UNCHANGED <<alive, granted>>
  BY <1>1, <1>2, <1>4, <1>5, SameOwnerInv
<1>6. CASE KeepWithLease(w, u, i, FALSE, 1)
  BY <1>1, <1>4, <1>6, KeepWithLeaseInv
<1> QED BY <1>1, <1>5, <1>6

\* A record is deleted, and its lease key with it.
LEMMA DeleteInv ==
  ASSUME UnitInv, NEW w \in Threads, NEW i \in Ids, Delete(w, i) PROVE UnitInv'
<1> DEFINE u == work[w]
           o == Get(u, i).owner
           k == Keep(u, i, NoRecord)
           v == IF o = 0 THEN k ELSE [k EXCEPT !.effects = Entered(@, i, 0)]
<1>1. /\ Active(w) /\ work' = [work EXCEPT ![w] = v]
      /\ UNCHANGED <<metaRoot, metaRev, unitGate, leaseKeys, alive, granted, begun, rows>>
  BY DEF Delete
<1>2. /\ u \in UnitOfWork /\ u.number # 0 /\ u.ops < MaxUnitOps /\ Overlay(u)
      /\ alive \subseteq 1..MaxLeases /\ granted \in 0..MaxLeases /\ Get(u, i) = u.table[i]
  BY <1>1, ActiveUnit
<1>3. NoRecord \in MetaRecords /\ NoRecord.owner = 0
  BY RecordTypes
<1> HIDE DEF u
<1>4. /\ k \in UnitOfWork /\ k.number = u.number /\ k.base = u.base /\ k.rev = u.rev /\ k.effects = u.effects
      /\ k.pending = Entered(u.pending, i, NoRecord) /\ k.table = [u.table EXCEPT ![i] = NoRecord]
  BY <1>2, <1>3, KeepFacts
<1> HIDE DEF k, o
<1>5. CASE o = 0
  <2>1. Overlay(k)
    <3>1. i \in Leased => 0 = IF i \in DOMAIN u.effects THEN u.effects[i] ELSE GetPublished(u, i).owner
      BY <1>2, <1>5 DEF Overlay, o
    <3> QED BY <1>2, <1>3, <1>4, <3>1, OverlayKept
  <2>2. work' = [work EXCEPT ![w] = k]
    BY <1>1, <1>5
  <2> QED BY <1>1, <1>2, <1>4, <2>1, <2>2, CallInv DEF u
<1>6. CASE o # 0 /\ i \in Leased
  <2> DEFINE x == [k EXCEPT !.effects = Entered(@, i, 0)]
  <2>1. /\ x \in UnitOfWork /\ x.number = u.number /\ x.base = u.base /\ x.rev = u.rev
        /\ x.pending = k.pending /\ x.table = k.table /\ x.effects = Entered(k.effects, i, 0)
    BY <1>4, <1>6, EffectFacts, UnitBounds
  <2>2. /\ DOMAIN x.effects = DOMAIN u.effects \cup {i} /\ x.effects[i] = 0
        /\ \A j \in DOMAIN u.effects : j # i => x.effects[j] = u.effects[j]
    <3> DEFINE f == u.effects
               g == Entered(f, i, 0)
    <3> HIDE DEF f
    <3>1. DOMAIN g = DOMAIN f \cup {i} /\ g[i] = 0 /\ \A j \in DOMAIN f : j # i => g[j] = f[j]
      BY DEF Entered
    <3>2. x.effects = g
      BY <1>4, <2>1 DEF f
    <3> HIDE DEF g, x
    <3> QED BY <3>1, <3>2 DEF f
  <2>3. work' = [work EXCEPT ![w] = x]
    BY <1>1, <1>6
  <2> HIDE DEF x
  <2>4. Overlay(x)
    BY <1>2, <1>3, <1>4, <1>6, <2>1, <2>2, OverlayKept
  <2> QED BY <1>1, <1>2, <2>1, <2>3, <2>4, CallInv DEF u
<1>7. CASE i \notin Leased
  BY <1>2, <1>5, <1>7 DEF Overlay, Ids, o
<1> QED BY <1>5, <1>6, <1>7

\* A unit that has just begun.
Started(m, b, r, t) == [NoUnit EXCEPT !.number = m, !.base = b, !.rev = r, !.table = t]

\* The unit that nobody has begun, and one that has just been.
LEMMA NoUnitTypes ==
  ASSUME NEW b \in [Kinds -> Dict(Ids, MetaRecords)], NEW t \in [Ids -> MetaRecords],
         NEW m \in 0..MaxUnits, NEW r \in 0..MaxUnits
  PROVE  LET v == Started(m, b, r, t)
         IN  /\ v \in UnitOfWork /\ v.number = m /\ v.base = b /\ v.rev = r /\ v.table = t
             /\ DOMAIN v.pending = {} /\ DOMAIN v.effects = {}
             /\ NoUnit \in UnitOfWork /\ NoUnit.number = 0
<1>1. \A D, S : <<>> \in Dict(D, S)
  <2>1. \A S : <<>> \in [{} -> S]
    OBVIOUS
  <2> QED BY <2>1 DEF Dict
<1>2. NoRecord \in MetaRecords
  BY RecordTypes
<1>3. [k \in Kinds |-> <<>>] \in [Kinds -> Dict(Ids, MetaRecords)]
  BY <1>1
<1>4. [i \in Ids |-> NoRecord] \in [Ids -> MetaRecords]
  BY <1>2
<1> DEFINE d == [k \in Kinds |-> <<>>]
           n == [i \in Ids |-> NoRecord]
<1> HIDE DEF d, n
<1>5. NoUnit = [number |-> 0, base |-> d, rev |-> 0, pending |-> <<>>, reads |-> <<>>, guards |-> <<>>,
                effects |-> <<>>, ops |-> 0, table |-> n]
  BY DEF NoUnit, d, n
<1>6. NoUnit \in UnitOfWork /\ NoUnit.number = 0
  BY <1>1, <1>3, <1>4, <1>5, UnitBounds DEF UnitOfWork, d, n
<1>7. NoUnit.pending = <<>> /\ NoUnit.effects = <<>> /\ DOMAIN <<>> = {}
  BY <1>5
<1> DEFINE v == [NoUnit EXCEPT !.number = m, !.base = b, !.rev = r, !.table = t]
<1>8. v \in UnitOfWork
  BY <1>6 DEF UnitOfWork
<1>9. /\ v.number = m /\ v.base = b /\ v.rev = r /\ v.table = t
      /\ v.pending = NoUnit.pending /\ v.effects = NoUnit.effects
  BY <1>6 DEF UnitOfWork
<1> QED BY <1>6, <1>7, <1>8, <1>9 DEF Started

\* A unit begins with the root and the table as they are.
LEMMA BeginUnitInv == ASSUME UnitInv, NEW w \in Threads, BeginUnit(w) PROVE UnitInv'
<1> DEFINE v == Started(begun', metaRoot, metaRev, rows)
<1>1. /\ begun < MaxUnits /\ begun' = begun + 1 /\ unitGate' = begun'
      /\ work' = [work EXCEPT ![w] = v]
      /\ UNCHANGED <<metaRoot, metaRev, leaseKeys, alive, granted, rows>>
  BY DEF BeginUnit, Started
<1>2. begun' \in 0..MaxUnits /\ metaRev \in 0..MaxUnits /\ metaRev <= begun /\ begun \in 0..MaxUnits
      /\ rows \in [Ids -> MetaRecords] /\ metaRoot \in [Kinds -> Dict(Ids, MetaRecords)]
  BY <1>1, UnitBounds DEF UnitInv, UnitTyped
<1>3. /\ v \in UnitOfWork /\ v.number = begun' /\ v.base = metaRoot /\ v.rev = metaRev /\ v.table = rows
      /\ DOMAIN v.pending = {} /\ DOMAIN v.effects = {}
  BY <1>2, NoUnitTypes
<1> HIDE DEF v
<1>4. Overlay(v)
  <2>1. \A i \in Ids : Get(v, i) = rows[i] /\ GetPublished(v, i) = rows[i]
    BY <1>3 DEF Get, GetPublished, Bucket, UnitInv, Published
  <2> QED BY <1>3, <2>1 DEF Overlay, UnitInv, Published, Ids
<1>5. /\ work' \in [Threads -> UnitOfWork] /\ work'[w] = v /\ \A x \in Threads : x # w => work'[x] = work[x]
  BY <1>1, <1>3 DEF UnitInv, UnitTyped
<1>6. UnitTyped' /\ (metaRev <= begun)'
  BY <1>1, <1>2, <1>5 DEF UnitInv, UnitTyped
<1>7. (Published /\ LeasesNamed)'
  BY <1>1 DEF UnitInv, Published, LeasesNamed
<1>8. (\A x \in Threads : work[x].number # 0 => Overlay(work[x]))'
  BY <1>4, <1>5 DEF UnitInv
<1>9. (\A x \in Threads : work[x].number # 0 => Dated(work[x]))'
  <2>1. \A x \in Threads : x # w /\ work'[x].number # 0 => Dated(work[x]) /\ work'[x] = work[x]
                            /\ work[x].number \in 0..MaxUnits
    BY <1>5 DEF UnitInv, UnitTyped, UnitOfWork
  <2>2. \A x \in Threads : x # w /\ work'[x].number # 0 => Dated(work[x])'
    BY <1>1, <1>2, <2>1 DEF Dated
  <2>3. Dated(work[w])'
    BY <1>1, <1>2, <1>3, <1>5 DEF Dated
  <2> QED BY <2>2, <2>3
<1> QED BY <1>6, <1>7, <1>8, <1>9 DEF UnitInv

\* The unit of a thread is over.
LEMMA EndOfUnit ==
  ASSUME UnitInv, NEW w \in Threads, work' = [work EXCEPT ![w] = NoUnit]
  PROVE  /\ work' \in [Threads -> UnitOfWork] /\ work'[w].number = 0
         /\ \A x \in Threads : x # w => work'[x] = work[x]
<1>1. NoUnit \in UnitOfWork /\ NoUnit.number = 0
  <2>1. metaRoot \in [Kinds -> Dict(Ids, MetaRecords)] /\ rows \in [Ids -> MetaRecords] /\ 0 \in 0..MaxUnits
    BY UnitBounds DEF UnitInv, UnitTyped
  <2> QED BY <2>1, NoUnitTypes
<1> QED BY <1>1 DEF UnitInv, UnitTyped

\* Nothing of the unit is left.
LEMMA RollBackInv == ASSUME UnitInv, NEW w \in Threads, RollBack(w) PROVE UnitInv'
<1>1. /\ unitGate' \in {0, unitGate} /\ work' = [work EXCEPT ![w] = NoUnit]
      /\ UNCHANGED <<metaRoot, metaRev, leaseKeys, alive, granted, begun, rows>>
  BY DEF RollBack
<1>2. /\ work' \in [Threads -> UnitOfWork] /\ work'[w].number = 0
      /\ \A x \in Threads : x # w => work'[x] = work[x]
  BY <1>1, EndOfUnit
<1>3. UnitTyped' /\ (metaRev <= begun)'
  BY <1>1, <1>2, UnitBounds DEF UnitInv, UnitTyped
<1>4. (Published /\ LeasesNamed)'
  BY <1>1 DEF UnitInv, Published, LeasesNamed
<1>5. (\A x \in Threads : work[x].number # 0 => Overlay(work[x]) /\ Dated(work[x]))'
  BY <1>1, <1>2 DEF UnitInv, Dated
<1> QED BY <1>3, <1>4, <1>5 DEF UnitInv

\* A lease key that goes leaves none that is not its record's.
LEMMA LeaseRunsOutInv == ASSUME UnitInv, NEW l \in alive, LeaseRunsOut(l) PROVE UnitInv'
<1>1. /\ alive' = alive \ {l}
      /\ leaseKeys' = [i \in Leased |-> IF leaseKeys[i] = l THEN 0 ELSE leaseKeys[i]]
      /\ UNCHANGED <<metaRoot, metaRev, unitGate, granted, begun, work, rows>>
  BY DEF LeaseRunsOut
<1>2. UnitTyped' /\ (metaRev <= begun)'
  BY <1>1, UnitBounds DEF UnitInv, UnitTyped
<1>3. (Published /\ LeasesNamed)'
  BY <1>1 DEF UnitInv, Published, LeasesNamed
<1>4. (\A x \in Threads : work[x].number # 0 => Overlay(work[x]) /\ Dated(work[x]))'
  BY <1>1 DEF UnitInv, Dated
<1> QED BY <1>2, <1>3, <1>4 DEF UnitInv

\* The gate of a unit lapses, and nothing else.
LEMMA UnitGateLapsesInv == ASSUME UnitInv, UnitGateLapses PROVE UnitInv'
<1>1. unitGate' = 0 /\ UNCHANGED <<metaRoot, metaRev, leaseKeys, alive, granted, begun, work, rows>>
  BY DEF UnitGateLapses
<1>2. UnitTyped' /\ (metaRev <= begun)'
  BY <1>1, UnitBounds DEF UnitInv, UnitTyped
<1>3. (Published /\ LeasesNamed)'
  BY <1>1 DEF UnitInv, Published, LeasesNamed
<1>4. (\A x \in Threads : work[x].number # 0 => Overlay(work[x]) /\ Dated(work[x]))'
  BY <1>1 DEF UnitInv, Dated
<1> QED BY <1>2, <1>3, <1>4 DEF UnitInv

\* The pages that a unit leaves, and what they hold.
LEMMA FlushFacts ==
  ASSUME NEW u \in UnitOfWork, Overlay(u)
  PROVE  /\ Flush(u) \in [Kinds -> Dict(Ids, MetaRecords)]
         /\ \A k \in Kinds : \A i \in DOMAIN Flush(u)[k] : KindOf(i) = k
         /\ \A i \in Ids :
              u.table[i] = IF i \in DOMAIN Flush(u)[KindOf(i)] THEN Flush(u)[KindOf(i)][i] ELSE NoRecord
<1>1. /\ u.pending \in Dict(Ids, MetaRecords) /\ u.base \in [Kinds -> Dict(Ids, MetaRecords)]
      /\ u.table \in [Ids -> MetaRecords]
  BY DEF UnitOfWork
<1> DEFINE mine(k) == {i \in DOMAIN u.pending : KindOf(i) = k}
           kept(k) == (DOMAIN Bucket(u, k) \cup mine(k)) \ {i \in mine(k) : u.pending[i] = NoRecord}
           page(k) == [i \in kept(k) |-> IF i \in mine(k) THEN u.pending[i] ELSE Bucket(u, k)[i]]
<1>2. Flush(u) = [k \in Kinds |-> page(k)]
  BY DEF Flush
<1>3. /\ DOMAIN u.pending \subseteq Ids /\ \A i \in DOMAIN u.pending : u.pending[i] \in MetaRecords
  BY <1>1, DictFacts
<1>4. ASSUME NEW k \in Kinds
      PROVE  DOMAIN Bucket(u, k) \subseteq Ids /\ \A i \in DOMAIN Bucket(u, k) : Bucket(u, k)[i] \in MetaRecords
  <2>1. u.base[k] \in Dict(Ids, MetaRecords)
    BY <1>1
  <2> QED BY <2>1, DictFacts DEF Bucket
<1>5. ASSUME NEW k \in Kinds
      PROVE  page(k) \in Dict(Ids, MetaRecords) /\ \A i \in DOMAIN page(k) : KindOf(i) = k
  <2>1. kept(k) \in SUBSET Ids
    BY <1>3, <1>4
  <2>2. page(k) \in [kept(k) -> MetaRecords]
    BY <1>3, <1>4
  <2>3. \A i \in kept(k) : KindOf(i) = k
    BY DEF Overlay, Bucket
  <2> HIDE DEF kept
  <2> QED BY <2>1, <2>2, <2>3 DEF Dict
<1>6. ASSUME NEW i \in Ids
      PROVE  u.table[i] = IF i \in DOMAIN page(KindOf(i)) THEN page(KindOf(i))[i] ELSE NoRecord
  <2>1. u.table[i] = Get(u, i)
    BY DEF Overlay
  <2> QED BY <2>1 DEF Get
<1>7. \A i \in Ids : KindOf(i) \in Kinds
  BY DEF KindOf, Kinds
<1> HIDE DEF page
<1>8. Flush(u) \in [Kinds -> Dict(Ids, MetaRecords)] /\ \A k \in Kinds : Flush(u)[k] = page(k)
  BY <1>2, <1>5
<1> QED BY <1>5, <1>6, <1>7, <1>8

\* A publication is a commit: it leaves the table of its unit, and the owners in the lease keys
\* are those of its records, whether it has changed them or not.
LEMMA CommitUnitInv == ASSUME UnitInv, NEW w \in Threads, CommitUnit(w) PROVE UnitInv'
<1> DEFINE u == work[w]
<1>1. /\ u.number # 0 /\ metaRev = u.rev /\ metaRoot' = Flush(u)
      /\ metaRev' = IF metaRoot' = metaRoot THEN metaRev ELSE metaRev + 1
      /\ leaseKeys' = [i \in Leased |-> IF i \in DOMAIN u.effects THEN u.effects[i] ELSE leaseKeys[i]]
      /\ unitGate' = 0 /\ rows' = u.table /\ work' = [work EXCEPT ![w] = NoUnit]
      /\ UNCHANGED <<alive, granted, begun>>
  BY DEF CommitUnit, Publishable
<1>2. u \in UnitOfWork /\ Overlay(u) /\ Dated(u) /\ u.base = metaRoot
  BY <1>1 DEF UnitInv, UnitTyped, Dated
<1>3. /\ work' \in [Threads -> UnitOfWork] /\ work'[w].number = 0
      /\ \A x \in Threads : x # w => work'[x] = work[x]
  BY <1>1, EndOfUnit
<1>4. u.table \in [Ids -> MetaRecords] /\ u.effects \in Dict(Leased, 0..MaxLeases) /\ u.number \in 0..MaxUnits
  BY <1>2 DEF UnitOfWork
<1>5. \A i \in DOMAIN u.effects : u.effects[i] \in 0..MaxLeases
  BY <1>4, DictFacts
<1>6. Published'
  <2>1. \A i \in Plain : u.table[i].owner = 0
    BY <1>2 DEF Overlay
  <2>2. /\ \A k \in Kinds : \A i \in DOMAIN metaRoot'[k] : KindOf(i) = k
        /\ \A i \in Ids : u.table[i] = IF i \in DOMAIN metaRoot'[KindOf(i)] THEN metaRoot'[KindOf(i)][i] ELSE NoRecord
    BY <1>1, <1>2, FlushFacts
  <2> QED BY <1>1, <2>1, <2>2 DEF Published
<1>7. LeasesNamed'
  <2>1. \A i \in Leased : GetPublished(u, i) = rows[i]
    BY <1>2 DEF GetPublished, Bucket, UnitInv, Published, Ids
  <2>2. \A i \in Leased : leaseKeys[i] # 0 => rows[i].owner = leaseKeys[i]
    BY DEF UnitInv, LeasesNamed
  <2> QED BY <1>1, <1>2, <2>1, <2>2 DEF LeasesNamed, Overlay
<1>8. metaRev' \in 0..MaxUnits /\ (metaRev <= begun)' /\ metaRev' \in {metaRev, metaRev + 1}
      /\ metaRev \in Nat
  BY <1>1, <1>2, <1>4, UnitBounds DEF UnitInv, UnitTyped, Dated
<1>9. UnitTyped'
  <2>1. metaRoot' \in [Kinds -> Dict(Ids, MetaRecords)]
    BY <1>1, <1>2, FlushFacts
  <2>2. leaseKeys' \in [Leased -> 0..MaxLeases]
    BY <1>1, <1>5 DEF UnitInv, UnitTyped
  <2> QED BY <1>1, <1>3, <1>4, <1>8, <2>1, <2>2, UnitBounds DEF UnitInv, UnitTyped
<1>10. (\A x \in Threads : work[x].number # 0 => Overlay(work[x]) /\ Dated(work[x]))'
  <2>1. \A x \in Threads : work'[x].number # 0 => work'[x] = work[x] /\ Overlay(work[x]) /\ Dated(work[x])
                            /\ work[x].rev \in Nat
    BY SMTT(40), <1>3 DEF UnitInv, UnitTyped, UnitOfWork
  <2>2. \A x \in Threads : work'[x].number # 0 => Dated(work[x])'
    BY <1>1, <1>8, <2>1 DEF Dated
  <2> QED BY <2>1, <2>2
<1> QED BY <1>6, <1>7, <1>8, <1>9, <1>10 DEF UnitInv

\* At the start each record that has a lease has its own.
LEMMA UnitInitInv == UnitInit => UnitInv
<1> SUFFICES ASSUME UnitInit PROVE UnitInv
  OBVIOUS
<1> DEFINE c == Cardinality(Leased)
<1>1. c \in Nat /\ c <= MaxLeases
  BY FS_CardinalityType, UnitAssumption
<1>2. FirstLeases \in [Leased -> 1..c]
  <2>1. ExistsBijection(1..c, Leased)
    BY FS_CardinalityType, UnitAssumption
  <2>2. ExistsBijection(Leased, 1..c)
    BY <2>1, Fun_ExistsBijSymmetric
  <2>3. \E f \in [Leased -> 1..c] : IsInjective(f)
    BY <2>2 DEF ExistsBijection, Bijection, Injection
  <2> QED BY <2>3 DEF FirstLeases
<1>3. \A i \in Leased : FirstLeases[i] \in 0..MaxLeases /\ FirstLeases[i] \in 1..MaxLeases
  BY <1>1, <1>2, UnitBounds
<1>4. /\ FirstRows \in [Ids -> MetaRecords]
      /\ \A i \in Leased : i \in Ids /\ i \notin Plain /\ FirstRows[i].owner = FirstLeases[i]
      /\ \A i \in Plain : i \in Ids /\ i \notin Leased /\ FirstRows[i] = NoRecord
      /\ \A i \in Ids : i \notin Leased => FirstRows[i] = NoRecord
  <2>1. \A i \in Leased : /\ LeaseRecord(FirstLeases[i], FALSE, 0) \in MetaRecords
                          /\ LeaseRecord(FirstLeases[i], FALSE, 0).owner = FirstLeases[i]
    BY <1>3, RecordTypes
  <2> QED BY <2>1, RecordTypes, UnitAssumption DEF FirstRows, Ids
<1>5. /\ rows = FirstRows /\ leaseKeys = FirstLeases /\ alive = Range(FirstLeases) /\ granted = c
      /\ metaRev = 0 /\ unitGate = 0 /\ begun = 0 /\ work = [w \in Threads |-> NoUnit]
      /\ metaRoot = [k \in Kinds |-> [i \in {j \in Leased : KindOf(j) = k} |-> FirstRows[i]]]
  BY DEF UnitInit
<1>6. \A k \in Kinds : /\ metaRoot[k] \in Dict(Ids, MetaRecords) /\ DOMAIN metaRoot[k] = {j \in Leased : KindOf(j) = k}
                       /\ \A i \in DOMAIN metaRoot[k] : metaRoot[k][i] = FirstRows[i]
  <2> SUFFICES ASSUME NEW k \in Kinds
               PROVE  /\ metaRoot[k] \in Dict(Ids, MetaRecords) /\ DOMAIN metaRoot[k] = {j \in Leased : KindOf(j) = k}
                      /\ \A i \in DOMAIN metaRoot[k] : metaRoot[k][i] = FirstRows[i]
    OBVIOUS
  <2>1. metaRoot[k] = [i \in {j \in Leased : KindOf(j) = k} |-> FirstRows[i]]
    BY <1>5
  <2>2. {j \in Leased : KindOf(j) = k} \in SUBSET Ids
    BY <1>4
  <2>3. metaRoot[k] \in [{j \in Leased : KindOf(j) = k} -> MetaRecords]
    BY <1>4, <2>1
  <2> QED BY <2>1, <2>2, <2>3 DEF Dict
<1>7. NoUnit \in UnitOfWork /\ NoUnit.number = 0
  <2>1. metaRoot = [k \in Kinds |-> metaRoot[k]]
    BY <1>5
  <2>2. metaRoot \in [Kinds -> Dict(Ids, MetaRecords)]
    BY <1>6, <2>1
  <2>3. FirstRows \in [Ids -> MetaRecords] /\ 0 \in 0..MaxUnits
    BY <1>4, UnitBounds
  <2> QED BY <2>2, <2>3, NoUnitTypes
<1>8. UnitTyped
  <2>1. metaRoot \in [Kinds -> Dict(Ids, MetaRecords)]
    BY <1>5, <1>6
  <2>2. leaseKeys \in [Leased -> 0..MaxLeases] /\ alive \subseteq 1..MaxLeases
    BY <1>2, <1>3, <1>5 DEF Range
  <2>3. work \in [Threads -> UnitOfWork]
    BY <1>5, <1>7
  <2> QED BY <1>1, <1>4, <1>5, <2>1, <2>2, <2>3, UnitBounds DEF UnitTyped
<1>9. Published /\ LeasesNamed
  <2>1. \A i \in Ids : KindOf(i) \in Kinds
    BY DEF KindOf, Kinds
  <2>2. \A i \in Ids : rows[i] = IF i \in DOMAIN metaRoot[KindOf(i)] THEN metaRoot[KindOf(i)][i] ELSE NoRecord
    BY <1>4, <1>5, <1>6, <2>1
  <2>3. \A i \in Plain : rows[i].owner = 0
    BY <1>4, <1>5, RecordTypes
  <2>4. LeasesNamed
    BY <1>4, <1>5 DEF LeasesNamed
  <2> QED BY <1>6, <2>2, <2>3, <2>4 DEF Published
<1> QED BY <1>5, <1>7, <1>8, <1>9 DEF UnitInv

\* Every call, publication and lapse keeps the invariant.
LEMMA UnitNextInv == ASSUME UnitInv, [UnitNext]_unitVars PROVE UnitInv'
<1>1. ASSUME NEW w \in Threads, BeginUnit(w) \/ CommitUnit(w) \/ RollBack(w) PROVE UnitInv'
  BY <1>1, BeginUnitInv, CommitUnitInv, RollBackInv
<1>2. ASSUME NEW w \in Threads, NEW i \in Plain, NEW closed \in BOOLEAN, PutPlain(w, i, closed) PROVE UnitInv'
  BY <1>2, PutPlainInv
<1>3. ASSUME NEW w \in Threads, NEW i \in Handles, PutNew(w, i) \/ PutRenewed(w, i) \/ PutClosed(w, i) PROVE UnitInv'
  BY <1>3, PutNewInv, PutRenewedInv, PutClosedInv
<1>4. ASSUME NEW w \in Threads, NEW i \in Registered, PutNode(w, i) PROVE UnitInv'
  BY <1>4, PutNodeInv
<1>5. ASSUME NEW w \in Threads, NEW i \in Ids, Delete(w, i) PROVE UnitInv'
  BY <1>5, DeleteInv
<1>6. ASSUME NEW l \in alive, LeaseRunsOut(l) PROVE UnitInv'
  BY <1>6, LeaseRunsOutInv
<1>7. CASE UnitGateLapses
  BY <1>7, UnitGateLapsesInv
<1>8. CASE UNCHANGED unitVars
  <2>1. UNCHANGED <<metaRoot, metaRev, unitGate, leaseKeys, alive, granted, begun, work, rows>>
    BY <1>8 DEF unitVars
  <2>2. (UnitTyped /\ metaRev <= begun /\ Published /\ LeasesNamed)'
    BY <2>1 DEF UnitInv, UnitTyped, Published, LeasesNamed
  <2>3. (\A x \in Threads : work[x].number # 0 => Overlay(work[x]) /\ Dated(work[x]))'
    BY <2>1 DEF UnitInv, Dated
  <2> QED BY <2>2, <2>3 DEF UnitInv
<1> QED BY <1>1, <1>2, <1>3, <1>4, <1>5, <1>6, <1>7, <1>8 DEF UnitNext

\* The invariant of MetaUnit.
THEOREM UnitCorrect == UnitSpec => []UnitInv
BY UnitInitInv, UnitNextInv, PTL DEF UnitSpec

\* A unit of work on etcd is a transaction on a table, and lease keys name the owners their
\* records name, whatever leases and gates run out in between (EtcdUnit, lease_live, flush).
THEOREM UnitsAreTransactions == UnitSpec => []UnitExact
<1>1. UnitInv => UnitExact
  <2> SUFFICES ASSUME UnitInv PROVE UnitExact
    OBVIOUS
  <2>1. ASSUME NEW w \in Threads, work[w].number # 0
        PROVE  /\ \A i \in Ids : Get(work[w], i) = RowGet(work[w], i)
               /\ \A k \in Kinds : All(work[w], k) = RowAll(work[w], k)
    <3> DEFINE u == work[w]
    <3>1. Overlay(u) /\ u \in UnitOfWork
      BY <2>1 DEF UnitInv, UnitTyped
    <3>2. u.pending \in Dict(Ids, MetaRecords) /\ u.base \in [Kinds -> Dict(Ids, MetaRecords)]
      BY <3>1 DEF UnitOfWork
    <3>3. DOMAIN u.pending \subseteq Ids
      BY <3>2, DictFacts
    <3>4. \A i \in Ids : Get(u, i) = u.table[i]
      BY <3>1 DEF Overlay
    <3>5. ASSUME NEW k \in Kinds PROVE All(u, k) = RowAll(u, k)
      <4>1. DOMAIN u.base[k] \subseteq Ids /\ \A i \in DOMAIN u.base[k] : KindOf(i) = k
        <5>1. u.base[k] \in Dict(Ids, MetaRecords)
          BY <3>2
        <5> QED BY <3>1, <5>1, DictFacts DEF Overlay
      <4>2. \A i \in Ids : KindOf(i) = k /\ Get(u, i) # NoRecord => i \in DOMAIN u.pending \/ i \in DOMAIN u.base[k]
        BY DEF Get, Bucket
      <4> QED BY <3>3, <3>4, <4>1, <4>2 DEF All, RowAll, Bucket
    <3> QED BY <3>4, <3>5 DEF RowGet
  <2>2. \A i \in Ids : rows[i] = IF i \in DOMAIN metaRoot[KindOf(i)] THEN metaRoot[KindOf(i)][i] ELSE NoRecord
    BY DEF UnitInv, Published
  <2> QED BY <2>1, <2>2 DEF UnitExact, UnitAtomic, UnitInv
<1> QED BY <1>1, UnitCorrect, PTL

-----------------------------------------------------------------------------
(* Sessions.                                                                *)

SessionRecords == [state : {"none", "live", "expired", "revoked"}, password : 0..MaxRevision, by : SUBSET Logins]
WorkerStates == [task : {"idle", "verify", "login", "call", "wait"}, login : SUBSET Logins, call : SUBSET Calls,
                 session : 0..MaxSessions, seen : 0..MaxRevision]
AccountStates == [password : 1..MaxRevision, disabled : BOOLEAN, revision : 1..MaxRevision]

\* A live session has the password that the user has, and the login that made it knows which it is.
SessionsCurrent == \A s \in SessionIds : session[s].state = "live" => session[s].password = account.password /\ ~account.disabled
LoginsKnown == \A s \in SessionIds : \A r \in session[s].by : result[r] = s
WithinLimit == Cardinality(Live) <= SessionLimit

\* What took effect is in the ledger, and was counted once.
EffectsRecorded == \A q \in Calls : effects[q] = IF q \in ledger THEN 1 ELSE 0

SessionsInv == SessionsTypeOK /\ SessionsCurrent /\ LoginsKnown /\ WithinLimit /\ EffectsRecorded

\* The types of the records.
LEMMA SessionTypes ==
  ASSUME SessionsTypeOK
  PROVE  /\ account \in AccountStates /\ MaxRevision \in Nat /\ MaxSessions \in Nat
         /\ session \in [SessionIds -> SessionRecords] /\ worker \in [Workers -> WorkerStates]
         /\ Resting \in WorkerStates /\ account.password \in 0..MaxRevision
BY SessionsAssumption DEF SessionsTypeOK, AccountStates, SessionRecords, WorkerStates, Resting

\* A worker turns to something else, and nothing but the logins that were tried changes.
LEMMA WorkerTurns ==
  ASSUME SessionsInv, NEW w \in Workers, NEW v \in WorkerStates, worker' = [worker EXCEPT ![w] = v],
         tried' \in [Logins -> 0..MaxRevision], UNCHANGED <<account, session, result, ledger, effects>>
  PROVE  SessionsInv'
<1>1. worker' \in [Workers -> WorkerStates]
  BY SessionTypes DEF SessionsInv
<1>2. SessionsTypeOK'
  BY <1>1 DEF SessionsInv, SessionsTypeOK, WorkerStates
<1> QED BY <1>2 DEF SessionsInv, SessionsCurrent, LoginsKnown, WithinLimit, Live, EffectsRecorded

\* No session comes alive, so the limit is kept.
LEMMA FewerLive ==
  ASSUME SessionsInv, \A s \in SessionIds : session'[s].state = "live" => session[s].state = "live"
  PROVE  WithinLimit'
<1>1. IsFiniteSet(SessionIds)
  BY SessionTypes, FS_Interval DEF SessionsInv, SessionIds
<1>2. Live \subseteq SessionIds /\ Live' \subseteq Live
  BY DEF Live
<1>3. IsFiniteSet(Live)
  BY <1>1, <1>2, FS_Subset
<1>4. Cardinality(Live') <= Cardinality(Live) /\ Cardinality(Live) \in Nat /\ Cardinality(Live') \in Nat
  BY <1>2, <1>3, FS_Subset, FS_CardinalityType
<1>5. Cardinality(Live) <= SessionLimit
  BY DEF SessionsInv, WithinLimit
<1> QED BY <1>4, <1>5, SessionsAssumption DEF WithinLimit

\* The read transaction of a login.
LEMMA LoginReadInv == ASSUME SessionsInv, NEW w \in Workers, NEW r \in Logins, LoginRead(w, r) PROVE SessionsInv'
<1> DEFINE v == [Resting EXCEPT !.task = "verify", !.login = {r}, !.seen = account.password]
<1>1. v \in WorkerStates
  BY SessionTypes DEF SessionsInv, WorkerStates
<1>2. worker' = [worker EXCEPT ![w] = v] /\ UNCHANGED <<account, session, result, ledger, effects>>
  BY DEF LoginRead
<1> HIDE DEF v
<1>3. tried' \in [Logins -> 0..MaxRevision]
  BY SessionTypes DEF LoginRead, SessionsInv, SessionsTypeOK
<1> QED BY <1>1, <1>2, <1>3, WorkerTurns

\* The first transaction of a mutation.
LEMMA CallReadInv ==
  ASSUME SessionsInv, NEW w \in Workers, NEW q \in Calls, NEW s \in SessionIds, CallRead(w, q, s) PROVE SessionsInv'
<1> DEFINE v == [Resting EXCEPT !.task = "call", !.call = {q}, !.session = s]
<1>1. v \in WorkerStates
  <2>1. s \in 0..MaxSessions
    BY SessionTypes DEF SessionsInv, SessionIds
  <2> QED BY <2>1, SessionTypes DEF SessionsInv, WorkerStates
<1>2. worker' = [worker EXCEPT ![w] = v] /\ UNCHANGED <<account, session, tried, result, ledger, effects>>
  BY DEF CallRead
<1> HIDE DEF v
<1>3. tried' \in [Logins -> 0..MaxRevision]
  BY <1>2 DEF SessionsInv, SessionsTypeOK
<1> QED BY <1>1, <1>2, <1>3, WorkerTurns

\* The steps of a worker that change nothing but what it is doing.
LEMMA WorkerStepInv ==
  ASSUME SessionsInv, NEW w \in Workers, VerifyPassword(w) \/ LockConflict(w) \/ TryAgain(w) \/ WorkerDies(w)
  PROVE  SessionsInv'
<1>1. worker[w] \in WorkerStates /\ Resting \in WorkerStates
  BY SessionTypes DEF SessionsInv
<1>2. UNCHANGED <<account, session, tried, result, ledger, effects>>
  BY DEF VerifyPassword, LockConflict, TryAgain, WorkerDies
<1>3. \A t \in {"login", "wait", "call"} : [worker[w] EXCEPT !.task = t] \in WorkerStates
  BY <1>1 DEF WorkerStates
<1>4. \E v \in WorkerStates : worker' = [worker EXCEPT ![w] = v]
  <2>1. CASE VerifyPassword(w)
    <3>1. worker' = [worker EXCEPT ![w] = [worker[w] EXCEPT !.task = "login"]]
      BY <2>1 DEF VerifyPassword
    <3> QED BY <1>3, <3>1
  <2>2. CASE LockConflict(w)
    <3>1. worker' = [worker EXCEPT ![w] = [worker[w] EXCEPT !.task = "wait"]]
      BY <2>2 DEF LockConflict
    <3> QED BY <1>3, <3>1
  <2>3. CASE TryAgain(w)
    <3>1. \/ worker' = [worker EXCEPT ![w] = [worker[w] EXCEPT !.task = "call"]]
          \/ worker' = [worker EXCEPT ![w] = Resting]
      BY <2>3 DEF TryAgain
    <3> QED BY <1>1, <1>3, <3>1
  <2>4. CASE WorkerDies(w)
    BY <1>1, <2>4 DEF WorkerDies
  <2> QED BY <2>1, <2>2, <2>3, <2>4
<1>5. tried' \in [Logins -> 0..MaxRevision]
  BY <1>2 DEF SessionsInv, SessionsTypeOK
<1> QED BY <1>2, <1>4, <1>5, WorkerTurns


\* A new session: of the password the user has, for a login that made none, and within the limit.
LEMMA NewSessionInv ==
  ASSUME SessionsInv, NEW w \in Workers, NEW r \in Logins, NEW s \in SessionIds, StillValid(w), FirstTime(r), Room,
         session[s].state = "none", session' = [session EXCEPT ![s] = [state |-> "live", password |-> worker[w].seen, by |-> {r}]],
         result' = [result EXCEPT ![r] = s], worker' = [worker EXCEPT ![w] = Resting],
         UNCHANGED <<account, tried, ledger, effects>>
  PROVE  SessionsInv'
<1> DEFINE v == [state |-> "live", password |-> worker[w].seen, by |-> {r}]
<1>1. v \in SessionRecords /\ v.state = "live" /\ v.password = account.password /\ v.by = {r} /\ ~account.disabled
  BY SessionTypes DEF SessionsInv, StillValid, SessionRecords, WorkerStates
<1>2. session' = [session EXCEPT ![s] = v]
  OBVIOUS
<1> HIDE DEF v
<1>3. /\ session' \in [SessionIds -> SessionRecords] /\ session'[s] = v
      /\ \A k \in SessionIds : k # s => session'[k] = session[k]
  BY <1>1, <1>2, SessionTypes DEF SessionsInv
<1>4. worker' \in [Workers -> WorkerStates]
  BY SessionTypes DEF SessionsInv
<1>5. /\ result' \in [Logins -> 0..MaxSessions] /\ result'[r] = s /\ result[r] = 0
      /\ \A x \in Logins : x # r => result'[x] = result[x]
  <2>1. s \in 0..MaxSessions
    BY SessionTypes DEF SessionsInv, SessionIds
  <2> QED BY <2>1 DEF SessionsInv, SessionsTypeOK, FirstTime
<1>6. SessionsTypeOK'
  BY <1>3, <1>4, <1>5 DEF SessionsInv, SessionsTypeOK, SessionRecords, WorkerStates
<1>7. SessionsCurrent'
  BY <1>1, <1>3 DEF SessionsInv, SessionsCurrent
<1>8. LoginsKnown'
  <2> SUFFICES ASSUME NEW k \in SessionIds, NEW x \in session'[k].by PROVE result'[x] = k
    BY DEF LoginsKnown
  <2>1. CASE k = s
    BY <1>1, <1>3, <1>5, <2>1
  <2>2. CASE k # s
    <3>1. x \in session[k].by /\ session[k] \in SessionRecords
      BY <1>3, <2>2, SessionTypes DEF SessionsInv
    <3>2. result[x] = k /\ x \in Logins /\ k # 0
      BY <3>1 DEF SessionsInv, LoginsKnown, SessionRecords, SessionIds
    <3> QED BY <1>5, <3>2
  <2> QED BY <2>1, <2>2
<1>9. WithinLimit'
  <2>1. IsFiniteSet(SessionIds)
    BY SessionTypes, FS_Interval DEF SessionsInv, SessionIds
  <2>2. Live \subseteq SessionIds /\ Live' = Live \cup {s} /\ s \notin Live
    BY <1>1, <1>3 DEF Live
  <2>3. IsFiniteSet(Live)
    BY <2>1, <2>2, FS_Subset
  <2>4. Cardinality(Live') = Cardinality(Live) + 1 /\ Cardinality(Live) \in Nat
    BY <2>2, <2>3, FS_AddElement, FS_CardinalityType
  <2>5. Cardinality(Live) < SessionLimit
    BY DEF Room
  <2> QED BY <2>4, <2>5, SessionsAssumption DEF WithinLimit
<1>10. EffectsRecorded'
  BY DEF SessionsInv, EffectsRecorded
<1> QED BY <1>6, <1>7, <1>8, <1>9, <1>10 DEF SessionsInv

\* The write transaction of a login.
LEMMA LoginWriteInv == ASSUME SessionsInv, NEW w \in Workers, LoginWrite(w) PROVE SessionsInv'
<1>1. worker[w].login \subseteq Logins
  BY SessionTypes DEF SessionsInv, WorkerStates
<1>2. worker' = [worker EXCEPT ![w] = Resting] /\ UNCHANGED <<account, tried, ledger, effects>>
  BY DEF LoginWrite
<1>3. CASE UNCHANGED <<session, result>>
  <2>1. tried' \in [Logins -> 0..MaxRevision] /\ Resting \in WorkerStates
    BY <1>2, SessionTypes DEF SessionsInv, SessionsTypeOK
  <2> QED BY <1>2, <1>3, <2>1, WorkerTurns
<1>4. ASSUME NEW r \in Logins, NEW s \in SessionIds, StillValid(w), FirstTime(r), Room, session[s].state = "none",
             session' = [session EXCEPT ![s] = [state |-> "live", password |-> worker[w].seen, by |-> {r}]],
             result' = [result EXCEPT ![r] = s]
      PROVE  SessionsInv'
  BY <1>2, <1>4, NewSessionInv
<1>5. \/ UNCHANGED <<session, result>>
      \/ \E r \in Logins, s \in SessionIds :
           /\ StillValid(w) /\ FirstTime(r) /\ Room /\ session[s].state = "none"
           /\ session' = [session EXCEPT ![s] = [state |-> "live", password |-> worker[w].seen, by |-> {r}]]
           /\ result' = [result EXCEPT ![r] = s]
  BY <1>1 DEF LoginWrite
<1> QED BY <1>3, <1>4, <1>5

\* Sessions end: none comes alive, and what they were made with and by stays as it is.
LEMMA SessionsEnd ==
  ASSUME SessionsInv, account' \in AccountStates, session' \in [SessionIds -> SessionRecords],
         \A s \in SessionIds : session'[s].by = session[s].by,
         \A s \in SessionIds : session'[s].state = "live" =>
           session[s].state = "live" /\ session'[s].password = account'.password /\ ~account'.disabled,
         UNCHANGED <<tried, result, ledger, worker, effects>>
  PROVE  SessionsInv'
<1>1. SessionsTypeOK'
  BY DEF SessionsInv, SessionsTypeOK, AccountStates, SessionRecords
<1>2. SessionsCurrent' /\ LoginsKnown' /\ EffectsRecorded'
  BY DEF SessionsInv, SessionsCurrent, LoginsKnown, EffectsRecorded
<1>3. WithinLimit'
  BY FewerLive
<1> QED BY <1>1, <1>2, <1>3 DEF SessionsInv

\* An hour passes.
LEMMA SessionExpiresInv == ASSUME SessionsInv, NEW s \in SessionIds, SessionExpires(s) PROVE SessionsInv'
<1> DEFINE v == [session[s] EXCEPT !.state = "expired"]
<1>1. v \in SessionRecords /\ v.by = session[s].by /\ v.state = "expired"
  BY SessionTypes DEF SessionsInv, SessionRecords
<1>2. session' = [session EXCEPT ![s] = v] /\ UNCHANGED <<account, tried, result, ledger, worker, effects>>
  BY DEF SessionExpires
<1> HIDE DEF v
<1>3. /\ session' \in [SessionIds -> SessionRecords] /\ session'[s] = v
      /\ \A k \in SessionIds : k # s => session'[k] = session[k]
  BY <1>1, <1>2, SessionTypes DEF SessionsInv
<1>4. account' \in AccountStates
  BY <1>2, SessionTypes DEF SessionsInv
<1>5. \A k \in SessionIds : session'[k].by = session[k].by
  BY <1>1, <1>3
<1>6. \A k \in SessionIds : session'[k].state = "live" =>
        session[k].state = "live" /\ session'[k].password = account'.password /\ ~account'.disabled
  BY <1>1, <1>2, <1>3 DEF SessionsInv, SessionsCurrent
<1> QED BY <1>2, <1>3, <1>4, <1>5, <1>6, SessionsEnd

\* revoke_sessions.
LEMMA RevokedFacts ==
  ASSUME SessionsInv
  PROVE  /\ Revoked \in [SessionIds -> SessionRecords]
         /\ \A s \in SessionIds : Revoked[s].by = session[s].by /\ Revoked[s].state # "live"
<1> DEFINE v(s) == [session[s] EXCEPT !.state = "revoked"]
<1>1. \A s \in SessionIds : /\ v(s) \in SessionRecords /\ v(s).by = session[s].by /\ v(s).state = "revoked"
                            /\ session[s] \in SessionRecords
  BY SessionTypes DEF SessionsInv, SessionRecords
<1>2. Revoked = [s \in SessionIds |-> IF session[s].state = "none" THEN session[s] ELSE v(s)]
  BY DEF Revoked
<1> HIDE DEF v
<1> QED BY <1>1, <1>2

\* The administrator changes the account: one that is disabled loses its sessions.
LEMMA SetUserInv == ASSUME SessionsInv, NEW off \in BOOLEAN, SetUser(off) PROVE SessionsInv'
<1> DEFINE a == [account EXCEPT !.disabled = off, !.revision = @ + 1]
<1>1. a \in AccountStates /\ a.password = account.password /\ a.disabled = off
  <2>1. account \in AccountStates
    BY SessionTypes DEF SessionsInv
  <2>2. account.revision + 1 \in 1..MaxRevision
    BY <2>1, SessionsAssumption DEF AccountStates, SetUser
  <2> QED BY <2>1, <2>2 DEF AccountStates
<1>2. account' = a /\ UNCHANGED <<tried, result, ledger, worker, effects>>
  BY DEF SetUser
<1> HIDE DEF a
<1>3. CASE off
  <2>1. session' = Revoked
    BY <1>3 DEF SetUser
  <2> QED BY <1>1, <1>2, <2>1, RevokedFacts, SessionsEnd
<1>4. CASE ~off
  <2>1. session' = session /\ session \in [SessionIds -> SessionRecords]
    BY <1>4, SessionTypes DEF SetUser, SessionsInv
  <2>2. \A s \in SessionIds : session[s].state = "live" => session[s].password = account'.password /\ ~account'.disabled
    BY <1>1, <1>2, <1>4 DEF SessionsInv, SessionsCurrent
  <2> QED BY <1>1, <1>2, <2>1, <2>2, SessionsEnd
<1> QED BY <1>3, <1>4

\* A new password ends the sessions of the last one.
LEMMA ChangePasswordInv == ASSUME SessionsInv, ChangePassword PROVE SessionsInv'
<1>1. account' \in AccountStates
  <2>1. account \in AccountStates
    BY SessionTypes DEF SessionsInv
  <2>2. account.revision + 1 \in 1..MaxRevision
    BY <2>1, SessionsAssumption DEF AccountStates, ChangePassword
  <2>3. account' = [account EXCEPT !.password = account.revision + 1, !.revision = account.revision + 1]
    BY DEF ChangePassword
  <2> QED BY <2>1, <2>2, <2>3 DEF AccountStates
<1>2. session' = Revoked /\ UNCHANGED <<tried, result, ledger, worker, effects>>
  BY DEF ChangePassword
<1> QED BY <1>1, <1>2, RevokedFacts, SessionsEnd

\* A request is done and recorded: it was not in the ledger, so it had no effect before.
LEMMA PerformInv ==
  ASSUME SessionsInv, NEW w \in Workers, NEW q \in Calls, Unanswered(q), Perform(q), Remember(q),
         worker' = [worker EXCEPT ![w] = Resting], UNCHANGED <<account, tried, result>>
  PROVE  SessionsInv'
<1>1. ledger' = ledger \cup {q} /\ effects' = [effects EXCEPT ![q] = @ + 1] /\ q \notin ledger
  BY DEF Perform, Remember, Unanswered
<1>2. effects[q] = 0
  BY <1>1 DEF SessionsInv, EffectsRecorded
<1>3. effects' \in [Calls -> Nat] /\ effects'[q] = 1 /\ \A x \in Calls : x # q => effects'[x] = effects[x]
  BY <1>1, <1>2 DEF SessionsInv, SessionsTypeOK
<1>4. EffectsRecorded'
  BY <1>1, <1>3 DEF SessionsInv, EffectsRecorded
<1>5. /\ session' \in [SessionIds -> SessionRecords]
      /\ \A s \in SessionIds : /\ session'[s].by = session[s].by /\ session'[s].password = session[s].password
                               /\ session'[s].state = "live" => session[s].state = "live"
  <2>1. CASE session' = session
    BY <2>1, SessionTypes DEF SessionsInv
  <2>2. CASE q[1] = "logout" /\ session' = [session EXCEPT ![q[2]].state = "revoked"]
    <3>1. PICK s \in SessionIds : q[2] = s
      <4>1. CASE q \in {<<"call", i>> : i \in 1..MaxCalls}
        BY <2>2, <4>1
      <4>2. CASE q \in {<<"logout", s>> : s \in SessionIds}
        BY <4>2
      <4> QED BY <4>1, <4>2 DEF Calls
    <3> DEFINE v == [session[s] EXCEPT !.state = "revoked"]
    <3>2. v \in SessionRecords /\ v.by = session[s].by /\ v.password = session[s].password /\ v.state = "revoked"
      BY SessionTypes DEF SessionsInv, SessionRecords
    <3>3. session' = [session EXCEPT ![s] = v]
      BY <2>2, <3>1
    <3> HIDE DEF v
    <3> QED BY <3>2, <3>3, SessionTypes DEF SessionsInv
  <2> QED BY <2>1, <2>2 DEF Perform
<1>6. SessionsTypeOK'
  <2>1. worker' \in [Workers -> WorkerStates]
    BY SessionTypes DEF SessionsInv
  <2> QED BY <1>1, <1>3, <1>5, <2>1 DEF SessionsInv, SessionsTypeOK, WorkerStates, SessionRecords
<1>7. SessionsCurrent' /\ LoginsKnown'
  BY <1>5 DEF SessionsInv, SessionsCurrent, LoginsKnown
<1>8. WithinLimit'
  BY <1>5, FewerLive
<1> QED BY <1>4, <1>6, <1>7, <1>8 DEF SessionsInv

\* The second transaction of a mutation.
LEMMA CallWriteInv == ASSUME SessionsInv, NEW w \in Workers, CallWrite(w) PROVE SessionsInv'
<1>1. worker[w].call \subseteq Calls
  BY SessionTypes DEF SessionsInv, WorkerStates
<1>2. worker' = [worker EXCEPT ![w] = Resting] /\ UNCHANGED <<account, tried, result>>
  BY DEF CallWrite
<1>3. \/ UNCHANGED <<effects, ledger, session>>
      \/ \E q \in Calls : Unanswered(q) /\ Perform(q) /\ Remember(q)
  BY <1>1 DEF CallWrite
<1>4. CASE UNCHANGED <<effects, ledger, session>>
  <2>1. tried' \in [Logins -> 0..MaxRevision] /\ Resting \in WorkerStates
    BY <1>2, SessionTypes DEF SessionsInv, SessionsTypeOK
  <2> QED BY <1>2, <1>4, <2>1, WorkerTurns
<1>5. CASE \E q \in Calls : Unanswered(q) /\ Perform(q) /\ Remember(q)
  BY <1>2, <1>5, PerformInv
<1> QED BY <1>3, <1>4, <1>5

\* The state at the start.
LEMMA SessionsInitInv == SessionsInit => SessionsInv
<1> SUFFICES ASSUME SessionsInit PROVE SessionsInv
  OBVIOUS
<1>1. SessionsTypeOK
  <2>1. account \in AccountStates
    BY SessionsAssumption DEF SessionsInit, AccountStates
  <2>2. session \in [SessionIds -> SessionRecords]
    BY SessionsAssumption DEF SessionsInit, SessionRecords
  <2>3. worker \in [Workers -> WorkerStates]
    BY SessionsAssumption DEF SessionsInit, WorkerStates, Resting
  <2>4. tried \in [Logins -> 0..MaxRevision] /\ result \in [Logins -> 0..MaxSessions] /\ effects \in [Calls -> Nat]
    BY SessionsAssumption DEF SessionsInit
  <2> QED BY <2>1, <2>2, <2>3, <2>4 DEF SessionsInit, SessionsTypeOK, AccountStates, SessionRecords, WorkerStates
<1>2. SessionsCurrent /\ LoginsKnown /\ EffectsRecorded
  BY DEF SessionsInit, SessionsCurrent, LoginsKnown, EffectsRecorded
<1>3. WithinLimit
  <2>1. Live = {}
    BY DEF SessionsInit, Live
  <2> QED BY <2>1, FS_EmptySet, SessionsAssumption DEF WithinLimit
<1> QED BY <1>1, <1>2, <1>3 DEF SessionsInv

\* Every step keeps the invariant.
LEMMA SessionsNextInv == ASSUME SessionsInv, [SessionsNext]_sessionsVars PROVE SessionsInv'
<1>1. ASSUME NEW w \in Workers, NEW r \in Logins, LoginRead(w, r) PROVE SessionsInv'
  BY <1>1, LoginReadInv
<1>2. ASSUME NEW w \in Workers, NEW q \in Calls, NEW s \in SessionIds, CallRead(w, q, s) PROVE SessionsInv'
  BY <1>2, CallReadInv
<1>3. ASSUME NEW w \in Workers, VerifyPassword(w) \/ LockConflict(w) \/ TryAgain(w) \/ WorkerDies(w) PROVE SessionsInv'
  BY <1>3, WorkerStepInv
<1>4. ASSUME NEW w \in Workers, LoginWrite(w) PROVE SessionsInv'
  BY <1>4, LoginWriteInv
<1>5. ASSUME NEW w \in Workers, CallWrite(w) PROVE SessionsInv'
  BY <1>5, CallWriteInv
<1>6. ASSUME NEW s \in SessionIds, SessionExpires(s) PROVE SessionsInv'
  BY <1>6, SessionExpiresInv
<1>7. ASSUME NEW off \in BOOLEAN, SetUser(off) PROVE SessionsInv'
  BY <1>7, SetUserInv
<1>8. CASE ChangePassword
  BY <1>8, ChangePasswordInv
<1>9. CASE UNCHANGED sessionsVars
  BY <1>9 DEF sessionsVars, SessionsInv, SessionsTypeOK, SessionsCurrent, LoginsKnown, WithinLimit, Live, EffectsRecorded
<1> QED BY <1>1, <1>2, <1>3, <1>4, <1>5, <1>6, <1>7, <1>8, <1>9 DEF SessionsNext

\* What takes effect was asked for by a worker whose session holds at that moment.
LEMMA EffectStep ==
  ASSUME SessionsInv, [SessionsNext]_sessionsVars
  PROVE  \A q \in Calls : effects'[q] # effects[q] =>
           \E w \in Workers : q \in worker[w].call /\ Authentic(worker[w].session)
<1>1. CASE UNCHANGED effects
  BY <1>1
<1>2. ASSUME NEW w \in Workers, CallWrite(w), NEW q \in Calls, effects'[q] # effects[q]
      PROVE  q \in worker[w].call /\ Authentic(worker[w].session)
  <2>1. PICK x \in worker[w].call : Admitted(w) /\ Perform(x)
    BY <1>2 DEF CallWrite
  <2>2. effects' = [effects EXCEPT ![x] = @ + 1]
    BY <2>1 DEF Perform
  <2>3. x = q
    BY <1>2, <2>2 DEF SessionsInv, SessionsTypeOK
  <2> QED BY <2>1, <2>3 DEF Admitted
<1>3. (\E w \in Workers : CallWrite(w)) \/ UNCHANGED effects
  BY DEF SessionsNext, sessionsVars, LoginRead, CallRead, VerifyPassword, LockConflict, TryAgain, WorkerDies, LoginWrite,
         SessionExpires, SetUser, ChangePassword
<1> QED BY <1>1, <1>2, <1>3

\* Sessions are current, and every request takes effect once and in a session that holds at
\* that moment, for any number of workers, requests and sessions (Login, SetUser,
\* ChangePassword, unary_once, replay, remember).
THEOREM RequestsHandled == SessionsSpec => RequestsSound
<1>1. SessionsSpec => []SessionsInv
  BY SessionsInitInv, SessionsNextInv, PTL DEF SessionsSpec
<1>2. SessionsInv => LiveSessionsCurrent
  <2> SUFFICES ASSUME SessionsInv PROVE LiveSessionsCurrent
    OBVIOUS
  <2>1. \A s, k \in SessionIds : session[s].by \cap session[k].by # {} => s = k
    BY DEF SessionsInv, LoginsKnown
  <2> QED BY <2>1 DEF SessionsInv, SessionsCurrent, WithinLimit, LiveSessionsCurrent, Live
<1>3. SessionsInv => EffectOnce
  BY DEF SessionsInv, EffectsRecorded, EffectOnce
<1>4. SessionsSpec => EffectsAuthorized
  BY <1>1, EffectStep, PTL DEF SessionsSpec, EffectsAuthorized
<1> QED BY <1>1, <1>2, <1>3, <1>4, PTL DEF RequestsSound


-----------------------------------------------------------------------------
(* Permissions.                                                             *)

FilesCounted == filesMade \in 0..MaxFiles /\ filed \in 0..filesMade
PoliciesTyped == acl = [n \in Nodes |-> acl[n]] /\ revision \in [Nodes -> Nat]

\* A policy that was read is the one the node has, as long as the node has its revision.
ReadPolicyDated ==
  held.kind = "policy" =>
    /\ held.node \in Nodes /\ held.revision \in Nat /\ held.revision <= revision[held.node]
    /\ held.revision = revision[held.node] => held.acl = acl[held.node]

\* If the name leads to another file than the one whose policy was read, to a later one.
NamesGoOn ==
  held.kind = "policy" /\ held.node \notin Folders => held.node \in 1..filesMade /\ (filed = NoFileHere \/ held.node <= filed)

PermissionsInv == FilesCounted /\ PoliciesTyped /\ ReadPolicyDated /\ NamesGoOn

\* A name keeps its file, loses it, or gets one that is new.
LEMMA NamesLater ==
  ASSUME PermissionsInv, held' = held \/ held'.kind # "policy",
         \/ filesMade' = filesMade /\ (filed' = filed \/ filed' = NoFileHere)
         \/ filesMade' = filesMade + 1 /\ filed' = filesMade'
  PROVE  NamesGoOn'
<1> SUFFICES ASSUME held' = held, held.kind = "policy", held.node \notin Folders
             PROVE  held.node \in 1..filesMade' /\ (filed' = NoFileHere \/ held.node <= filed')
  BY DEF NamesGoOn
<1>1. filesMade \in Nat /\ filed \in Nat /\ held.node \in 1..filesMade /\ (filed = NoFileHere \/ held.node <= filed)
  BY PermissionsAssumption DEF PermissionsInv, FilesCounted, NamesGoOn
<1> QED BY <1>1 DEF NoFileHere

\* Policies may only change at nodes whose revision grows.
LEMMA PolicyBumped ==
  ASSUME PermissionsInv, NEW D, BumpNodes(D), held' = held \/ held'.kind # "policy",
         acl' = [n \in Nodes |-> acl'[n]], \A n \in Nodes : n \notin D => acl'[n] = acl[n]
  PROVE  PoliciesTyped' /\ ReadPolicyDated'
<1>1. revision' \in [Nodes -> Nat] /\ \A n \in Nodes : revision'[n] = IF n \in D THEN revision[n] + 1 ELSE revision[n]
  BY DEF BumpNodes, PermissionsInv, PoliciesTyped
<1>2. PoliciesTyped'
  BY <1>1 DEF PoliciesTyped
<1>3. ReadPolicyDated'
  <2>1. CASE held'.kind # "policy"
    BY <2>1 DEF ReadPolicyDated
  <2>2. CASE held' = held
    <3> SUFFICES ASSUME held.kind = "policy"
                 PROVE  /\ held.node \in Nodes /\ held.revision \in Nat /\ held.revision <= revision'[held.node]
                        /\ held.revision = revision'[held.node] => held.acl = acl'[held.node]
      BY <2>2 DEF ReadPolicyDated
    <3>1. /\ held.node \in Nodes /\ held.revision \in Nat /\ held.revision <= revision[held.node]
          /\ held.revision = revision[held.node] => held.acl = acl[held.node]
      BY DEF PermissionsInv, ReadPolicyDated
    <3>2. revision[held.node] \in Nat
      BY <3>1 DEF PermissionsInv, PoliciesTyped
    <3> QED BY <1>1, <3>1, <3>2
  <2> QED BY <2>1, <2>2
<1> QED BY <1>2, <1>3

\* Nothing that a policy is about changes.
LEMMA PolicyLeft ==
  ASSUME PermissionsInv, UNCHANGED <<acl, revision>>, held' = held \/ held'.kind # "policy"
  PROVE  PoliciesTyped' /\ ReadPolicyDated'
BY DEF PermissionsInv, PoliciesTyped, ReadPolicyDated

\* A file is made: its policy is new, and so is its revision.
LEMMA NewFileInv ==
  ASSUME PermissionsInv, NEW u, NewFile(u), held' = held \/ held'.kind # "policy"
  PROVE  PermissionsInv'
<1>1. filesMade' \in 0..MaxFiles /\ filed' \in 0..filesMade' /\ {Dir, filesMade + 1} \in SUBSET Nodes
  BY PermissionsAssumption DEF NewFile, PermissionsInv, FilesCounted, Nodes, Folders
<1> DEFINE D == {Dir, filesMade + 1}
<1>2. BumpNodes(D)
  BY DEF NewFile
<1>3. acl' = [n \in Nodes |-> acl'[n]] /\ \A n \in Nodes : n \notin D => acl'[n] = acl[n]
  BY <1>1 DEF NewFile, PermissionsInv, PoliciesTyped
<1> HIDE DEF D
<1>4. D \in SUBSET Nodes
  BY <1>1 DEF D
<1>5. PoliciesTyped' /\ ReadPolicyDated'
  BY <1>2, <1>3, <1>4, PolicyBumped
<1>6. NamesGoOn'
  BY NamesLater DEF NewFile
<1> QED BY <1>1, <1>5, <1>6 DEF PermissionsInv, FilesCounted

\* A file gets a new content.
LEMMA NewContentInv ==
  ASSUME PermissionsInv, NEW D, NewContent(D), held' = held \/ held'.kind # "policy"
  PROVE  PermissionsInv'
<1> DEFINE E == D \cup {filed}
<1>1. BumpNodes(E) /\ UNCHANGED <<filesMade, filed, acl>>
  BY DEF NewContent
<1> HIDE DEF E
<1>2. acl' = [n \in Nodes |-> acl'[n]] /\ \A n \in Nodes : n \notin E => acl'[n] = acl[n]
  BY <1>1 DEF PermissionsInv, PoliciesTyped
<1>3. PoliciesTyped' /\ ReadPolicyDated'
  BY <1>1, <1>2, PolicyBumped
<1> QED BY <1>1, <1>3, NamesLater DEF PermissionsInv, FilesCounted

\* Holding nothing is holding no policy.
LEMMA HoldKinds == NoHold.kind = "none"
BY DEF NoHold

\* Opening a file.
LEMMA OpenInv == ASSUME PermissionsInv, NEW u \in Accounts, NEW mode \in OpenModes, Open(u, mode) PROVE PermissionsInv'
<1>1. held' = held \/ held'.kind # "policy"
  <2>1. PICK n : n = filed'
    OBVIOUS
  <2>2. held' = held \/ held' = [NoHold EXCEPT !.kind = "handle", !.who = u, !.node = n, !.mode = mode]
    BY <2>1 DEF Open, Holds
  <2> QED BY <2>2 DEF NoHold
<1>2. CASE filed # NoFileHere /\ mode = "W"
  <2>1. NewContent({Dir})
    BY <1>2 DEF Open
  <2> QED BY <1>1, <2>1, NewContentInv
<1>3. CASE filed # NoFileHere /\ mode # "W"
  <2>1. UNCHANGED <<acl, revision, filed, filesMade>>
    BY <1>3 DEF Open
  <2> QED BY <1>1, <2>1, PolicyLeft, NamesLater DEF PermissionsInv, FilesCounted
<1>4. CASE filed = NoFileHere
  <2>1. NewFile(u)
    BY <1>4 DEF Open
  <2> QED BY <1>1, <2>1, NewFileInv
<1> QED BY <1>2, <1>3, <1>4

\* Writing in a file.
LEMMA WriteInv == ASSUME PermissionsInv, Write PROVE PermissionsInv'
<1>1. NewContent({}) /\ held' = held
  BY DEF Write
<1> QED BY <1>1, NewContentInv

\* Publishing an upload: of a new file, or over the one that was there.
LEMMA PublishUploadInv == ASSUME PermissionsInv, PublishUpload PROVE PermissionsInv'
<1>1. held'.kind # "policy"
  BY HoldKinds DEF PublishUpload
<1>2. CASE NewContent({Dir})
  BY <1>1, <1>2, NewContentInv
<1>3. CASE NewFile(held.who)
  BY <1>1, <1>3, NewFileInv
<1> QED BY <1>2, <1>3 DEF PublishUpload

\* Steps that leave policies and revisions alone.
LEMMA QuietInv ==
  ASSUME PermissionsInv, \/ Read \/ LetGo \/ UNCHANGED permissionsVars
                         \/ \E u \in Accounts : PrepareUpload(u)
                         \/ \E S \in SUBSET (People \ {Owner}) : SetGroupMembers(S)
  PROVE  PermissionsInv'
<1>1. UNCHANGED <<acl, revision, filed, filesMade>>
  BY DEF Read, LetGo, PrepareUpload, SetGroupMembers, permissionsVars
<1>2. held' = held \/ held'.kind # "policy"
  <2>1. ASSUME NEW u \in Accounts, PrepareUpload(u) PROVE held'.kind = "upload"
    BY <2>1 DEF PrepareUpload, NoHold
  <2> QED BY <2>1, HoldKinds DEF Read, LetGo, SetGroupMembers, permissionsVars
<1> QED BY <1>1, <1>2, PolicyLeft, NamesLater DEF PermissionsInv, FilesCounted

\* Removing the file leaves its policy.
LEMMA RemoveTargetInv == ASSUME PermissionsInv, NEW u \in Accounts, RemoveTarget(u) PROVE PermissionsInv'
<1>1. held' = held \/ held'.kind # "policy"
  BY HoldKinds DEF RemoveTarget
<1> DEFINE D == {filed, Dir}
<1>2. BumpNodes(D) /\ acl' = acl
  BY DEF RemoveTarget
<1> HIDE DEF D
<1>3. acl' = [n \in Nodes |-> acl'[n]] /\ \A n \in Nodes : n \notin D => acl'[n] = acl[n]
  BY <1>2 DEF PermissionsInv, PoliciesTyped
<1>4. PoliciesTyped' /\ ReadPolicyDated'
  BY <1>1, <1>2, <1>3, PolicyBumped
<1>5. FilesCounted'
  BY PermissionsAssumption DEF RemoveTarget, PermissionsInv, FilesCounted, NoFileHere
<1>6. NamesGoOn'
  BY <1>1, NamesLater DEF RemoveTarget
<1> QED BY <1>4, <1>5, <1>6 DEF PermissionsInv

\* What an answer says.
LEMMA AnswerFields ==
  ASSUME NEW u, NEW n
  PROVE  LET h == Answer(u, n) IN h.kind = "policy" /\ h.node = n /\ h.acl = acl[n] /\ h.revision = revision[n]
BY DEF Answer, NoHold

\* Reading a policy dates it.
LEMMA GetAclInv == ASSUME PermissionsInv, NEW u \in Accounts, NEW n \in NodesAsked, GetAcl(u, n) PROVE PermissionsInv'
<1>1. UNCHANGED <<acl, revision, filed, filesMade>>
  BY DEF GetAcl
<1>2. n \in Nodes /\ revision[n] \in Nat
  BY DEF NodesAsked, PermissionsInv, PoliciesTyped
<1>3. held'.node = n /\ held'.acl = acl[n] /\ held'.revision = revision[n]
  BY AnswerFields DEF GetAcl
<1>4. NamesGoOn'
  <2>1. n \notin Folders => n = filed /\ n # NoFileHere
    BY DEF GetAcl, Named
  <2>2. filesMade \in Nat /\ filed \in 0..filesMade
    BY PermissionsAssumption DEF PermissionsInv, FilesCounted
  <2> QED BY <1>1, <1>3, <2>1, <2>2 DEF NamesGoOn, NoFileHere
<1> QED BY <1>1, <1>2, <1>3, <1>4 DEF PermissionsInv, FilesCounted, PoliciesTyped, ReadPolicyDated

\* A policy is replaced at a node whose revision grows with it.
LEMMA SetPolicyInv ==
  ASSUME PermissionsInv, NEW u, NEW read, SetPolicy(u, read), held' = held \/ held'.kind # "policy"
  PROVE  PermissionsInv'
<1> DEFINE n == Again(read.node)
           D == {n}
<1>1. BumpNodes(D) /\ UNCHANGED <<filed, filesMade>>
  BY DEF SetPolicy
<1>2. PICK a : acl' = [acl EXCEPT ![n] = a]
  BY DEF SetPolicy
<1> HIDE DEF n
<1>3. acl' = [m \in Nodes |-> acl'[m]] /\ \A m \in Nodes : m \notin D => acl'[m] = acl[m]
  BY <1>2 DEF PermissionsInv, PoliciesTyped
<1> HIDE DEF D
<1>4. PoliciesTyped' /\ ReadPolicyDated'
  BY <1>1, <1>3, PolicyBumped
<1> QED BY <1>1, <1>4, NamesLater DEF PermissionsInv, FilesCounted

\* The invariant holds first.
LEMMA PermissionsInvInit == PermissionsInit => PermissionsInv
<1> SUFFICES ASSUME PermissionsInit PROVE PermissionsInv
  OBVIOUS
<1>1. FilesCounted
  BY PermissionsAssumption DEF PermissionsInit, FilesCounted, NoFileHere
<1>2. PoliciesTyped
  <2>1. PICK m \in ModesAsked : acl = [FirstPolicies EXCEPT ![Dir].mode = m]
    BY DEF PermissionsInit
  <2>2. FirstPolicies = [n \in Nodes |-> FirstPolicies[n]]
    BY DEF FirstPolicies
  <2>3. acl = [n \in Nodes |-> acl[n]]
    BY <2>1, <2>2
  <2>4. revision \in [Nodes -> Nat]
    BY DEF PermissionsInit
  <2> QED BY <2>3, <2>4 DEF PoliciesTyped
<1>3. ReadPolicyDated
  BY HoldKinds DEF PermissionsInit, ReadPolicyDated
<1>4. NamesGoOn
  BY HoldKinds DEF PermissionsInit, NamesGoOn
<1> QED BY <1>1, <1>2, <1>3, <1>4 DEF PermissionsInv

\* Every step keeps the invariant.
LEMMA PermissionsInvNext == PermissionsInv /\ [PermissionsNext]_permissionsVars => PermissionsInv'
<1> SUFFICES ASSUME PermissionsInv, [PermissionsNext]_permissionsVars PROVE PermissionsInv'
  OBVIOUS
<1>1. ASSUME NEW u \in Accounts, NEW mode \in OpenModes, Open(u, mode) PROVE PermissionsInv'
  BY <1>1, OpenInv
<1>2. ASSUME NEW u \in Accounts, RemoveTarget(u) PROVE PermissionsInv'
  BY <1>2, RemoveTargetInv
<1>3. ASSUME NEW u \in Accounts, NEW n \in NodesAsked, GetAcl(u, n) PROVE PermissionsInv'
  BY <1>3, GetAclInv
<1>4. ASSUME NEW u \in Accounts, NEW n \in NodesAsked, SetAtOnce(u, n) PROVE PermissionsInv'
  <2>1. SetPolicy(u, Answer(u, n)) /\ held' = held
    BY <1>4 DEF SetAtOnce
  <2> QED BY <2>1, SetPolicyInv
<1>5. ASSUME SetHeld PROVE PermissionsInv'
  <2>1. SetPolicy(held.who, held) /\ held'.kind # "policy"
    BY <1>5, HoldKinds DEF SetHeld
  <2> QED BY <2>1, SetPolicyInv
<1>6. CASE \/ Read \/ LetGo \/ UNCHANGED permissionsVars
           \/ \E u \in Accounts : PrepareUpload(u)
           \/ \E S \in SUBSET (People \ {Owner}) : SetGroupMembers(S)
  BY <1>6, QuietInv
<1> QED BY <1>1, <1>2, <1>3, <1>4, <1>5, <1>6, WriteInv, PublishUploadInv DEF PermissionsNext

\* Rights other than the administrator's are those of the policies.
LEMMA PassesByPolicy ==
  ASSUME NEW u, NEW n, NEW bits, Passes(u, n, bits), u # Admin \/ (strict /\ ~(n \in Folders /\ bits = {"x"}))
  PROVE  bits \subseteq Allowed(u, n)
BY DEF Passes

\* Whoever crosses a directory has the right to, or is the administrator.
LEMMA CrossesByPolicy ==
  ASSUME NEW u, \A d \in Folders : Passes(u, d, {"x"})
  PROVE  u = Admin \/ \A d \in Folders : "x" \in Allowed(u, d)
<1> SUFFICES ASSUME u # Admin, NEW d \in Folders PROVE "x" \in Allowed(u, d)
  OBVIOUS
<1>1. {"x"} \subseteq Allowed(u, d)
  BY PassesByPolicy
<1> QED BY <1>1

\* What a step did to content or policies, as RightsCurrent reads it.
Right(u, f) ==
  LET crosses == u = Admin \/ \A d \in Folders : "x" \in Allowed(u, d)
  IN /\ strict \/ u # Admin =>
          /\ did'.what = "read" => "r" \in Allowed(u, f) /\ crosses
          /\ did'.what = "write" => "w" \in Allowed(u, f) /\ crosses
          /\ did'.what = "upload" => {"w", "x"} \subseteq Allowed(u, Dir)
          /\ did'.what = "upload" /\ f # NoFileHere => "w" \in Allowed(u, f)
     /\ did'.what = "policy" => did'.kept \/ (0 < did'.read /\ did'.read < f)

\* A file is no directory.
LEMMA FileNoFolder ==
  ASSUME PermissionsInv PROVE filed \notin Folders
BY PermissionsAssumption DEF PermissionsInv, FilesCounted, Folders, Home, Dir

\* What a handle does it has the rights for, now.
LEMMA HandleRights ==
  ASSUME PermissionsInv, Handle, NEW u, u = held.who, strict \/ u # Admin
  PROVE  /\ held.mode # "W" => "r" \in Allowed(u, held.node)
         /\ u = Admin \/ \A d \in Folders : "x" \in Allowed(u, d)
<1>1. \A d \in Folders : Passes(u, d, {"x"})
  BY DEF Handle
<1>2. ASSUME held.mode # "W" PROVE "r" \in Allowed(u, held.node)
  <2>1. Passes(u, held.node, {"r"})
    BY <1>2 DEF Handle, UseNeeds
  <2>2. {"r"} # {"x"}
    OBVIOUS
  <2>3. {"r"} \subseteq Allowed(u, held.node)
    BY <2>1, <2>2, PassesByPolicy
  <2> QED BY <2>3
<1> QED BY <1>1, <1>2, CrossesByPolicy

\* The right to write is no right to cross a directory.
LEMMA WriteRight ==
  ASSUME NEW u, NEW n, Passes(u, n, {"w"}), strict \/ u # Admin PROVE "w" \in Allowed(u, n)
<1>1. {"w"} # {"x"}
  OBVIOUS
<1>2. {"w"} \subseteq Allowed(u, n)
  BY <1>1, PassesByPolicy
<1> QED BY <1>2

\* Reading.
LEMMA ReadRight == ASSUME PermissionsInv, Read, NEW u, NEW f, u = did'.who, f = did'.node PROVE Right(u, f)
<1>1. did' = [Nothing EXCEPT !.what = "read", !.who = held.who, !.node = held.node] /\ Handle /\ held.mode # "W"
  BY DEF Read, Effect
<1>2. did'.what = "read" /\ u = held.who /\ f = held.node
  BY <1>1 DEF Nothing
<1> QED BY <1>1, <1>2, HandleRights DEF Right

\* Writing.
LEMMA WritesRight == ASSUME PermissionsInv, Write, NEW u, NEW f, u = did'.who, f = did'.node PROVE Right(u, f)
<1>1. did' = [Nothing EXCEPT !.what = "write", !.who = held.who, !.node = filed] /\ Writable
  BY DEF Write, Effect
<1>2. did'.what = "write" /\ u = held.who /\ f = held.node
  BY <1>1 DEF Writable, Nothing
<1>3. Handle /\ Passes(u, f, {"w"})
  BY <1>1, <1>2 DEF Writable
<1> QED BY <1>2, <1>3, HandleRights, WriteRight DEF Right

\* Opening to write from the start.
LEMMA OpenRight ==
  ASSUME PermissionsInv, NEW v \in Accounts, NEW mode \in OpenModes, Open(v, mode), NEW u, NEW f, u = did'.who, f = did'.node
  PROVE  Right(u, f)
<1>1. CASE did' = Nothing
  BY <1>1 DEF Right, Nothing
<1>2. CASE did' # Nothing
  <2>1. mode = "W" /\ Passes(v, filed, {"w"}) /\ did' = [Nothing EXCEPT !.what = "write", !.who = v, !.node = filed]
    BY <1>2 DEF Open, OpenNeeds, Effect
  <2>2. did'.what = "write" /\ u = v /\ f = filed
    BY <2>1 DEF Nothing
  <2>3. \A d \in Folders : Passes(u, d, {"x"})
    <3>1. Above(filed) = Folders
      BY FileNoFolder DEF Above, Folders
    <3> QED BY <2>2, <3>1 DEF Open, Reaches
  <2> QED BY <2>1, <2>2, <2>3, WriteRight, CrossesByPolicy DEF Right
<1> QED BY <1>1, <1>2

\* Publishing an upload.
LEMMA UploadRight == ASSUME PermissionsInv, PublishUpload, NEW u, NEW f, u = did'.who, f = did'.node PROVE Right(u, f)
<1>1. did' = [Nothing EXCEPT !.what = "upload", !.who = held.who, !.node = held.node] /\ OperationPermitted
  BY DEF PublishUpload, Effect
<1>2. did'.what = "upload" /\ u = held.who /\ f = held.node
  BY <1>1 DEF Nothing
<1>3. Passes(u, Dir, {"w", "x"}) /\ (f # NoFileHere => Passes(u, f, {"w"}))
  BY <1>1, <1>2 DEF OperationPermitted
<1>4. {"w", "x"} # {"x"}
  OBVIOUS
<1>5. strict \/ u # Admin => {"w", "x"} \subseteq Allowed(u, Dir)
  BY <1>3, <1>4, PassesByPolicy
<1> QED BY <1>2, <1>3, <1>5, WriteRight DEF Right

\* Setting a policy made from one that was read.
LEMMA SetHeldRight == ASSUME PermissionsInv, SetHeld, NEW u, NEW f, u = did'.who, f = did'.node PROVE Right(u, f)
<1> DEFINE n == Again(held.node)
           k == held.acl = acl[n]
<1>1. did' = [what |-> "policy", who |-> held.who, node |-> n, read |-> held.node, kept |-> k] /\ held.revision = revision[n]
      /\ n \in Named /\ held.kind = "policy"
  BY DEF SetHeld, SetPolicy
<1>2. held.node # n => n = filed /\ filed # NoFileHere /\ held.node \notin Folders
  BY <1>1, FileNoFolder DEF Again, Named
<1>3. held.node # n => 0 < held.node /\ held.node < n
  <2>1. filesMade \in Nat /\ filed \in Nat
    BY PermissionsAssumption DEF PermissionsInv, FilesCounted
  <2>2. held.node # n => held.node \in 1..filesMade /\ held.node <= n
    BY <1>1, <1>2 DEF PermissionsInv, NamesGoOn
  <2> HIDE DEF n
  <2> QED BY <1>2, <2>1, <2>2
<1>4. held.node = n => k
  BY <1>1 DEF PermissionsInv, ReadPolicyDated
<1> HIDE DEF k, n
<1>5. did'.what = "policy" /\ did'.read = held.node /\ f = n /\ (held.node = n => did'.kept)
  BY <1>1, <1>4
<1> QED BY <1>3, <1>5 DEF Right

\* Setting a policy at once.
LEMMA SetAtOnceRight ==
  ASSUME PermissionsInv, NEW v \in Accounts, NEW m \in NodesAsked, SetAtOnce(v, m), NEW u, NEW f, u = did'.who, f = did'.node
  PROVE  Right(u, f)
<1> DEFINE a == Answer(v, m)
           n == Again(a.node)
           k == a.acl = acl[n]
<1>1. did' = [what |-> "policy", who |-> v, node |-> n, read |-> a.node, kept |-> k] /\ m \in Named /\ a.node = m
  BY AnswerFields DEF SetAtOnce, SetPolicy
<1>3. m = n
  BY <1>1 DEF Again, Named
<1>4. k
  BY <1>3, AnswerFields
<1> HIDE DEF k, n, a
<1>5. did'.what = "policy" /\ did'.kept
  BY <1>1, <1>4
<1> QED BY <1>5 DEF Right

\* Every step.
LEMMA StepRight ==
  ASSUME PermissionsInv, PermissionsNext, NEW u, NEW f, u = did'.who, f = did'.node PROVE Right(u, f)
<1>1. CASE did' = Nothing
  BY <1>1 DEF Right, Nothing
<1>2. ASSUME NEW v \in Accounts, NEW mode \in OpenModes, Open(v, mode) PROVE Right(u, f)
  BY <1>2, OpenRight
<1>3. ASSUME NEW v \in Accounts, NEW m \in NodesAsked, SetAtOnce(v, m) PROVE Right(u, f)
  BY <1>3, SetAtOnceRight
<1>4. ASSUME NEW v \in Accounts,
             \/ PrepareUpload(v) \/ RemoveTarget(v) \/ LetGo
             \/ \E n \in NodesAsked : GetAcl(v, n)
             \/ \E S \in SUBSET (People \ {Owner}) : SetGroupMembers(S)
      PROVE  did' = Nothing
  BY <1>4 DEF PrepareUpload, RemoveTarget, LetGo, GetAcl, SetGroupMembers
<1>5. Owner \in Accounts
  BY PermissionsAssumption DEF Accounts
<1> QED BY <1>1, <1>2, <1>3, <1>4, <1>5, ReadRight, WritesRight, UploadRight, SetHeldRight DEF PermissionsNext

\* What a handle, an upload or a changed policy does, it does with the rights of the moment,
\* for any number of people, files and changes (require, handle, writable, operation,
\* SetPolicy).
THEOREM RightsAreCurrent == PermissionsSpec => RightsCurrent
<1>1. PermissionsSpec => []PermissionsInv
  BY PermissionsInvInit, PermissionsInvNext, PTL DEF PermissionsSpec
<1>2. ASSUME PermissionsInv, PermissionsNext
      PROVE  LET u == did'.who
                 f == did'.node
                 crosses == u = Admin \/ \A d \in Folders : "x" \in Allowed(u, d)
             IN /\ strict \/ u # Admin =>
                     /\ did'.what = "read" => "r" \in Allowed(u, f) /\ crosses
                     /\ did'.what = "write" => "w" \in Allowed(u, f) /\ crosses
                     /\ did'.what = "upload" => {"w", "x"} \subseteq Allowed(u, Dir)
                     /\ did'.what = "upload" /\ f # NoFileHere => "w" \in Allowed(u, f)
                /\ did'.what = "policy" => did'.kept \/ (0 < did'.read /\ did'.read < f)
  <2>1. PICK u, f : u = did'.who /\ f = did'.node
    OBVIOUS
  <2>2. Right(u, f)
    BY <1>2, <2>1, StepRight
  <2> QED BY <2>1, <2>2 DEF Right
<1> QED BY <1>1, <1>2, PTL DEF PermissionsSpec, RightsCurrent


-----------------------------------------------------------------------------
(* Namespace.                                                               *)

NodeRecords == [name : 0..MaxNames, parent : 0..MaxNodes, kind : {Directory, File}, alive : BOOLEAN]
UploadRecords == [state : {"none", "PREPARING", "ended"}, live : BOOLEAN, parent : 0..MaxNodes,
                  name : 0..MaxNames, base : 0..MaxNodes]

TreeTyped == node \in [NodeIds -> NodeRecords] /\ upload \in [1..MaxUploads -> UploadRecords]

\* The root stays, and an upload is prepared in what is or was a directory.
DirectoriesKept ==
  /\ node[Root].alive /\ node[Root].kind = Directory
  /\ \A o \in 1..MaxUploads : upload[o].state = "PREPARING" =>
       upload[o].parent \in NodeIds /\ node[upload[o].parent].kind = Directory

TreeInv == TreeTyped /\ DirectoriesKept /\ TreeSound

\* The records are what the constants say.
LEMMA TreeRecords ==
  /\ NoNode \in NodeRecords /\ NoNode.alive = FALSE /\ NoNode.kind = File /\ Root \in NodeIds
  /\ NoUpload \in UploadRecords /\ NoUpload.state = "none"
  /\ Ended \in UploadRecords /\ Ended.state = "ended"
<1>1. NoNode \in NodeRecords /\ NoNode.alive = FALSE /\ NoNode.kind = File
  BY NamespaceAssumption DEF NoNode, NodeRecords
<1>2. Root \in NodeIds
  BY NamespaceAssumption DEF Root, NodeIds
<1>3. NoUpload \in UploadRecords /\ NoUpload.state = "none"
  BY NamespaceAssumption DEF NoUpload, UploadRecords
<1>4. Ended \in UploadRecords /\ Ended.state = "ended"
  BY <1>3 DEF Ended, UploadRecords
<1> QED BY <1>1, <1>2, <1>3, <1>4

\* The tree is sound first.
LEMMA TreeInvInit == NamespaceInit => TreeInv
<1> SUFFICES ASSUME NamespaceInit PROVE TreeInv
  OBVIOUS
<1> DEFINE r == [NoNode EXCEPT !.kind = Directory, !.alive = TRUE]
<1>1. r \in NodeRecords /\ r.alive = TRUE /\ r.kind = Directory
  BY TreeRecords DEF NodeRecords
<1>2. node = [i \in NodeIds |-> IF i = Root THEN r ELSE NoNode] /\ upload = [o \in 1..MaxUploads |-> NoUpload]
  BY DEF NamespaceInit
<1> HIDE DEF r
<1>3. TreeTyped
  BY <1>1, <1>2, TreeRecords DEF TreeTyped
<1>4. DirectoriesKept
  BY <1>1, <1>2, TreeRecords DEF DirectoriesKept
<1>5. TreeSound
  BY <1>2, TreeRecords DEF TreeSound
<1> QED BY <1>3, <1>4, <1>5 DEF TreeInv

\* A node is made in a directory that is there, under a name that nothing there has.
LEMMA NodeMade ==
  ASSUME TreeInv, NEW i \in NodeIds, node[i] = NoNode, NEW d, IsDirectory(d), NEW name \in 0..MaxNames,
         NEW kind \in {Directory, File}, ChildNamed(d, name) = {},
         node' = [node EXCEPT ![i] = [name |-> name, parent |-> d, kind |-> kind, alive |-> TRUE]]
  PROVE  /\ node' \in [NodeIds -> NodeRecords] /\ TreeSound'
         /\ node'[Root].alive /\ node'[Root].kind = Directory
         /\ \A k \in NodeIds : node[k].kind = Directory => node'[k].kind = Directory
<1> DEFINE r == [name |-> name, parent |-> d, kind |-> kind, alive |-> TRUE]
<1>1. node \in [NodeIds -> NodeRecords] /\ node[Root].alive /\ node[Root].kind = Directory /\ Root \in NodeIds
  BY TreeRecords DEF TreeInv, TreeTyped, DirectoriesKept
<1>2. d \in NodeIds /\ d \in 0..MaxNodes
  BY NamespaceAssumption DEF IsDirectory, NodeIds
<1>3. r \in NodeRecords /\ r.alive /\ r.parent = d /\ r.name = name
  BY <1>2 DEF NodeRecords
<1>4. i # Root /\ i # d /\ ~node[i].alive
  BY <1>1, TreeRecords DEF IsDirectory
<1> HIDE DEF r
<1>5. node' \in [NodeIds -> NodeRecords] /\ node'[i] = r /\ \A k \in NodeIds : k # i => node'[k] = node[k]
  BY <1>1, <1>3 DEF r
<1>6. \A k \in NodeIds : node[k].kind = Directory => node'[k].kind = Directory
  BY <1>5, TreeRecords DEF Directory, File
<1>7. TreeSound'
  <2> SUFFICES ASSUME NEW k \in NodeIds \ {Root}, node'[k].alive
               PROVE  IsDirectory(node[k].parent)' /\ ChildNamed(node[k].parent, node[k].name)' = {k}
    BY DEF TreeSound
  <2>1. CASE k = i
    <3>1. node'[d].alive /\ node'[d].kind = Directory /\ d \in NodeIds
      BY <1>2, <1>4, <1>5 DEF IsDirectory
    <3>2. node'[k].parent = d /\ node'[k].name = name
      BY <1>3, <1>5, <2>1
    <3>3. {m \in {j \in NodeIds : node'[j].alive /\ node'[j].parent = d} : node'[m].name = name} = {i}
      BY <1>3, <1>4, <1>5 DEF ChildNamed, Children
    <3> QED BY <2>1, <3>1, <3>2, <3>3 DEF IsDirectory, ChildNamed, Children
  <2>2. CASE k # i
    <3> DEFINE p == node[k].parent
               n == node[k].name
    <3>1. node'[k] = node[k] /\ node[k].alive
      BY <1>5, <2>2
    <3>2. IsDirectory(p) /\ ChildNamed(p, n) = {k}
      BY <3>1 DEF TreeInv, TreeSound
    <3>3. p # i
      BY <1>4, <3>2 DEF IsDirectory
    <3>4. ~(p = d /\ n = name)
      BY <3>2
    <3>5. {m \in {j \in NodeIds : node'[j].alive /\ node'[j].parent = p} : node'[m].name = n} = {k}
      <4>1. \A m \in NodeIds : node'[m].alive /\ node'[m].parent = p /\ node'[m].name = n =>
                               node[m].alive /\ node[m].parent = p /\ node[m].name = n
        BY <1>3, <1>5, <3>4
      <4>2. k \in NodeIds /\ node'[k].alive /\ node'[k].parent = p /\ node'[k].name = n
        BY <3>1
      <4> HIDE DEF p, n
      <4>3. {m \in {j \in NodeIds : node[j].alive /\ node[j].parent = p} : node[m].name = n} = {k}
        BY <3>2 DEF ChildNamed, Children
      <4> QED BY <4>1, <4>2, <4>3
    <3>6. node'[p].alive /\ node'[p].kind = Directory /\ p \in NodeIds
      BY <1>5, <3>2, <3>3 DEF IsDirectory
    <3> QED BY <3>1, <3>5, <3>6 DEF IsDirectory, ChildNamed, Children
  <2> QED BY <2>1, <2>2
<1> QED BY <1>1, <1>4, <1>5, <1>6, <1>7


\* A directory or a file is made.
LEMMA MakeTree ==
  ASSUME TreeInv, NEW d, NEW name \in Names, NEW kind \in {Directory, File}, Make(d, name, kind)
  PROVE  TreeInv'
<1>1. PICK i \in NodeIds : /\ node[i] = NoNode
                           /\ node' = [node EXCEPT ![i] = [name |-> name, parent |-> d, kind |-> kind, alive |-> TRUE]]
  BY DEF Make, Fresh
<1>2. IsDirectory(d) /\ ChildNamed(d, name) = {} /\ name \in 0..MaxNames /\ UNCHANGED upload
  BY NamespaceAssumption DEF Make, Names
<1>3. /\ node' \in [NodeIds -> NodeRecords] /\ TreeSound'
      /\ node'[Root].alive /\ node'[Root].kind = Directory
      /\ \A k \in NodeIds : node[k].kind = Directory => node'[k].kind = Directory
  BY <1>1, <1>2, NodeMade
<1> QED BY <1>2, <1>3 DEF TreeInv, TreeTyped, DirectoriesKept

\* An upload is published: a new node in its directory, or a new content.
LEMMA CommitTree == ASSUME TreeInv, NEW o \in 1..MaxUploads, CommitUpload(o) PROVE TreeInv'
<1>1. upload' = [upload EXCEPT ![o] = Ended] /\ upload[o].state = "PREPARING" /\ node[upload[o].parent].alive
  BY DEF CommitUpload, Operation
<1>2. upload' \in [1..MaxUploads -> UploadRecords] /\ \A p \in 1..MaxUploads : upload'[p].state = "PREPARING" => upload'[p] = upload[p]
  BY <1>1, TreeRecords DEF TreeInv, TreeTyped
<1>3. CASE UNCHANGED node
  BY <1>2, <1>3 DEF TreeInv, TreeTyped, DirectoriesKept, TreeSound, IsDirectory, ChildNamed, Children
<1>4. CASE ~UNCHANGED node
  <2> DEFINE d == upload[o].parent
             name == upload[o].name
  <2>1. PICK i \in NodeIds : /\ node[i] = NoNode
                             /\ node' = [node EXCEPT ![i] = [name |-> name, parent |-> d, kind |-> File, alive |-> TRUE]]
    BY <1>4 DEF CommitUpload, Fresh
  <2>2. ChildNamed(d, name) = {}
    BY <1>4 DEF CommitUpload
  <2>3. IsDirectory(d) /\ name \in 0..MaxNames
    BY <1>1 DEF TreeInv, TreeTyped, DirectoriesKept, UploadRecords, IsDirectory
  <2>4. /\ node' \in [NodeIds -> NodeRecords] /\ TreeSound'
        /\ node'[Root].alive /\ node'[Root].kind = Directory
        /\ \A k \in NodeIds : node[k].kind = Directory => node'[k].kind = Directory
    BY <2>1, <2>2, <2>3, NodeMade
  <2> QED BY <1>2, <2>4 DEF TreeInv, TreeTyped, DirectoriesKept
<1> QED BY <1>3, <1>4

\* A node goes that nothing living is in.
LEMMA RemoveTree == ASSUME TreeInv, NEW i \in NodeIds, RemoveNode(i) PROVE TreeInv'
<1> DEFINE r == [node[i] EXCEPT !.alive = FALSE]
<1>1. node \in [NodeIds -> NodeRecords] /\ upload \in [1..MaxUploads -> UploadRecords]
  BY DEF TreeInv, TreeTyped
<1>2. r \in NodeRecords /\ r.alive = FALSE /\ r.kind = node[i].kind
  BY <1>1 DEF NodeRecords
<1>3. node' = [node EXCEPT ![i] = r] /\ i # Root /\ node[i].alive
  BY <1>1 DEF RemoveNode
<1> HIDE DEF r
<1>4. node' \in [NodeIds -> NodeRecords] /\ node'[i] = r /\ \A k \in NodeIds : k # i => node'[k] = node[k]
  BY <1>1, <1>2, <1>3
<1>5. \A p \in 1..MaxUploads : upload'[p] \in {Ended, upload[p]}
  BY DEF RemoveNode
<1>6. upload' \in [1..MaxUploads -> UploadRecords]
  BY <1>1, <1>5, TreeRecords DEF RemoveNode
<1>7. TreeTyped'
  BY <1>4, <1>6 DEF TreeTyped
<1>8. DirectoriesKept'
  <2>1. \A k \in NodeIds : node[k].kind = Directory => node'[k].kind = Directory
    BY <1>2, <1>4
  <2> QED BY <1>3, <1>4, <1>5, <2>1, TreeRecords DEF TreeInv, DirectoriesKept
<1>9. \A k \in NodeIds \ {Root} : node[k].alive => node[k].parent # i
  <2> SUFFICES ASSUME NEW k \in NodeIds \ {Root}, node[k].alive, node[k].parent = i PROVE FALSE
    OBVIOUS
  <2>1. node[i].kind = Directory
    BY DEF TreeInv, TreeSound, IsDirectory
  <2>2. k \in Children(i)
    BY DEF Children
  <2> QED BY <2>1, <2>2 DEF RemoveNode, Empty
<1>10. TreeSound'
  <2> SUFFICES ASSUME NEW k \in NodeIds \ {Root}, node'[k].alive
               PROVE  IsDirectory(node[k].parent)' /\ ChildNamed(node[k].parent, node[k].name)' = {k}
    BY DEF TreeSound
  <2> DEFINE p == node[k].parent
             n == node[k].name
  <2>1. k # i /\ node'[k] = node[k] /\ node[k].alive
    BY <1>2, <1>4
  <2>2. IsDirectory(p) /\ ChildNamed(p, n) = {k} /\ p # i
    BY <1>9, <2>1 DEF TreeInv, TreeSound
  <2>3. node'[p].alive /\ node'[p].kind = Directory /\ p \in NodeIds
    BY <1>4, <2>2 DEF IsDirectory
  <2>4. {m \in {j \in NodeIds : node'[j].alive /\ node'[j].parent = p} : node'[m].name = n} = {k}
    <3>1. \A m \in NodeIds : node'[m].alive => node'[m] = node[m]
      BY <1>2, <1>4
    <3> HIDE DEF p, n
    <3>2. {m \in {j \in NodeIds : node[j].alive /\ node[j].parent = p} : node[m].name = n} = {k}
      BY <2>2 DEF ChildNamed, Children
    <3>3. node'[k].parent = p /\ node'[k].name = n
      BY <2>1 DEF p, n
    <3> QED BY <2>1, <3>1, <3>2, <3>3
  <2> QED BY <2>1, <2>3, <2>4 DEF IsDirectory, ChildNamed, Children
<1> QED BY <1>7, <1>8, <1>10 DEF TreeInv

\* The tree stays while uploads are begun, lapse or are aborted, and while it is listed.
LEMMA QuietTree ==
  ASSUME TreeInv,
         \/ \E i \in NodeIds : SetAcl(i)
         \/ \E o \in 1..MaxUploads : \/ \E d \in NodeIds, name \in Names : BeginUpload(o, d, name)
                                     \/ UploadLapses(o) \/ AbortUpload(o)
         \/ \E p \in Paths : ListPage(p)
         \/ UNCHANGED namespaceVars
  PROVE  TreeInv'
<1>1. node' = node
  BY DEF SetAcl, BeginUpload, UploadLapses, AbortUpload, ListPage, namespaceVars
<1>2. TreeSound'
  BY <1>1 DEF TreeInv, TreeSound, IsDirectory, ChildNamed, Children
<1>3. node \in [NodeIds -> NodeRecords] /\ upload \in [1..MaxUploads -> UploadRecords]
  BY DEF TreeInv, TreeTyped
<1>4. CASE UNCHANGED upload
  BY <1>1, <1>2, <1>4 DEF TreeInv, TreeTyped, DirectoriesKept
<1>5. ASSUME NEW o \in 1..MaxUploads, NEW u \in UploadRecords, upload' = [upload EXCEPT ![o] = u],
             u.state = "PREPARING" => u.parent \in NodeIds /\ node[u.parent].kind = Directory
      PROVE  TreeInv'
  <2>1. upload' \in [1..MaxUploads -> UploadRecords] /\ upload'[o] = u /\ \A p \in 1..MaxUploads : p # o => upload'[p] = upload[p]
    BY <1>3, <1>5
  <2> QED BY <1>1, <1>2, <1>5, <2>1 DEF TreeInv, TreeTyped, DirectoriesKept
<1>6. ASSUME NEW o \in 1..MaxUploads, AbortUpload(o) PROVE TreeInv'
  BY <1>5, <1>6, TreeRecords DEF AbortUpload
<1>7. ASSUME NEW o \in 1..MaxUploads, UploadLapses(o) PROVE TreeInv'
  <2> DEFINE u == [upload[o] EXCEPT !.live = FALSE]
  <2>1. u \in UploadRecords /\ u.parent = upload[o].parent /\ u.state = upload[o].state
    BY <1>3 DEF UploadRecords
  <2>2. upload' = [upload EXCEPT ![o] = u]
    BY <1>3, <1>7 DEF UploadLapses
  <2> HIDE DEF u
  <2>3. upload[o].state = "PREPARING" => upload[o].parent \in NodeIds /\ node[upload[o].parent].kind = Directory
    BY DEF TreeInv, DirectoriesKept
  <2> QED BY <1>5, <2>1, <2>2, <2>3
<1>8. ASSUME NEW o \in 1..MaxUploads, NEW d \in NodeIds, NEW name \in Names, BeginUpload(o, d, name) PROVE TreeInv'
  <2> DEFINE b == IF ChildNamed(d, name) = {} THEN 0 ELSE CHOOSE i \in ChildNamed(d, name) : TRUE
             u == [state |-> "PREPARING", live |-> TRUE, parent |-> d, name |-> name, base |-> b]
  <2>1. b \in 0..MaxNodes
    <3>1. NodeIds \subseteq 0..MaxNodes /\ 0 \in 0..MaxNodes /\ ChildNamed(d, name) \subseteq NodeIds
      BY NamespaceAssumption DEF NodeIds, ChildNamed, Children
    <3> QED BY <3>1
  <2> HIDE DEF b
  <2>2. u \in UploadRecords /\ u.parent = d
    BY <2>1, NamespaceAssumption DEF UploadRecords, NodeIds, Names
  <2>3. upload' = [upload EXCEPT ![o] = u] /\ node[d].kind = Directory
    BY <1>8 DEF BeginUpload, IsDirectory, b
  <2> HIDE DEF u
  <2> QED BY <1>5, <2>2, <2>3
<1>9. ASSUME \/ \E i \in NodeIds : SetAcl(i)
             \/ \E p \in Paths : ListPage(p)
             \/ UNCHANGED namespaceVars
      PROVE  UNCHANGED upload
  BY <1>9 DEF SetAcl, ListPage, namespaceVars
<1> QED BY <1>4, <1>6, <1>7, <1>8, <1>9

\* Every step keeps the tree.
LEMMA TreeInvNext == ASSUME TreeInv, [NamespaceNext]_namespaceVars PROVE TreeInv'
<1>1. ASSUME NEW p \in Paths, NEW name \in Names, NEW kind \in {Directory, File}, MakeAt(p, name, kind) PROVE TreeInv'
  BY <1>1, MakeTree DEF MakeAt
<1> QED BY <1>1, CommitTree, RemoveTree, QuietTree DEF NamespaceNext


Listings == [state : {"off", "open", "done"}, path : Paths, dir : 0..MaxNodes,
             fresh : BOOLEAN, last : 0..MaxNodes, got : SUBSET NodeIds]

\* The entries of d up to the one that is last.
Listed(d, last) == {i \in Children(d) : node[i].name <= node[last].name}

\* A cursor that is still good separates the entries that were sent from the others.
CursorSound ==
  listing.state = "open" /\ listing.fresh = TRUE =>
    listing.last \in Children(listing.dir) /\ listing.got = Listed(listing.dir, listing.last)

ListingInv == listing \in Listings /\ (listing.state = "done" => listing.fresh = FALSE) /\ CursorSound

\* Of some children there is one with the first name, and one with the last.
LEMMA FirstAndLast ==
  ASSUME TreeInv, NEW S \in SUBSET NodeIds, S # {}
  PROVE  /\ \E i \in S : \A k \in S : node[i].name <= node[k].name
         /\ \E i \in S : \A k \in S : node[k].name <= node[i].name
<1>1. \A i \in S : node[i].name \in Nat /\ node[i].name <= MaxNames /\ MaxNames - node[i].name \in Nat
  BY NamespaceAssumption DEF TreeInv, TreeTyped, NodeRecords
<1>2. ASSUME NEW f, \A i \in S : f[i] \in Nat PROVE \E i \in S : \A k \in S : f[i] <= f[k]
  <2>1. PICK T : T = {f[i] : i \in S}
    OBVIOUS
  <2>2. T \subseteq Nat /\ T # {}
    BY <1>2, <2>1
  <2>3. PICK x \in T : \A y \in T : ~(<<y, x>> \in OpToRel(<, Nat))
    BY <2>2, NatLessThanWellFounded, WFMin
  <2>4. PICK i \in S : x = f[i]
    BY <2>1, <2>3
  <2>5. ASSUME NEW k \in S, f[k] < f[i] PROVE FALSE
    <3>1. f[k] \in T /\ f[k] \in Nat /\ x \in Nat
      BY <2>1, <2>2
    <3>2. <<f[k], x>> \in OpToRel(<, Nat)
      BY <2>4, <2>5, <3>1 DEF OpToRel
    <3> QED BY <2>3, <3>1, <3>2
  <2> QED BY <1>2, <2>5
<1>3. \E i \in S : \A k \in S : node[i].name <= node[k].name
  <2>1. PICK f : f = [i \in S |-> node[i].name]
    OBVIOUS
  <2>2. PICK i \in S : \A k \in S : f[i] <= f[k]
    BY <1>1, <1>2, <2>1
  <2> QED BY <2>1, <2>2
<1>4. \E i \in S : \A k \in S : node[k].name <= node[i].name
  <2>1. PICK f : f = [i \in S |-> MaxNames - node[i].name]
    OBVIOUS
  <2>2. PICK i \in S : \A k \in S : f[i] <= f[k]
    BY <1>1, <1>2, <2>1
  <2> QED BY <1>1, <2>1, <2>2, NamespaceAssumption
<1> QED BY <1>3, <1>4

\* A page holds, with an entry, those before it; and it holds one when there is one to send.
LEMMA PageFirst ==
  ASSUME TreeInv, NEW d, NEW last
  PROVE  /\ Page(d, last) \subseteq After(d, last) /\ After(d, last) \subseteq Children(d) /\ Children(d) \subseteq NodeIds
         /\ \A i \in Page(d, last), k \in After(d, last) : node[k].name <= node[i].name => k \in Page(d, last)
         /\ After(d, last) # {} => Page(d, last) # {}
<1> DEFINE S == After(d, last)
           Before(i) == {k \in S : node[k].name < node[i].name}
<1>1. Page(d, last) \subseteq S /\ S \subseteq Children(d) /\ Children(d) \subseteq NodeIds
  BY DEF Page, After, Children
<1>2. \A i \in S : node[i].name \in Nat
  BY <1>1 DEF TreeInv, TreeTyped, NodeRecords
<1>3. \A i \in S : i \in Page(d, last) <=> Cardinality(Before(i)) < PageLimit
  BY DEF Page
<1>4. IsFiniteSet(S)
  <2>1. IsFiniteSet(NodeIds)
    BY NamespaceAssumption, FS_Interval DEF NodeIds
  <2> QED BY <1>1, <2>1, FS_Subset
<1> HIDE DEF S
<1>5. ASSUME NEW i \in Page(d, last), NEW k \in S, node[k].name <= node[i].name PROVE k \in Page(d, last)
  <2>1. Before(k) \subseteq Before(i)
    BY <1>1, <1>2, <1>5
  <2>2. IsFiniteSet(Before(i))
    BY <1>4, FS_Subset
  <2>3. IsFiniteSet(Before(k)) /\ Cardinality(Before(k)) <= Cardinality(Before(i))
    <3> HIDE DEF Before
    <3> QED BY <2>1, <2>2, FS_Subset
  <2>4. Cardinality(Before(k)) \in Nat /\ Cardinality(Before(i)) \in Nat
    <3> HIDE DEF Before
    <3> QED BY <2>2, <2>3, FS_CardinalityType
  <2>5. Cardinality(Before(i)) < PageLimit
    BY <1>1, <1>3
  <2> HIDE DEF Before
  <2> QED BY <1>3, <2>3, <2>4, <2>5, NamespaceAssumption
<1>6. ASSUME S # {} PROVE Page(d, last) # {}
  <2>1. PICK i \in S : \A k \in S : node[i].name <= node[k].name
    BY <1>1, <1>6, FirstAndLast
  <2>2. Before(i) = {}
    BY <1>2, <2>1
  <2>3. Cardinality(Before(i)) = 0
    BY <2>2, FS_EmptySet
  <2> HIDE DEF Before
  <2> QED BY <1>3, <2>3, NamespaceAssumption
<1> QED BY <1>1, <1>5, <1>6 DEF S

\* The last entry of a page.
LEMMA PageLast ==
  ASSUME TreeInv, NEW S \in SUBSET NodeIds, S # {}
  PROVE  LastOf(S) \in S /\ \A k \in S : node[k].name <= node[LastOf(S)].name
BY FirstAndLast DEF LastOf

\* After a page the cursor separates again.
LEMMA PageListed ==
  ASSUME TreeInv, NEW d, NEW last, last = 0 \/ last \in Children(d), NEW got,
         got = IF last = 0 THEN {} ELSE Listed(d, last)
  PROVE  /\ After(d, last) = Page(d, last) => got \cup Page(d, last) = Children(d)
         /\ After(d, last) # Page(d, last) =>
              LET l == LastOf(Page(d, last)) IN l \in Children(d) /\ got \cup Page(d, last) = Listed(d, l)
<1> DEFINE S == After(d, last)
           P == Page(d, last)
           l == LastOf(P)
<1>1. /\ P \subseteq S /\ S \subseteq Children(d) /\ Children(d) \subseteq NodeIds
      /\ \A i \in P, k \in S : node[k].name <= node[i].name => k \in P
      /\ S # {} => P # {}
  BY PageFirst
<1>2. \A i \in Children(d) : node[i].name \in Nat
  BY <1>1 DEF TreeInv, TreeTyped, NodeRecords
<1>3. 0 \notin Children(d)
  BY <1>1, NamespaceAssumption DEF NodeIds
<1>4. Children(d) = got \cup S /\ (last # 0 => \A i \in got, k \in S : node[i].name <= node[last].name /\ node[last].name < node[k].name)
  <2>1. CASE last = 0
    BY <2>1 DEF After
  <2>2. CASE last # 0
    BY <1>2, <2>2 DEF After, Listed
  <2> QED BY <2>1, <2>2
<1>5. ASSUME S # P PROVE l \in Children(d) /\ got \cup P = Listed(d, l)
  <2>1. P # {} /\ P \in SUBSET NodeIds
    BY <1>1, <1>5
  <2>2. l \in P /\ \A k \in P : node[k].name <= node[l].name
    BY <2>1, PageLast
  <2> HIDE DEF l, P, S
  <2>3. \A i \in got : i \in Children(d) /\ node[i].name <= node[l].name
    <3>1. CASE last = 0
      BY <3>1
    <3>2. CASE last # 0
      BY <1>1, <1>2, <1>4, <2>2, <3>2
    <3> QED BY <3>1, <3>2
  <2>4. \A i \in Children(d) : node[i].name <= node[l].name => i \in got \cup P
    BY <1>1, <1>4, <2>2
  <2> QED BY <1>1, <2>2, <2>3, <2>4 DEF Listed
<1> QED BY <1>4, <1>5


\* bump() leaves a listing as it is, but for the cursor of a directory that it names.
LEMMA BumpFields ==
  ASSUME ListingInv, NEW D, listing' = Bump(D)
  PROVE  /\ listing' \in Listings
         /\ listing'.state = listing.state /\ listing'.dir = listing.dir
         /\ listing'.last = listing.last /\ listing'.got = listing.got
         /\ listing'.fresh = TRUE => listing.fresh = TRUE /\ listing.dir \notin D
         /\ listing.fresh = FALSE => listing' = listing
<1>1. listing \in Listings /\ listing.fresh \in BOOLEAN
  BY DEF ListingInv, Listings
<1>2. PICK f \in BOOLEAN : f = (listing.fresh /\ listing.dir \notin D)
  OBVIOUS
<1>3. listing' = [listing EXCEPT !.fresh = f]
  BY <1>2 DEF Bump
<1>4. /\ listing' \in Listings
      /\ listing'.state = listing.state /\ listing'.dir = listing.dir
      /\ listing'.last = listing.last /\ listing'.got = listing.got /\ listing'.fresh = f
  BY <1>1, <1>2, <1>3 DEF Listings
<1>5. f = TRUE => listing.fresh = TRUE /\ listing.dir \notin D
  BY <1>1, <1>2, Zenon
<1>6. ASSUME listing.fresh = FALSE PROVE listing' = listing
  <2>1. f = FALSE
    BY <1>2, <1>6, Zenon
  <2>2. f = listing.fresh
    BY <1>6, <2>1, Zenon
  <2> QED BY <1>1, <1>3, <2>2 DEF Listings
<1> QED BY <1>4, <1>5, <1>6

\* The cursor of a directory that is not named stays good when the directory does not change.
LEMMA BumpListing ==
  ASSUME ListingInv, NEW D, listing' = Bump(D),
         \A d : d \notin D => Children(d)' = Children(d),
         \A i \in NodeIds : node[i].alive => node'[i].name = node[i].name
  PROVE  ListingInv'
<1>1. /\ listing' \in Listings
      /\ listing'.state = listing.state /\ listing'.dir = listing.dir
      /\ listing'.last = listing.last /\ listing'.got = listing.got
      /\ listing'.fresh = TRUE => listing.fresh = TRUE /\ listing.dir \notin D
      /\ listing.fresh = FALSE => listing' = listing
  BY BumpFields
<1>2. ASSUME listing'.state = "open", listing'.fresh = TRUE
      PROVE  listing'.last \in Children(listing.dir)' /\ listing'.got = Listed(listing.dir, listing.last)'
  <2> DEFINE d == listing.dir
             l == listing.last
  <2>1. d \notin D /\ l \in Children(d) /\ listing.got = Listed(d, l)
    BY <1>1, <1>2 DEF ListingInv, CursorSound
  <2>2. PICK e, m : e = listing.dir /\ m = listing.last
    OBVIOUS
  <2>3. Children(e)' = Children(e)
    BY <2>1, <2>2
  <2>4. \A i \in Children(e) : node'[i].name = node[i].name
    BY DEF Children
  <2>5. Listed(e, m)' = Listed(e, m)
    BY <2>1, <2>2, <2>3, <2>4 DEF Listed
  <2> QED BY <1>1, <2>1, <2>2, <2>3, <2>5
<1> QED BY <1>1, <1>2 DEF ListingInv, CursorSound


\* A node is made: only its directory has another child.
LEMMA NodeMadeListing ==
  ASSUME TreeInv, ListingInv, NEW i \in NodeIds, node[i] = NoNode, NEW r \in NodeRecords,
         node' = [node EXCEPT ![i] = r], NEW D, r.parent \in D, listing' = Bump(D)
  PROVE  ListingInv'
<1>1. node \in [NodeIds -> NodeRecords] /\ ~node[i].alive
  BY TreeRecords DEF TreeInv, TreeTyped
<1>2. node'[i] = r /\ \A k \in NodeIds : k # i => node'[k] = node[k]
  BY <1>1
<1>3. \A d : d \notin D => Children(d)' = Children(d)
  BY <1>1, <1>2 DEF Children
<1>4. \A k \in NodeIds : node[k].alive => node'[k].name = node[k].name
  BY <1>1, <1>2
<1> QED BY <1>3, <1>4, BumpListing

\* Steps that bump keep what a listing says.
LEMMA BumpSteps ==
  ASSUME TreeInv, ListingInv,
         \/ \E d : \E name \in Names, kind \in {Directory, File} : Make(d, name, kind)
         \/ \E i \in NodeIds : RemoveNode(i) \/ SetAcl(i)
         \/ \E o \in 1..MaxUploads : CommitUpload(o)
  PROVE  ListingInv' /\ \E D : listing' = Bump(D)
<1>1. ASSUME NEW d, NEW name \in Names, NEW kind \in {Directory, File}, Make(d, name, kind)
      PROVE  ListingInv' /\ \E D : listing' = Bump(D)
  <2> DEFINE r == [name |-> name, parent |-> d, kind |-> kind, alive |-> TRUE]
  <2>1. PICK i \in NodeIds : node[i] = NoNode /\ node' = [node EXCEPT ![i] = r]
    BY <1>1 DEF Make, Fresh
  <2>2. d \in 0..MaxNodes /\ name \in 0..MaxNames /\ listing' = Bump({d})
    BY <1>1, NamespaceAssumption DEF Make, IsDirectory, NodeIds, Names
  <2>3. r \in NodeRecords /\ r.parent \in {d}
    BY <2>2 DEF NodeRecords
  <2> HIDE DEF r
  <2> QED BY <2>1, <2>2, <2>3, NodeMadeListing
<1>2. ASSUME NEW i \in NodeIds, RemoveNode(i) PROVE ListingInv' /\ \E D : listing' = Bump(D)
  <2> DEFINE D == {i, node[i].parent}
             r == [node[i] EXCEPT !.alive = FALSE]
  <2>1. node \in [NodeIds -> NodeRecords]
    BY DEF TreeInv, TreeTyped
  <2>2. node' = [node EXCEPT ![i] = r] /\ listing' = Bump(D)
    BY <1>2, <2>1 DEF RemoveNode
  <2>3. r.alive = FALSE /\ r.name = node[i].name
    BY <2>1 DEF NodeRecords
  <2> HIDE DEF r
  <2>4. node'[i] = r /\ \A k \in NodeIds : k # i => node'[k] = node[k]
    BY <2>1, <2>2
  <2>5. \A d : d \notin D => Children(d)' = Children(d)
    BY <2>3, <2>4 DEF Children
  <2>6. \A k \in NodeIds : node[k].alive => node'[k].name = node[k].name
    BY <2>3, <2>4
  <2> HIDE DEF D
  <2> QED BY <2>2, <2>5, <2>6, BumpListing
<1>3. ASSUME UNCHANGED node, NEW D, listing' = Bump(D) PROVE ListingInv'
  <2>1. \A d : d \notin D => Children(d)' = Children(d)
    BY <1>3 DEF Children
  <2> QED BY <1>3, <2>1, BumpListing
<1>4. ASSUME NEW i \in NodeIds, SetAcl(i) PROVE ListingInv' /\ \E D : listing' = Bump(D)
  BY <1>3, <1>4 DEF SetAcl
<1>5. ASSUME NEW o \in 1..MaxUploads, CommitUpload(o) PROVE ListingInv' /\ \E D : listing' = Bump(D)
  <2> DEFINE D == {upload[o].base, upload[o].parent}
             r == [name |-> upload[o].name, parent |-> upload[o].parent, kind |-> File, alive |-> TRUE]
  <2>1. listing' = Bump(D)
    BY <1>5 DEF CommitUpload
  <2>2. CASE UNCHANGED node
    <3> HIDE DEF D
    <3> QED BY <1>3, <2>1, <2>2
  <2>3. CASE ~UNCHANGED node
    <3>1. PICK i \in NodeIds : node[i] = NoNode /\ node' = [node EXCEPT ![i] = r]
      BY <1>5, <2>3 DEF CommitUpload, Fresh
    <3>2. upload[o] \in UploadRecords
      BY DEF TreeInv, TreeTyped
    <3>3. r \in NodeRecords /\ r.parent \in D
      BY <3>2 DEF NodeRecords, UploadRecords
    <3> HIDE DEF r, D
    <3> QED BY <2>1, <3>1, <3>3, NodeMadeListing
  <2> QED BY <2>2, <2>3
<1> QED BY <1>1, <1>2, <1>4, <1>5

\* A page is sent, or the client hears that the directory has changed.
LEMMA ListPageStep ==
  ASSUME TreeInv, ListingInv, NEW p \in Paths, ListPage(p)
  PROVE  ListingInv' /\ (listing'.state = "done" => \E d : d = listing'.dir /\ listing'.got = Children(d))
<1>0. PICK d : d = walk[p]
  OBVIOUS
<1> DEFINE last == IF listing.state = "open" THEN listing.last ELSE 0
           old == IF listing.state = "open" THEN listing.got ELSE {}
           got == old \cup Page(d, last)
<1>1. IsDirectory(d) /\ UNCHANGED <<node, upload>> /\ (listing.state = "open" => p = listing.path)
  BY <1>0 DEF ListPage
<1>2. d \in NodeIds /\ d \in 0..MaxNodes /\ 0 \in 0..MaxNodes /\ NodeIds \subseteq 0..MaxNodes /\ 0 \notin NodeIds
  BY <1>1, NamespaceAssumption DEF IsDirectory, NodeIds
<1>3. NoListing.state = "off" /\ NoListing \in Listings
  <2>1. <<>> \in Paths
    <3>1. <<>> \in [1..0 -> Names] /\ 0 \in 0..MaxDepth
      BY NamespaceAssumption
    <3> QED BY <3>1 DEF Paths
  <2> QED BY <1>2, <2>1 DEF NoListing, Listings
<1>4. CASE listing' = NoListing
  BY <1>3, <1>4 DEF ListingInv, CursorSound
<1>5. CASE listing' # NoListing
  <2>1. listing.state # "open" \/ CursorGood(d)
    BY <1>0, <1>5 DEF ListPage
  <2>2. (last = 0 \/ last \in Children(d)) /\ old = (IF last = 0 THEN {} ELSE Listed(d, last)) /\ old \subseteq NodeIds
    <3>1. CASE listing.state # "open"
      BY <3>1
    <3>2. CASE listing.state = "open"
      <4>1. listing.dir = d /\ listing.fresh /\ listing.last \in Children(d)
        BY <2>1, <3>2 DEF CursorGood
      <4>2. listing.fresh \in BOOLEAN /\ listing.got \subseteq NodeIds
        BY DEF ListingInv, Listings
      <4>3. listing.fresh = TRUE
        BY <4>1, <4>2, Zenon
      <4>4. listing.got = Listed(d, listing.last)
        BY <3>2, <4>1, <4>3 DEF ListingInv, CursorSound
      <4>5. listing.last # 0
        BY <1>2, <4>1 DEF Children
      <4> QED BY <3>2, <4>1, <4>2, <4>4, <4>5
    <3> QED BY <3>1, <3>2
  <2>3. /\ After(d, last) = Page(d, last) => got = Children(d)
        /\ After(d, last) # Page(d, last) =>
             LET l == LastOf(Page(d, last)) IN l \in Children(d) /\ got = Listed(d, l)
    <3> HIDE DEF last, old
    <3> QED BY <2>2, PageListed DEF got
  <2>4. got \subseteq NodeIds
    BY <2>2 DEF Page, After, Children
  <2>5. listing' = IF After(d, last) = Page(d, last)
                   THEN [NoListing EXCEPT !.state = "done", !.dir = d, !.got = got]
                   ELSE [state |-> "open", path |-> p, dir |-> d, fresh |-> TRUE,
                         last |-> LastOf(Page(d, last)), got |-> got]
    BY <1>0, <1>5 DEF ListPage
  <2> HIDE DEF last, old, got
  <2>6. CASE After(d, last) = Page(d, last)
    <3> DEFINE x == [NoListing EXCEPT !.state = "done", !.dir = d, !.got = got]
    <3>1. x \in Listings /\ x.state = "done" /\ x.dir = d /\ x.got = got /\ x.fresh = FALSE
      <4>1. NoListing.fresh = FALSE
        BY DEF NoListing
      <4> QED BY <1>2, <1>3, <2>4, <4>1 DEF Listings
    <3>2. listing' = x
      BY <2>5, <2>6
    <3> HIDE DEF x
    <3> QED BY <2>3, <2>6, <3>1, <3>2 DEF ListingInv, CursorSound
  <2>7. CASE After(d, last) # Page(d, last)
    <3>0. PICK l : l = LastOf(Page(d, last))
      OBVIOUS
    <3> DEFINE x == [state |-> "open", path |-> p, dir |-> d, fresh |-> TRUE, last |-> l, got |-> got]
    <3>1. l \in Children(d) /\ got = Listed(d, l)
      BY <2>3, <2>7, <3>0
    <3>2. l \in 0..MaxNodes
      BY <1>2, <3>1 DEF Children
    <3>3. x \in Listings /\ x.state = "open" /\ x.dir = d /\ x.got = got /\ x.last = l
      BY <1>2, <2>4, <3>2 DEF Listings
    <3>4. listing' = x
      BY <2>5, <2>7, <3>0
    <3> HIDE DEF x
    <3>5. Children(d)' = Children(d) /\ Listed(d, l)' = Listed(d, l)
      BY <1>1 DEF Children, Listed
    <3>6. CursorSound'
      <4>1. listing'.dir = d /\ listing'.last = l /\ listing'.got = got
        BY <3>3, <3>4
      <4> QED BY <3>1, <3>5, <4>1 DEF CursorSound
    <3> QED BY <3>3, <3>4, <3>6 DEF ListingInv
  <2> QED BY <2>6, <2>7
<1> QED BY <1>4, <1>5

\* Every step keeps what the listing says, and a listing that ends is exact.
LEMMA ListingStep ==
  ASSUME TreeInv, ListingInv, [NamespaceNext]_namespaceVars
  PROVE  ListingInv' /\ (listing'.state = "done" /\ listing' # listing => \E d : d = listing'.dir /\ listing'.got = Children(d))
<1>1. ASSUME NEW D, listing' = Bump(D), listing'.state = "done" PROVE listing' = listing
  BY <1>1, BumpFields DEF ListingInv
<1>2. ASSUME \/ \E d : \E name \in Names, kind \in {Directory, File} : Make(d, name, kind)
             \/ \E i \in NodeIds : RemoveNode(i) \/ SetAcl(i)
             \/ \E o \in 1..MaxUploads : CommitUpload(o)
      PROVE  ListingInv' /\ (listing'.state = "done" => listing' = listing)
  BY <1>1, <1>2, BumpSteps
<1>3. ASSUME UNCHANGED <<node, listing>> PROVE ListingInv'
  BY <1>3 DEF ListingInv, CursorSound, Children, Listed
<1>4. ASSUME NEW p \in Paths, NEW name \in Names, NEW kind \in {Directory, File}, MakeAt(p, name, kind)
      PROVE  ListingInv' /\ (listing'.state = "done" => listing' = listing)
  BY <1>2, <1>4 DEF MakeAt
<1>5. ASSUME \/ \E o \in 1..MaxUploads : \/ \E d \in NodeIds, name \in Names : BeginUpload(o, d, name)
                                         \/ UploadLapses(o) \/ AbortUpload(o)
             \/ UNCHANGED namespaceVars
      PROVE  UNCHANGED <<node, listing>>
  BY <1>5 DEF BeginUpload, UploadLapses, AbortUpload, namespaceVars
<1> QED BY <1>2, <1>3, <1>4, <1>5, ListPageStep DEF NamespaceNext

\* The listing is sound first.
LEMMA ListingInvInit == NamespaceInit => ListingInv
<1>1. NoListing \in Listings
  <2>1. <<>> \in [1..0 -> Names] /\ 0 \in 0..MaxDepth /\ 0 \in 0..MaxNodes
    BY NamespaceAssumption
  <2>2. <<>> \in Paths
    BY <2>1 DEF Paths
  <2> QED BY <2>1, <2>2 DEF NoListing, Listings
<1>2. NoListing.state = "off"
  BY DEF NoListing
<1> QED BY <1>1, <1>2 DEF NamespaceInit, ListingInv, CursorSound

\* After every step the tree is a tree with unique names, and a listing that ends is that of
\* one moment, for any number of nodes, names, uploads and any page limit (Mkdir, remove,
\* BeginUpload, CommitUpload, List).
THEOREM TreeStaysConsistent == NamespaceSpec => NamesConsistent
<1> DEFINE Inv == TreeInv /\ ListingInv
<1>1. NamespaceInit => Inv
  BY TreeInvInit, ListingInvInit
<1>2. Inv /\ [NamespaceNext]_namespaceVars => Inv'
  BY TreeInvNext, ListingStep
<1>3. NamespaceSpec => []Inv
  BY <1>1, <1>2, PTL DEF NamespaceSpec
<1>4. ASSUME Inv, [NamespaceNext]_namespaceVars PROVE TreeSound' /\ ListingExact
  <2>1. TreeSound'
    BY <1>4, TreeInvNext DEF TreeInv
  <2>2. ListingExact
    <3> SUFFICES ASSUME listing'.state = "done", listing' # listing PROVE listing'.got = Children(listing'.dir)
      BY DEF ListingExact
    <3>1. PICK d : d = listing'.dir /\ listing'.got = Children(d)
      BY <1>4, ListingStep
    <3> QED BY <3>1 DEF Children
  <2> QED BY <2>1, <2>2
<1> HIDE DEF Inv
<1> QED BY <1>3, <1>4, PTL DEF NamespaceSpec, NamesConsistent
=============================================================================
