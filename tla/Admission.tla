----------------------------- MODULE Admission -----------------------------
(***************************************************************************)
(* Admission of transfers on the DataNodes.                                 *)
(*                                                                          *)
(* A node has a fixed number of units, and a transfer takes 1, 2 or 4 of    *)
(* them according to its block size, waiting at most five seconds.  The     *)
(* stream of a client takes units of one node; the copy of a block takes    *)
(* those of its destination and, holding them, asks its source for the      *)
(* block, which takes units there.  Nodes copy from one another.            *)
(***************************************************************************)
EXTENDS Integers, FiniteSets, FiniteSetsExt

CONSTANTS
  Nodes,      \* DataNodes
  Transfers,  \* threads that serve transfers
  Units,      \* units of a node (4 in the code)
  Weights     \* what a transfer takes ({1, 2, 4} in the code)

ASSUME UnitsAssumption == Units \in Nat /\ Weights \subseteq 1..Units

VARIABLES
  units,     \* free units of each node
  transfer   \* each thread: the transfer it serves, and how far that is

admissionVars == <<units, transfer>>

NoTransfer == [at |-> "none", far |-> "none", weight |-> 0, node |-> 0, source |-> 0]

\* `at' is the side of the node that was asked; `far' that of the source of a copy.
AdmissionTypeOK ==
  /\ units \in [Nodes -> 0..Units]
  /\ transfer \in [Transfers -> [at : {"none", "waiting", "admitted", "asking"},
                                 far : {"none", "waiting", "admitted"}, weight : Weights \cup {0},
                                 node : Nodes \cup {0}, source : Nodes \cup {0}]]

AdmissionInit ==
  /\ units = [n \in Nodes |-> Units]
  /\ transfer = [t \in Transfers |-> NoTransfer]

\* A transfer begins: on its node only, or from another.
Ask(t, node, source, weight) ==
  /\ transfer[t] = NoTransfer
  /\ transfer' = [transfer EXCEPT ![t] = [at |-> "waiting", far |-> "none", weight |-> weight,
                                          node |-> node, source |-> source]]
  /\ UNCHANGED units

IsCopy(t) == transfer[t].source # transfer[t].node

\* The units of node n suffice.
Fits(n, weight) == units[n] >= weight

\* admit(): the units are there.
Admit(t) ==
  /\ transfer[t].at = "waiting"
  /\ Fits(transfer[t].node, transfer[t].weight)
  /\ units' = [units EXCEPT ![transfer[t].node] = @ - transfer[t].weight]
  /\ transfer' = [transfer EXCEPT ![t].at = "admitted"]

\* Five seconds have passed: SERVICE_UNAVAILABLE.
AdmitTimeout(t) ==
  /\ transfer[t].at = "waiting"
  /\ ~Fits(transfer[t].node, transfer[t].weight)
  /\ transfer' = [transfer EXCEPT ![t] = NoTransfer]
  /\ UNCHANGED units

\* copy() calls GetReplica of the source, inside its own admission.
AskSource(t) ==
  /\ IsCopy(t) /\ transfer[t].at = "admitted" /\ transfer[t].far = "none"
  /\ transfer' = [transfer EXCEPT ![t].at = "asking", ![t].far = "waiting"]
  /\ UNCHANGED units

\* GetReplica is admitted.
AdmitSource(t) ==
  /\ transfer[t].far = "waiting"
  /\ Fits(transfer[t].source, transfer[t].weight)
  /\ units' = [units EXCEPT ![transfer[t].source] = @ - transfer[t].weight]
  /\ transfer' = [transfer EXCEPT ![t].far = "admitted"]

\* GetReplica waits five seconds too.
SourceGivesUp(t) == ~Fits(transfer[t].source, transfer[t].weight)

\* The source's side ends: refused, sent, or its caller is gone.
SourceEnds(t) ==
  /\ \/ /\ transfer[t].far = "waiting"
        /\ SourceGivesUp(t) \/ transfer[t].at = "none"
        /\ UNCHANGED units
     \/ /\ transfer[t].far = "admitted"
        /\ units' = [units EXCEPT ![transfer[t].source] = @ + transfer[t].weight]
  /\ transfer' = IF transfer[t].at = "none" THEN [transfer EXCEPT ![t] = NoTransfer]
                 ELSE [transfer EXCEPT ![t].at = "admitted", ![t].far = "none", ![t].source = transfer[t].node]

\* Mutant: only a transfer that succeeded gives its units back.
GiveBackOnSuccess(t) ==
  [units EXCEPT ![transfer[t].node] = @ + IF transfer[t].at = "admitted" THEN transfer[t].weight ELSE 0]
\* The finally of admit().
GiveBack(t) == [units EXCEPT ![transfer[t].node] = @ + transfer[t].weight]

\* The node's side ends.  While it waits for the source it ends when the stream breaks or
\* its own deadline passes, and the source may not know yet.
Ends(t) ==
  /\ \/ transfer[t].at = "admitted"
     \/ transfer[t].at = "asking"
  /\ units' = GiveBack(t)
  /\ transfer' = IF transfer[t].far = "none" THEN [transfer EXCEPT ![t] = NoTransfer]
                 ELSE [transfer EXCEPT ![t].at = "none"]

AdmissionNext ==
  \E t \in Transfers :
    \/ \E node, source \in Nodes, weight \in Weights : Ask(t, node, source, weight)
    \/ Admit(t) \/ AdmitTimeout(t) \/ AskSource(t) \/ AdmitSource(t) \/ SourceEnds(t) \/ Ends(t)

\* A wait ends, admitted or by its deadline; an admitted transfer ends, because streams
\* have deadlines; a source notices that its caller is gone.  A copy that waits for its
\* source is not assumed to give up by itself.
AdmissionFairness ==
  \A t \in Transfers :
    /\ WF_admissionVars(Admit(t) \/ AdmitTimeout(t))
    /\ WF_admissionVars(AdmitSource(t) \/ SourceEnds(t))
    /\ WF_admissionVars(transfer[t].at = "admitted" /\ (Ends(t) \/ AskSource(t)))

AdmissionSpec == AdmissionInit /\ [][AdmissionNext]_admissionVars

-----------------------------------------------------------------------------
(* Properties.                                                              *)

\* What transfer t holds of node n, on both sides.
HeldBy(t, n) ==
  (IF transfer[t].at \in {"admitted", "asking"} /\ transfer[t].node = n THEN transfer[t].weight ELSE 0)
  + (IF transfer[t].far = "admitted" /\ transfer[t].source = n THEN transfer[t].weight ELSE 0)

\* The units of a node are free or held by a transfer, whichever side fails or ends first:
\* none is lost and none is given back twice (admit, copy, GetReplica).
UnitsConserved ==
  \A n \in Nodes : units[n] + MapThenSumSet(LAMBDA t : HeldBy(t, n), Transfers) = Units

\* Every transfer ends, although two nodes that copy from one another each hold the units
\* that the other waits for (admit, copy, GetReplica).
TransfersEnd == \A t \in Transfers : []<>(transfer[t] = NoTransfer)
=============================================================================
