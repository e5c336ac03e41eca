----------------------------- MODULE MCContent -----------------------------
(***************************************************************************)
(* Content is written in place (FileAccess) and placed on DataNodes         *)
(* (Cluster).  The two share no state in the model: a behaviour of this     *)
(* module is a behaviour of one of them, chosen at the start.               *)
(***************************************************************************)
EXTENDS MCFileAccess, Cluster, TLC

VARIABLE moves   \* which of the two moves

contentVars == <<vars, clusterVars, moves>>

\* A part that is not to move starts in one of its initial states only.
ContentInit ==
  /\ moves \in {"access", "cluster"}
  /\ Init /\ ClusterInit
  /\ moves # "cluster" => \A n \in DataNodes : enabled[n]

AccessRests == UNCHANGED vars
ClusterRests == UNCHANGED clusterVars

ContentNext ==
  /\ UNCHANGED moves
  /\ \/ moves = "access" /\ ClusterRests /\ Next
     \/ moves = "cluster" /\ AccessRests /\ ClusterNext

ContentSpec == ContentInit /\ [][ContentNext]_contentVars

Symmetry == Permutations(DataNodes)
=============================================================================
