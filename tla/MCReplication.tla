--------------------------- MODULE MCReplication ---------------------------
(* Small clusters for TLC. *)
EXTENDS Replication, TLC

Symmetry == Permutations(Nodes)
=============================================================================
