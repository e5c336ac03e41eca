----------------------------- MODULE MCMetadata -----------------------------
(***************************************************************************)
(* The metadata store in etcd for TLC: the unit of work (MetadataGate) and  *)
(* the pages it publishes (PageStore).  They share no state in the model: a *)
(* behaviour of this module is a behaviour of one of them, chosen at the    *)
(* start.                                                                   *)
(***************************************************************************)
EXTENDS MetadataGate, PageStore, TLC

VARIABLE moves   \* which of the two moves

metadataVars == <<vars, pagesVars, moves>>

MetadataInit == moves \in {"gate", "pages"} /\ Init /\ PagesInit

GateRests == UNCHANGED vars
PagesRest == UNCHANGED pagesVars

MetadataNext ==
  /\ UNCHANGED moves
  /\ IF moves = "gate" THEN Next ELSE GateRests
  /\ IF moves = "pages" THEN PagesNext ELSE PagesRest

MetadataSpec == MetadataInit /\ [][MetadataNext]_metadataVars

Symmetry == Permutations(Threads) \cup Permutations(Leases) \cup Permutations(Authors)
=============================================================================
