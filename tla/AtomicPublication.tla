-------------------------- MODULE AtomicPublication --------------------------
(***************************************************************************)
(* What a metadata store promises its callers, whichever of SQLite and etcd *)
(* holds the records: write transactions take effect one at a time, each at *)
(* most once, and what one published no other takes back.                   *)
(***************************************************************************)

CONSTANT Transactions

VARIABLE published

Init == published = {}

Publish(x) ==
  /\ x \notin published
  /\ published' = published \cup {x}

Next == \E x \in Transactions : Publish(x)

Spec == Init /\ [][Next]_published
=============================================================================
