------------------------------- MODULE Client -------------------------------
(***************************************************************************)
(* The calls of the SDK side by side: one that changes a file (ClientCommit) *)
(* and one that reads a file (ClientRead).  They share no state; what they   *)
(* tell the application is stated here for both.                             *)
(***************************************************************************)
EXTENDS ClientCommit, ClientRead

SDKSpec == ClientSpec /\ ReadSpec

\* What a client is told is true, of the commits it asked for and of the bytes it read
\* (commit_write, _finish_write, _iter_read, receive_handle).
ToldTrue == OutcomesTrue /\ ReadsWhole
=============================================================================
