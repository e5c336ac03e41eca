----------------------------- MODULE ClientRead -----------------------------
(***************************************************************************)
(* Reading in the SDK: a range through a handle (iter_read), which hands    *)
(* every chunk to its caller at once, and a download (receive), which       *)
(* writes to a temporary file and publishes it when it is whole.            *)
(*                                                                          *)
(* The blocks are read one after the other, each from a replica of the      *)
(* plan.  A stream can break after any chunk; the client then asks for the  *)
(* replicas of that block again and goes on with one that has not failed.   *)
(* A range goes on where it stopped, a download starts the block again.     *)
(***************************************************************************)
EXTENDS Integers, Sequences

CONSTANTS
  Replicas,    \* DataNodes
  MaxBlock,    \* blocks of the range or file
  MaxChunk,    \* chunks of a block
  MaxRetries   \* retries of one block (2 in the code)

ASSUME ReadAssumption == MaxBlock \in Nat \ {0} /\ MaxChunk \in Nat \ {0} /\ MaxRetries \in Nat

VARIABLES
  reader,   \* the call: its kind, where it is, the stream it reads from
  out,      \* chunks the caller has, or the temporary file holds
  listed,   \* replicas that the control would name for the current block
  target,   \* the local file: "absent", "foreign" (another program's), "partial", "whole"
  lapsed    \* whether a renewal of keepalive failed

readVars == <<reader, out, listed, target, lapsed>>

Whole == [i \in 1..(MaxBlock * MaxChunk) |-> i]
Start(b) == (b - 1) * MaxChunk

ReadTypeOK ==
  /\ reader \in [kind : {"range", "download"}, overwrite : BOOLEAN,
                 phase : {"stream", "resolve", "next", "leave", "publish", "done", "error"},
                 block : 1..MaxBlock, from : 0..MaxChunk, wire : 0..MaxChunk, retries : 0..MaxRetries,
                 node : Replicas, failed : SUBSET Replicas]
  /\ out \in Seq(1..(MaxBlock * MaxChunk))
  /\ listed \subseteq Replicas
  /\ target \in {"absent", "foreign", "partial", "whole"}
  /\ lapsed \in BOOLEAN

ReadInit ==
  /\ listed = Replicas
  /\ reader \in [kind : {"range", "download"}, overwrite : BOOLEAN, phase : {"stream"}, block : {1},
                 from : {0}, wire : {0}, retries : {0}, node : Replicas, failed : {{}}]
  /\ out = <<>> /\ lapsed = FALSE
  /\ target \in {"absent", "foreign"}
  /\ target = "foreign" => reader.overwrite

To(phase) == [reader EXCEPT !.phase = phase]

\* What of the current block has been received.
Received == Len(out) - Start(reader.block)

-----------------------------------------------------------------------------
(* One stream.                                                              *)

\* A chunk at the position that is expected next.
Chunk ==
  /\ reader.phase = "stream" /\ reader.from + reader.wire < MaxChunk
  /\ out' = Append(out, Start(reader.block) + reader.from + reader.wire + 1)
  /\ reader' = [reader EXCEPT !.wire = @ + 1]
  /\ UNCHANGED <<listed, target, lapsed>>

\* The end of the stream: all that was asked for, or DATA_LOSS.
StreamEnds ==
  /\ reader.phase = "stream"
  /\ reader' = To(IF reader.from + reader.wire = MaxChunk THEN "next" ELSE "error")
  /\ UNCHANGED <<out, listed, target, lapsed>>

\* download_block truncates the file; a range keeps what its caller has.
RollBack == IF reader.kind = "download" THEN SubSeq(out, 1, Start(reader.block)) ELSE out

\* It breaks: UNAVAILABLE, DEADLINE_EXCEEDED or DATA_LOSS.  A range that had everything
\* gives up too.
StreamBreaks ==
  /\ reader.phase = "stream"
  /\ \/ /\ reader.retries < MaxRetries
        /\ reader.kind = "range" => Received < MaxChunk
        /\ reader' = [reader EXCEPT !.phase = "resolve", !.retries = @ + 1, !.failed = @ \cup {reader.node}]
        /\ out' = RollBack
     \/ /\ reader.retries = MaxRetries \/ (reader.kind = "range" /\ Received = MaxChunk)
        /\ reader' = To("error")
        /\ UNCHANGED out
  /\ UNCHANGED <<listed, target, lapsed>>

\* Mutant: the new stream starts at the beginning of the block.
ResumeAtStart == 0
\* Where the new request starts.
ResumeAt == IF reader.kind = "range" THEN Received ELSE 0

\* The next attempt at the block.
Retry(n) == [reader EXCEPT !.phase = "stream", !.node = n, !.from = ResumeAt, !.wire = 0]

\* ResolveBlocks for the rest of the block; a replica that has not failed, or an error.
Resolve ==
  /\ reader.phase = "resolve"
  /\ \/ \E n \in listed \ reader.failed : reader' = Retry(n)
     \/ /\ listed \subseteq reader.failed
        /\ reader' = To("error")
  /\ UNCHANGED <<out, listed, target, lapsed>>

\* The call is refused or lost, or the stream says what it should not.
Fails ==
  /\ reader.phase \in {"stream", "resolve", "next"}
  /\ reader' = To("error")
  /\ UNCHANGED <<out, listed, target, lapsed>>

\* The digest of the block is right; the next block, or the end.
NextBlock ==
  /\ reader.phase = "next"
  /\ \/ /\ reader.block < MaxBlock
        /\ \E n \in Replicas :
             reader' = [reader EXCEPT !.phase = "stream", !.block = @ + 1, !.from = 0, !.wire = 0,
                                      !.retries = 0, !.node = n, !.failed = {}]
     \/ /\ reader.block = MaxBlock
        /\ reader' = To("leave")
  /\ UNCHANGED <<out, listed, target, lapsed>>

-----------------------------------------------------------------------------
(* The end of a call.                                                       *)

\* keepalive raises the failure of a renewal.
Leave ==
  /\ reader.phase = "leave"
  /\ reader' = To(CASE lapsed -> "error"
                    [] ~lapsed /\ reader.kind = "download" -> "publish"
                    [] OTHER -> "done")
  /\ UNCHANGED <<out, listed, target, lapsed>>

\* link() refuses a name that exists; replace() is for overwrite.
FreeToPublish == reader.overwrite \/ target = "absent"

Content == IF out = Whole THEN "whole" ELSE "partial"

\* The temporary file gets its name.
PublishFile ==
  /\ reader.phase = "publish"
  /\ \/ /\ FreeToPublish
        /\ target' = Content
        /\ reader' = To("done")
     \/ /\ ~FreeToPublish
        /\ reader' = To("error")
        /\ UNCHANGED target
  /\ UNCHANGED <<out, listed, lapsed>>

\* Replicas come and go, a renewal fails, another program makes the file.
Around ==
  /\ \/ \E n \in Replicas : listed' = (listed \cup {n}) \ (listed \cap {n}) /\ UNCHANGED <<target, lapsed>>
     \/ lapsed' = TRUE /\ UNCHANGED <<listed, target>>
     \/ target = "absent" /\ target' = "foreign" /\ UNCHANGED <<listed, lapsed>>
  /\ reader.phase \notin {"done", "error"}
  /\ UNCHANGED <<reader, out>>

ReadStep == Chunk \/ StreamEnds \/ StreamBreaks \/ Resolve \/ Fails \/ NextBlock \/ Leave \/ PublishFile

ReadNext == ReadStep \/ Around

\* Streams and calls have deadlines: the client's thread goes on.
ReadFairness == WF_readVars(ReadStep)

ReadSpec == ReadInit /\ [][ReadNext]_readVars

-----------------------------------------------------------------------------
(* Properties.                                                              *)

\* What the caller gets, or the temporary file holds, is the content from its beginning,
\* without a gap or a repetition, whichever replicas fail and wherever their streams break;
\* a call that succeeds has delivered everything and a published file is whole
\* (_iter_read, download_block, receive_handle).
ReadsWhole ==
  /\ out = SubSeq(Whole, 1, Len(out))
  /\ reader.phase = "done" => out = Whole
  /\ target # "partial"
=============================================================================
