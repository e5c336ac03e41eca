---------------------------- MODULE ClientCommit ----------------------------
(***************************************************************************)
(* How the SDK learns whether its commit was applied: the end of a write    *)
(* through a handle (commit_write, _finish_write, _write_serialized) and of *)
(* an upload (send), against the handlers of the control they call.         *)
(*                                                                          *)
(* Calls are lost and late.  A request that was sent once may be executed   *)
(* at any later time, and more than once: FailoverChannel repeats it on the *)
(* next control, `call' repeats it after UNAVAILABLE, and a handler goes on *)
(* when its caller has given up.  What the client gets is the handler's     *)
(* answer or "unavailable" (UNAVAILABLE, DEADLINE_EXCEEDED).                *)
(*                                                                          *)
(* One operation is followed, from the point where its blocks are being     *)
(* prepared.  Version 1 is what the handle had before it, version 2 what    *)
(* the operation publishes.                                                 *)
(***************************************************************************)
EXTENDS Integers

CONSTANT MaxAttempts  \* calls of write with the same request id

ASSUME AttemptsAssumption == MaxAttempts \in Nat \ {0}

Kinds == {"write", "upload"}
ClientPhases == {"begin", "prepare", "commit", "status", "again", "look", "leave", "abort", "done"}
Endings == {"none", "ok", "failed", "unknown", "error"}  \* "error" is the plain error of a call
States == {"PREPARING", "COMMITTED", "ABORTED", "EXPIRED"}
Answers == States \cup {"ok", "refused", "denied", "unavailable"}

VARIABLES
  kind,       \* which of the two operations this is
  opState,    \* state of the operation record
  fenced,     \* its handle, leases and fences are still valid
  durable,    \* its blocks have the copies the commit asks for
  authentic,  \* the session and the permissions are still valid
  recorded,   \* commit requests whose response is in the ledger
  onServer,   \* version and revision of the handle record
  sent,       \* requests the controls may still execute
  client,     \* the thread inside write or send
  renewal     \* the keepalive thread of the same call

serverVars == <<opState, recorded, onServer>>
clientVars == <<kind, opState, fenced, durable, authentic, recorded, onServer, sent, client, renewal>>

\* Attempt i asks to commit with request id <<"commit", i>>.
Requests == {<<"commit", i>> : i \in 1..MaxAttempts} \cup {<<"abort", 0>>}
MyCommit == <<"commit", client.attempt>>

ClientTypeOK ==
  /\ kind \in Kinds /\ opState \in States
  /\ fenced \in BOOLEAN /\ durable \in BOOLEAN /\ authentic \in BOOLEAN
  /\ recorded \subseteq Requests /\ sent \subseteq Requests
  /\ onServer \in 1..2
  /\ client \in [phase : ClientPhases, attempt : 1..MaxAttempts, error : {"failed", "unknown"},
                 outcome : Endings, snapshot : 1..2, revision : 1..3]
  /\ renewal \in [failed : BOOLEAN, answer : 0..2]

ClientInit ==
  /\ kind \in Kinds
  /\ opState = "PREPARING" /\ fenced = TRUE /\ durable = FALSE /\ authentic = TRUE
  /\ recorded = {} /\ sent = {} /\ onServer = 1
  /\ client = [phase |-> "prepare", attempt |-> 1, error |-> "failed", outcome |-> "none",
               snapshot |-> 1, revision |-> 1]
  /\ renewal = [failed |-> FALSE, answer |-> 0]

-----------------------------------------------------------------------------
(* The control.                                                             *)

\* CommitWrite and CommitUpload publish.
Publishable(q) ==
  authentic /\ q \notin recorded /\ opState = "PREPARING" /\ fenced /\ durable

ServeCommit(q) ==
  IF Publishable(q)
  THEN /\ opState' = "COMMITTED" /\ recorded' = recorded \cup {q}
       /\ onServer' = IF kind = "write" THEN 2 ELSE onServer
  ELSE UNCHANGED serverVars

\* What they answer: the ledger's response to a request already recorded; a lack of
\* copies is UNAVAILABLE to the caller, every other refusal is not.
CommitReply(q) ==
  CASE ~authentic -> "denied"
    [] authentic /\ (q \in recorded \/ Publishable(q)) -> "ok"
    [] authentic /\ q \notin recorded /\ opState = "PREPARING" /\ fenced /\ ~durable -> "unavailable"
    [] OTHER -> "refused"

\* AbortWrite and AbortUpload.
Abortable == authentic /\ opState # "COMMITTED"

ServeAbort ==
  IF Abortable THEN opState' = "ABORTED" /\ UNCHANGED <<recorded, onServer>>
  ELSE UNCHANGED serverVars

Serve(q) == IF q[1] = "commit" THEN ServeCommit(q) ELSE ServeAbort

\* A control executes a request and nobody hears the answer.
Execute(q) ==
  /\ q \in sent
  /\ Serve(q)
  /\ UNCHANGED <<kind, fenced, durable, authentic, sent, client, renewal>>

\* collect(): an operation whose handle, lease or fence ended is expired.
ExpireOperation ==
  /\ opState = "PREPARING" /\ ~fenced
  /\ opState' = "EXPIRED"
  /\ UNCHANGED <<kind, fenced, durable, authentic, recorded, onServer, sent, client, renewal>>

\* Copies appear and are lost again; leases run out; sessions are revoked.
Environment ==
  /\ \/ durable' = ~durable /\ UNCHANGED <<fenced, authentic>>
     \/ fenced /\ fenced' = FALSE /\ UNCHANGED <<durable, authentic>>
     \/ authentic /\ authentic' = FALSE /\ UNCHANGED <<durable, fenced>>
  /\ UNCHANGED <<kind, opState, recorded, onServer, sent, client, renewal>>

-----------------------------------------------------------------------------
(* Calls, as the client sees them.                                          *)

\* The answer a of the control to q, or none in time.
Call(q, a) ==
  \/ a = (IF q[1] = "commit" THEN CommitReply(q) ELSE IF Abortable THEN "ok" ELSE "refused")
     /\ Serve(q)
  \/ a = "unavailable" /\ UNCHANGED serverVars

\* GetOperation.
Status(a) ==
  /\ a \in {IF authentic THEN opState ELSE "denied", "unavailable"}
  /\ UNCHANGED serverVars

Go(phase) == [client EXCEPT !.phase = phase]
Raise(error) == [client EXCEPT !.phase = "look", !.error = error]
Finish(outcome) == [client EXCEPT !.phase = "done", !.outcome = outcome]

\* The last lines of commit_write: the published snapshot, and one revision more.
Confirmed == [Finish("ok") EXCEPT !.snapshot = 2, !.revision = @ + 1]

\* Blocks are written and their copies waited for, then the commit is sent; or one of
\* these fails.
Prepared ==
  /\ client.phase = "prepare"
  /\ client' = Go("commit")
  /\ sent' = sent \cup {MyCommit}
  /\ UNCHANGED <<kind, opState, fenced, durable, authentic, recorded, onServer, renewal>>

PrepareFails ==
  /\ client.phase = "prepare"
  /\ client' = IF kind = "write" THEN Raise("failed") ELSE Go("abort")
  /\ UNCHANGED <<kind, opState, fenced, durable, authentic, recorded, onServer, sent, renewal>>

-----------------------------------------------------------------------------
(* The end of a write.                                                      *)

\* commit_write: the first CommitWrite.
WriteCommit(a) ==
  /\ kind = "write" /\ client.phase = "commit"
  /\ Call(MyCommit, a)
  /\ client' = CASE a = "ok" -> Confirmed
                 [] a = "unavailable" -> Go("status")
                 [] OTHER -> Raise("failed")

\* Mutant: the commit is sent again for as long as the operation is in preparation.
AfterStatusPersists(a) ==
  CASE a = "COMMITTED" -> Confirmed
    [] a = "PREPARING" -> Go("commit")
    [] a \in {"ABORTED", "EXPIRED"} -> Raise("failed")
    [] OTHER -> Raise("unknown")

\* What commit_write makes of the state it asked for.
AfterStatus(a) ==
  CASE a = "COMMITTED" -> Confirmed
    [] a = "PREPARING" -> Go("again")
    [] a \in {"ABORTED", "EXPIRED"} -> Raise("failed")
    [] OTHER -> Raise("unknown")

WriteStatus(a) ==
  /\ kind = "write" /\ client.phase = "status"
  /\ Status(a)
  /\ client' = AfterStatus(a)

\* The same CommitWrite, once more.
WriteAgain(a) ==
  /\ kind = "write" /\ client.phase = "again"
  /\ Call(MyCommit, a)
  /\ client' = IF a = "ok" THEN Confirmed ELSE Raise("failed")

\* The handler of _finish_write: what it makes of the state it asks for.
AfterLook(a) ==
  CASE a = "COMMITTED" -> [Finish("ok") EXCEPT !.snapshot = 2]
    [] a = "PREPARING" -> Go("abort")
    [] a \in {"ABORTED", "EXPIRED"} -> Finish(client.error)
    [] OTHER -> Finish("unknown")

WriteLook(a) ==
  /\ kind = "write" /\ client.phase = "look"
  /\ Status(a)
  /\ client' = AfterLook(a)

WriteAbort(a) ==
  /\ kind = "write" /\ client.phase = "abort"
  /\ Call(<<"abort", 0>>, a)
  /\ client' = IF a = "ok" THEN Finish(client.error) ELSE Finish("unknown")

\* The application calls write again, with the request id of a write that it does not know
\* the outcome of, on the same handle.  What the question about the operation meets, and
\* what BeginWrite meets, is raised as it is: _finish_write has not been entered.
Resume(a) ==
  /\ kind = "write" /\ client.phase = "done" /\ client.outcome \in {"unknown", "error"}
  /\ client.attempt < MaxAttempts
  /\ Status(a)
  /\ client' = CASE a = "COMMITTED" -> Finish("ok")
                 [] a = "PREPARING" -> [client EXCEPT !.phase = "begin", !.outcome = "none"]
                 [] a \in {"ABORTED", "EXPIRED"} -> Finish("failed")
                 [] OTHER -> Finish("error")

\* BeginWrite with the original request: the ledger has its answer, whatever has become of
\* the operation since.  The new attempt has a keepalive thread of its own.
BeginAgain ==
  /\ client.phase = "begin"
  /\ \/ /\ authentic
        /\ client' = [client EXCEPT !.phase = "prepare", !.error = "failed", !.attempt = @ + 1]
        /\ renewal' = [renewal EXCEPT !.failed = FALSE]
     \/ client' = Finish("error") /\ UNCHANGED renewal
  /\ UNCHANGED <<kind, opState, fenced, durable, authentic, recorded, onServer, sent>>

-----------------------------------------------------------------------------
(* The end of an upload.                                                    *)

UploadCommit(a) ==
  /\ kind = "upload" /\ client.phase = "commit"
  /\ Call(MyCommit, a)
  /\ client' = CASE a = "ok" -> Go("leave")
                 [] a = "unavailable" -> Go("status")
                 [] OTHER -> Go("abort")

UploadStatus(a) ==
  /\ kind = "upload" /\ client.phase = "status"
  /\ Status(a)
  /\ client' = IF a = "COMMITTED" THEN Go("leave") ELSE Finish("unknown")

\* keepalive raises the failure of a renewal when its block ends normally.
UploadLeave ==
  /\ kind = "upload" /\ client.phase = "leave"
  /\ client' = IF renewal.failed THEN Go("abort") ELSE Finish("ok")
  /\ UNCHANGED serverVars

\* AbortUpload, whatever it answers; then the failure is raised.
UploadAbort(a) ==
  /\ kind = "upload" /\ client.phase = "abort"
  /\ Call(<<"abort", 0>>, a)
  /\ client' = Finish("failed")

-----------------------------------------------------------------------------
(* The keepalive thread.                                                    *)

\* RenewHandle or RenewUpload is executed.
RenewServed ==
  /\ client.phase \notin {"begin", "done"} /\ ~renewal.failed /\ renewal.answer = 0
  /\ authentic /\ fenced /\ (kind = "upload" => opState = "PREPARING")
  /\ renewal' = [renewal EXCEPT !.answer = onServer]
  /\ UNCHANGED <<kind, opState, fenced, durable, authentic, recorded, onServer, sent, client>>

\* Its answer arrives: renew_handle keeps it if it is not older than the copy.
RenewApplied ==
  /\ renewal.answer # 0
  /\ client' = IF kind = "write" /\ renewal.answer >= client.revision
               THEN [client EXCEPT !.revision = renewal.answer, !.snapshot = renewal.answer]
               ELSE client
  /\ renewal' = [renewal EXCEPT !.answer = 0]
  /\ UNCHANGED <<kind, opState, fenced, durable, authentic, recorded, onServer, sent>>

\* It is refused, or lost: the thread keeps the failure and ends.
RenewFails ==
  /\ client.phase \notin {"begin", "done"} /\ ~renewal.failed
  /\ renewal' = [failed |-> TRUE, answer |-> 0]
  /\ UNCHANGED <<kind, opState, fenced, durable, authentic, recorded, onServer, sent, client>>

-----------------------------------------------------------------------------
\* The client's own steps.  An abort may be executed late, like a commit.
ClientStep ==
  /\ \/ \E a \in Answers :
          \/ WriteCommit(a) \/ WriteStatus(a) \/ WriteAgain(a) \/ WriteLook(a) \/ WriteAbort(a)
          \/ UploadCommit(a) \/ UploadStatus(a) \/ UploadAbort(a)
     \/ UploadLeave
  /\ sent' = IF client.phase = "abort" THEN sent \cup {<<"abort", 0>>} ELSE sent
  /\ UNCHANGED <<kind, fenced, durable, authentic, renewal>>

ApplicationRetries ==
  /\ \E a \in Answers : Resume(a)
  /\ UNCHANGED <<kind, fenced, durable, authentic, sent, renewal>>

ClientNext ==
  \/ ClientStep \/ Prepared \/ PrepareFails \/ BeginAgain \/ ApplicationRetries
  \/ \E q \in Requests : Execute(q)
  \/ ExpireOperation \/ Environment
  \/ RenewServed \/ RenewApplied \/ RenewFails

\* A call ends, with an answer or by its deadline: every step of the client's thread is
\* taken.  The controls, the leases and the application owe it nothing.
ClientFairness == WF_clientVars(ClientStep \/ Prepared \/ PrepareFails \/ BeginAgain)

ClientSpec == ClientInit /\ [][ClientNext]_clientVars

-----------------------------------------------------------------------------
(* Properties.                                                              *)

\* What the SDK reports as written is published, whichever of its answers were lost and
\* in whatever order its requests were executed, and a write whose failure comes out of
\* _finish_write, or that a resumed call finds ended, is not published, then or later,
\* although a CommitWrite that was sent may still be executed ("a failed status query does
\* not authorize claiming that a commit was aborted"; commit_write, _finish_write, send).
\* The plain error of a resumed call that could not ask, or could not begin again, says
\* nothing of the operation, though the specification has OUTCOME_UNKNOWN there: the
\* CommitWrite of an earlier attempt may have published, or may yet (_write_serialized).
OutcomesTrue ==
  /\ client.outcome = "ok" => opState = "COMMITTED"
  /\ kind = "write" /\ client.phase = "done" /\ client.outcome = "failed" => opState # "COMMITTED"

\* An upload reported as failed, and not as of unknown outcome, is not published ("si
\* no se conoce resultado, OUTCOME_UNKNOWN, nunca asumir que no se aplicó").
FailedUploadStaysFailed ==
  kind = "upload" /\ client.phase = "done" /\ client.outcome = "failed" => opState # "COMMITTED"

\* After its own confirmed write the client's handle is at the snapshot it published
\* ("el handle escritor avanza al manifiesto publicado").
WriterAdvances ==
  kind = "write" /\ client.phase = "done" /\ client.outcome = "ok" => client.snapshot = onServer
=============================================================================
