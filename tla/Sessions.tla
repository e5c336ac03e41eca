------------------------------ MODULE Sessions ------------------------------
(***************************************************************************)
(* Login, sessions and the idempotency ledger of the control, for one user. *)
(*                                                                          *)
(* A handler is not one transaction here: Login reads the user, verifies    *)
(* the password outside any transaction and writes the session later; a     *)
(* mutation authenticates and looks in the ledger in a read transaction and *)
(* does its work in a second one.  The same request may be executed by      *)
(* several workers at once, because the client's channel repeats it on the  *)
(* next control when an answer does not come, and a Lock that meets another *)
(* lock is executed again and again until its time is up.                   *)
(*                                                                          *)
(* A password hash is named by the user revision that stored it: hashing    *)
(* the same password again gives another hash.  The user's requests are     *)
(* <<"call", i>>, and <<"logout", s>> for the logout of session s; what a   *)
(* call changes is left to the other modules, here it is counted.           *)
(***************************************************************************)
EXTENDS Integers, FiniteSets

CONSTANTS
  Workers,      \* executions of handlers under way at one time, on any control
  Logins,       \* identifiers of login requests
  MaxCalls,     \* mutations the user's clients ask for
  MaxSessions,  \* session records ever made
  AuthSlots,    \* passwords verified at one time (2 in each control)
  SessionLimit, \* live sessions a user may have (8 in the code)
  MaxRevision   \* changes of the user record

ASSUME SessionsAssumption ==
  MaxCalls \in Nat /\ MaxSessions \in Nat /\ AuthSlots \in Nat \ {0} /\ SessionLimit \in Nat /\ MaxRevision \in Nat \ {0}

SessionIds == 1..MaxSessions
Calls == {<<"call", i>> : i \in 1..MaxCalls} \cup {<<"logout", s>> : s \in SessionIds}

VARIABLES
  account,  \* the user record
  session,  \* session records
  tried,    \* the hash the password of a login request matches, 0: not known yet
  result,   \* login-result records: the session a login request made, 0 for none
  ledger,   \* requests whose response is recorded
  worker,   \* what each worker is doing between two transactions
  effects   \* history: how often each request took effect

sessionsVars == <<account, session, tried, result, ledger, worker, effects>>

Resting == [task |-> "idle", login |-> {}, call |-> {}, session |-> 0, seen |-> 0]

SessionsTypeOK ==
  /\ account \in [password : 1..MaxRevision, disabled : BOOLEAN, revision : 1..MaxRevision]
  /\ session \in [SessionIds -> [state : {"none", "live", "expired", "revoked"},
                                 password : 0..MaxRevision, by : SUBSET Logins]]
  /\ tried \in [Logins -> 0..MaxRevision]
  /\ result \in [Logins -> 0..MaxSessions]
  /\ ledger \subseteq Calls
  /\ worker \in [Workers -> [task : {"idle", "verify", "login", "call", "wait"}, login : SUBSET Logins,
                             call : SUBSET Calls, session : 0..MaxSessions, seen : 0..MaxRevision]]
  /\ effects \in [Calls -> Nat]

SessionsInit ==
  /\ account = [password |-> 1, disabled |-> FALSE, revision |-> 1]
  /\ session = [s \in SessionIds |-> [state |-> "none", password |-> 0, by |-> {}]]
  /\ tried = [r \in Logins |-> 0]
  /\ result = [r \in Logins |-> 0]
  /\ ledger = {}
  /\ worker = [w \in Workers |-> Resting]
  /\ effects = [q \in Calls |-> 0]

Live == {s \in SessionIds : session[s].state = "live"}

\* authenticate(): a session neither revoked nor expired, of a user not disabled.
Authentic(s) == s \in Live /\ ~account.disabled

\* revoke_sessions(): an expired record is marked too.
Revoked == [s \in SessionIds |->
              IF session[s].state = "none" THEN session[s] ELSE [session[s] EXCEPT !.state = "revoked"]]

-----------------------------------------------------------------------------
(* Login.                                                                   *)

\* auth_slot(): without one in a tenth of a second the login is refused.
SlotFree == Cardinality({w \in Workers : worker[w].task = "verify"}) < AuthSlots

\* The read transaction, and a slot for the verification that follows it.
LoginRead(w, r) ==
  /\ worker[w].task = "idle" /\ SlotFree
  /\ ~account.disabled
  /\ tried[r] \in {0, account.password}
  /\ tried' = [tried EXCEPT ![r] = account.password]
  /\ worker' = [worker EXCEPT ![w] = [Resting EXCEPT !.task = "verify", !.login = {r},
                                                     !.seen = account.password]]
  /\ UNCHANGED <<account, session, result, ledger, effects>>

\* matches(): the password is that of the hash that was read.
VerifyPassword(w) ==
  /\ worker[w].task = "verify"
  /\ worker' = [worker EXCEPT ![w].task = "login"]
  /\ UNCHANGED <<account, session, tried, result, ledger, effects>>

\* What the write transaction asks again of the user record.
StillValid(w) == ~account.disabled /\ account.password = worker[w].seen

\* The limit on live sessions (the limit over all users is the same count).
Room == Cardinality(Live) < SessionLimit

\* No session was made for this login request yet.
FirstTime(r) == result[r] = 0

\* The write transaction: a repeated request gets the session it made before, if it
\* is still live; a first one gets a new session.
LoginWrite(w) ==
  /\ worker[w].task = "login"
  /\ \E r \in worker[w].login :
       \/ /\ StillValid(w) /\ FirstTime(r) /\ Room
          /\ \E s \in SessionIds :
               /\ session[s].state = "none" /\ \A k \in 1..(s - 1) : session[k].state # "none"
               /\ session' = [session EXCEPT ![s] =
                                [state |-> "live", password |-> worker[w].seen, by |-> {r}]]
               /\ result' = [result EXCEPT ![r] = s]
       \/ /\ ~(StillValid(w) /\ FirstTime(r) /\ Room)
          /\ UNCHANGED <<session, result>>
  /\ worker' = [worker EXCEPT ![w] = Resting]
  /\ UNCHANGED <<account, tried, ledger, effects>>

\* An hour passes.
SessionExpires(s) ==
  /\ session[s].state = "live"
  /\ session' = [session EXCEPT ![s].state = "expired"]
  /\ UNCHANGED <<account, tried, result, ledger, worker, effects>>

-----------------------------------------------------------------------------
(* Mutations.                                                               *)

\* The first transaction of a mutation.  A recorded response is sent again and the
\* work ends there; the logout of a session revoked by then is answered from the
\* ledger or not at all.
CallRead(w, q, s) ==
  /\ worker[w].task = "idle"
  /\ q[1] = "logout" => q[2] = s
  /\ Authentic(s)
  /\ q \notin ledger
  /\ worker' = [worker EXCEPT ![w] = [Resting EXCEPT !.task = "call", !.call = {q}, !.session = s]]
  /\ UNCHANGED <<account, session, tried, result, ledger, effects>>

\* Mutant: only the first transaction authenticates.
AdmittedOnce(w) == TRUE
\* The session is asked for again.
Admitted(w) == Authentic(worker[w].session)

\* The ledger is looked at again.
Unanswered(q) == q \notin ledger

\* remember(): the response, in the transaction of the work; of a request that carries a
\* password also the hash, for a repetition to be compared with.
Remember(q) == ledger' = ledger \cup {q}

\* Logout revokes its session; what other calls do is in the other modules.
Perform(q) ==
  /\ effects' = [effects EXCEPT ![q] = @ + 1]
  /\ session' = IF q[1] = "logout" THEN [session EXCEPT ![q[2]].state = "revoked"] ELSE session

\* The second transaction: authenticate, look in the ledger, do the work, record the
\* response, all or nothing.
CallWrite(w) ==
  /\ worker[w].task = "call"
  /\ \E q \in worker[w].call :
       \/ /\ Admitted(w) /\ Unanswered(q)
          /\ Perform(q) /\ Remember(q)
       \/ /\ ~(Admitted(w) /\ Unanswered(q))
          /\ UNCHANGED <<effects, ledger, session>>
  /\ worker' = [worker EXCEPT ![w] = Resting]
  /\ UNCHANGED <<account, tried, result>>

\* A Lock meets a lock of another handle and is not answered yet.
LockConflict(w) ==
  /\ worker[w].task = "call" /\ \A q \in worker[w].call : q[1] = "call" /\ Unanswered(q)
  /\ Admitted(w)
  /\ worker' = [worker EXCEPT ![w].task = "wait"]
  /\ UNCHANGED <<account, session, tried, result, ledger, effects>>

\* It is executed again, from its first transaction on; the request may have been answered
\* by another control, and its session may have ended.
TryAgain(w) ==
  /\ worker[w].task = "wait"
  /\ worker' = [worker EXCEPT ![w] = IF Authentic(@.session) /\ @.call \cap ledger = {}
                                     THEN [@ EXCEPT !.task = "call"] ELSE Resting]
  /\ UNCHANGED <<account, session, tried, result, ledger, effects>>

\* The control a worker runs in stops between the two transactions, or the time of
\* a call is up.
WorkerDies(w) ==
  /\ worker[w].task # "idle"
  /\ worker' = [worker EXCEPT ![w] = Resting]
  /\ UNCHANGED <<account, session, tried, result, ledger, effects>>

-----------------------------------------------------------------------------
(* The administrator, and the user's own ChangePassword.  Each compares the *)
(* revision it saw and writes in one transaction.                           *)

SetUser(disabled) ==
  /\ account.revision < MaxRevision
  /\ account' = [account EXCEPT !.disabled = disabled, !.revision = @ + 1]
  /\ session' = IF disabled THEN Revoked ELSE session
  /\ UNCHANGED <<tried, result, ledger, worker, effects>>

ChangePassword ==
  /\ account.revision < MaxRevision
  /\ account' = [account EXCEPT !.password = account.revision + 1, !.revision = @ + 1]
  /\ session' = Revoked
  /\ UNCHANGED <<tried, result, ledger, worker, effects>>

SessionsNext ==
  \/ \E w \in Workers : \/ \E r \in Logins : LoginRead(w, r)
                        \/ \E q \in Calls, s \in SessionIds : CallRead(w, q, s)
                        \/ VerifyPassword(w) \/ LoginWrite(w) \/ CallWrite(w) \/ LockConflict(w)
                        \/ TryAgain(w) \/ WorkerDies(w)
  \/ \E s \in SessionIds : SessionExpires(s)
  \/ \E disabled \in BOOLEAN : SetUser(disabled)
  \/ ChangePassword

SessionsSpec == SessionsInit /\ [][SessionsNext]_sessionsVars

-----------------------------------------------------------------------------
(* Properties.                                                              *)

\* A session that can be used was opened with the password the user has now, and its
\* user is not disabled, although Login verifies outside a transaction; a login request
\* that the channel repeats on another control opens one session, and a user never has
\* more live ones than the limit (Login, SetUser, ChangePassword).
LiveSessionsCurrent ==
  /\ \A s \in Live : session[s].password = account.password /\ ~account.disabled
  /\ \A s, k \in SessionIds : session[s].by \cap session[k].by # {} => s = k
  /\ Cardinality(Live) <= SessionLimit

\* A request takes effect at most once, though several controls may be executing it
\* and its answer may have been lost (unary_once, replay, remember).
EffectOnce == \A q \in Calls : effects[q] <= 1

\* No request takes effect after its session was revoked or expired or its user
\* disabled, although it was admitted before, or has waited for a lock (unary, unary_once).
EffectsAuthorized ==
  [][\A q \in Calls : effects'[q] # effects[q] =>
       \E w \in Workers : q \in worker[w].call /\ Authentic(worker[w].session)]_sessionsVars

\* What the users of a control rely on: sessions are current, and a request takes effect once
\* and in a session that holds at that moment (Login, unary_once).
RequestsSound == []LiveSessionsCurrent /\ []EffectOnce /\ EffectsAuthorized
=============================================================================
