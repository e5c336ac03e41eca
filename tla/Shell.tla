------------------------------- MODULE Shell -------------------------------
(***************************************************************************)
(* The command line: processes that load the client's state from a file,    *)
(* run commands against the service and save the state after each one that  *)
(* succeeded, several of them on one file.  A shell keeps its own state in  *)
(* memory between commands and goes on after one that failed.               *)
(*                                                                          *)
(* The state is a session, a working directory (a path and the identity of  *)
(* the directory it led to), and a handle.  The directories are /,          *)
(* whose identity is 0, and /d, which other clients remove and make again.  *)
(***************************************************************************)
EXTENDS Integers, FiniteSets

CONSTANTS
  Terminals,   \* processes at one time
  Shells,      \* those that are interactive shells; the others run one command
  MaxPlaces,   \* identities /d ever has
  MaxLogins,   \* sessions that are told apart at one time
  MaxOpens,    \* handles ever opened
  MaxKeysMade  \* keys ever made

ASSUME ShellAssumption ==
  Shells \subseteq Terminals /\ MaxPlaces \in Nat \ {0} /\ {MaxLogins, MaxOpens, MaxKeysMade} \subseteq Nat

VARIABLES
  place,     \* identity of /d, 0 when there is none
  places,    \* identities so far
  valid,     \* sessions the service accepts
  opened,    \* handles: the session that opened each
  closed,    \* handles closed or expired
  terminal,  \* the processes: what they do and the state in their memory
  stateFile, \* the saved state, and the key it is sealed with
  keyFile,   \* key in the key file; 0: none, -1: one that was not written to the end
  keysMade,
  astray     \* history: a command acted on another directory or handle than it was for

shellVars == <<place, places, valid, opened, closed, terminal, stateFile, keyFile, keysMade, astray>>

RootId == 0
NoId == -1
\* What a process without a state file begins with.
NewState == [session |-> 0, cwd |-> "/", cwdId |-> NoId, handle |-> 0]
NoStateFile == [state |-> NewState, key |-> 0]
Off == [phase |-> "off", state |-> NewState]
LoginIds == 1..MaxLogins
HandleIds == 1..MaxOpens

ClientStates == [session : 0..MaxLogins, cwd : {"/", "/d"}, cwdId : NoId..MaxPlaces, handle : 0..MaxOpens]

ShellTypeOK ==
  /\ place \in 0..places /\ places \in 0..MaxPlaces
  /\ valid \subseteq LoginIds /\ opened \in [HandleIds -> 0..MaxLogins] /\ closed \subseteq HandleIds
  /\ terminal \in [Terminals -> [phase : {"off", "idle", "save", "key"}, state : ClientStates]]
  /\ stateFile \in [state : ClientStates, key : 0..MaxKeysMade]
  /\ keyFile \in -1..MaxKeysMade /\ keysMade \in 0..MaxKeysMade /\ astray \in BOOLEAN

ShellInit ==
  /\ place = 1 /\ places = 1
  /\ valid = {} /\ opened = [h \in HandleIds |-> 0] /\ closed = {}
  /\ terminal = [t \in Terminals |-> Off]
  /\ stateFile = NoStateFile /\ keyFile = 0 /\ keysMade = 0
  /\ astray = FALSE

State(t) == terminal[t].state
Saved == stateFile.key # 0
service == <<place, places, valid, opened, closed>>
localFiles == <<stateFile, keyFile, keysMade>>

-----------------------------------------------------------------------------
(* The key.                                                                 *)

\* initialize_key(): only where there is neither a key nor a state.
MayMakeKey == keyFile = 0 /\ ~Saved

InitKey(t) ==
  /\ terminal[t].phase = "off" /\ MayMakeKey /\ keysMade < MaxKeysMade
  /\ terminal' = [terminal EXCEPT ![t].phase = "key"]
  /\ keyFile' = -1
  /\ UNCHANGED <<service, stateFile, keysMade, astray>>

WriteKey(t) ==
  /\ terminal[t].phase = "key"
  /\ keysMade' = keysMade + 1 /\ keyFile' = keysMade + 1
  /\ terminal' = [terminal EXCEPT ![t] = Off]
  /\ UNCHANGED <<service, stateFile, astray>>

\* The operator loses the key, or removes one that was never finished.
KeyGone ==
  /\ keyFile # 0 /\ \A t \in Terminals : terminal[t].phase = "off"
  /\ keyFile' = 0
  /\ UNCHANGED <<service, terminal, stateFile, keysMade, astray>>

-----------------------------------------------------------------------------
(* A process.                                                               *)

\* load(): with the key the file was sealed with, or without a file.
Start(t) ==
  /\ terminal[t].phase = "off"
  /\ keyFile > 0 /\ (Saved => stateFile.key = keyFile)
  /\ terminal' = [terminal EXCEPT ![t] = [phase |-> "idle", state |-> stateFile.state]]
  /\ UNCHANGED <<service, localFiles, astray>>

\* save(): the file is replaced; a process without a session removes it.
Save(t) ==
  /\ terminal[t].phase = "save"
  /\ stateFile' = IF State(t).session = 0 THEN NoStateFile ELSE [state |-> State(t), key |-> keyFile]
  /\ terminal' = [terminal EXCEPT ![t] = IF t \in Shells THEN [@ EXCEPT !.phase = "idle"] ELSE Off]
  /\ UNCHANGED <<service, keyFile, keysMade, astray>>

\* The shell is left, or a process dies wherever it is.
Exit(t) ==
  /\ terminal[t].phase # "off"
  /\ terminal' = [terminal EXCEPT ![t] = Off]
  /\ UNCHANGED <<service, localFiles, astray>>

\* execute(): a command that succeeds has these effects in memory, and is saved.
Succeeds(t, state) ==
  /\ terminal[t].phase = "idle"
  /\ terminal' = [terminal EXCEPT ![t].phase = "save", ![t].state = state]
  /\ UNCHANGED localFiles

SignedIn(t) == State(t).session \in valid

\* login(): the session is set before the root is looked up; if that fails the command
\* fails and a shell goes on with the new session and the old directory.
Login(t, rooted) ==
  /\ terminal[t].phase = "idle"
  /\ \E s \in LoginIds \ valid :
       /\ \A k \in Terminals : State(k).session # s
       /\ stateFile.state.session # s /\ \A h \in HandleIds : opened[h] # s
       /\ valid' = valid \cup {s}
       /\ IF rooted
          THEN Succeeds(t, [State(t) EXCEPT !.session = s, !.cwd = "/", !.cwdId = RootId])
          ELSE /\ terminal' = [terminal EXCEPT ![t] =
                                 IF t \in Shells THEN [@ EXCEPT !.state.session = s] ELSE Off]
               /\ UNCHANGED localFiles
  /\ UNCHANGED <<place, places, opened, closed, astray>>

Logout(t) ==
  /\ SignedIn(t)
  /\ Succeeds(t, [State(t) EXCEPT !.session = 0])
  /\ valid' = valid \ {State(t).session}
  /\ UNCHANGED <<place, places, opened, closed, astray>>

\* The directory a path leads to now, whose identity no process has when there is none.
IdOf(path) == IF path = "/" THEN RootId ELSE place

\* Mutant: the service resolves the path and does not ask whose it was.
CwdByPath(s) == s.cwdId # NoId /\ (s.cwd = "/" \/ place # 0)
\* Queries.path(): the working directory is still the one it was, else CWD_GONE.
CwdThere(s) == s.cwdId = IdOf(s.cwd)

\* cd, to /, to /d by its whole path or from where the process is, or up.
Cd(t, to, relative) ==
  /\ SignedIn(t)
  /\ relative => CwdThere(State(t))
  /\ to = "/d" => place # 0 /\ (relative => State(t).cwd = "/")
  /\ Succeeds(t, [State(t) EXCEPT !.cwd = to, !.cwdId = IdOf(to)])
  /\ UNCHANGED <<service, astray>>

\* A command with a relative path: ls, stat, mkdir, rm, put, open and the others.
RelativeCommand(t) ==
  /\ SignedIn(t) /\ CwdThere(State(t))
  /\ Succeeds(t, State(t))
  /\ astray' = (astray \/ State(t).cwdId # IdOf(State(t).cwd))
  /\ UNCHANGED service

\* open, under an alias that is free.
OpenAlias(t) ==
  /\ SignedIn(t) /\ State(t).handle = 0
  /\ \E h \in HandleIds :
       /\ opened[h] = 0 /\ \A k \in 1..(h - 1) : opened[k] # 0
       /\ opened' = [opened EXCEPT ![h] = State(t).session]
       /\ Succeeds(t, [State(t) EXCEPT !.handle = h])
  /\ UNCHANGED <<place, places, valid, closed, astray>>

\* The service serves a handle to the session that opened it.
Served(t, h) == SignedIn(t) /\ h # 0 /\ h \notin closed /\ opened[h] = State(t).session

\* read, write, lock, unlock, renew-handle, renew-lock: a lock is used through its handle.
UseHandle(t) ==
  /\ Served(t, State(t).handle)
  /\ Succeeds(t, State(t))
  /\ astray' = (astray \/ opened[State(t).handle] # State(t).session)
  /\ UNCHANGED service

CloseAlias(t) ==
  /\ SignedIn(t) /\ State(t).handle # 0 /\ opened[State(t).handle] = State(t).session
  /\ closed' = closed \cup {State(t).handle}
  /\ Succeeds(t, [State(t) EXCEPT !.handle = 0])
  /\ astray' = (astray \/ opened[State(t).handle] # State(t).session)
  /\ UNCHANGED <<place, places, valid, opened>>

\* A command fails: nothing is saved, and a process that is no shell ends.
Fails(t) ==
  /\ terminal[t].phase = "idle" /\ t \notin Shells
  /\ terminal' = [terminal EXCEPT ![t] = Off]
  /\ UNCHANGED <<service, localFiles, astray>>

-----------------------------------------------------------------------------
(* The service.                                                             *)

PlaceChanges ==
  /\ IF place # 0 THEN place' = 0 /\ UNCHANGED places
     ELSE places < MaxPlaces /\ places' = places + 1 /\ place' = places + 1
  /\ UNCHANGED <<valid, opened, closed, terminal, localFiles, astray>>

SessionEnds ==
  /\ \E s \in valid : valid' = valid \ {s}
  /\ UNCHANGED <<place, places, opened, closed, terminal, localFiles, astray>>

ShellNext ==
  \/ KeyGone \/ PlaceChanges \/ SessionEnds
  \/ \E t \in Terminals :
       \/ InitKey(t) \/ WriteKey(t) \/ Save(t) \/ Exit(t) \/ Logout(t) \/ RelativeCommand(t)
       \/ OpenAlias(t) \/ UseHandle(t) \/ CloseAlias(t) \/ Fails(t) \/ Start(t)
       \/ \E rooted \in BOOLEAN : Login(t, rooted)
       \/ \E to \in {"/", "/d"}, relative \in BOOLEAN : Cd(t, to, relative)

ShellSpec == ShellInit /\ [][ShellNext]_shellVars

-----------------------------------------------------------------------------
(* Property.                                                                *)

\* A command has its effect in the directory the user changed to and on a handle of the
\* session he is in, whichever process saved the state it runs with and whatever happened
\* since; and a key is never made beside a state that another key has sealed (cd,
\* Queries.path, login, save, load, initialize_key).
ShellTrue ==
  /\ ~astray
  /\ Saved /\ keyFile # 0 => keyFile = stateFile.key
=============================================================================
