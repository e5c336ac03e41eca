----------------------------- MODULE SiteProofs -----------------------------
(***************************************************************************)
(* Proofs about what surrounds the service and what keeps it: the command   *)
(* line (Shell), the making of an installation (Deployment), backup and     *)
(* restoration (Recovery), the supervisor of the laboratory (Laboratory),   *)
(* the election of the maintenance leader (Maintenance) and the collection  *)
(* of the blocks (BlockGC).  Each part has an inductive invariant, a lemma  *)
(* per group of actions, and the theorem that states the property model     *)
(* checking looked at on a small instance.                                  *)
(***************************************************************************)
EXTENDS Shell, Deployment, Recovery, Laboratory, Maintenance, BlockGC, FiniteSetTheorems, TLAPS

-----------------------------------------------------------------------------
(* Shell.                                                                   *)

ProcessStates == [phase : {"off", "idle", "save", "key"}, state : ClientStates]

\* A process that has loaded a state, or may save one, runs beside the key it has loaded.
RunningKeyed == \A t \in Terminals : terminal[t].phase \in {"idle", "save"} => keyFile > 0

\* A key is being made where there was neither a key nor a state, by one process.
KeyMadeAlone ==
  \A t \in Terminals : terminal[t].phase = "key" =>
    /\ keyFile = -1 /\ ~Saved /\ keysMade < MaxKeysMade
    /\ \A k \in Terminals : terminal[k].phase = "key" => k = t

ShellInv == ShellTypeOK /\ RunningKeyed /\ KeyMadeAlone /\ ShellTrue

\* The bounds are numbers, and the values the model begins with are within them.
LEMMA ShellBounds ==
  /\ MaxPlaces \in Nat /\ MaxLogins \in Nat /\ MaxOpens \in Nat /\ MaxKeysMade \in Nat
  /\ 0 \in 0..MaxLogins /\ 0 \in 0..MaxOpens /\ 0 \in 0..MaxKeysMade /\ -1 \in -1..MaxKeysMade /\ 0 \in -1..MaxKeysMade
  /\ NoId \in NoId..MaxPlaces /\ RootId \in NoId..MaxPlaces /\ 1 \in 0..MaxPlaces /\ 1 \in 0..1
<1>1. MaxPlaces \in Nat \ {0} /\ MaxLogins \in Nat /\ MaxOpens \in Nat /\ MaxKeysMade \in Nat
  BY ShellAssumption
<1> QED BY <1>1 DEF NoId, RootId

\* A state without session, directory and handle.
LEMMA NewStateType == NewState \in ClientStates /\ Off \in ProcessStates /\ NoStateFile \in [state : ClientStates, key : 0..MaxKeysMade]
<1>1. NewState \in ClientStates
  BY ShellBounds DEF NewState, ClientStates
<1> QED BY <1>1, ShellBounds DEF Off, ProcessStates, NoStateFile

\* Nothing runs, and nothing is saved.
LEMMA ShellInitInv == ShellInit => ShellInv
<1> SUFFICES ASSUME ShellInit PROVE ShellInv
  OBVIOUS
<1> USE DEF ShellInit
<1>1. ShellTypeOK
  <2>1. terminal \in [Terminals -> ProcessStates]
    BY NewStateType
  <2>2. opened \in [HandleIds -> 0..MaxLogins]
    BY ShellBounds
  <2> QED BY <2>1, <2>2, ShellBounds, NewStateType DEF ShellTypeOK, ProcessStates
<1>2. RunningKeyed /\ KeyMadeAlone /\ ShellTrue
  BY DEF RunningKeyed, KeyMadeAlone, ShellTrue, Off, Saved, NoStateFile
<1> QED BY <1>1, <1>2 DEF ShellInv

\* A process goes on to another state, or ends; the files and the service are as typed.
LEMMA ProcessStep ==
  ASSUME ShellInv, NEW t \in Terminals, NEW n \in ProcessStates,
         terminal' = [terminal EXCEPT ![t] = n],
         n.phase \in {"idle", "save"} => keyFile > 0,
         n.phase # "key", UNCHANGED <<stateFile, keyFile, keysMade, astray>>,
         place' \in 0..places', places' \in 0..MaxPlaces, valid' \subseteq LoginIds,
         opened' \in [HandleIds -> 0..MaxLogins], closed' \subseteq HandleIds
  PROVE  ShellInv'
<1> USE DEF ShellInv
<1>1. terminal \in [Terminals -> ProcessStates]
  BY DEF ShellTypeOK, ProcessStates
<1>2. terminal' \in [Terminals -> ProcessStates] /\ terminal'[t] = n /\ \A k \in Terminals \ {t} : terminal'[k] = terminal[k]
  BY <1>1
<1>3. ShellTypeOK'
  BY <1>2 DEF ShellTypeOK, ProcessStates
<1>4. RunningKeyed'
  BY <1>2 DEF RunningKeyed
<1>5. KeyMadeAlone'
  BY <1>2 DEF KeyMadeAlone, Saved
<1>6. ShellTrue'
  BY DEF ShellTrue, Saved
<1> QED BY <1>3, <1>4, <1>5, <1>6

\* The key is made, and the state saved with it.
LEMMA FilesInv == ASSUME ShellInv, NEW t \in Terminals, InitKey(t) \/ WriteKey(t) \/ Save(t) PROVE ShellInv'
<1>1. terminal \in [Terminals -> ProcessStates] /\ terminal[t].state \in ClientStates /\ terminal[t] \in ProcessStates
      /\ keyFile \in -1..MaxKeysMade /\ keysMade \in 0..MaxKeysMade
  BY DEF ShellInv, ShellTypeOK, ProcessStates
<1>2. ShellTypeOK /\ RunningKeyed /\ KeyMadeAlone /\ ShellTrue
  BY DEF ShellInv
<1>3. CASE InitKey(t)
  <2>1. PICK n \in ProcessStates : n = [terminal[t] EXCEPT !.phase = "key"]
    BY <1>1 DEF ProcessStates
  <2>2. n.phase = "key"
    BY <1>1, <2>1 DEF ProcessStates
  <2>3. /\ terminal' = [terminal EXCEPT ![t] = n] /\ keyFile = 0 /\ ~Saved /\ keysMade < MaxKeysMade /\ keyFile' = -1
        /\ UNCHANGED <<place, places, valid, opened, closed, stateFile, keysMade, astray>>
    BY <1>1, <1>3, <2>1 DEF InitKey, MayMakeKey, service
  <2>4. \A k \in Terminals : terminal[k].phase \notin {"idle", "save", "key"}
    BY <1>2, <2>3 DEF RunningKeyed, KeyMadeAlone
  <2>5. terminal' \in [Terminals -> ProcessStates] /\ terminal'[t] = n /\ \A k \in Terminals \ {t} : terminal'[k] = terminal[k]
    BY <1>1, <2>3
  <2>6. ShellTypeOK'
    BY <1>2, <2>3, <2>5, ShellBounds DEF ShellTypeOK, ProcessStates
  <2>7. RunningKeyed' /\ KeyMadeAlone' /\ ShellTrue'
    BY <1>2, <2>2, <2>3, <2>4, <2>5 DEF RunningKeyed, KeyMadeAlone, ShellTrue, Saved
  <2> QED BY <2>6, <2>7 DEF ShellInv
<1>4. CASE WriteKey(t)
  <2>1. /\ terminal' = [terminal EXCEPT ![t] = Off] /\ keysMade' = keysMade + 1 /\ keyFile' = keysMade + 1
        /\ UNCHANGED <<place, places, valid, opened, closed, stateFile, astray>> /\ terminal[t].phase = "key"
    BY <1>4 DEF WriteKey, service
  <2>2. keyFile = -1 /\ ~Saved /\ keysMade < MaxKeysMade /\ \A k \in Terminals : terminal[k].phase = "key" => k = t
    BY <1>2, <2>1 DEF KeyMadeAlone
  <2>3. keysMade + 1 \in 0..MaxKeysMade /\ keysMade + 1 \in -1..MaxKeysMade /\ keysMade + 1 > 0
    BY <1>1, <2>2, ShellBounds
  <2>4. terminal' \in [Terminals -> ProcessStates] /\ terminal'[t] = Off /\ \A k \in Terminals \ {t} : terminal'[k] = terminal[k]
    BY <1>1, <2>1, NewStateType
  <2>5. ShellTypeOK'
    BY <1>2, <2>1, <2>3, <2>4 DEF ShellTypeOK, ProcessStates
  <2>6. RunningKeyed' /\ KeyMadeAlone' /\ ShellTrue'
    BY <1>2, <2>1, <2>2, <2>3, <2>4 DEF RunningKeyed, KeyMadeAlone, ShellTrue, Saved, Off
  <2> QED BY <2>5, <2>6 DEF ShellInv
<1>5. CASE Save(t)
  <2>1. PICK n \in ProcessStates : n = IF t \in Shells THEN [terminal[t] EXCEPT !.phase = "idle"] ELSE Off
    <3>1. [terminal[t] EXCEPT !.phase = "idle"] \in ProcessStates
      BY <1>1 DEF ProcessStates
    <3> QED BY <3>1, NewStateType
  <2>2. n.phase \in {"idle", "off"}
    BY <1>1, <2>1 DEF ProcessStates, Off
  <2>3. PICK f \in [state : ClientStates, key : 0..MaxKeysMade] :
          f = IF State(t).session = 0 THEN NoStateFile ELSE [state |-> State(t), key |-> keyFile]
    <3>1. keyFile > 0 /\ keyFile \in 0..MaxKeysMade
      BY <1>1, <1>2, <1>5 DEF Save, RunningKeyed
    <3>2. [state |-> State(t), key |-> keyFile] \in [state : ClientStates, key : 0..MaxKeysMade]
      BY <1>1, <3>1 DEF State
    <3> QED BY <3>2, NewStateType
  <2>4. f.key \in {0, keyFile}
    BY <2>3 DEF NoStateFile
  <2>5. /\ terminal' = [terminal EXCEPT ![t] = n] /\ stateFile' = f /\ terminal[t].phase = "save"
        /\ UNCHANGED <<place, places, valid, opened, closed, keyFile, keysMade, astray>>
    BY <1>5, <2>1, <2>3 DEF Save, service
  <2>6. keyFile > 0
    BY <1>2, <2>5 DEF RunningKeyed
  <2>7. terminal' \in [Terminals -> ProcessStates] /\ terminal'[t] = n /\ \A k \in Terminals \ {t} : terminal'[k] = terminal[k]
    BY <1>1, <2>5
  <2>8. ShellTypeOK'
    BY <1>2, <2>5, <2>7 DEF ShellTypeOK, ProcessStates
  <2>9. \A k \in Terminals : terminal[k].phase # "key"
    BY <1>1, <1>2, <2>6 DEF KeyMadeAlone
  <2>10. RunningKeyed' /\ KeyMadeAlone' /\ ShellTrue'
    BY <1>2, <2>2, <2>4, <2>5, <2>6, <2>7, <2>9 DEF RunningKeyed, KeyMadeAlone, ShellTrue, Saved
  <2> QED BY <2>8, <2>10 DEF ShellInv
<1> QED BY <1>3, <1>4, <1>5

\* A process starts with the state that was saved, ends, or fails.
LEMMA StartEndInv == ASSUME ShellInv, NEW t \in Terminals, Start(t) \/ Exit(t) \/ Fails(t) PROVE ShellInv'
<1>1. /\ place \in 0..places /\ places \in 0..MaxPlaces /\ valid \subseteq LoginIds /\ opened \in [HandleIds -> 0..MaxLogins]
      /\ closed \subseteq HandleIds /\ stateFile.state \in ClientStates
  BY DEF ShellInv, ShellTypeOK
<1>2. CASE Start(t)
  <2>1. PICK n \in ProcessStates : n = [phase |-> "idle", state |-> stateFile.state]
    BY <1>1 DEF ProcessStates
  <2>2. n.phase = "idle" /\ keyFile > 0 /\ terminal' = [terminal EXCEPT ![t] = n]
        /\ UNCHANGED <<place, places, valid, opened, closed, stateFile, keyFile, keysMade, astray>>
    BY <1>2, <2>1 DEF Start, service, localFiles
  <2> QED BY <1>1, <2>2, ProcessStep
<1>3. CASE Exit(t) \/ Fails(t)
  <2>1. PICK n \in ProcessStates : n = Off
    BY NewStateType
  <2>2. n.phase = "off" /\ terminal' = [terminal EXCEPT ![t] = n]
        /\ UNCHANGED <<place, places, valid, opened, closed, stateFile, keyFile, keysMade, astray>>
    BY <1>3, <2>1 DEF Exit, Fails, Off, service, localFiles
  <2> QED BY <1>1, <2>2, ProcessStep
<1> QED BY <1>2, <1>3

\* A command succeeds with a state in memory that is a client's.
LEMMA CommandStep ==
  ASSUME ShellInv, NEW t \in Terminals, NEW s \in ClientStates, Succeeds(t, s), astray' = astray,
         UNCHANGED <<place, places>>, valid' \subseteq LoginIds,
         opened' \in [HandleIds -> 0..MaxLogins], closed' \subseteq HandleIds
  PROVE  ShellInv'
<1>1. terminal \in [Terminals -> ProcessStates] /\ terminal[t] \in ProcessStates /\ place \in 0..places /\ places \in 0..MaxPlaces
  BY DEF ShellInv, ShellTypeOK, ProcessStates
<1>2. PICK n \in ProcessStates : n = [phase |-> "save", state |-> s]
  BY DEF ProcessStates
<1>3. terminal' = [terminal EXCEPT ![t] = n]
  <2>1. PICK m \in ProcessStates : m = [[terminal[t] EXCEPT !.phase = "save"] EXCEPT !.state = s]
    BY <1>1 DEF ProcessStates
  <2>2. m.phase = "save" /\ m.state = s
    BY <1>1, <2>1 DEF ProcessStates
  <2>3. m = n
    BY <1>2, <2>2 DEF ProcessStates
  <2> QED BY <1>1, <2>1, <2>3 DEF Succeeds
<1>4. keyFile > 0 /\ n.phase = "save" /\ UNCHANGED <<stateFile, keyFile, keysMade>>
  BY <1>2 DEF Succeeds, ShellInv, RunningKeyed, localFiles
<1> QED BY <1>1, <1>3, <1>4, ProcessStep

\* What is known of the state a process has in memory.
LEMMA StateKnown ==
  ASSUME ShellInv, NEW t \in Terminals
  PROVE  /\ State(t) \in ClientStates /\ terminal[t] \in ProcessStates
         /\ place \in NoId..MaxPlaces /\ place \in 0..places /\ places \in 0..MaxPlaces /\ astray = FALSE
         /\ valid \subseteq LoginIds /\ opened \in [HandleIds -> 0..MaxLogins] /\ closed \subseteq HandleIds
<1>1. /\ State(t) \in ClientStates /\ terminal[t] \in ProcessStates
      /\ place \in 0..places /\ places \in 0..MaxPlaces /\ astray = FALSE
      /\ valid \subseteq LoginIds /\ opened \in [HandleIds -> 0..MaxLogins] /\ closed \subseteq HandleIds
  BY DEF ShellInv, ShellTypeOK, ShellTrue, State, ProcessStates
<1>2. place \in NoId..MaxPlaces
  BY <1>1, ShellBounds DEF NoId
<1> QED BY <1>1, <1>2

\* A login, whether the root was found or not.
LEMMA LoginInv == ASSUME ShellInv, NEW t \in Terminals, NEW rooted \in BOOLEAN, Login(t, rooted) PROVE ShellInv'
<1>1. PICK s \in LoginIds :
        /\ valid' = valid \cup {s} /\ terminal[t].phase = "idle" /\ UNCHANGED <<place, places, opened, closed, astray>>
        /\ IF rooted
           THEN Succeeds(t, [State(t) EXCEPT !.session = s, !.cwd = "/", !.cwdId = RootId])
           ELSE /\ terminal' = [terminal EXCEPT ![t] = IF t \in Shells THEN [@ EXCEPT !.state.session = s] ELSE Off]
                /\ UNCHANGED localFiles
  BY DEF Login
<1>2. s \in 0..MaxLogins
  BY ShellBounds DEF LoginIds
<1>3. valid' \subseteq LoginIds /\ opened' \in [HandleIds -> 0..MaxLogins] /\ closed' \subseteq HandleIds
  BY <1>1, StateKnown
<1>4. CASE rooted
  <2>1. PICK c \in ClientStates : c = [State(t) EXCEPT !.session = s, !.cwd = "/", !.cwdId = RootId]
    BY <1>2, StateKnown, ShellBounds DEF ClientStates
  <2> QED BY <1>1, <1>3, <1>4, <2>1, CommandStep
<1>5. CASE ~rooted
  <2>1. PICK n \in ProcessStates : n = IF t \in Shells THEN [terminal[t] EXCEPT !.state.session = s] ELSE Off
    <3>1. [State(t) EXCEPT !.session = s] \in ClientStates
      BY <1>2, StateKnown DEF ClientStates
    <3>2. [terminal[t] EXCEPT !.state.session = s] \in ProcessStates
      BY <3>1, StateKnown DEF ProcessStates, State
    <3> QED BY <3>2, NewStateType
  <2>2. n.phase \in {"idle", "off"}
    BY <1>1, <2>1, StateKnown DEF ProcessStates, Off
  <2>3. terminal' = [terminal EXCEPT ![t] = n] /\ UNCHANGED <<stateFile, keyFile, keysMade>>
    BY <1>1, <1>5, <2>1 DEF localFiles
  <2>4. keyFile > 0
    BY <1>1 DEF ShellInv, RunningKeyed
  <2> QED BY <1>1, <1>3, <2>2, <2>3, <2>4, StateKnown, ProcessStep
<1> QED BY <1>4, <1>5

\* The other commands act where they were meant to, because they ask first.
LEMMA CommandsInv ==
  ASSUME ShellInv, NEW t \in Terminals,
         \/ Logout(t) \/ RelativeCommand(t) \/ OpenAlias(t) \/ UseHandle(t) \/ CloseAlias(t)
         \/ \E to \in {"/", "/d"}, relative \in BOOLEAN : Cd(t, to, relative)
  PROVE  ShellInv'
<1>1. CASE Logout(t)
  <2>1. PICK c \in ClientStates : c = [State(t) EXCEPT !.session = 0]
    BY StateKnown, ShellBounds DEF ClientStates
  <2> QED BY <1>1, <2>1, StateKnown, CommandStep DEF Logout
<1>2. CASE RelativeCommand(t)
  <2>1. astray' = astray /\ Succeeds(t, State(t)) /\ UNCHANGED <<place, places, valid, opened, closed>>
    BY <1>2, StateKnown DEF RelativeCommand, CwdThere, service
  <2> QED BY <2>1, StateKnown, CommandStep
<1>3. CASE OpenAlias(t)
  <2>1. PICK h \in HandleIds : /\ opened' = [opened EXCEPT ![h] = State(t).session]
                               /\ Succeeds(t, [State(t) EXCEPT !.handle = h])
                               /\ UNCHANGED <<place, places, valid, closed, astray>>
    BY <1>3 DEF OpenAlias
  <2>2. h \in 0..MaxOpens
    BY ShellBounds DEF HandleIds
  <2>3. State(t).session \in 0..MaxLogins
    BY StateKnown DEF ClientStates
  <2>4. PICK c \in ClientStates : c = [State(t) EXCEPT !.handle = h]
    BY <2>2, StateKnown DEF ClientStates
  <2>5. opened' \in [HandleIds -> 0..MaxLogins]
    BY <2>1, <2>3, StateKnown
  <2> QED BY <2>1, <2>4, <2>5, StateKnown, CommandStep
<1>4. CASE UseHandle(t)
  <2>1. astray' = astray /\ Succeeds(t, State(t)) /\ UNCHANGED <<place, places, valid, opened, closed>>
    BY <1>4, StateKnown DEF UseHandle, Served, service
  <2> QED BY <2>1, StateKnown, CommandStep
<1>5. CASE CloseAlias(t)
  <2>1. PICK c \in ClientStates : c = [State(t) EXCEPT !.handle = 0]
    BY StateKnown, ShellBounds DEF ClientStates
  <2>2. /\ astray' = astray /\ Succeeds(t, c) /\ closed' = closed \cup {State(t).handle}
        /\ State(t).handle # 0 /\ UNCHANGED <<place, places, valid, opened>>
    BY <1>5, <2>1, StateKnown DEF CloseAlias
  <2>3. State(t).handle \in HandleIds
    <3>1. State(t).handle \in 0..MaxOpens
      BY StateKnown DEF ClientStates
    <3> QED BY <2>2, <3>1, ShellBounds DEF HandleIds
  <2> QED BY <2>2, <2>3, StateKnown, CommandStep
<1>6. ASSUME NEW to \in {"/", "/d"}, NEW relative \in BOOLEAN, Cd(t, to, relative) PROVE ShellInv'
  <2>1. IdOf(to) \in NoId..MaxPlaces
    BY StateKnown, ShellBounds DEF IdOf
  <2>2. PICK c \in ClientStates : c = [State(t) EXCEPT !.cwd = to, !.cwdId = IdOf(to)]
    BY <2>1, StateKnown DEF ClientStates
  <2>3. Succeeds(t, c) /\ UNCHANGED <<place, places, valid, opened, closed, astray>>
    BY <1>6, <2>2 DEF Cd, service
  <2> QED BY <2>3, StateKnown, CommandStep
<1> QED BY <1>1, <1>2, <1>3, <1>4, <1>5, <1>6

\* What happens to the key and at the service leaves the processes as they are.
LEMMA AroundInv == ASSUME ShellInv, KeyGone \/ PlaceChanges \/ SessionEnds PROVE ShellInv'
<1>1. ShellTypeOK /\ RunningKeyed /\ KeyMadeAlone /\ ShellTrue
  BY DEF ShellInv
<1>2. CASE KeyGone
  <2>1. keyFile' = 0 /\ UNCHANGED <<place, places, valid, opened, closed, terminal, stateFile, keysMade, astray>>
        /\ \A t \in Terminals : terminal[t].phase = "off"
    BY <1>2 DEF KeyGone, service
  <2>2. ShellTypeOK'
    BY <1>1, <2>1, ShellBounds DEF ShellTypeOK
  <2>3. RunningKeyed' /\ KeyMadeAlone' /\ ShellTrue'
    BY <1>1, <2>1 DEF RunningKeyed, KeyMadeAlone, ShellTrue, Saved
  <2> QED BY <2>2, <2>3 DEF ShellInv
<1>3. CASE PlaceChanges \/ SessionEnds
  <2>1. place' \in 0..places' /\ places' \in 0..MaxPlaces /\ valid' \subseteq LoginIds
    <3>1. places \in 0..MaxPlaces /\ place \in 0..places /\ valid \subseteq LoginIds
      BY <1>1 DEF ShellTypeOK
    <3>2. CASE SessionEnds
      BY <3>1, <3>2 DEF SessionEnds
    <3>3. CASE PlaceChanges
      BY <3>1, <3>3, ShellBounds DEF PlaceChanges
    <3> QED BY <1>3, <3>2, <3>3
  <2>2. UNCHANGED <<opened, closed, terminal, stateFile, keyFile, keysMade, astray>>
    BY <1>3 DEF PlaceChanges, SessionEnds, localFiles
  <2>3. ShellTypeOK'
    BY <1>1, <2>1, <2>2 DEF ShellTypeOK
  <2>4. RunningKeyed' /\ KeyMadeAlone' /\ ShellTrue'
    BY <1>1, <2>2 DEF RunningKeyed, KeyMadeAlone, ShellTrue, Saved
  <2> QED BY <2>3, <2>4 DEF ShellInv
<1> QED BY <1>2, <1>3

\* Every process works beside the key it loaded, a key is made by one process and where
\* there is no state, and no command acts on what it was not for (initialize_key, load,
\* save, execute and the commands).
THEOREM ShellCorrect == ShellSpec => []ShellInv
<1>1. ShellInv /\ [ShellNext]_shellVars => ShellInv'
  <2> SUFFICES ASSUME ShellInv, [ShellNext]_shellVars PROVE ShellInv'
    OBVIOUS
  <2>1. CASE KeyGone \/ PlaceChanges \/ SessionEnds
    BY <2>1, AroundInv
  <2>2. ASSUME NEW t \in Terminals, InitKey(t) \/ WriteKey(t) \/ Save(t) PROVE ShellInv'
    BY <2>2, FilesInv
  <2>3. ASSUME NEW t \in Terminals, Start(t) \/ Exit(t) \/ Fails(t) PROVE ShellInv'
    BY <2>3, StartEndInv
  <2>4. ASSUME NEW t \in Terminals, NEW rooted \in BOOLEAN, Login(t, rooted) PROVE ShellInv'
    BY <2>4, LoginInv
  <2>5. ASSUME NEW t \in Terminals,
               \/ Logout(t) \/ RelativeCommand(t) \/ OpenAlias(t) \/ UseHandle(t) \/ CloseAlias(t)
               \/ \E to \in {"/", "/d"}, relative \in BOOLEAN : Cd(t, to, relative)
        PROVE  ShellInv'
    BY <2>5, CommandsInv
  <2>6. CASE UNCHANGED shellVars
    <3>1. UNCHANGED <<place, places, valid, opened, closed, terminal, stateFile, keyFile, keysMade, astray>>
      BY <2>6 DEF shellVars
    <3> QED BY <3>1 DEF ShellInv, ShellTypeOK, RunningKeyed, KeyMadeAlone, ShellTrue, Saved
  <2> QED BY <2>1, <2>2, <2>3, <2>4, <2>5, <2>6 DEF ShellNext
<1> QED BY <1>1, ShellInitInv, PTL DEF ShellSpec

\* Commands act in the directory and on the handle they are for, and no key is made beside
\* a state another key has sealed (cd, Queries.path, login, save, load, initialize_key).
THEOREM CommandsTrue == ShellSpec => []ShellTrue
<1>1. ShellInv => ShellTrue
  BY DEF ShellInv
<1> QED BY <1>1, ShellCorrect, PTL

-----------------------------------------------------------------------------
(* Deployment.                                                              *)

Seeds == [at : {"absent", "tables", "filled"}, key : Makers \cup {NoOne}, admin : Makers \cup {NoOne}, fills : 0..2]
Imports == [at : {"idle", "users", "open", "copy", "activate", "refused"}, backup : BOOLEAN, disabled : BOOLEAN]

\* The maker of the key is the one that makes tables and fills them, and only it does.
SeedMade ==
  /\ \A m \in Makers : maker[m] \in {"keyed", "tabled"} => seedKey = m /\ seed.at # "filled"
  /\ IF seed.at = "filled" THEN seedKey \in Makers /\ seed.key = seedKey /\ seed.admin = seedKey /\ seed.fills = 1
                           ELSE seed.fills = 0

\* Material was made from an inventory that was valid, and the users of etcd are made once.
MaterialSound == (material # "none" => Validated) /\ (import.at = "users" => etcdAuth <= 2)

\* Secrets are those of the machine's own slot, and are not begun again; a DataNode serves
\* the epoch of the marker, which is that of the configurations; and an activation has
\* replaced as many of them as it has taken steps.
HostSound(h, v) ==
  /\ v.secrets > 0 \/ v.command = "provision" => Validated /\ v.slot \in Slots /\ machines[v.slot] = h /\ v.installed >= 3
  /\ v.command = "install" => v.installed <= 3
  /\ v.command = "provision" => v.secrets <= 3
  /\ v.up # {} => v.secrets >= 1
  /\ "data" \in v.up => v.secrets = 4 /\ v.marker # 0 /\ v.serves = v.marker
  /\ v.marker # 0 => v.control = v.marker /\ v.data = v.marker
  /\ v.command = "activate" =>
       /\ v.marker = 0 /\ v.argument # 0 /\ v.step \in 0..2
       /\ v.step >= 1 => v.control = v.argument
       /\ v.step = 2 => v.data = v.argument

HostsSound == \A h \in Hosts : HostSound(h, vm[h])

DeploymentInv == DeploymentTypeOK /\ SeedMade /\ MaterialSound /\ HostsSound

\* What the invariant says of the installation.
LEMMA InvSound == DeploymentInv => DeploymentSound
<1> SUFFICES ASSUME DeploymentInv PROVE DeploymentSound
  OBVIOUS
<1>1. SeedOnce
  BY DEF DeploymentInv, SeedMade, SeedOnce
<1>2. OwnIdentity
  <2> SUFFICES ASSUME NEW h \in Hosts, vm[h].up # {}
               PROVE  /\ {s \in Slots : machines[s] = h} = {vm[h].slot}
                      /\ "data" \in vm[h].up => vm[h].secrets = 4
    BY DEF OwnIdentity
  <2>1. HostSound(h, vm[h]) /\ vm[h] \in Machine
    BY DEF DeploymentInv, HostsSound, DeploymentTypeOK
  <2>2. Validated /\ vm[h].slot \in Slots /\ machines[vm[h].slot] = h
    BY <2>1 DEF HostSound, Machine
  <2>3. {s \in Slots : machines[s] = h} = {vm[h].slot}
    BY <2>2 DEF Validated
  <2> QED BY <2>1, <2>3 DEF HostSound
<1>3. EpochWhole
  BY DEF DeploymentInv, HostsSound, HostSound, EpochWhole
<1> QED BY <1>1, <1>2, <1>3 DEF DeploymentSound

\* Nothing was made, and every machine is new.
LEMMA DeploymentInitInv == DeploymentInit => DeploymentInv
<1> SUFFICES ASSUME DeploymentInit PROVE DeploymentInv
  OBVIOUS
<1> USE DEF DeploymentInit
<1>0. MaxEpochs \in Nat /\ MaxDays \in Nat /\ 0 \in 0..MaxEpochs /\ 0 \in 0..MaxDays /\ 1 \in 1..MaxDays
  BY DeploymentAssumption
<1>1. NewMachine \in Machine
  BY <1>0 DEF NewMachine, Machine
<1>2. DeploymentTypeOK
  BY <1>0, <1>1 DEF DeploymentTypeOK
<1>3. SeedMade /\ MaterialSound
  BY DEF SeedMade, MaterialSound
<1>4. HostsSound
  BY DEF HostsSound, HostSound, NewMachine
<1> QED BY <1>2, <1>3, <1>4 DEF DeploymentInv

\* The makers, the custodian: the machines are as they were.
LEMMA SeedInv ==
  ASSUME DeploymentInv, NEW m \in Makers,
         CheckSeed(m) \/ MakeKey(m) \/ MakeTables(m) \/ FillSeed(m) \/ MakerEnds(m) \/ Prepare(m) \/ MaterialReady(m)
  PROVE  DeploymentInv'
<1>1. /\ maker \in [Makers -> {"idle", "checked", "keyed", "tabled", "done"}] /\ seed \in Seeds
      /\ seedKey \in Makers \cup {NoOne} /\ material \in {"none", "making", "ready"} /\ NoOne \notin Makers
      /\ SeedMade /\ MaterialSound /\ HostsSound /\ DeploymentTypeOK
  BY DeploymentAssumption DEF DeploymentInv, DeploymentTypeOK, Seeds
<1>2. UNCHANGED <<site, machines, bundles, vm, etcdAuth, import, etcdEpoch, day, approved>>
  BY DEF CheckSeed, MakeKey, MakeTables, FillSeed, MakerEnds, Prepare, MaterialReady, hostVars
<1>3. /\ maker' \in [Makers -> {"idle", "checked", "keyed", "tabled", "done"}] /\ seed' \in Seeds
      /\ seedKey' \in Makers \cup {NoOne} /\ material' \in {"none", "making", "ready"} /\ SeedMade'
  <2>1. CASE CheckSeed(m)
    BY <1>1, <2>1 DEF CheckSeed, SeedMade
  <2>2. CASE MakeKey(m)
    BY <1>1, <2>2 DEF MakeKey, SeedMade
  <2>3. CASE MakeTables(m)
    <3>1. seed' \in Seeds /\ seed'.at # "filled" /\ seed'.fills = 0
      <4>1. PICK n \in Seeds : n = [seed EXCEPT !.at = "tables"]
        BY <1>1 DEF Seeds
      <4>2. n.at = "tables" /\ n.fills = seed.fills
        BY <1>1, <4>1 DEF Seeds
      <4> QED BY <1>1, <2>3, <4>1, <4>2 DEF MakeTables, SeedMade
    <3> QED BY <1>1, <2>3, <3>1 DEF MakeTables, SeedMade
  <2>4. CASE FillSeed(m)
    <3>1. seedKey = m /\ seed.fills = 0
      BY <1>1, <2>4 DEF FillSeed, SeedMade
    <3>2. seed' = [at |-> "filled", key |-> m, admin |-> m, fills |-> 1]
      BY <2>4, <3>1 DEF FillSeed
    <3>3. seed' \in Seeds
      BY <3>2 DEF Seeds
    <3> QED BY <1>1, <2>4, <3>1, <3>2, <3>3 DEF FillSeed, SeedMade
  <2>5. CASE MakerEnds(m)
    BY <1>1, <2>5 DEF MakerEnds, SeedMade
  <2>6. CASE Prepare(m)
    BY <1>1, <2>6 DEF Prepare, SeedMade
  <2>7. CASE MaterialReady(m)
    BY <1>1, <2>7 DEF MaterialReady, SeedMade
  <2> QED BY <2>1, <2>2, <2>3, <2>4, <2>5, <2>6, <2>7
<1>4. DeploymentTypeOK'
  BY <1>1, <1>2, <1>3 DEF DeploymentTypeOK, Seeds
<1>5. MaterialSound'
  <2>1. Validated' = Validated
    BY <1>2 DEF Validated
  <2>2. material' # "none" => Validated \/ material # "none"
    BY DEF CheckSeed, MakeKey, MakeTables, FillSeed, MakerEnds, Prepare, MaterialReady
  <2> QED BY <1>1, <1>2, <2>1, <2>2 DEF MaterialSound
<1>6. HostsSound'
  BY <1>1, <1>2 DEF HostsSound, HostSound, Validated
<1> QED BY <1>3, <1>4, <1>5, <1>6 DEF DeploymentInv

\* One machine changes, and what is said of a machine is true of it.
LEMMA HostStep ==
  ASSUME DeploymentInv, NEW h \in Hosts, NEW r \in Machine, HostSound(h, r),
         vm' = [vm EXCEPT ![h] = r], UNCHANGED awayVars
  PROVE  DeploymentInv'
<1>1. UNCHANGED <<site, machines, maker, seedKey, seed, material, bundles, etcdAuth, import, etcdEpoch, day, approved>>
  BY DEF awayVars, seedVars
<1>2. vm' \in [Hosts -> Machine] /\ vm'[h] = r /\ \A k \in Hosts \ {h} : vm'[k] = vm[k]
  BY DEF DeploymentInv, DeploymentTypeOK
<1>3. DeploymentTypeOK'
  BY <1>1, <1>2 DEF DeploymentInv, DeploymentTypeOK
<1>4. SeedMade' /\ MaterialSound'
  BY <1>1 DEF DeploymentInv, SeedMade, MaterialSound, Validated
<1>5. HostsSound'
  <2> SUFFICES ASSUME NEW k \in Hosts PROVE HostSound(k, vm[k])'
    BY DEF HostsSound
  <2>1. PICK q : q = vm'[k] /\ HostSound(k, q)
    BY <1>2 DEF DeploymentInv, HostsSound
  <2> QED BY <1>1, <2>1 DEF HostSound, Validated
<1> QED BY <1>3, <1>4, <1>5 DEF DeploymentInv

\* What is known of a machine.
LEMMA HostKnown ==
  ASSUME DeploymentInv, NEW h \in Hosts
  PROVE  /\ vm \in [Hosts -> Machine] /\ vm[h] \in Machine /\ HostSound(h, vm[h]) /\ MaxEpochs \in Nat /\ 0 \in 0..MaxEpochs
         /\ 0 \in 0..3 /\ 1 \in 0..3 /\ 2 \in 0..3
BY DeploymentAssumption DEF DeploymentInv, DeploymentTypeOK, HostsSound

\* install-host.sh and provision-host.sh, step by step.
LEMMA InstallInv ==
  ASSUME DeploymentInv, NEW h \in Hosts,
         \/ \E slot \in Slots : BeginInstall(h, slot) \/ BeginProvision(h, slot)
         \/ InstallStep(h) \/ ProvisionStep(h)
  PROVE  DeploymentInv'
<1>1. PICK v \in Machine : v = vm[h] /\ HostSound(h, v) /\ vm \in [Hosts -> Machine]
  BY HostKnown
<1>2. ASSUME NEW slot \in Slots, BeginInstall(h, slot) PROVE DeploymentInv'
  <2>1. PICK r \in Machine : r = [v EXCEPT !.command = "install", !.slot = slot]
    BY DEF Machine
  <2>2. vm' = [vm EXCEPT ![h] = r] /\ v.installed = 0 /\ v.command = "none" /\ UNCHANGED awayVars
    BY <1>1, <1>2, <2>1 DEF BeginInstall, HostFree
  <2>3. v.secrets = 0
    BY <1>1, <2>2 DEF HostSound, Machine
  <2>4. HostSound(h, r)
    BY <1>1, <2>1, <2>2, <2>3 DEF HostSound, Machine
  <2> QED BY <2>2, <2>4, HostStep
<1>3. ASSUME NEW slot \in Slots, BeginProvision(h, slot) PROVE DeploymentInv'
  <2>1. PICK r \in Machine : r = [v EXCEPT !.command = "provision", !.slot = slot]
    BY DEF Machine
  <2>2. /\ vm' = [vm EXCEPT ![h] = r] /\ v.installed >= 3 /\ v.command = "none" /\ UNCHANGED awayVars
        /\ material = "ready" /\ machines[slot] = h /\ v.secrets = 0
    BY <1>1, <1>3, <2>1 DEF BeginProvision, HostFree, BundleInstalled, Fits
  <2>3. Validated
    BY <2>2 DEF DeploymentInv, MaterialSound
  <2>4. HostSound(h, r)
    BY <1>1, <2>1, <2>2, <2>3 DEF HostSound, Machine
  <2> QED BY <2>2, <2>4, HostStep
<1>4. CASE InstallStep(h)
  <2>1. v.command = "install" /\ v.installed \in 0..3 /\ v.secrets = 0
    BY <1>1, <1>4 DEF InstallStep, HostSound, Machine
  <2>2. PICK r \in Machine : r = [v EXCEPT !.installed = @ + 1, !.command = IF v.installed = 3 THEN "none" ELSE @]
    <3>1. v.installed + 1 \in 0..4
      BY <2>1
    <3> QED BY <3>1 DEF Machine
  <2>3. vm' = [vm EXCEPT ![h] = r] /\ UNCHANGED awayVars
    BY <1>1, <1>4, <2>2 DEF InstallStep
  <2>4. HostSound(h, r)
    BY <1>1, <2>1, <2>2 DEF HostSound, Machine
  <2> QED BY <2>3, <2>4, HostStep
<1>5. CASE ProvisionStep(h)
  <2>1. v.command = "provision" /\ v.secrets \in 0..3
    BY <1>1, <1>5 DEF ProvisionStep, HostSound, Machine
  <2>2. PICK r \in Machine : r = [v EXCEPT !.secrets = @ + 1, !.command = IF v.secrets = 3 THEN "none" ELSE @]
    <3>1. v.secrets + 1 \in 0..4
      BY <2>1
    <3> QED BY <3>1 DEF Machine
  <2>3. vm' = [vm EXCEPT ![h] = r] /\ UNCHANGED awayVars
    BY <1>1, <1>5, <2>2 DEF ProvisionStep
  <2>4. HostSound(h, r)
    BY <1>1, <2>1, <2>2 DEF HostSound, Machine
  <2> QED BY <2>3, <2>4, HostStep
<1> QED BY <1>2, <1>3, <1>4, <1>5

\* An activation replaces the two configurations and then the marker.
LEMMA ActivateInv ==
  ASSUME DeploymentInv, NEW h \in Hosts,
         (\E epoch \in 1..MaxEpochs : BeginActivate(h, epoch)) \/ ActivateStep(h)
  PROVE  DeploymentInv'
<1>1. PICK v \in Machine :
        /\ v = vm[h] /\ HostSound(h, v) /\ vm \in [Hosts -> Machine] /\ MaxEpochs \in Nat /\ 0 \in 0..MaxEpochs
        /\ 0 \in 0..3 /\ 1 \in 0..3 /\ 2 \in 0..3
  BY HostKnown
<1>2. ASSUME NEW epoch \in 1..MaxEpochs, BeginActivate(h, epoch) PROVE DeploymentInv'
  <2>1. epoch \in 0..MaxEpochs /\ epoch # 0
    BY <1>1
  <2>2. PICK r \in Machine : r = [v EXCEPT !.command = "activate", !.argument = epoch, !.step = 0]
    BY <1>1, <2>1 DEF Machine
  <2>3. vm' = [vm EXCEPT ![h] = r] /\ v.marker = 0 /\ v.command = "none" /\ UNCHANGED awayVars
    BY <1>1, <1>2, <2>2 DEF BeginActivate, HostFree
  <2>4. HostSound(h, r)
    BY <1>1, <2>1, <2>2, <2>3 DEF HostSound, Machine
  <2> QED BY <2>3, <2>4, HostStep
<1>3. CASE ActivateStep(h)
  <2>1. v.command = "activate" /\ v.step \in 0..2 /\ v.marker = 0 /\ v.argument # 0 /\ v.argument \in 0..MaxEpochs
    BY <1>1, <1>3 DEF ActivateStep, HostSound, Machine
  <2>2. "data" \notin v.up
    BY <1>1, <2>1 DEF HostSound
  <2>3. ActivationOrder[1] = "control" /\ ActivationOrder[2] = "data" /\ ActivationOrder[3] = "marker"
    BY DEF ActivationOrder
  <2>4. vm' = [vm EXCEPT ![h] = [[v EXCEPT ![ActivationOrder[v.step + 1]] = v.argument]
                                   EXCEPT !.step = (@ + 1) % 3, !.command = IF v.step = 2 THEN "none" ELSE @,
                                          !.argument = IF v.step = 2 THEN 0 ELSE @]]
    BY <1>1, <1>3 DEF ActivateStep
  <2>5. CASE v.step = 0
    <3>1. PICK r \in Machine : r = [v EXCEPT !.control = v.argument, !.step = 1, !.command = v.command, !.argument = v.argument]
      <4>1. [v EXCEPT !.control = v.argument] \in Machine
        BY <2>1 DEF Machine
      <4>2. [v EXCEPT !.control = v.argument, !.step = 1] \in Machine
        BY <1>1, <4>1 DEF Machine
      <4>3. v.command \in {"none", "install", "provision", "activate"}
        BY DEF Machine
      <4>4. [v EXCEPT !.control = v.argument, !.step = 1, !.command = v.command] \in Machine
        BY <4>2, <4>3 DEF Machine
      <4>5. v.argument \in 0..MaxEpochs
        BY <2>1
      <4>6. [v EXCEPT !.control = v.argument, !.step = 1, !.command = v.command, !.argument = v.argument] \in Machine
        BY <4>4, <4>5 DEF Machine
      <4> QED BY <4>6
    <3>2. vm' = [vm EXCEPT ![h] = r]
      <4>1. PICK q \in Machine : q = [v EXCEPT !.control = v.argument]
        BY <2>1 DEF Machine
      <4>2. ActivationOrder[v.step + 1] = "control"
        BY <2>3, <2>5
      <4>3. [v EXCEPT ![ActivationOrder[v.step + 1]] = v.argument] = q
        BY <4>1, <4>2
      <4>4. (q.step + 1) % 3 = 1 /\ q.step = v.step /\ q.command = v.command /\ q.argument = v.argument
        BY <2>5, <4>1 DEF Machine
      <4>5. r = [q EXCEPT !.step = (@ + 1) % 3, !.command = IF v.step = 2 THEN "none" ELSE @,
                          !.argument = IF v.step = 2 THEN 0 ELSE @]
        <5>1. r = [q EXCEPT !.step = 1, !.command = v.command, !.argument = v.argument]
          BY <3>1, <4>1 DEF Machine
        <5>2. /\ (IF v.step = 2 THEN "none" ELSE q.command) = v.command
              /\ (IF v.step = 2 THEN 0 ELSE q.argument) = v.argument
          BY <2>5, <4>4
        <5> QED BY <4>4, <5>1, <5>2
      <4> QED BY <2>4, <4>3, <4>5
    <3>3. HostSound(h, r)
      BY <1>1, <2>1, <2>2, <2>5, <3>1 DEF HostSound, Machine
    <3> QED BY <1>3, <3>2, <3>3, HostStep DEF ActivateStep
  <2>6. CASE v.step = 1
    <3>1. PICK r \in Machine : r = [v EXCEPT !.data = v.argument, !.step = 2, !.command = v.command, !.argument = v.argument]
      <4>1. [v EXCEPT !.data = v.argument] \in Machine
        BY <2>1 DEF Machine
      <4>2. [v EXCEPT !.data = v.argument, !.step = 2] \in Machine
        BY <1>1, <4>1 DEF Machine
      <4>3. v.command \in {"none", "install", "provision", "activate"}
        BY DEF Machine
      <4>4. [v EXCEPT !.data = v.argument, !.step = 2, !.command = v.command] \in Machine
        BY <4>2, <4>3 DEF Machine
      <4>5. v.argument \in 0..MaxEpochs
        BY <2>1
      <4>6. [v EXCEPT !.data = v.argument, !.step = 2, !.command = v.command, !.argument = v.argument] \in Machine
        BY <4>4, <4>5 DEF Machine
      <4> QED BY <4>6
    <3>2. vm' = [vm EXCEPT ![h] = r]
      <4>1. PICK q \in Machine : q = [v EXCEPT !.data = v.argument]
        BY <2>1 DEF Machine
      <4>2. ActivationOrder[v.step + 1] = "data"
        BY <2>3, <2>6
      <4>3. [v EXCEPT ![ActivationOrder[v.step + 1]] = v.argument] = q
        BY <4>1, <4>2
      <4>4. (q.step + 1) % 3 = 2 /\ q.step = v.step /\ q.command = v.command /\ q.argument = v.argument
        BY <2>6, <4>1 DEF Machine
      <4>5. r = [q EXCEPT !.step = (@ + 1) % 3, !.command = IF v.step = 2 THEN "none" ELSE @,
                          !.argument = IF v.step = 2 THEN 0 ELSE @]
        <5>1. r = [q EXCEPT !.step = 2, !.command = v.command, !.argument = v.argument]
          BY <3>1, <4>1 DEF Machine
        <5>2. /\ (IF v.step = 2 THEN "none" ELSE q.command) = v.command
              /\ (IF v.step = 2 THEN 0 ELSE q.argument) = v.argument
          BY <2>6, <4>4
        <5> QED BY <4>4, <5>1, <5>2
      <4> QED BY <2>4, <4>3, <4>5
    <3>3. HostSound(h, r)
      BY <1>1, <2>1, <2>2, <2>6, <3>1 DEF HostSound, Machine
    <3> QED BY <1>3, <3>2, <3>3, HostStep DEF ActivateStep
  <2>7. CASE v.step = 2
    <3>1. PICK r \in Machine : r = [v EXCEPT !.marker = v.argument, !.step = 0, !.command = "none", !.argument = 0]
      <4>1. [v EXCEPT !.marker = v.argument] \in Machine
        BY <2>1 DEF Machine
      <4>2. [v EXCEPT !.marker = v.argument, !.step = 0] \in Machine
        BY <1>1, <4>1 DEF Machine
      <4>3. [v EXCEPT !.marker = v.argument, !.step = 0, !.command = "none"] \in Machine
        BY <4>2 DEF Machine
      <4>4. PICK q \in Machine : q = [v EXCEPT !.marker = v.argument, !.step = 0, !.command = "none"]
        BY <4>3
      <4>5. [q EXCEPT !.argument = 0] \in Machine
        BY <1>1 DEF Machine
      <4>6. [q EXCEPT !.argument = 0] = [v EXCEPT !.marker = v.argument, !.step = 0, !.command = "none", !.argument = 0]
        BY <4>4
      <4> QED BY <4>5, <4>6
    <3>2. vm' = [vm EXCEPT ![h] = r]
      <4>1. PICK q \in Machine : q = [v EXCEPT !.marker = v.argument]
        BY <2>1 DEF Machine
      <4>2. ActivationOrder[v.step + 1] = "marker"
        BY <2>3, <2>7
      <4>3. [v EXCEPT ![ActivationOrder[v.step + 1]] = v.argument] = q
        BY <4>1, <4>2
      <4>4. (q.step + 1) % 3 = 0 /\ q.step = v.step /\ q.command = v.command /\ q.argument = v.argument
        BY <2>7, <4>1 DEF Machine
      <4>5. r = [q EXCEPT !.step = (@ + 1) % 3, !.command = IF v.step = 2 THEN "none" ELSE @,
                          !.argument = IF v.step = 2 THEN 0 ELSE @]
        BY <2>7, <3>1, <4>1, <4>4 DEF Machine
      <4> QED BY <2>4, <4>3, <4>5
    <3>3. HostSound(h, r)
      BY <1>1, <2>1, <2>2, <2>7, <3>1 DEF HostSound, Machine
    <3> QED BY <1>3, <3>2, <3>3, HostStep DEF ActivateStep
  <2> QED BY <2>1, <2>5, <2>6, <2>7
<1> QED BY <1>2, <1>3

\* A machine is interrupted, switched off or on, or its services start and stop.
LEMMA RolesInv ==
  ASSUME DeploymentInv, NEW h \in Hosts,
         CutOff(h) \/ (\E role \in Roles : StartRole(h, role)) \/ StopRoles(h) \/ GuardFires(h) \/ Boot(h)
  PROVE  DeploymentInv'
<1>1. PICK v \in Machine :
        /\ v = vm[h] /\ HostSound(h, v) /\ vm \in [Hosts -> Machine] /\ MaxEpochs \in Nat /\ 0 \in 0..MaxEpochs
        /\ 0 \in 0..3 /\ 1 \in 0..3 /\ 2 \in 0..3
  BY HostKnown
<1>2. CASE CutOff(h)
  <2>1. PICK r \in Machine : r = Interrupted(v)
    BY <1>1 DEF Machine, Interrupted
  <2>2. vm' = [vm EXCEPT ![h] = r] /\ UNCHANGED awayVars
    BY <1>1, <1>2, <2>1 DEF CutOff
  <2>3. HostSound(h, r)
    BY <1>1, <2>1 DEF HostSound, Machine, Interrupted
  <2> QED BY <2>2, <2>3, HostStep
<1>3. ASSUME NEW role \in Roles, StartRole(h, role) PROVE DeploymentInv'
  <2>1. v.data \in 0..MaxEpochs
    BY DEF Machine
  <2>2. PICK r \in Machine : r = [v EXCEPT !.up = @ \cup {role}, !.serves = IF role = "data" THEN v.data ELSE @]
    BY <2>1 DEF Machine
  <2>3. vm' = [vm EXCEPT ![h] = r] /\ UNCHANGED awayVars
    BY <1>1, <1>3, <2>2 DEF StartRole
  <2>4. v.secrets >= 1 /\ (role = "data" => v.marker # 0 /\ v.secrets = 4)
    BY <1>1, <1>3 DEF StartRole, UnitStarts, Serves, Roles, Machine
  <2>5. HostSound(h, r)
    BY <1>1, <2>2, <2>4 DEF HostSound, Machine
  <2> QED BY <2>3, <2>5, HostStep
<1>4. CASE StopRoles(h)
  <2>1. PICK r \in Machine : r = RolesEnded(v)
    BY <1>1 DEF Machine, RolesEnded
  <2>2. vm' = [vm EXCEPT ![h] = r] /\ UNCHANGED awayVars
    BY <1>1, <1>4, <2>1 DEF StopRoles
  <2>3. HostSound(h, r)
    BY <1>1, <2>1 DEF HostSound, Machine, RolesEnded
  <2> QED BY <2>2, <2>3, HostStep
<1>5. CASE GuardFires(h)
  <2>1. PICK q \in Machine : q = RolesEnded(v)
    BY <1>1 DEF Machine, RolesEnded
  <2>2. PICK p \in Machine : p = Interrupted(q)
    BY <1>1 DEF Machine, Interrupted
  <2>3. PICK r \in Machine : r = [p EXCEPT !.on = FALSE]
    BY DEF Machine
  <2>4. vm' = [vm EXCEPT ![h] = r] /\ UNCHANGED awayVars
    BY <1>1, <1>5, <2>1, <2>2, <2>3 DEF GuardFires
  <2>5. HostSound(h, q)
    BY <1>1, <2>1 DEF HostSound, Machine, RolesEnded
  <2>6. HostSound(h, p)
    BY <2>2, <2>5 DEF HostSound, Machine, Interrupted
  <2>7. HostSound(h, r)
    BY <2>3, <2>6 DEF HostSound, Machine
  <2> QED BY <2>4, <2>7, HostStep
<1>6. CASE Boot(h)
  <2>1. approved \in 1..MaxDays /\ v.deadline \in 1..MaxDays
    BY DEF DeploymentInv, DeploymentTypeOK, Machine
  <2>2. PICK deadline \in 1..MaxDays : vm' = [vm EXCEPT ![h].on = TRUE, ![h].deadline = deadline]
    BY <1>1, <1>6, <2>1 DEF Boot
  <2>3. PICK r \in Machine : r = [v EXCEPT !.on = TRUE, !.deadline = deadline]
    BY DEF Machine
  <2>4. vm' = [vm EXCEPT ![h] = r] /\ UNCHANGED awayVars
    BY <1>1, <1>6, <2>2, <2>3 DEF Boot
  <2>5. HostSound(h, r)
    BY <1>1, <2>3 DEF HostSound, Machine
  <2> QED BY <2>4, <2>5, HostStep
<1> QED BY <1>2, <1>3, <1>4, <1>5, <1>6

\* The windows, the bundles and the import touch neither seed nor machine.
LEMMA ImportInv ==
  ASSUME DeploymentInv,
         \/ \E attested \in BOOLEAN : Render(attested)
         \/ WindowEnds \/ ApproveWindow
         \/ InitializeBegin \/ MakeUsers \/ OpenAuthority \/ DeactivateSeed \/ ActivateAuthority \/ InitializeDies
  PROVE  DeploymentInv'
<1>1. /\ bundles \in {"none", "draft", "attested"} /\ etcdAuth \in 0..3 /\ etcdEpoch \in 0..1 /\ day \in 0..MaxDays
      /\ approved \in 1..MaxDays /\ import \in Imports /\ MaxDays \in Nat /\ MaterialSound
  BY DeploymentAssumption DEF DeploymentInv, DeploymentTypeOK, Imports
<1>2. UNCHANGED <<site, machines, maker, seedKey, seed, material, vm>>
  BY DEF Render, WindowEnds, ApproveWindow, InitializeBegin, MakeUsers, OpenAuthority, DeactivateSeed, ActivateAuthority,
         InitializeDies, importVars, seedVars
<1>3. /\ bundles' \in {"none", "draft", "attested"} /\ day' \in 0..MaxDays /\ approved' \in 1..MaxDays
  <2>1. CASE \E attested \in BOOLEAN : Render(attested)
    BY <1>1, <2>1 DEF Render
  <2>2. CASE WindowEnds
    BY <1>1, <2>2 DEF WindowEnds
  <2>3. CASE ApproveWindow
    BY <1>1, <2>3 DEF ApproveWindow
  <2>4. CASE InitializeBegin \/ MakeUsers \/ OpenAuthority \/ DeactivateSeed \/ ActivateAuthority \/ InitializeDies
    BY <1>1, <2>4 DEF InitializeBegin, MakeUsers, OpenAuthority, DeactivateSeed, ActivateAuthority, InitializeDies, importVars
  <2> QED BY <2>1, <2>2, <2>3, <2>4
<1>4. /\ import' \in Imports /\ etcdAuth' \in 0..3 /\ etcdEpoch' \in 0..1 /\ (import'.at = "users" => etcdAuth' <= 2)
  <2>1. CASE (\E attested \in BOOLEAN : Render(attested)) \/ WindowEnds \/ ApproveWindow
    BY <1>1, <2>1 DEF Render, WindowEnds, ApproveWindow, MaterialSound
  <2>2. CASE InitializeBegin
    BY <1>1, <2>2 DEF InitializeBegin, Imports
  <2>3. CASE MakeUsers
    <3>1. etcdAuth \in 0..2
      BY <1>1, <2>3 DEF MakeUsers, MaterialSound
    <3> QED BY <1>1, <2>3, <3>1 DEF MakeUsers, Imports
  <2>4. CASE OpenAuthority
    BY <1>1, <2>4 DEF OpenAuthority, Imports
  <2>5. CASE DeactivateSeed
    BY <1>1, <2>5 DEF DeactivateSeed, Imports
  <2>6. CASE ActivateAuthority
    BY <1>1, <2>6 DEF ActivateAuthority, Imports
  <2>7. CASE InitializeDies
    BY <1>1, <2>7 DEF InitializeDies, Imports
  <2> QED BY <2>1, <2>2, <2>3, <2>4, <2>5, <2>6, <2>7
<1>5. DeploymentTypeOK'
  BY <1>2, <1>3, <1>4 DEF DeploymentInv, DeploymentTypeOK, Imports
<1>6. SeedMade'
  BY <1>2 DEF DeploymentInv, SeedMade
<1>7. MaterialSound'
  BY <1>1, <1>2, <1>4 DEF MaterialSound, Validated
<1>8. HostsSound'
  BY <1>2 DEF DeploymentInv, HostsSound, HostSound, Validated
<1> QED BY <1>5, <1>6, <1>7, <1>8 DEF DeploymentInv

\* One maker of key and database, secrets of the machine's own slot, and no marker before
\* the configurations, however commands are mixed and cut off (initialize, install-host.sh,
\* provision-host.sh, activate, cloud_initialize).
THEOREM DeploymentCorrect == DeploymentSpec => []DeploymentInv
<1>1. DeploymentInv /\ [DeploymentNext]_deploymentVars => DeploymentInv'
  <2> SUFFICES ASSUME DeploymentInv, [DeploymentNext]_deploymentVars PROVE DeploymentInv'
    OBVIOUS
  <2>1. ASSUME NEW m \in Makers,
               CheckSeed(m) \/ MakeKey(m) \/ MakeTables(m) \/ FillSeed(m) \/ MakerEnds(m) \/ Prepare(m) \/ MaterialReady(m)
        PROVE  DeploymentInv'
    BY <2>1, SeedInv
  <2>2. ASSUME NEW h \in Hosts,
               \/ \E slot \in Slots : BeginInstall(h, slot) \/ BeginProvision(h, slot)
               \/ InstallStep(h) \/ ProvisionStep(h)
        PROVE  DeploymentInv'
    BY <2>2, InstallInv
  <2>3. ASSUME NEW h \in Hosts, (\E epoch \in 1..MaxEpochs : BeginActivate(h, epoch)) \/ ActivateStep(h)
        PROVE  DeploymentInv'
    BY <2>3, ActivateInv
  <2>4. ASSUME NEW h \in Hosts,
               CutOff(h) \/ (\E role \in Roles : StartRole(h, role)) \/ StopRoles(h) \/ GuardFires(h) \/ Boot(h)
        PROVE  DeploymentInv'
    BY <2>4, RolesInv
  <2>5. CASE \/ \E attested \in BOOLEAN : Render(attested)
             \/ WindowEnds \/ ApproveWindow
             \/ InitializeBegin \/ MakeUsers \/ OpenAuthority \/ DeactivateSeed \/ ActivateAuthority \/ InitializeDies
    BY <2>5, ImportInv
  <2>6. CASE UNCHANGED deploymentVars
    <3>1. UNCHANGED <<site, machines, maker, seedKey, seed, material, bundles, vm, etcdAuth, import, etcdEpoch, day, approved>>
      BY <2>6 DEF deploymentVars
    <3> QED BY <3>1 DEF DeploymentInv, DeploymentTypeOK, SeedMade, MaterialSound, HostsSound, HostSound, Validated
  <2> QED BY <2>1, <2>2, <2>3, <2>4, <2>5, <2>6 DEF DeploymentNext
<1> QED BY <1>1, DeploymentInitInv, PTL DEF DeploymentSpec

\* The installation has one seed, every machine its own identity and one epoch (initialize,
\* provision-host.sh, activate).
THEOREM DeploymentKept == DeploymentSpec => []DeploymentSound
BY DeploymentCorrect, InvSound, PTL

-----------------------------------------------------------------------------
(* Recovery.                                                                *)

Bundles == [state : {"none", "partial", "complete", "damaged"}, meta : Metas, disk : SUBSET LabVersions]
Labs == [state : {"none", "files", "etcd", "activated", "running", "stopped"}, meta : Metas,
         disk : SUBSET LabVersions, configured : SUBSET LabParts, released : SUBSET LabVersions]

\* The files have every block that the metadata need.
Covers(m, blocks) == NeededBy(m) \subseteq blocks \cup {NoVersion}

\* The laboratory has what it needs on disk, and orders the deletion of nothing it needs.
LabSound ==
  /\ Covers(labMeta, labDisk) /\ labMeta.orders \cap NeededBy(labMeta) = {}
  /\ labDisk \cup labMeta.orders \subseteq minted

\* From the quiet laboratory on, what was copied first is still true of what is copied next.
BackupSound ==
  /\ procedure # 0 => bundle.state = "partial" /\ restored.state = "none"
  /\ procedure >= 4 => labUp = {}
  /\ labKind = "plain" /\ procedure = 5 => bundle.disk = labDisk
  /\ labKind = "protected" /\ procedure = 5 => Covers(bundle.meta, labDisk)
  /\ procedure = 6 => bundle.disk = labDisk /\ Covers(bundle.meta, labDisk)
  /\ bundle.state = "complete" => Covers(bundle.meta, bundle.disk)

\* What the restored cluster has, compared with the bundle it was made of.
RestoredFrom(lab, m) ==
  /\ lab.state \in {"files", "etcd"} => Covers(m, lab.disk) /\ lab.released = {}
  /\ lab.state = "etcd" => lab.meta = m
  /\ lab.state \in {"activated", "running", "stopped"} =>
       /\ lab.meta.current = m.current /\ lab.meta.pins = (m.held \cup m.pins) \ lab.released
       /\ lab.meta.epoch = m.epoch + 1 /\ ~lab.meta.sessions
       /\ lab.meta.held = {} /\ lab.meta.uploads = {} /\ lab.meta.orders = {}
       /\ {lab.meta.current} \cup lab.meta.pins \subseteq lab.disk \cup {NoVersion}

RecoveryInv == RecoveryTypeOK /\ LabSound /\ BackupSound /\ RestoredFrom(restored, bundle.meta)

\* What the invariant says of a restored cluster.
LEMMA InvWhole == RecoveryInv => RestoredWhole
<1> SUFFICES ASSUME RecoveryInv, restored.state \in {"activated", "running", "stopped"}
             PROVE  /\ {restored.meta.current} \cup ((bundle.meta.held \cup bundle.meta.pins) \ restored.released)
                         \subseteq restored.disk \cup {NoVersion}
                    /\ restored.meta.epoch > bundle.meta.epoch /\ ~restored.meta.sessions
                    /\ restored.meta.held \cup restored.meta.uploads \cup restored.meta.orders = {}
  BY DEF RestoredWhole
<1>1. bundle.meta.epoch \in Nat
  BY DEF RecoveryInv, RecoveryTypeOK, Metas
<1>2. RestoredFrom(restored, bundle.meta)
  BY DEF RecoveryInv
<1> QED BY <1>1, <1>2 DEF RestoredFrom

\* The two procedures, step by step.
LEMMA StepsKnown ==
  ASSUME labKind \in DOMAIN BackupSteps, procedure \in 0..6
  PROVE  /\ labKind \in {"plain", "protected"}
         /\ \A p \in LabParts : Doing(p) => procedure \in {1, 2}
         /\ Doing("quiet") => procedure = 3
         /\ Doing("copy") => (labKind = "plain" /\ procedure = 4) \/ (labKind = "protected" /\ procedure = 5)
         /\ Doing("snapshot") => (labKind = "plain" /\ procedure = 5) \/ (labKind = "protected" /\ procedure = 4)
         /\ Doing("seal") => procedure = 6
<1>1. labKind \in {"plain", "protected"}
  BY DEF BackupSteps
<1>2. BackupSteps["plain"] = <<"control", "node", "quiet", "copy", "snapshot", "seal">>
  BY DEF BackupSteps
<1>3. BackupSteps["protected"] = <<"node", "control", "quiet", "snapshot", "copy", "seal">>
  BY DEF BackupSteps
<1>4. procedure \in {0, 1, 2, 3, 4, 5, 6}
  OBVIOUS
<1>5. CASE labKind = "plain"
  <2>1. \A step : Doing(step) <=> procedure # 0 /\ <<"control", "node", "quiet", "copy", "snapshot", "seal">>[procedure] = step
    BY <1>2, <1>5 DEF Doing, NoBackup
  <2> QED BY <1>4, <1>5, <2>1 DEF LabParts
<1>6. CASE labKind = "protected"
  <2>1. \A step : Doing(step) <=> procedure # 0 /\ <<"node", "control", "quiet", "snapshot", "copy", "seal">>[procedure] = step
    BY <1>3, <1>6 DEF Doing, NoBackup
  <2> QED BY <1>4, <1>6, <2>1 DEF LabParts
<1> QED BY <1>1, <1>5, <1>6

\* Metadata without content.
LEMMA NoMetaType == NoMeta \in Metas /\ NoBundle \in Bundles /\ NoLab \in Labs
<1>1. NoMeta \in Metas
  BY DEF NoMeta, Metas
<1> QED BY <1>1 DEF NoBundle, Bundles, NoLab, Labs

\* An empty laboratory that works.
LEMMA RecoveryInitInv == RecoveryInit => RecoveryInv
<1> SUFFICES ASSUME RecoveryInit PROVE RecoveryInv
  OBVIOUS
<1> USE DEF RecoveryInit
<1>1. PICK m \in Metas : m = [NoMeta EXCEPT !.epoch = 1, !.sessions = TRUE]
  BY NoMetaType DEF Metas
<1>2. m.current = NoVersion /\ m.held = {} /\ m.pins = {} /\ m.uploads = {} /\ m.orders = {}
  BY <1>1 DEF NoMeta
<1>3. RecoveryTypeOK
  <2>1. bundle \in Bundles /\ restored \in Labs /\ labMeta \in Metas
    BY <1>1, NoMetaType
  <2>2. procedure \in 0..6 /\ attempts \in 0..MaxBackups
    BY RecoveryAssumption DEF NoBackup
  <2> QED BY <2>1, <2>2 DEF RecoveryTypeOK, Bundles, Labs
<1>4. LabSound
  BY <1>1, <1>2 DEF LabSound, Covers, NeededBy
<1>5. BackupSound /\ RestoredFrom(restored, bundle.meta)
  BY DEF BackupSound, RestoredFrom, NoBackup, NoBundle, NoLab
<1> QED BY <1>3, <1>4, <1>5 DEF RecoveryInv

\* The laboratory goes on; once it is quiet its files stay, and it is not started again.
LEMMA LabStep ==
  ASSUME RecoveryInv, UNCHANGED Script,
         labMeta' \in Metas, sentTx' \subseteq LabVersions, labDisk' \subseteq LabVersions, labUp' \subseteq LabParts,
         minted' \subseteq LabVersions, LabSound',
         labUp = {} => labDisk' = labDisk, labUp' \subseteq labUp \/ procedure = 0
  PROVE  RecoveryInv'
<1>1. UNCHANGED <<labKind, procedure, bundle, restored, attempts>>
  BY DEF Script
<1>2. RecoveryTypeOK'
  BY <1>1 DEF RecoveryInv, RecoveryTypeOK
<1>3. procedure \in 0..6
  BY DEF RecoveryInv, RecoveryTypeOK
<1>4. BackupSound'
  BY <1>1, <1>3 DEF RecoveryInv, BackupSound, Covers
<1>5. RestoredFrom(restored, bundle.meta)'
  BY <1>1 DEF RecoveryInv, RestoredFrom, Covers
<1> QED BY <1>2, <1>4, <1>5 DEF RecoveryInv

\* What is known of the laboratory.
LEMMA LabKnown ==
  ASSUME RecoveryInv
  PROVE  /\ labMeta \in Metas /\ sentTx \subseteq LabVersions /\ labDisk \subseteq LabVersions /\ labUp \subseteq LabParts
         /\ minted \subseteq LabVersions /\ LabSound /\ NoVersion \notin LabVersions
BY RecoveryAssumption DEF RecoveryInv, RecoveryTypeOK

\* Versions are stored, committed and given up, and the control dies in between.
LEMMA VersionInv ==
  ASSUME RecoveryInv, NEW v \in LabVersions, StoreVersion(v) \/ SendVersion(v) \/ AbortVersion(v) \/ ApplySent(v)
  PROVE  RecoveryInv'
<1>1. PICK m \in Metas : m = labMeta
  BY LabKnown
<1>2. CASE StoreVersion(v)
  <2>1. PICK n \in Metas : n = [m EXCEPT !.uploads = m.uploads \cup {v}]
    BY DEF Metas
  <2>2. /\ labMeta' = n /\ minted' = minted \cup {v} /\ labDisk' = labDisk \cup {v} /\ v \notin minted /\ labUp = LabParts
        /\ UNCHANGED <<sentTx, labUp, Script>>
    BY <1>1, <1>2, <2>1 DEF StoreVersion, Works, Changes
  <2>3. /\ n.current = m.current /\ n.held = m.held /\ n.pins = m.pins /\ n.uploads = m.uploads \cup {v} /\ n.orders = m.orders
    BY <2>1 DEF Metas
  <2>4. LabSound'
    BY <1>1, <2>2, <2>3, LabKnown DEF LabSound, Covers, NeededBy
  <2>5. labUp # {}
    BY <2>2 DEF LabParts
  <2> QED BY <2>2, <2>4, <2>5, LabStep, LabKnown
<1>3. CASE SendVersion(v)
  <2>1. sentTx' = sentTx \cup {v} /\ UNCHANGED <<labMeta, labDisk, labUp, minted, Script>>
    BY <1>3 DEF SendVersion
  <2>2. LabSound'
    BY <2>1, LabKnown DEF LabSound, Covers, NeededBy
  <2> QED BY <2>1, <2>2, LabStep, LabKnown
<1>4. CASE AbortVersion(v)
  <2>1. PICK n \in Metas : n = [m EXCEPT !.uploads = m.uploads \ {v}]
    BY DEF Metas
  <2>2. labMeta' = n /\ UNCHANGED <<sentTx, labDisk, labUp, minted, Script>>
    BY <1>1, <1>4, <2>1 DEF AbortVersion, Changes
  <2>3. /\ n.current = m.current /\ n.held = m.held /\ n.pins = m.pins /\ n.uploads = m.uploads \ {v} /\ n.orders = m.orders
    BY <2>1 DEF Metas
  <2>4. LabSound'
    BY <1>1, <2>2, <2>3, LabKnown DEF LabSound, Covers, NeededBy
  <2> QED BY <2>2, <2>4, LabStep, LabKnown
<1>5. CASE ApplySent(v)
  <2>1. PICK n \in Metas : n = IF v \in m.uploads THEN [m EXCEPT !.current = v, !.uploads = m.uploads \ {v}] ELSE m
    BY DEF Metas
  <2>2. labMeta' = n /\ sentTx' = sentTx \ {v} /\ UNCHANGED <<labDisk, labUp, minted, Script>>
    BY <1>1, <1>5, <2>1 DEF ApplySent
  <2>3. NeededBy(n) \subseteq NeededBy(m) /\ n.orders = m.orders
    BY <2>1 DEF Metas, NeededBy
  <2>4. LabSound'
    BY <1>1, <2>2, <2>3, LabKnown DEF LabSound, Covers
  <2> QED BY <2>2, <2>4, LabStep, LabKnown
<1> QED BY <1>2, <1>3, <1>4, <1>5

\* Handles are opened and closed, deletions ordered and done, processes end and start.
LEMMA HandlesInv ==
  ASSUME RecoveryInv,
         \/ \E v \in LabVersions : CloseHandle(v) \/ OrderDeletion(v) \/ DeleteFile(v)
         \/ OpenHandle \/ StartLab
         \/ \E p \in LabParts : ProcessEnds(p)
  PROVE  RecoveryInv'
<1>1. PICK m \in Metas : m = labMeta
  BY LabKnown
<1>2. ASSUME NEW v \in LabVersions, CloseHandle(v) PROVE RecoveryInv'
  <2>1. PICK n \in Metas : n = [m EXCEPT !.held = m.held \ {v}]
    BY DEF Metas
  <2>2. labMeta' = n /\ UNCHANGED <<sentTx, labDisk, labUp, minted, Script>>
    BY <1>1, <1>2, <2>1 DEF CloseHandle, Changes
  <2>3. NeededBy(n) \subseteq NeededBy(m) /\ n.orders = m.orders
    BY <2>1 DEF Metas, NeededBy
  <2>4. LabSound'
    BY <1>1, <2>2, <2>3, LabKnown DEF LabSound, Covers
  <2> QED BY <2>2, <2>4, LabStep, LabKnown
<1>3. ASSUME NEW v \in LabVersions, OrderDeletion(v) PROVE RecoveryInv'
  <2>1. PICK n \in Metas : n = [m EXCEPT !.orders = m.orders \cup {v}]
    BY DEF Metas
  <2>2. labMeta' = n /\ v \in labDisk /\ v \notin NeededBy(m) /\ UNCHANGED <<sentTx, labDisk, labUp, minted, Script>>
    BY <1>1, <1>3, <2>1 DEF OrderDeletion, Changes
  <2>3. NeededBy(n) = NeededBy(m) /\ n.orders = m.orders \cup {v}
    BY <2>1 DEF Metas, NeededBy
  <2>4. LabSound'
    BY <1>1, <2>2, <2>3, LabKnown DEF LabSound, Covers
  <2> QED BY <2>2, <2>4, LabStep, LabKnown
<1>4. ASSUME NEW v \in LabVersions, DeleteFile(v) PROVE RecoveryInv'
  <2>1. PICK n \in Metas : n = [m EXCEPT !.orders = m.orders \ {v}]
    BY DEF Metas
  <2>2. /\ labMeta' = n /\ v \in m.orders /\ labDisk' = labDisk \ {v} /\ labUp = LabParts
        /\ UNCHANGED <<sentTx, labUp, minted, Script>>
    BY <1>1, <1>4, <2>1 DEF DeleteFile, Works, Changes
  <2>3. NeededBy(n) = NeededBy(m) /\ n.orders = m.orders \ {v}
    BY <2>1 DEF Metas, NeededBy
  <2>4. LabSound'
    BY <1>1, <2>2, <2>3, LabKnown DEF LabSound, Covers
  <2>5. labUp # {}
    BY <2>2 DEF LabParts
  <2> QED BY <2>2, <2>4, <2>5, LabStep, LabKnown
<1>5. CASE OpenHandle
  <2>1. m.current # NoVersion
    BY <1>1, <1>5 DEF OpenHandle
  <2>2. PICK n \in Metas : n = [m EXCEPT !.held = m.held \cup {m.current}]
    BY <2>1 DEF Metas
  <2>3. labMeta' = n /\ UNCHANGED <<sentTx, labDisk, labUp, minted, Script>>
    BY <1>1, <1>5, <2>2 DEF OpenHandle, Changes
  <2>4. NeededBy(n) = NeededBy(m) /\ n.orders = m.orders
    BY <2>2 DEF Metas, NeededBy
  <2>5. LabSound'
    BY <1>1, <2>3, <2>4, LabKnown DEF LabSound, Covers
  <2> QED BY <2>3, <2>5, LabStep, LabKnown
<1>6. CASE StartLab \/ \E p \in LabParts : ProcessEnds(p)
  <2>1. UNCHANGED <<labMeta, sentTx, labDisk, minted, Script>> /\ labUp' \subseteq LabParts
        /\ (labUp' \subseteq labUp \/ procedure = 0)
    BY <1>6, LabKnown DEF StartLab, ProcessEnds, NoBackup
  <2>2. LabSound'
    BY <2>1, LabKnown DEF LabSound, Covers, NeededBy
  <2> QED BY <2>1, <2>2, LabStep, LabKnown
<1> QED BY <1>2, <1>3, <1>4, <1>5, <1>6

\* What is known of the procedure and of the bundle.
LEMMA BackupKnown ==
  ASSUME RecoveryInv
  PROVE  /\ labKind \in DOMAIN BackupSteps /\ labKind \in {"plain", "protected"} /\ procedure \in 0..6
         /\ bundle \in Bundles /\ restored \in Labs /\ attempts \in 0..MaxBackups /\ MaxBackups \in Nat
         /\ RecoveryTypeOK /\ LabSound /\ BackupSound /\ RestoredFrom(restored, bundle.meta)
<1>1. /\ labKind \in DOMAIN BackupSteps /\ procedure \in 0..6 /\ bundle \in Bundles /\ restored \in Labs
      /\ attempts \in 0..MaxBackups /\ MaxBackups \in Nat
      /\ RecoveryTypeOK /\ LabSound /\ BackupSound /\ RestoredFrom(restored, bundle.meta)
  BY RecoveryAssumption DEF RecoveryInv, RecoveryTypeOK, Bundles, Labs
<1> QED BY <1>1, StepsKnown

\* The backup goes on and the laboratory rests, except for what is told to stop.
LEMMA BackupStep ==
  ASSUME RecoveryInv, UNCHANGED <<labMeta, sentTx, labDisk, labKind, minted, restored>>,
         labUp' \subseteq LabParts, procedure' \in 0..6, bundle' \in Bundles, attempts' \in 0..MaxBackups, BackupSound',
         RestoredFrom(restored, bundle'.meta)
  PROVE  RecoveryInv'
<1>1. RecoveryTypeOK'
  BY BackupKnown DEF RecoveryTypeOK, Bundles
<1>2. LabSound'
  BY BackupKnown DEF LabSound, Covers
<1> QED BY <1>1, <1>2 DEF RecoveryInv

\* The backup, step by step.
LEMMA BackupInv ==
  ASSUME RecoveryInv,
         \/ \E p \in LabParts : StopForBackup(p)
         \/ BeginBackup \/ LabQuiet \/ CopyFiles \/ SnapshotEtcd \/ SealBundle
  PROVE  RecoveryInv'
<1>1. /\ labKind \in {"plain", "protected"} /\ procedure \in 0..6 /\ bundle \in Bundles /\ attempts \in 0..MaxBackups
      /\ MaxBackups \in Nat /\ LabSound /\ BackupSound /\ labUp \subseteq LabParts /\ labMeta \in Metas /\ labDisk \subseteq LabVersions
  BY BackupKnown, LabKnown
<1>2. /\ \A p \in LabParts : Doing(p) => procedure \in {1, 2}
      /\ Doing("quiet") => procedure = 3
      /\ Doing("copy") => (labKind = "plain" /\ procedure = 4) \/ (labKind = "protected" /\ procedure = 5)
      /\ Doing("snapshot") => (labKind = "plain" /\ procedure = 5) \/ (labKind = "protected" /\ procedure = 4)
      /\ Doing("seal") => procedure = 6
  BY BackupKnown, StepsKnown
<1>3. \A b : restored.state = "none" => RestoredFrom(restored, b)
  BY DEF RestoredFrom
<1>4. ASSUME NEW p \in LabParts, StopForBackup(p) PROVE RecoveryInv'
  <2>1. /\ procedure \in {1, 2} /\ procedure' = procedure + 1 /\ labUp' = labUp \ {p}
        /\ UNCHANGED <<labMeta, sentTx, labDisk, labKind, minted, bundle, restored, attempts>>
    BY <1>2, <1>4 DEF StopForBackup, Advance
  <2>2. procedure' \in 0..6
    BY <2>1
  <2>3. BackupSound'
    BY <1>1, <2>1 DEF BackupSound, Covers
  <2> QED BY <1>1, <2>1, <2>2, <2>3, BackupStep, BackupKnown
<1>5. CASE BeginBackup
  <2>1. PICK b \in Bundles : b = [NoBundle EXCEPT !.state = "partial"] /\ b.state = "partial"
    <3>1. [NoBundle EXCEPT !.state = "partial"] = [state |-> "partial", meta |-> NoMeta, disk |-> {}]
      BY DEF NoBundle
    <3> QED BY <3>1, NoMetaType DEF Bundles
  <2>2. /\ procedure' = 1 /\ bundle' = b /\ restored.state = "none" /\ attempts' = attempts + 1 /\ attempts < MaxBackups
        /\ UNCHANGED <<labMeta, sentTx, labDisk, labUp, labKind, minted, restored>>
    BY <1>5, <2>1 DEF BeginBackup, laboratory
  <2>3. procedure' \in 0..6 /\ attempts' \in 0..MaxBackups
    BY <1>1, <2>2
  <2>4. BackupSound'
    BY <2>1, <2>2 DEF BackupSound
  <2> QED BY <1>1, <1>3, <2>2, <2>3, <2>4, BackupStep
<1>6. CASE LabQuiet
  <2>1. /\ procedure = 3 /\ procedure' = 4 /\ labUp = {}
        /\ UNCHANGED <<labMeta, sentTx, labDisk, labUp, labKind, minted, bundle, restored, attempts>>
    BY <1>2, <1>6 DEF LabQuiet, Advance, laboratory
  <2>2. procedure' \in 0..6
    BY <2>1
  <2>3. BackupSound'
    BY <1>1, <2>1 DEF BackupSound, Covers
  <2> QED BY <1>1, <2>1, <2>2, <2>3, BackupStep, BackupKnown
<1>7. CASE CopyFiles
  <2>1. PICK b \in Bundles : b = [bundle EXCEPT !.disk = labDisk]
    BY <1>1 DEF Bundles
  <2>2. b.disk = labDisk /\ b.meta = bundle.meta /\ b.state = bundle.state
    BY <1>1, <2>1 DEF Bundles
  <2>3. /\ (labKind = "plain" /\ procedure = 4) \/ (labKind = "protected" /\ procedure = 5)
        /\ procedure' = procedure + 1 /\ bundle' = b
        /\ UNCHANGED <<labMeta, sentTx, labDisk, labUp, labKind, minted, restored, attempts>>
    BY <1>2, <1>7, <2>1 DEF CopyFiles, Advance, laboratory
  <2>4. procedure' \in 0..6 /\ restored.state = "none" /\ bundle.state = "partial"
    BY <1>1, <2>3 DEF BackupSound
  <2>5. BackupSound'
    BY <1>1, <2>2, <2>3, <2>4 DEF BackupSound
  <2> QED BY <1>1, <1>3, <2>3, <2>4, <2>5, BackupStep
<1>8. CASE SnapshotEtcd
  <2>1. PICK b \in Bundles : b = [bundle EXCEPT !.meta = labMeta]
    BY <1>1 DEF Bundles
  <2>2. b.disk = bundle.disk /\ b.meta = labMeta /\ b.state = bundle.state /\ Covers(labMeta, labDisk)
    BY <1>1, <2>1 DEF Bundles, LabSound
  <2>3. /\ (labKind = "plain" /\ procedure = 5) \/ (labKind = "protected" /\ procedure = 4)
        /\ procedure' = procedure + 1 /\ bundle' = b
        /\ UNCHANGED <<labMeta, sentTx, labDisk, labUp, labKind, minted, restored, attempts>>
    BY <1>2, <1>8, <2>1 DEF SnapshotEtcd, Advance, laboratory
  <2>4. procedure' \in 0..6 /\ restored.state = "none" /\ bundle.state = "partial"
    BY <1>1, <2>3 DEF BackupSound
  <2>5. BackupSound'
    BY <1>1, <2>2, <2>3, <2>4 DEF BackupSound
  <2> QED BY <1>1, <1>3, <2>3, <2>4, <2>5, BackupStep
<1>9. CASE SealBundle
  <2>1. PICK b \in Bundles : b = [bundle EXCEPT !.state = "complete"]
    BY <1>1 DEF Bundles
  <2>2. b.disk = bundle.disk /\ b.meta = bundle.meta
    BY <1>1, <2>1 DEF Bundles
  <2>3. /\ procedure = 6 /\ procedure' = 0 /\ bundle' = b
        /\ UNCHANGED <<labMeta, sentTx, labDisk, labUp, labKind, minted, restored, attempts>>
    BY <1>2, <1>9, <2>1 DEF SealBundle, laboratory, NoBackup
  <2>4. procedure' \in 0..6 /\ Covers(b.meta, b.disk) /\ restored.state = "none"
    BY <1>1, <2>2, <2>3 DEF BackupSound
  <2>5. BackupSound'
    BY <2>3, <2>4 DEF BackupSound
  <2> QED BY <1>1, <1>3, <2>3, <2>4, <2>5, BackupStep
<1> QED BY <1>4, <1>5, <1>6, <1>7, <1>8, <1>9

\* The script dies, its directory is given up, or the files are damaged.
LEMMA BundleInv == ASSUME RecoveryInv, BackupDies \/ AnotherDirectory \/ DamageBundle PROVE RecoveryInv'
<1>1. /\ bundle \in Bundles /\ attempts \in 0..MaxBackups /\ 0 \in 0..6
      /\ BackupSound /\ RestoredFrom(restored, bundle.meta) /\ labUp \subseteq LabParts
  BY BackupKnown, LabKnown
<1>2. CASE BackupDies
  <2>1. procedure # 0 /\ procedure' = 0 /\ UNCHANGED <<labMeta, sentTx, labDisk, labUp, labKind, minted, bundle, restored, attempts>>
    BY <1>2 DEF BackupDies, laboratory, NoBackup
  <2>2. BackupSound'
    BY <1>1, <2>1 DEF BackupSound
  <2> QED BY <1>1, <2>1, <2>2, BackupStep
<1>3. CASE AnotherDirectory
  <2>1. /\ procedure = 0 /\ bundle' = NoBundle /\ restored.state = "none" /\ NoBundle \in Bundles
        /\ UNCHANGED <<labMeta, sentTx, labDisk, labUp, labKind, minted, procedure, restored, attempts>>
    BY <1>3, NoMetaType DEF AnotherDirectory, laboratory, NoBackup
  <2>2. BackupSound'
    BY <2>1 DEF BackupSound, NoBundle
  <2>3. RestoredFrom(restored, bundle'.meta)
    BY <2>1 DEF RestoredFrom
  <2> QED BY <1>1, <2>1, <2>2, <2>3, BackupStep
<1>4. CASE DamageBundle
  <2>1. PICK b \in Bundles : b = [bundle EXCEPT !.state = "damaged", !.disk = {}]
    BY <1>1 DEF Bundles
  <2>2. b.meta = bundle.meta /\ b.state = "damaged"
    BY <1>1, <2>1 DEF Bundles
  <2>3. /\ procedure = 0 /\ bundle' = b
        /\ UNCHANGED <<labMeta, sentTx, labDisk, labUp, labKind, minted, procedure, restored, attempts>>
    BY <1>4, <2>1 DEF DamageBundle, laboratory, NoBackup
  <2>4. BackupSound'
    BY <2>2, <2>3 DEF BackupSound
  <2> QED BY <1>1, <2>2, <2>3, <2>4, BackupStep
<1> QED BY <1>2, <1>3, <1>4

\* The restored cluster goes on, and the rest is as it was.
LEMMA RestoredStep ==
  ASSUME RecoveryInv, NEW r \in Labs, restored' = r, UNCHANGED <<laboratory, procedure, bundle>>,
         attempts' \in 0..MaxBackups, procedure = 0, RestoredFrom(r, bundle.meta)
  PROVE  RecoveryInv'
<1>1. UNCHANGED <<labMeta, sentTx, labDisk, labUp, labKind, minted, procedure, bundle>>
  BY DEF laboratory
<1>2. RecoveryTypeOK'
  BY <1>1, BackupKnown DEF RecoveryTypeOK, Labs
<1>3. LabSound'
  BY <1>1, BackupKnown DEF LabSound, Covers
<1>4. BackupSound'
  BY <1>1, BackupKnown DEF BackupSound
<1> QED BY <1>1, <1>2, <1>3, <1>4 DEF RecoveryInv

\* Files, etcd, activation, configuration, and the life of the restored cluster.
LEMMA RestoreInv ==
  ASSUME RecoveryInv,
         \/ RestoreFiles \/ RestoreEtcd \/ ActivateRestored \/ StartRestored \/ StopRestored \/ DropRestored
         \/ \E p \in LabParts : ConfigureRestored(p)
         \/ \E v \in LabVersions : CollectRestored(v) \/ ReleasePin(v)
  PROVE  RecoveryInv'
<1>1. /\ bundle \in Bundles /\ restored \in Labs /\ attempts \in 0..MaxBackups /\ MaxBackups \in Nat
      /\ BackupSound /\ RestoredFrom(restored, bundle.meta) /\ bundle.meta \in Metas /\ bundle.disk \subseteq LabVersions
      /\ restored.meta \in Metas
  BY BackupKnown DEF Bundles, Labs
<1>2. PICK q \in Labs : q = restored /\ RestoredFrom(q, bundle.meta)
  BY <1>1
<1>3. q.state # "none" => procedure = 0
  BY <1>1, <1>2 DEF BackupSound
<1>4. CASE RestoreFiles
  <2>1. PICK r \in Labs : r = [NoLab EXCEPT !.state = "files", !.disk = bundle.disk]
    BY <1>1, NoMetaType DEF Labs
  <2>2. r.state = "files" /\ r.disk = bundle.disk /\ r.released = {}
    BY <2>1 DEF NoLab
  <2>3. /\ restored' = r /\ UNCHANGED <<laboratory, procedure, bundle>> /\ procedure = 0
        /\ attempts' = attempts + 1 /\ attempts < MaxBackups /\ bundle.state = "complete"
    BY <1>4, <2>1 DEF RestoreFiles, NoBackup
  <2>4. attempts' \in 0..MaxBackups
    BY <1>1, <2>3
  <2>5. RestoredFrom(r, bundle.meta)
    BY <1>1, <2>2, <2>3 DEF RestoredFrom, BackupSound
  <2> QED BY <2>3, <2>4, <2>5, RestoredStep
<1>5. CASE RestoreEtcd
  <2>1. PICK r \in Labs : r = [q EXCEPT !.state = "etcd", !.meta = bundle.meta]
    BY <1>1 DEF Labs
  <2>2. r.state = "etcd" /\ r.meta = bundle.meta /\ r.disk = q.disk /\ r.released = q.released
    BY <2>1 DEF Labs
  <2>3. restored' = r /\ UNCHANGED <<laboratory, procedure, bundle, attempts>> /\ q.state = "files"
    BY <1>2, <1>5, <2>1 DEF RestoreEtcd
  <2>4. RestoredFrom(r, bundle.meta)
    BY <1>2, <2>2, <2>3 DEF RestoredFrom
  <2> QED BY <1>1, <1>3, <2>3, <2>4, RestoredStep
<1>6. CASE ActivateRestored
  <2>1. q.state = "etcd" /\ q.meta = bundle.meta /\ Covers(bundle.meta, q.disk) /\ q.released = {}
    BY <1>2, <1>6 DEF ActivateRestored, RestoredFrom
  <2>2. PICK m \in Metas : m = NewEpoch(q.meta)
    <3>1. q.meta \in Metas
      BY DEF Labs
    <3>2. q.meta.epoch + 1 \in Nat /\ q.meta.current \in LabVersions \cup {NoVersion} /\ q.meta.pins \cup q.meta.held \subseteq LabVersions
      BY <3>1 DEF Metas
    <3>3. [NoMeta EXCEPT !.epoch = q.meta.epoch + 1] \in Metas
      BY <3>2, NoMetaType DEF Metas
    <3>4. [NoMeta EXCEPT !.epoch = q.meta.epoch + 1, !.current = q.meta.current] \in Metas
      BY <3>2, <3>3 DEF Metas
    <3>5. NewEpoch(q.meta) \in Metas
      BY <3>2, <3>4 DEF NewEpoch, Metas
    <3> QED BY <3>5
  <2>3. /\ m.epoch = bundle.meta.epoch + 1 /\ m.current = bundle.meta.current /\ m.pins = bundle.meta.pins \cup bundle.meta.held
        /\ m.held = {} /\ m.uploads = {} /\ m.orders = {} /\ m.sessions = FALSE
    BY <2>1, <2>2 DEF NewEpoch, NoMeta
  <2>4. PICK r \in Labs : r = [q EXCEPT !.state = "activated", !.meta = m]
    BY DEF Labs
  <2>5. r.state = "activated" /\ r.meta = m /\ r.disk = q.disk /\ r.released = {}
    BY <2>1, <2>4 DEF Labs
  <2>6. restored' = r /\ UNCHANGED <<laboratory, procedure, bundle, attempts>>
    BY <1>2, <1>6, <2>2, <2>4 DEF ActivateRestored
  <2>7. RestoredFrom(r, bundle.meta)
    BY <2>1, <2>3, <2>5 DEF RestoredFrom, Covers, NeededBy
  <2> QED BY <1>1, <1>3, <2>1, <2>6, <2>7, RestoredStep
<1>7. CASE StartRestored \/ StopRestored \/ \E p \in LabParts : ConfigureRestored(p)
  <2>1. PICK state \in {"activated", "running", "stopped"}, configured \in SUBSET LabParts :
          /\ restored' = [q EXCEPT !.state = state, !.configured = configured]
          /\ q.state \in {"activated", "running", "stopped"} /\ UNCHANGED <<laboratory, procedure, bundle, attempts>>
    <3>1. CASE StartRestored
      <4>1. restored' = [q EXCEPT !.state = "running"] /\ q.state \in {"activated", "stopped"}
            /\ UNCHANGED <<laboratory, procedure, bundle, attempts>> /\ q.configured \in SUBSET LabParts
        BY <1>2, <3>1 DEF StartRestored, Labs
      <4>2. [q EXCEPT !.state = "running"] = [q EXCEPT !.state = "running", !.configured = q.configured]
        BY DEF Labs
      <4> QED BY <4>1, <4>2
    <3>2. CASE StopRestored
      <4>1. restored' = [q EXCEPT !.state = "stopped"] /\ q.state = "running"
            /\ UNCHANGED <<laboratory, procedure, bundle, attempts>> /\ q.configured \in SUBSET LabParts
        BY <1>2, <3>2 DEF StopRestored, Labs
      <4>2. [q EXCEPT !.state = "stopped"] = [q EXCEPT !.state = "stopped", !.configured = q.configured]
        BY DEF Labs
      <4> QED BY <4>1, <4>2
    <3>3. ASSUME NEW p \in LabParts, ConfigureRestored(p)
          PROVE  \E state \in {"activated", "running", "stopped"}, configured \in SUBSET LabParts :
                   /\ restored' = [q EXCEPT !.state = state, !.configured = configured]
                   /\ q.state \in {"activated", "running", "stopped"} /\ UNCHANGED <<laboratory, procedure, bundle, attempts>>
      <4>1. restored' = [q EXCEPT !.configured = q.configured \cup {p}] /\ q.state = "activated"
            /\ UNCHANGED <<laboratory, procedure, bundle, attempts>> /\ q.configured \cup {p} \in SUBSET LabParts
        BY <1>2, <3>3 DEF ConfigureRestored, Labs
      <4>2. [q EXCEPT !.configured = q.configured \cup {p}] = [q EXCEPT !.state = "activated", !.configured = q.configured \cup {p}]
        BY <4>1 DEF Labs
      <4> QED BY <4>1, <4>2
    <3> QED BY <1>7, <3>1, <3>2, <3>3
  <2>2. PICK r \in Labs : r = [q EXCEPT !.state = state, !.configured = configured]
    BY DEF Labs
  <2>3. r.state = state /\ r.meta = q.meta /\ r.disk = q.disk /\ r.released = q.released
    BY <2>2 DEF Labs
  <2>4. RestoredFrom(r, bundle.meta)
    BY <1>2, <2>1, <2>3 DEF RestoredFrom
  <2> QED BY <1>1, <1>3, <2>1, <2>2, <2>4, RestoredStep
<1>8. ASSUME NEW v \in LabVersions, CollectRestored(v) PROVE RecoveryInv'
  <2>1. PICK r \in Labs : r = [q EXCEPT !.disk = q.disk \ {v}]
    BY DEF Labs
  <2>2. r.state = q.state /\ r.meta = q.meta /\ r.disk = q.disk \ {v} /\ r.released = q.released
    BY <2>1 DEF Labs
  <2>3. restored' = r /\ UNCHANGED <<laboratory, procedure, bundle, attempts>> /\ q.state = "running" /\ v \notin NeededBy(q.meta)
    BY <1>2, <1>8, <2>1 DEF CollectRestored
  <2>4. RestoredFrom(r, bundle.meta)
    BY <1>2, <2>2, <2>3 DEF RestoredFrom, NeededBy
  <2> QED BY <1>1, <1>3, <2>3, <2>4, RestoredStep
<1>9. ASSUME NEW v \in LabVersions, ReleasePin(v) PROVE RecoveryInv'
  <2>1. q.meta \in Metas /\ q.state = "stopped"
    BY <1>2, <1>9 DEF ReleasePin, Labs
  <2>2. PICK m \in Metas : m = [q.meta EXCEPT !.pins = q.meta.pins \ {v}]
    BY <2>1 DEF Metas
  <2>3. /\ m.epoch = q.meta.epoch /\ m.current = q.meta.current /\ m.pins = q.meta.pins \ {v} /\ m.held = q.meta.held
        /\ m.uploads = q.meta.uploads /\ m.orders = q.meta.orders /\ m.sessions = q.meta.sessions
    BY <2>1, <2>2 DEF Metas
  <2>4. PICK r \in Labs : r = [q EXCEPT !.meta = m, !.released = q.released \cup {v}]
    BY DEF Labs
  <2>5. r.state = "stopped" /\ r.meta = m /\ r.disk = q.disk /\ r.released = q.released \cup {v}
    BY <2>1, <2>4 DEF Labs
  <2>6. restored' = r /\ UNCHANGED <<laboratory, procedure, bundle, attempts>>
    BY <1>2, <1>9, <2>2, <2>4 DEF ReleasePin
  <2>7. RestoredFrom(r, bundle.meta)
    BY <1>2, <2>1, <2>3, <2>5 DEF RestoredFrom
  <2> QED BY <1>1, <1>3, <2>1, <2>6, <2>7, RestoredStep
<1>10. CASE DropRestored
  <2>1. PICK r \in Labs : r = NoLab /\ r.state = "none"
    BY NoMetaType DEF NoLab
  <2>2. restored' = r /\ UNCHANGED <<laboratory, procedure, bundle, attempts>> /\ q.state # "none"
    BY <1>2, <1>10, <2>1 DEF DropRestored
  <2>3. RestoredFrom(r, bundle.meta)
    BY <2>1 DEF RestoredFrom
  <2> QED BY <1>1, <1>3, <2>2, <2>3, RestoredStep
<1> QED BY <1>4, <1>5, <1>6, <1>7, <1>8, <1>9, <1>10

\* Whenever the backup was taken and wherever it was cut off, a complete bundle covers its
\* metadata, and what is restored from it is compared with it (backup_lab,
\* backup_protected_lab, RestoredHACluster, release_pin).
THEOREM RecoveryCorrect == RecoverySpec => []RecoveryInv
<1>1. RecoveryInv /\ [RecoveryNext]_recoveryVars => RecoveryInv'
  <2> SUFFICES ASSUME RecoveryInv, [RecoveryNext]_recoveryVars PROVE RecoveryInv'
    OBVIOUS
  <2>1. ASSUME NEW v \in LabVersions, StoreVersion(v) \/ SendVersion(v) \/ AbortVersion(v) \/ ApplySent(v) PROVE RecoveryInv'
    BY <2>1, VersionInv
  <2>2. CASE \/ \E v \in LabVersions : CloseHandle(v) \/ OrderDeletion(v) \/ DeleteFile(v)
             \/ OpenHandle \/ StartLab
             \/ \E p \in LabParts : ProcessEnds(p)
    BY <2>2, HandlesInv
  <2>3. CASE \/ \E p \in LabParts : StopForBackup(p)
             \/ BeginBackup \/ LabQuiet \/ CopyFiles \/ SnapshotEtcd \/ SealBundle
    BY <2>3, BackupInv
  <2>4. CASE BackupDies \/ AnotherDirectory \/ DamageBundle
    BY <2>4, BundleInv
  <2>5. CASE \/ RestoreFiles \/ RestoreEtcd \/ ActivateRestored \/ StartRestored \/ StopRestored \/ DropRestored
             \/ \E p \in LabParts : ConfigureRestored(p)
             \/ \E v \in LabVersions : CollectRestored(v) \/ ReleasePin(v)
    BY <2>5, RestoreInv
  <2>6. CASE UNCHANGED recoveryVars
    <3>1. UNCHANGED <<labMeta, sentTx, labDisk, labUp, labKind, minted, procedure, bundle, restored, attempts>>
      BY <2>6 DEF recoveryVars
    <3> QED BY <3>1 DEF RecoveryInv, RecoveryTypeOK, LabSound, BackupSound, RestoredFrom, Covers
  <2> QED BY <2>1, <2>2, <2>3, <2>4, <2>5, <2>6 DEF RecoveryNext
<1> QED BY <1>1, RecoveryInitInv, PTL DEF RecoverySpec

\* A restored cluster has the content its metadata name and every snapshot that was open and
\* was not released, and honours nothing of the old epoch (RestoredHACluster, release_pin).
THEOREM RestoredComplete == RecoverySpec => []RestoredWhole
BY RecoveryCorrect, InvWhole, PTL

-----------------------------------------------------------------------------
(* Laboratory.                                                              *)

\* A laboratory without a record is prepared by its first supervisor only, which configures
\* etcd and moves the metadata at most once; with a record nothing is done again.
FirstRunOnly ==
  /\ labEtcd \in {0, 1} /\ labMoved \in {0, 1}
  /\ labDir = "empty" => runPhase = "none" /\ ~labRecord /\ labEtcd = 0 /\ labMoved = 0
  /\ ~labRecord /\ runPhase \in {"prepare", "enter", "members"} => labEtcd = 0 /\ labMoved = 0
  /\ ~labRecord /\ runPhase = "activate" => labMoved = 0
ReadyRecorded == (runPhase = "up" => labRecord) /\ (labReady # NoRun => labRecord)

\* What runs was started by this supervisor or ran before it.
Accounted == runPhase \notin {"none", "prepare", "enter"} => Running \subseteq Own \cup found

\* The loop of __exit__ has stopped every unit it has passed.
LoopBehind == runPhase = "leaving" => \A u \in Own : u <= reached

LabInv == LaboratoryTypeOK /\ FirstRunOnly /\ ReadyRecorded /\ Accounted /\ LoopBehind

\* The state at the start.
LEMMA LabInitInv == LaboratoryInit => LabInv
<1> SUFFICES ASSUME LaboratoryInit PROVE LabInv
  OBVIOUS
<1>1. LaboratoryTypeOK
  <2>1. labRecord \in BOOLEAN /\ labStop \in BOOLEAN
    BY Zenon DEF LaboratoryInit
  <2>2. /\ runPhase \in RunPhases /\ runs \in 0..MaxRuns /\ unit \in [Units -> Alive \cup {"off"}]
        /\ ownedBy \in [Units -> 0..MaxRuns] /\ labReady \in 0..MaxRuns /\ troubles \in 0..MaxTroubles
        /\ reached \in 0..LastUnit /\ found \subseteq Units
    BY LaboratoryAssumption DEF LaboratoryInit, RunPhases, NoRun, LastUnit
  <2> QED BY <2>1, <2>2 DEF LaboratoryInit, LaboratoryTypeOK
<1>2. FirstRunOnly /\ ReadyRecorded /\ Accounted /\ LoopBehind
  BY DEF LaboratoryInit, FirstRunOnly, ReadyRecorded, Accounted, LoopBehind
<1> QED BY <1>1, <1>2 DEF LabInv

\* A step that neither starts nor ends a process.
LEMMA ProcessesStay ==
  ASSUME UNCHANGED <<runs, unit, ownedBy>> PROVE Running' = Running /\ Own' = Own
BY DEF Running, Own

\* Launching a process.
LEMMA LaunchTyped ==
  ASSUME LaboratoryTypeOK, reached < LastUnit, LaunchNext, runs' = runs
  PROVE  /\ unit' \in [Units -> Alive \cup {"off"}] /\ ownedBy' \in [Units -> 0..MaxRuns]
         /\ reached' \in 0..LastUnit
         /\ Own \subseteq Own' /\ Running' \subseteq Running \cup Own'
<1> DEFINE u == reached + 1
<1>1. u \in Units /\ reached' \in 0..LastUnit
  BY LaboratoryAssumption DEF LaunchNext, LaboratoryTypeOK, Units, LastUnit
<1>2. CASE u \in Running
  <2>1. UNCHANGED <<unit, ownedBy>>
    BY <1>2 DEF LaunchNext
  <2> QED BY <1>1, <2>1 DEF LaboratoryTypeOK, Own, Running
<1>3. CASE u \notin Running
  <2>1. unit' = [unit EXCEPT ![u] = "starting"] /\ ownedBy' = [ownedBy EXCEPT ![u] = runs]
    BY <1>3 DEF LaunchNext
  <2> HIDE DEF u
  <2> QED BY <1>1, <1>3, <2>1 DEF LaboratoryTypeOK, Own, Running, Alive
<1> QED BY <1>2, <1>3

\* Stopping one.
LEMMA StopTyped ==
  ASSUME LaboratoryTypeOK, reached > 0, NEW u, Stop(u)
  PROVE  /\ unit' \in [Units -> Alive \cup {"off"}] /\ reached' \in 0..LastUnit
         /\ Own' = Own \ {u} /\ Running' \subseteq Running /\ Running \ Own \subseteq Running' \ Own'
         /\ Running' \ Own' \subseteq Running \ Own
<1>1. reached' \in 0..LastUnit /\ UNCHANGED <<runs, ownedBy>>
  BY LaboratoryAssumption DEF Stop, LaboratoryTypeOK, LastUnit
<1>2. CASE u \in Own
  <2>1. unit' = [unit EXCEPT ![u] = "off"] /\ u \in Units
    BY <1>2 DEF Stop, Own, Running
  <2> QED BY <1>1, <1>2, <2>1 DEF LaboratoryTypeOK, Own, Running, Alive
<1>3. CASE u \notin Own
  <2>1. unit' = unit
    BY <1>3 DEF Stop
  <2> QED BY <1>1, <1>3, <2>1 DEF LaboratoryTypeOK, Own, Running
<1> QED BY <1>2, <1>3

\* Every step keeps the invariant.
LEMMA LabNextInv == ASSUME LabInv, [LaboratoryNext]_laboratoryVars PROVE LabInv'
<1> USE LaboratoryAssumption
<1>0. LaboratoryTypeOK /\ FirstRunOnly /\ ReadyRecorded /\ Accounted /\ LoopBehind
  BY DEF LabInv
<1>1. ASSUME NewRun PROVE LabInv'
  <2>1. LaboratoryTypeOK'
    BY <1>0, <1>1 DEF NewRun, labFiles, labProcesses, LaboratoryTypeOK, RunPhases, NoRun, LastUnit
  <2>2. FirstRunOnly'
    BY <1>0, <1>1 DEF NewRun, labFiles, labProcesses, FirstRunOnly, LaboratoryTypeOK
  <2>3. ReadyRecorded'
    BY <1>0, <1>1 DEF NewRun, labFiles, labProcesses, ReadyRecorded, NoRun
  <2>4. Accounted' /\ LoopBehind'
    BY <1>1 DEF NewRun, Accounted, LoopBehind
  <2> QED BY <2>1, <2>2, <2>3, <2>4 DEF LabInv
<1>2. ASSUME NEW whole \in BOOLEAN, PrepareMembers(whole) PROVE LabInv'
  <2>1. LaboratoryTypeOK'
    BY <1>0, <1>2 DEF PrepareMembers, labFiles, labProcesses, LaboratoryTypeOK, RunPhases, NoRun, LastUnit
  <2>2. FirstRunOnly'
    BY <1>0, <1>2 DEF PrepareMembers, labFiles, labProcesses, FirstRunOnly, LaboratoryTypeOK
  <2>3. ReadyRecorded'
    BY <1>0, <1>2 DEF PrepareMembers, labFiles, labProcesses, ReadyRecorded, NoRun
  <2>4. Accounted' /\ LoopBehind'
    <3>1. Running' = Running /\ Own' = Own
      BY <1>2, ProcessesStay DEF PrepareMembers, labFiles, labProcesses
    <3> QED BY <1>0, <1>2, <3>1 DEF PrepareMembers, labFiles, labProcesses, Accounted, LoopBehind
  <2> QED BY <2>1, <2>2, <2>3, <2>4 DEF LabInv
<1>3. ASSUME ResumeRun PROVE LabInv'
  <2>1. LaboratoryTypeOK'
    BY <1>0, <1>3 DEF ResumeRun, labFiles, labProcesses, LaboratoryTypeOK, RunPhases, NoRun, LastUnit
  <2>2. FirstRunOnly'
    BY <1>0, <1>3 DEF ResumeRun, labFiles, labProcesses, FirstRunOnly, LaboratoryTypeOK
  <2>3. ReadyRecorded'
    BY <1>0, <1>3 DEF ResumeRun, labFiles, labProcesses, ReadyRecorded, NoRun
  <2>4. Accounted' /\ LoopBehind'
    BY <1>3 DEF ResumeRun, Accounted, LoopBehind
  <2> QED BY <2>1, <2>2, <2>3, <2>4 DEF LabInv
<1>4. ASSUME EnterRun PROVE LabInv'
  <2>1. LaboratoryTypeOK'
    <3>1. labStop' \in BOOLEAN
      BY <1>4, Zenon DEF EnterRun
    <3>2. labReady' \in 0..MaxRuns /\ runPhase' \in RunPhases /\ reached' \in 0..LastUnit /\ found' \subseteq Units
      BY <1>0, <1>4 DEF EnterRun, NoRun, RunPhases, LastUnit, Running
    <3> QED BY <1>0, <1>4, <3>1, <3>2 DEF EnterRun, LaboratoryTypeOK, labFiles
  <2>2. FirstRunOnly'
    BY <1>0, <1>4 DEF EnterRun, labFiles, labProcesses, FirstRunOnly, LaboratoryTypeOK
  <2>3. ReadyRecorded'
    BY <1>0, <1>4 DEF EnterRun, labFiles, labProcesses, ReadyRecorded, NoRun
  <2>4. Accounted' /\ LoopBehind'
    <3>1. Running' = Running /\ Own' = Own
      BY <1>4, ProcessesStay DEF EnterRun, labFiles, labProcesses
    <3> QED BY <1>0, <1>4, <3>1 DEF EnterRun, labFiles, labProcesses, Accounted, LoopBehind
  <2> QED BY <2>1, <2>2, <2>3, <2>4 DEF LabInv
<1>5. ASSUME MembersReady PROVE LabInv'
  <2>1. LaboratoryTypeOK'
    BY <1>0, <1>5 DEF MembersReady, labFiles, labProcesses, LaboratoryTypeOK, RunPhases, NoRun, LastUnit
  <2>2. FirstRunOnly'
    BY <1>0, <1>5 DEF MembersReady, labFiles, labProcesses, FirstRunOnly, LaboratoryTypeOK
  <2>3. ReadyRecorded'
    BY <1>0, <1>5 DEF MembersReady, labFiles, labProcesses, ReadyRecorded, NoRun
  <2>4. Accounted' /\ LoopBehind'
    <3>1. Running' = Running /\ Own' = Own
      BY <1>5, ProcessesStay DEF MembersReady, labFiles, labProcesses
    <3> QED BY <1>0, <1>5, <3>1 DEF MembersReady, labFiles, labProcesses, Accounted, LoopBehind
  <2> QED BY <2>1, <2>2, <2>3, <2>4 DEF LabInv
<1>6. ASSUME MemberEnded PROVE LabInv'
  <2>1. LaboratoryTypeOK'
    BY <1>0, <1>6 DEF MemberEnded, Leaving, labFiles, labProcesses, LaboratoryTypeOK, RunPhases, NoRun, LastUnit
  <2>2. FirstRunOnly'
    BY <1>0, <1>6 DEF MemberEnded, Leaving, labFiles, labProcesses, FirstRunOnly, LaboratoryTypeOK
  <2>3. ReadyRecorded'
    BY <1>0, <1>6 DEF MemberEnded, Leaving, labFiles, labProcesses, ReadyRecorded, NoRun
  <2>4. Accounted' /\ LoopBehind'
    <3>1. Running' = Running /\ Own' = Own
      BY <1>6, ProcessesStay DEF MemberEnded, Leaving, labFiles, labProcesses
    <3> QED BY <1>0, <1>6, <3>1 DEF MemberEnded, Leaving, labFiles, labProcesses, Accounted, LoopBehind, Own, Running, Units
  <2> QED BY <2>1, <2>2, <2>3, <2>4 DEF LabInv
<1>7. ASSUME ActivateNew PROVE LabInv'
  <2>1. LaboratoryTypeOK'
    BY <1>0, <1>7 DEF ActivateNew, labFiles, labProcesses, LaboratoryTypeOK, RunPhases, NoRun, LastUnit
  <2>2. FirstRunOnly'
    BY <1>0, <1>7 DEF ActivateNew, labFiles, labProcesses, FirstRunOnly, LaboratoryTypeOK
  <2>3. ReadyRecorded'
    BY <1>0, <1>7 DEF ActivateNew, labFiles, labProcesses, ReadyRecorded, NoRun
  <2>4. Accounted' /\ LoopBehind'
    <3>1. Running' = Running /\ Own' = Own
      BY <1>7, ProcessesStay DEF ActivateNew, labFiles, labProcesses
    <3> QED BY <1>0, <1>7, <3>1 DEF ActivateNew, labFiles, labProcesses, Accounted, LoopBehind
  <2> QED BY <2>1, <2>2, <2>3, <2>4 DEF LabInv
<1>8. ASSUME ActivateAgain PROVE LabInv'
  <2>1. LaboratoryTypeOK'
    BY <1>0, <1>8 DEF ActivateAgain, labFiles, labProcesses, LaboratoryTypeOK, RunPhases, NoRun, LastUnit
  <2>2. FirstRunOnly'
    BY <1>0, <1>8 DEF ActivateAgain, labFiles, labProcesses, FirstRunOnly, LaboratoryTypeOK
  <2>3. ReadyRecorded'
    BY <1>0, <1>8 DEF ActivateAgain, labFiles, labProcesses, ReadyRecorded, NoRun
  <2>4. Accounted' /\ LoopBehind'
    <3>1. Running' = Running /\ Own' = Own
      BY <1>8, ProcessesStay DEF ActivateAgain, labFiles, labProcesses
    <3> QED BY <1>0, <1>8, <3>1 DEF ActivateAgain, labFiles, labProcesses, Accounted, LoopBehind
  <2> QED BY <2>1, <2>2, <2>3, <2>4 DEF LabInv
<1>9. ASSUME ServerEnded PROVE LabInv'
  <2>1. LaboratoryTypeOK'
    BY <1>0, <1>9 DEF ServerEnded, Leaving, labFiles, labProcesses, LaboratoryTypeOK, RunPhases, NoRun, LastUnit
  <2>2. FirstRunOnly'
    BY <1>0, <1>9 DEF ServerEnded, Leaving, labFiles, labProcesses, FirstRunOnly, LaboratoryTypeOK
  <2>3. ReadyRecorded'
    BY <1>0, <1>9 DEF ServerEnded, Leaving, labFiles, labProcesses, ReadyRecorded, NoRun
  <2>4. Accounted' /\ LoopBehind'
    <3>1. Running' = Running /\ Own' = Own
      BY <1>9, ProcessesStay DEF ServerEnded, Leaving, labFiles, labProcesses
    <3> QED BY <1>0, <1>9, <3>1 DEF ServerEnded, Leaving, labFiles, labProcesses, Accounted, LoopBehind, Own, Running, Units
  <2> QED BY <2>1, <2>2, <2>3, <2>4 DEF LabInv
<1>10. ASSUME ServersReady PROVE LabInv'
  <2>1. LaboratoryTypeOK'
    BY <1>0, <1>10 DEF ServersReady, labFiles, labProcesses, LaboratoryTypeOK, RunPhases, NoRun, LastUnit
  <2>2. FirstRunOnly'
    BY <1>0, <1>10 DEF ServersReady, labFiles, labProcesses, FirstRunOnly, LaboratoryTypeOK
  <2>3. ReadyRecorded'
    BY <1>0, <1>10 DEF ServersReady, labFiles, labProcesses, ReadyRecorded, NoRun
  <2>4. Accounted' /\ LoopBehind'
    <3>1. Running' = Running /\ Own' = Own
      BY <1>10, ProcessesStay DEF ServersReady, labFiles, labProcesses
    <3> QED BY <1>0, <1>10, <3>1 DEF ServersReady, labFiles, labProcesses, Accounted, LoopBehind
  <2> QED BY <2>1, <2>2, <2>3, <2>4 DEF LabInv
<1>11. ASSUME SaveRecord PROVE LabInv'
  <2>1. LaboratoryTypeOK'
    BY <1>0, <1>11 DEF SaveRecord, labFiles, labProcesses, LaboratoryTypeOK, RunPhases, NoRun, LastUnit
  <2>2. FirstRunOnly'
    BY <1>0, <1>11 DEF SaveRecord, labFiles, labProcesses, FirstRunOnly, LaboratoryTypeOK
  <2>3. ReadyRecorded'
    BY <1>0, <1>11 DEF SaveRecord, labFiles, labProcesses, ReadyRecorded, NoRun
  <2>4. Accounted' /\ LoopBehind'
    <3>1. Running' = Running /\ Own' = Own
      BY <1>11, ProcessesStay DEF SaveRecord, labFiles, labProcesses
    <3> QED BY <1>0, <1>11, <3>1 DEF SaveRecord, labFiles, labProcesses, Accounted, LoopBehind
  <2> QED BY <2>1, <2>2, <2>3, <2>4 DEF LabInv
<1>12. ASSUME SayReady PROVE LabInv'
  <2>1. LaboratoryTypeOK'
    BY <1>0, <1>12 DEF SayReady, labFiles, labProcesses, LaboratoryTypeOK, RunPhases, NoRun, LastUnit
  <2>2. FirstRunOnly'
    BY <1>0, <1>12 DEF SayReady, labFiles, labProcesses, FirstRunOnly, LaboratoryTypeOK
  <2>3. ReadyRecorded'
    BY <1>0, <1>12 DEF SayReady, labFiles, labProcesses, ReadyRecorded, NoRun
  <2>4. Accounted' /\ LoopBehind'
    <3>1. Running' = Running /\ Own' = Own
      BY <1>12, ProcessesStay DEF SayReady, labFiles, labProcesses
    <3> QED BY <1>0, <1>12, <3>1 DEF SayReady, labFiles, labProcesses, Accounted, LoopBehind
  <2> QED BY <2>1, <2>2, <2>3, <2>4 DEF LabInv
<1>13. ASSUME RunFails PROVE LabInv'
  <2>1. LaboratoryTypeOK'
    BY <1>0, <1>13 DEF RunFails, Leaving, Trouble, labFiles, labProcesses, LaboratoryTypeOK, RunPhases, NoRun, LastUnit
  <2>2. FirstRunOnly'
    BY <1>0, <1>13 DEF RunFails, Leaving, Trouble, labFiles, labProcesses, FirstRunOnly, LaboratoryTypeOK
  <2>3. ReadyRecorded'
    BY <1>0, <1>13 DEF RunFails, Leaving, Trouble, labFiles, labProcesses, ReadyRecorded, NoRun
  <2>4. Accounted' /\ LoopBehind'
    <3>1. Running' = Running /\ Own' = Own
      BY <1>13, ProcessesStay DEF RunFails, Leaving, Trouble, labFiles, labProcesses
    <3> QED BY <1>0, <1>13, <3>1 DEF RunFails, Leaving, Trouble, labFiles, labProcesses, Accounted, LoopBehind, Own, Running, Units
  <2> QED BY <2>1, <2>2, <2>3, <2>4 DEF LabInv
<1>14. ASSUME TouchStopHa PROVE LabInv'
  <2>1. LaboratoryTypeOK'
    BY <1>0, <1>14 DEF TouchStopHa, labFiles, labProcesses, LaboratoryTypeOK, RunPhases, NoRun, LastUnit
  <2>2. FirstRunOnly'
    BY <1>0, <1>14 DEF TouchStopHa, labFiles, labProcesses, FirstRunOnly, LaboratoryTypeOK
  <2>3. ReadyRecorded'
    BY <1>0, <1>14 DEF TouchStopHa, labFiles, labProcesses, ReadyRecorded, NoRun
  <2>4. Accounted' /\ LoopBehind'
    <3>1. Running' = Running /\ Own' = Own
      BY <1>14, ProcessesStay DEF TouchStopHa, labFiles, labProcesses
    <3> QED BY <1>0, <1>14, <3>1 DEF TouchStopHa, labFiles, labProcesses, Accounted, LoopBehind
  <2> QED BY <2>1, <2>2, <2>3, <2>4 DEF LabInv
<1>15. ASSUME SeeStopHa PROVE LabInv'
  <2>1. LaboratoryTypeOK'
    BY <1>0, <1>15 DEF SeeStopHa, labFiles, labProcesses, LaboratoryTypeOK, RunPhases, NoRun, LastUnit
  <2>2. FirstRunOnly'
    BY <1>0, <1>15 DEF SeeStopHa, labFiles, labProcesses, FirstRunOnly, LaboratoryTypeOK
  <2>3. ReadyRecorded'
    BY <1>0, <1>15 DEF SeeStopHa, labFiles, labProcesses, ReadyRecorded, NoRun
  <2>4. Accounted' /\ LoopBehind'
    <3>1. Running' = Running /\ Own' = Own
      BY <1>15, ProcessesStay DEF SeeStopHa, labFiles, labProcesses
    <3> QED BY <1>0, <1>15, <3>1 DEF SeeStopHa, labFiles, labProcesses, Accounted, LoopBehind, Own, Running, Units
  <2> QED BY <2>1, <2>2, <2>3, <2>4 DEF LabInv
<1>16. ASSUME BackupDone PROVE LabInv'
  <2>1. LaboratoryTypeOK'
    BY <1>0, <1>16 DEF BackupDone, Leaving, labFiles, labProcesses, LaboratoryTypeOK, RunPhases, NoRun, LastUnit
  <2>2. FirstRunOnly'
    BY <1>0, <1>16 DEF BackupDone, Leaving, labFiles, labProcesses, FirstRunOnly, LaboratoryTypeOK
  <2>3. ReadyRecorded'
    BY <1>0, <1>16 DEF BackupDone, Leaving, labFiles, labProcesses, ReadyRecorded, NoRun
  <2>4. Accounted' /\ LoopBehind'
    <3>1. Running' = Running /\ Own' = Own
      BY <1>16, ProcessesStay DEF BackupDone, Leaving, labFiles, labProcesses
    <3> QED BY <1>0, <1>16, <3>1 DEF BackupDone, Leaving, labFiles, labProcesses, Accounted, LoopBehind, Own, Running, Units
  <2> QED BY <2>1, <2>2, <2>3, <2>4 DEF LabInv
<1>17. ASSUME StopTimesOut PROVE LabInv'
  <2>1. LaboratoryTypeOK'
    BY <1>0, <1>17 DEF StopTimesOut, Trouble, labFiles, labProcesses, LaboratoryTypeOK, RunPhases, NoRun, LastUnit
  <2>2. FirstRunOnly'
    BY <1>0, <1>17 DEF StopTimesOut, Trouble, labFiles, labProcesses, FirstRunOnly, LaboratoryTypeOK
  <2>3. ReadyRecorded'
    BY <1>0, <1>17 DEF StopTimesOut, Trouble, labFiles, labProcesses, ReadyRecorded, NoRun
  <2>4. Accounted' /\ LoopBehind'
    <3>1. Running' = Running /\ Own' = Own
      BY <1>17, ProcessesStay DEF StopTimesOut, Trouble, labFiles, labProcesses
    <3> QED BY <1>0, <1>17, <3>1 DEF StopTimesOut, Trouble, labFiles, labProcesses, Accounted, LoopBehind
  <2> QED BY <2>1, <2>2, <2>3, <2>4 DEF LabInv
<1>18. ASSUME Leave PROVE LabInv'
  <2>1. LaboratoryTypeOK'
    BY <1>0, <1>18 DEF Leave, SupervisorGone, labFiles, labProcesses, LaboratoryTypeOK, RunPhases, NoRun, LastUnit
  <2>2. FirstRunOnly'
    BY <1>0, <1>18 DEF Leave, SupervisorGone, labFiles, labProcesses, FirstRunOnly, LaboratoryTypeOK
  <2>3. ReadyRecorded'
    BY <1>0, <1>18 DEF Leave, SupervisorGone, labFiles, labProcesses, ReadyRecorded, NoRun
  <2>4. Accounted' /\ LoopBehind'
    <3>1. Running' = Running /\ Own' = Own
      BY <1>18, ProcessesStay DEF Leave, SupervisorGone, labFiles, labProcesses
    <3> QED BY <1>0, <1>18, <3>1 DEF Leave, SupervisorGone, labFiles, labProcesses, Accounted, LoopBehind
  <2> QED BY <2>1, <2>2, <2>3, <2>4 DEF LabInv
<1>19. ASSUME SupervisorDies PROVE LabInv'
  <2>1. LaboratoryTypeOK'
    BY <1>0, <1>19 DEF SupervisorDies, SupervisorGone, Trouble, labFiles, labProcesses, LaboratoryTypeOK, RunPhases, NoRun, LastUnit
  <2>2. FirstRunOnly'
    BY <1>0, <1>19 DEF SupervisorDies, SupervisorGone, Trouble, labFiles, labProcesses, FirstRunOnly, LaboratoryTypeOK
  <2>3. ReadyRecorded'
    BY <1>0, <1>19 DEF SupervisorDies, SupervisorGone, Trouble, labFiles, labProcesses, ReadyRecorded, NoRun
  <2>4. Accounted' /\ LoopBehind'
    <3>1. Running' = Running /\ Own' = Own
      BY <1>19, ProcessesStay DEF SupervisorDies, SupervisorGone, Trouble, labFiles, labProcesses
    <3> QED BY <1>0, <1>19, <3>1 DEF SupervisorDies, SupervisorGone, Trouble, labFiles, labProcesses, Accounted, LoopBehind
  <2> QED BY <2>1, <2>2, <2>3, <2>4 DEF LabInv
<1>20. ASSUME StartMember \/ StartServer PROVE LabInv'
  <2>1. reached < LastUnit /\ LaunchNext /\ runPhase \in {"members", "servers"}
        /\ UNCHANGED <<runPhase, runs, found, labDir, labEtcd, labMoved, labRecord, labReady, labStop, troubles>>
    BY <1>0, <1>20 DEF StartMember, StartServer, labFiles, LastUnit, LaboratoryTypeOK
  <2>2. /\ unit' \in [Units -> Alive \cup {"off"}] /\ ownedBy' \in [Units -> 0..MaxRuns]
        /\ reached' \in 0..LastUnit /\ Own \subseteq Own' /\ Running' \subseteq Running \cup Own'
    BY <1>0, <2>1, LaunchTyped
  <2>3. LaboratoryTypeOK' /\ FirstRunOnly' /\ ReadyRecorded'
    BY <1>0, <2>1, <2>2 DEF LaboratoryTypeOK, FirstRunOnly, ReadyRecorded
  <2>4. Accounted' /\ LoopBehind'
    BY <1>0, <2>1, <2>2 DEF Accounted, LoopBehind
  <2> QED BY <2>3, <2>4 DEF LabInv
<1>21. ASSUME StopNext \/ StopUnit PROVE LabInv'
  <2>1. PICK u : Stop(u) /\ reached > 0 /\ (runPhase = "leaving" => u = reached)
    BY <1>0, <1>21 DEF StopNext, StopUnit, ExitTurn, LaboratoryTypeOK
  <2>2. /\ unit' \in [Units -> Alive \cup {"off"}] /\ reached' \in 0..LastUnit
        /\ Own' = Own \ {u} /\ Running' \ Own' \subseteq Running \ Own
    BY <1>0, <2>1, StopTyped
  <2>3. reached' = reached - 1
        /\ UNCHANGED <<runPhase, runs, found, ownedBy, labDir, labEtcd, labMoved, labRecord, labReady, labStop, troubles>>
    BY <2>1 DEF Stop, labFiles
  <2>4. LaboratoryTypeOK' /\ FirstRunOnly' /\ ReadyRecorded'
    BY <1>0, <2>2, <2>3 DEF LaboratoryTypeOK, FirstRunOnly, ReadyRecorded
  <2>5. Accounted'
    BY <1>0, <2>2, <2>3 DEF Accounted
  <2>6. LoopBehind'
    <3>1. Own \subseteq Int /\ reached \in Int
      BY <1>0 DEF Own, Running, Units, LaboratoryTypeOK
    <3> QED BY <1>0, <2>1, <2>2, <2>3, <3>1 DEF LoopBehind
  <2> QED BY <2>4, <2>5, <2>6 DEF LabInv
<1>22. ASSUME NEW u \in Units, UnitReady(u) \/ UnitDies(u) PROVE LabInv'
  <2>1. UNCHANGED <<runPhase, runs, reached, found, ownedBy, labDir, labEtcd, labMoved, labRecord, labReady, labStop>>
    BY <1>22 DEF UnitReady, UnitDies, labFiles
  <2>2. unit' \in [Units -> Alive \cup {"off"}] /\ troubles' \in 0..MaxTroubles
    BY <1>0, <1>22 DEF UnitReady, UnitDies, Trouble, Alive, LaboratoryTypeOK
  <2>3. Running' \subseteq Running
    BY <1>0, <1>22 DEF UnitReady, UnitDies, Running, Alive, LaboratoryTypeOK
  <2>4. Own' \subseteq Own /\ (Running' \subseteq Own' \cup (Running \ Own))
    BY <2>1, <2>3 DEF Own
  <2>5. LaboratoryTypeOK' /\ FirstRunOnly' /\ ReadyRecorded'
    BY <1>0, <2>1, <2>2 DEF LaboratoryTypeOK, FirstRunOnly, ReadyRecorded
  <2>6. Accounted' /\ LoopBehind'
    BY <1>0, <2>1, <2>4 DEF Accounted, LoopBehind
  <2> QED BY <2>5, <2>6 DEF LabInv
<1>23. CASE UNCHANGED laboratoryVars
  <2>1. Running' = Running /\ Own' = Own
    BY <1>23, ProcessesStay DEF laboratoryVars
  <2> QED BY <1>0, <1>23, <2>1 DEF laboratoryVars, LabInv, LaboratoryTypeOK, FirstRunOnly, ReadyRecorded, Accounted, LoopBehind
<1> QED BY <1>1, <1>2, <1>3, <1>4, <1>5, <1>6, <1>7, <1>8, <1>9, <1>10, <1>11, <1>12, <1>13, <1>14, <1>15, <1>16, <1>17, <1>18, <1>19, <1>20, <1>21, <1>22, <1>23 DEF LaboratoryNext

\* What a step may do to the processes of the supervisor.
StopsInOrder ==
  troubles' = troubles /\ runPhase # "none" =>
    /\ Members \cap Own \subseteq Own' \/ Own \cap Servers = {}
    /\ runPhase = "leaving" /\ runPhase' = "none" => Running' \subseteq found

\* Members stop last, and a supervisor that leaves has stopped what it started.
LEMMA StopsInOrderStep == ASSUME LabInv, [LaboratoryNext]_laboratoryVars PROVE StopsInOrder
<1> SUFFICES ASSUME troubles' = troubles, runPhase # "none"
             PROVE  /\ Members \cap Own \subseteq Own' \/ Own \cap Servers = {}
                    /\ runPhase = "leaving" /\ runPhase' = "none" => Running' \subseteq found
  BY DEF StopsInOrder
<1>0. LaboratoryTypeOK /\ Accounted /\ LoopBehind
  BY DEF LabInv
<1>1. ~Trouble
  BY <1>0 DEF Trouble, LaboratoryTypeOK
<1>2. CASE UNCHANGED <<runs, unit, ownedBy>> /\ ~(runPhase = "leaving" /\ runPhase' = "none")
  BY <1>2, ProcessesStay
<1>3. ASSUME StartMember \/ StartServer
      PROVE  Own \subseteq Own' /\ runPhase # "leaving"
  <2>1. reached < LastUnit /\ LaunchNext /\ runs' = runs /\ runPhase # "leaving"
    BY <1>0, <1>3, LaboratoryAssumption DEF StartMember, StartServer, LastUnit, LaboratoryTypeOK
  <2> QED BY <1>0, <2>1, LaunchTyped
<1>4. ASSUME NEW u \in Units, UnitReady(u)
      PROVE  Own \subseteq Own' /\ runPhase' = runPhase
  BY <1>0, <1>4 DEF UnitReady, Own, Running, LaboratoryTypeOK, Alive
<1>5. ASSUME StopUnit
      PROVE  Members \cap Own \subseteq Own' /\ runPhase' = runPhase
  <2>1. Stop(BackupTurn) /\ reached > 0 /\ BackupTurn > EtcdCount /\ runPhase' = runPhase
    BY <1>0, <1>5, LaboratoryAssumption DEF StopUnit, BackupTurn, Stop, LaboratoryTypeOK
  <2>2. Own' = Own \ {BackupTurn}
    BY <1>0, <2>1, StopTyped
  <2>3. BackupTurn \notin Members
    BY <2>1, LaboratoryAssumption DEF Members
  <2> QED BY <2>1, <2>2, <2>3
<1>6. ASSUME StopNext
      PROVE  (Members \cap Own \subseteq Own' \/ Own \cap Servers = {}) /\ runPhase' = runPhase
  <2>1. Stop(reached) /\ reached > 0 /\ runPhase = "leaving" /\ runPhase' = runPhase
    BY <1>6 DEF StopNext, ExitTurn, Stop
  <2>2. Own' = Own \ {reached}
    BY <1>0, <2>1, StopTyped
  <2>3. CASE reached > EtcdCount
    BY <2>1, <2>2, <2>3, LaboratoryAssumption DEF Members
  <2>4. CASE reached <= EtcdCount
    <3>1. \A v \in Own : v \in Members
      BY <1>0, <2>1, <2>4, LaboratoryAssumption DEF LoopBehind, Own, Running, Members, Units, LaboratoryTypeOK
    <3> QED BY <2>1, <3>1 DEF Servers
  <2> QED BY <1>0, <2>3, <2>4, LaboratoryAssumption DEF LaboratoryTypeOK
<1>7. ~StopTimesOut /\ \A u \in Units : ~UnitDies(u)
  BY <1>1 DEF UnitDies, StopTimesOut
<1>8. CASE Leave
  <2>1. UNCHANGED <<runs, unit, ownedBy>>
    BY <1>8 DEF Leave
  <2>2. Running' = Running /\ Own' = Own
    BY <2>1, ProcessesStay
  <2>3. ASSUME runPhase = "leaving" PROVE Running \subseteq found
    <3>1. reached = 0
      BY <1>8, <2>3 DEF Leave
    <3>2. Own = {}
      BY <1>0, <2>3, <3>1 DEF LoopBehind, Own, Running, Units
    <3> QED BY <1>0, <2>3, <3>2 DEF Accounted
  <2> QED BY <2>2, <2>3
<1>9. ~RunFails /\ ~SupervisorDies /\ ~NewRun /\ ~ResumeRun
  BY <1>1 DEF RunFails, SupervisorDies, NewRun, ResumeRun
<1>10. ASSUME NEW whole \in BOOLEAN, PrepareMembers(whole)
       PROVE  UNCHANGED <<runs, unit, ownedBy>> /\ runPhase # "leaving"
  BY <1>10 DEF PrepareMembers, labProcesses
<1>11. ASSUME EnterRun \/ MembersReady \/ MemberEnded \/ ActivateNew \/ ActivateAgain \/ ServerEnded \/ ServersReady
              \/ SaveRecord \/ SayReady \/ TouchStopHa \/ SeeStopHa \/ BackupDone \/ UNCHANGED laboratoryVars
       PROVE  UNCHANGED <<runs, unit, ownedBy>> /\ ~(runPhase = "leaving" /\ runPhase' = "none")
  BY <1>11 DEF EnterRun, MembersReady, MemberEnded, ActivateNew, ActivateAgain, ServerEnded, ServersReady, SaveRecord,
              SayReady, TouchStopHa, SeeStopHa, BackupDone, Leaving, labProcesses, laboratoryVars
<1> QED BY <1>2, <1>3, <1>4, <1>5, <1>6, <1>7, <1>8, <1>9, <1>10, <1>11 DEF LaboratoryNext

\* The supervisor stops a member only after its own controls and DataNodes and leaves nothing
\* running but what it found, the metadata are moved and the users of etcd configured at most
\* once, and a laboratory that was ready can be taken up again, for any numbers of members,
\* controls, DataNodes and supervisors (__enter__, __exit__, stop, activate, backup_lab,
\* backup_protected_lab, save, main).
THEOREM LaboratoryKept == LaboratorySpec => LabKept
<1> DEFINE once == labMoved <= 1 /\ labEtcd <= 1 /\ (labReady # NoRun => labRecord)
<1>1. LabInv => once
  BY DEF LabInv, FirstRunOnly, ReadyRecorded
<1>2. LaboratorySpec => []LabInv
  BY LabInitInv, LabNextInv, PTL DEF LaboratorySpec
<1>3. LaboratorySpec => []once
  BY <1>1, <1>2, PTL
<1>4. LaboratorySpec => [][StopsInOrder]_laboratoryVars
  BY <1>2, StopsInOrderStep, PTL DEF LaboratorySpec
<1> QED BY <1>3, <1>4 DEF LabKept, StopsInOrder

-----------------------------------------------------------------------------
(* Maintenance.                                                             *)

\* The types, without the bound on the generations, which only the model has.
LeadersTyped ==
  /\ leaderKey \in Values \cup {0} /\ asked \subseteq Values
  /\ record.generation \in Nat
  /\ control \in [Controls -> [phase : {"idle", "elect", "install", "publish", "collect", "work"},
                               asking : Values \cup {0}, value : Values \cup {0}]]
  /\ task \in [Tasks -> [state : {"none", "ACTIVE", "FAILED", "FINISHED"}, generation : Nat, owner : Nat]]
  /\ published \subseteq (Nat \X Values)

\* A control installs itself only with a value it was elected with.
InstallsElected == \A k \in Controls : control[k].phase \in {"install", "publish"} => control[k].value # 0

\* A value is asked for no longer once it has the key, and never again once it was
\* published; of the published ones only the last may have the key.
ValuesSpent ==
  /\ leaderKey # 0 => leaderKey \notin asked
  /\ \A p \in published : p[2] \notin asked /\ (p[2] # record.owner => p[2] # leaderKey)

\* The recorded generation is the last one.
GenerationLast ==
  /\ \A p \in published : p[1] <= record.generation
  /\ \A t \in Tasks : task[t].generation <= record.generation

LeaderInv == LeadersTyped /\ InstallsElected /\ ValuesSpent /\ GenerationLast /\ GenerationsOwned

\* Values are positive numbers.
LEMMA ValuesPositive == Values \subseteq Nat /\ 0 \notin Values
<1>1. Cardinality(Controls) \in Nat
  BY FaultsAssumption, FS_CardinalityType
<1> QED BY <1>1, FaultsAssumption DEF Values

\* The invariant holds first.
LEMMA LeaderInvInit == LeaderInit => LeaderInv
<1> SUFFICES ASSUME LeaderInit PROVE LeaderInv
  OBVIOUS
<1>1. LeadersTyped
  BY DEF LeaderInit, LeadersTyped, Rest
<1>2. InstallsElected
  BY DEF LeaderInit, InstallsElected, Rest
<1>3. ValuesSpent /\ GenerationsOwned
  BY DEF LeaderInit, ValuesSpent, GenerationsOwned
<1>4. GenerationLast
  BY DEF LeaderInit, GenerationLast
<1> QED BY <1>1, <1>2, <1>3, <1>4 DEF LeaderInv

\* A control moves and nothing else that the invariant relates to.
LEMMA ControlMoves ==
  ASSUME LeaderInv, NEW k \in Controls,
         NEW c \in [phase : {"idle", "elect", "install", "publish", "collect", "work"},
                    asking : Values \cup {0}, value : Values \cup {0}],
         c.phase \in {"install", "publish"} => c.value # 0,
         control' = [control EXCEPT ![k] = c]
  PROVE  /\ InstallsElected'
         /\ control' \in [Controls -> [phase : {"idle", "elect", "install", "publish", "collect", "work"},
                                       asking : Values \cup {0}, value : Values \cup {0}]]
BY DEF LeaderInv, LeadersTyped, InstallsElected

\* The records a control may become.
LEMMA ControlRecords ==
  ASSUME LeaderInv, NEW k \in Controls, NEW phase \in {"idle", "publish", "collect", "work"}
  PROVE  LET C == [phase : {"idle", "elect", "install", "publish", "collect", "work"},
                   asking : Values \cup {0}, value : Values \cup {0}]
             c == [control[k] EXCEPT !.phase = phase]
         IN /\ Rest \in C /\ Rest.phase = "idle"
            /\ Idle(k) \in C /\ Idle(k).phase = "idle"
            /\ c \in C /\ c.phase = phase /\ c.value = control[k].value
BY DEF LeaderInv, LeadersTyped, Rest, Idle

\* Steps that move one control: the key, the values asked for and the publication stay.
LEMMA QuietControl ==
  ASSUME LeaderInv, UNCHANGED <<leaderKey, asked, record, task, published>>, NEW k \in Controls,
         NEW c \in [phase : {"idle", "elect", "install", "publish", "collect", "work"},
                    asking : Values \cup {0}, value : Values \cup {0}],
         c.phase \in {"install", "publish"} => c.value # 0,
         control' = [control EXCEPT ![k] = c]
  PROVE  LeaderInv'
<1>1. InstallsElected' /\ LeadersTyped'
  BY ControlMoves DEF LeaderInv, LeadersTyped
<1>2. ValuesSpent' /\ GenerationLast' /\ GenerationsOwned'
  BY DEF LeaderInv, ValuesSpent, GenerationLast, GenerationsOwned
<1> QED BY <1>1, <1>2 DEF LeaderInv

\* At(k, phase), as a change of the record of k.
LEMMA AtRecord ==
  ASSUME LeaderInv, NEW k \in Controls, NEW phase
  PROVE  At(k, phase) = [control EXCEPT ![k] = [control[k] EXCEPT !.phase = phase]]
BY DEF At, LeaderInv, LeadersTyped

\* Looking at the key.
LEMMA LookInv == ASSUME LeaderInv, NEW k \in Controls, Look(k) PROVE LeaderInv'
<1>1. CASE Mine(k) /\ control' = At(k, "install") /\ UNCHANGED asked
  <2>1. control[k].value # 0
    BY <1>1 DEF Mine
  <2>2. UNCHANGED <<leaderKey, asked, record, task, published>>
    BY <1>1 DEF Look
  <2> DEFINE c == [control[k] EXCEPT !.phase = "install"]
  <2>3. control' = [control EXCEPT ![k] = c]
    BY <1>1, AtRecord
  <2>4. c \in [phase : {"idle", "elect", "install", "publish", "collect", "work"},
               asking : Values \cup {0}, value : Values \cup {0}] /\ c.value # 0
    BY <2>1 DEF LeaderInv, LeadersTyped
  <2> HIDE DEF c
  <2> QED BY <2>2, <2>3, <2>4, QuietControl
<1>2. CASE leaderKey = 0 /\ \E v \in Values :
             /\ FreshValue(v) /\ asked' = asked \cup {v}
             /\ control' = [control EXCEPT ![k] = [@ EXCEPT !.phase = "elect", !.asking = v]]
  <2>1. PICK v \in Values : /\ FreshValue(v) /\ asked' = asked \cup {v}
                            /\ control' = [control EXCEPT ![k] = [@ EXCEPT !.phase = "elect", !.asking = v]]
    BY <1>2
  <2>2. UNCHANGED <<leaderKey, record, task, published>>
    BY DEF Look
  <2> DEFINE c == [control[k] EXCEPT !.phase = "elect", !.asking = v]
  <2>3. control' = [control EXCEPT ![k] = c]
    BY <2>1
  <2>4. c \in [phase : {"idle", "elect", "install", "publish", "collect", "work"},
               asking : Values \cup {0}, value : Values \cup {0}] /\ c.phase = "elect"
    BY DEF LeaderInv, LeadersTyped
  <2> HIDE DEF c
  <2>5. InstallsElected' /\ LeadersTyped'
    BY <2>1, <2>2, <2>3, <2>4, ControlMoves DEF LeaderInv, LeadersTyped
  <2>6. \A p \in published : p[2] # v
    BY <2>1 DEF FreshValue, Named
  <2>7. ValuesSpent'
    BY <1>2, <2>1, <2>2, <2>6 DEF LeaderInv, ValuesSpent
  <2>8. GenerationLast' /\ GenerationsOwned'
    BY <2>2 DEF LeaderInv, GenerationLast, GenerationsOwned
  <2> QED BY <2>5, <2>7, <2>8 DEF LeaderInv
<1> QED BY <1>1, <1>2 DEF Look

\* A key is created for a value that was asked for: nothing was published for it.
LEMMA KeyCreated ==
  ASSUME LeaderInv, NEW v \in asked, leaderKey' = v, asked' = asked \ {v}, UNCHANGED <<record, published>>
  PROVE  ValuesSpent'
BY DEF LeaderInv, ValuesSpent

\* An election that is heard of.
LEMMA ElectInv == ASSUME LeaderInv, NEW k \in Controls, Elect(k) PROVE LeaderInv'
<1>1. UNCHANGED <<record, task, published>> /\ asked' = asked \ {control[k].asking}
  BY DEF Elect
<1>2. GenerationLast' /\ GenerationsOwned'
  BY <1>1 DEF LeaderInv, GenerationLast, GenerationsOwned
<1>3. CASE /\ leaderKey = 0 /\ control[k].asking \in asked
           /\ leaderKey' = control[k].asking
           /\ control' = [control EXCEPT ![k] = [phase |-> "install", asking |-> 0, value |-> control[k].asking]]
  <2> DEFINE v == control[k].asking
             c == [phase |-> "install", asking |-> 0, value |-> v]
  <2>1. v \in Values /\ v # 0
    BY <1>3, ValuesPositive DEF LeaderInv, LeadersTyped
  <2>2. c \in [phase : {"idle", "elect", "install", "publish", "collect", "work"},
               asking : Values \cup {0}, value : Values \cup {0}] /\ c.value # 0
    BY <2>1
  <2>3. control' = [control EXCEPT ![k] = c]
    BY <1>3
  <2> HIDE DEF c
  <2>4. InstallsElected' /\ LeadersTyped'
    BY <1>1, <1>3, <2>1, <2>2, <2>3, ControlMoves DEF LeaderInv, LeadersTyped
  <2>5. ValuesSpent'
    BY <1>1, <1>3, KeyCreated
  <2> QED BY <1>2, <2>4, <2>5 DEF LeaderInv
<1>4. CASE leaderKey # 0 /\ control' = [control EXCEPT ![k] = Idle(k)] /\ UNCHANGED leaderKey
  <2> DEFINE c == Idle(k)
  <2>1. c \in [phase : {"idle", "elect", "install", "publish", "collect", "work"},
               asking : Values \cup {0}, value : Values \cup {0}] /\ c.phase = "idle"
    BY DEF Idle, Rest, LeaderInv, LeadersTyped
  <2>2. control' = [control EXCEPT ![k] = c]
    BY <1>4
  <2> HIDE DEF c
  <2>3. InstallsElected' /\ LeadersTyped'
    BY <1>1, <1>4, <2>1, <2>2, ControlMoves DEF LeaderInv, LeadersTyped
  <2>4. ValuesSpent'
    BY <1>1, <1>4 DEF LeaderInv, ValuesSpent
  <2> QED BY <1>2, <2>3, <2>4 DEF LeaderInv
<1> QED BY <1>3, <1>4 DEF Elect

\* A creation that nobody waits for.
LEMMA ElectLateInv == ASSUME LeaderInv, NEW v \in Values, ElectLate(v) PROVE LeaderInv'
<1>1. v \in asked /\ leaderKey' = v /\ asked' = asked \ {v} /\ UNCHANGED <<record, control, task, published>>
  BY DEF ElectLate
<1>2. ValuesSpent'
  BY <1>1, KeyCreated
<1> QED BY <1>1, <1>2 DEF LeaderInv, LeadersTyped, InstallsElected, GenerationLast, GenerationsOwned

\* The key goes.
LEMMA LeaderGone == ASSUME LeaderInv, LeaseEnds \/ LeaseLost PROVE LeaderInv'
<1>1. leaderKey' = 0 /\ UNCHANGED <<asked, record, control, task, published>>
  BY DEF LeaseEnds, LeaseLost
<1>2. \A p \in published : p[2] # 0
  BY ValuesPositive DEF LeaderInv, LeadersTyped
<1>3. ValuesSpent'
  BY <1>1, <1>2 DEF LeaderInv, ValuesSpent
<1> QED BY <1>1, <1>3 DEF LeaderInv, LeadersTyped, InstallsElected, GenerationLast, GenerationsOwned


\* A control goes idle, or starts again.
LEMMA GoesIdle ==
  ASSUME LeaderInv, NEW k \in Controls, UNCHANGED <<leaderKey, asked, record, task, published>>,
         control' = [control EXCEPT ![k] = Idle(k)] \/ control' = [control EXCEPT ![k] = Rest]
  PROVE  LeaderInv'
<1>1. "idle" \in {"idle", "publish", "collect", "work"}
  OBVIOUS
<1>2. /\ Rest \in [phase : {"idle", "elect", "install", "publish", "collect", "work"},
                   asking : Values \cup {0}, value : Values \cup {0}] /\ Rest.phase = "idle"
      /\ Idle(k) \in [phase : {"idle", "elect", "install", "publish", "collect", "work"},
                      asking : Values \cup {0}, value : Values \cup {0}] /\ Idle(k).phase = "idle"
  BY <1>1, ControlRecords
<1>3. CASE control' = [control EXCEPT ![k] = Idle(k)]
  BY <1>2, <1>3, QuietControl
<1>4. CASE control' = [control EXCEPT ![k] = Rest]
  BY <1>2, <1>4, QuietControl
<1> QED BY <1>3, <1>4

\* A control goes on, or ends its tick.
LEMMA QuietStep ==
  ASSUME LeaderInv, NEW k \in Controls,
         ElectTimeout(k) \/ TickFails(k) \/ TickUnavailable(k) \/ EndTick(k) \/ ControlRestarts(k)
  PROVE  LeaderInv'
<1>1. UNCHANGED <<leaderKey, asked, record, task, published>>
  BY DEF ElectTimeout, TickFails, TickUnavailable, EndTick, ControlRestarts
<1>2. control' = [control EXCEPT ![k] = Idle(k)] \/ control' = [control EXCEPT ![k] = Rest]
  BY DEF ElectTimeout, TickFails, TickUnavailable, EndTick, ControlRestarts
<1> QED BY <1>1, <1>2, GoesIdle

\* A control that was elected reads the record.
LEMMA InstallReadInv == ASSUME LeaderInv, NEW k \in Controls, InstallRead(k) PROVE LeaderInv'
<1>1. PICK phase \in {"idle", "publish", "collect", "work"} : control' = At(k, phase)
  BY DEF InstallRead
<1> DEFINE c == [control[k] EXCEPT !.phase = phase]
<1>2. control' = [control EXCEPT ![k] = c]
  BY <1>1, AtRecord
<1>3. c \in [phase : {"idle", "elect", "install", "publish", "collect", "work"},
             asking : Values \cup {0}, value : Values \cup {0}] /\ c.value = control[k].value
  BY ControlRecords
<1>4. control[k].value # 0
  BY DEF InstallRead, LeaderInv, InstallsElected
<1>5. UNCHANGED <<leaderKey, asked, record, task, published>>
  BY DEF InstallRead
<1> HIDE DEF c
<1> QED BY <1>2, <1>3, <1>4, <1>5, QuietControl

\* A generation is published: by the value that has the key, and after all the others.
LEMMA PublishedOnce ==
  ASSUME LeaderInv, NEW v \in Values, leaderKey = v, record.owner # v,
         record' = [generation |-> NextGeneration, owner |-> v],
         published' = published \cup {<<NextGeneration, v>>},
         UNCHANGED <<leaderKey, asked, task>>
  PROVE  ValuesSpent' /\ GenerationLast' /\ GenerationsOwned' /\ record'.generation \in Nat /\ published' \subseteq (Nat \X Values)
<1>1. record'.generation = record.generation + 1 /\ record'.owner = v /\ record.generation \in Nat
  BY DEF NextGeneration, LeaderInv, LeadersTyped
<1> DEFINE g == record.generation + 1
<1>2. g \in Nat /\ published' = published \cup {<<g, v>>}
  BY <1>1 DEF NextGeneration
<1>3. \A p \in published : p[1] \in Nat /\ p[1] <= record.generation /\ p[1] # g /\ p[2] # v
  BY <1>1 DEF LeaderInv, LeadersTyped, GenerationLast, ValuesSpent
<1>4. \A p \in published' : p \in published \/ (p[1] = g /\ p[2] = v)
  BY <1>2
<1>5. ValuesSpent'
  <2>1. v # 0 /\ v \notin asked
    BY ValuesPositive DEF LeaderInv, ValuesSpent
  <2> QED BY <1>1, <1>3, <1>4, <2>1 DEF LeaderInv, ValuesSpent
<1>6. GenerationLast'
  <2>1. \A t \in Tasks : task[t].generation \in Nat /\ task[t].generation <= record.generation
    BY DEF LeaderInv, LeadersTyped, GenerationLast
  <2> QED BY <1>1, <1>3, <1>4, <2>1 DEF GenerationLast
<1>7. GenerationsOwned'
  <2> HIDE DEF g
  <2>1. \A p, q \in published : p[1] = q[1] <=> p[2] = q[2]
    BY DEF LeaderInv, GenerationsOwned
  <2> QED BY <1>3, <1>4, <2>1 DEF GenerationsOwned
<1> QED BY <1>1, <1>2, <1>5, <1>6, <1>7 DEF LeaderInv, LeadersTyped

\* The transaction that publishes.
LEMMA InstallPublishInv == ASSUME LeaderInv, NEW k \in Controls, NEW heard \in BOOLEAN, InstallPublish(k, heard) PROVE LeaderInv'
<1>1. PICK c \in [phase : {"idle", "elect", "install", "publish", "collect", "work"},
                  asking : Values \cup {0}, value : Values \cup {0}] :
        c.phase \in {"idle", "collect"} /\ control' = [control EXCEPT ![k] = c]
  <2>1. CASE control' = At(k, "collect")
    <3> DEFINE c == [control[k] EXCEPT !.phase = "collect"]
    <3>1. c \in [phase : {"idle", "elect", "install", "publish", "collect", "work"},
                 asking : Values \cup {0}, value : Values \cup {0}] /\ c.phase = "collect"
      BY ControlRecords
    <3>2. control' = [control EXCEPT ![k] = c]
      BY <2>1, AtRecord
    <3> QED BY <3>1, <3>2
  <2>2. CASE control' = [control EXCEPT ![k] = Idle(k)]
    <3>1. Idle(k) \in [phase : {"idle", "elect", "install", "publish", "collect", "work"},
                       asking : Values \cup {0}, value : Values \cup {0}] /\ Idle(k).phase = "idle"
      BY DEF Idle, Rest, LeaderInv, LeadersTyped
    <3> QED BY <2>2, <3>1
  <2> QED BY <2>1, <2>2 DEF InstallPublish
<1>2. UNCHANGED <<leaderKey, asked, task>>
  BY DEF InstallPublish
<1>3. CASE UNCHANGED <<record, published>>
  BY <1>1, <1>2, <1>3, QuietControl
<1>4. CASE ~UNCHANGED <<record, published>>
  <2> DEFINE v == control[k].value
  <2>1. /\ v # 0 /\ leaderKey = v /\ record.owner # v
        /\ record' = [generation |-> NextGeneration, owner |-> v]
        /\ published' = published \cup {<<NextGeneration, v>>}
    BY <1>4 DEF InstallPublish, Holds, LeaderInv, InstallsElected
  <2>2. v \in Values
    BY <2>1 DEF LeaderInv, LeadersTyped
  <2> HIDE DEF v
  <2>3. ValuesSpent' /\ GenerationLast' /\ GenerationsOwned' /\ record'.generation \in Nat /\ published' \subseteq (Nat \X Values)
    BY <1>2, <2>1, <2>2, PublishedOnce
  <2>4. InstallsElected' /\ LeadersTyped'
    BY <1>1, <1>2, <2>3, ControlMoves DEF LeaderInv, LeadersTyped
  <2> QED BY <2>3, <2>4 DEF LeaderInv
<1> QED BY <1>3, <1>4

\* Tasks change, and keep a generation that is not later than the recorded one.
LEMMA TasksChange ==
  ASSUME LeaderInv, UNCHANGED <<leaderKey, asked, record, published>>,
         control' \in [Controls -> [phase : {"idle", "elect", "install", "publish", "collect", "work"},
                                    asking : Values \cup {0}, value : Values \cup {0}]],
         InstallsElected',
         task' \in [Tasks -> [state : {"none", "ACTIVE", "FAILED", "FINISHED"}, generation : Nat, owner : Nat]],
         \A t \in Tasks : task'[t].generation \in {task[t].generation, record.generation}
  PROVE  LeaderInv'
<1>1. GenerationLast'
  <2>1. \A t \in Tasks : task[t].generation <= record.generation /\ record.generation \in Nat
    BY DEF LeaderInv, LeadersTyped, GenerationLast
  <2> QED BY <2>1 DEF LeaderInv, GenerationLast
<1> QED BY <1>1 DEF LeaderInv, LeadersTyped, ValuesSpent, GenerationsOwned

\* The tick fails the tasks of other generations, which are all earlier.
LEMMA CollectTasksInv == ASSUME LeaderInv, NEW k \in Controls, CollectTasks(k) PROVE LeaderInv'
<1> DEFINE c == [control[k] EXCEPT !.phase = "work"]
<1>1. c \in [phase : {"idle", "elect", "install", "publish", "collect", "work"},
             asking : Values \cup {0}, value : Values \cup {0}] /\ c.phase = "work"
  BY ControlRecords
<1>2. control' = [control EXCEPT ![k] = c]
  BY AtRecord DEF CollectTasks
<1> HIDE DEF c
<1>3. /\ InstallsElected'
      /\ control' \in [Controls -> [phase : {"idle", "elect", "install", "publish", "collect", "work"},
                                    asking : Values \cup {0}, value : Values \cup {0}]]
  BY <1>1, <1>2, ControlMoves
<1>4. \A t \in Tasks : /\ task'[t] \in [state : {"none", "ACTIVE", "FAILED", "FINISHED"}, generation : Nat, owner : Nat]
                       /\ task'[t].generation = task[t].generation
  BY DEF CollectTasks, Failed, LeaderInv, LeadersTyped
<1>5. task' \in [Tasks -> [state : {"none", "ACTIVE", "FAILED", "FINISHED"}, generation : Nat, owner : Nat]]
  BY <1>4 DEF CollectTasks, Failed
<1> QED BY <1>3, <1>4, <1>5, TasksChange DEF CollectTasks

\* Active tasks fail, in a leader's tick or by an administrator's command.
LEMMA FailedInv ==
  ASSUME LeaderInv, NEW S, DisableNode(S) \/ \E k \in Controls : CollectCopies(k, S)
  PROVE  LeaderInv'
<1>1. UNCHANGED <<leaderKey, asked, record, control, published>> /\ task' = Failed(S)
  BY DEF DisableNode, CollectCopies
<1>2. \A t \in Tasks : /\ task'[t] \in [state : {"none", "ACTIVE", "FAILED", "FINISHED"}, generation : Nat, owner : Nat]
                       /\ task'[t].generation = task[t].generation
  BY <1>1 DEF Failed, LeaderInv, LeadersTyped
<1>3. task' \in [Tasks -> [state : {"none", "ACTIVE", "FAILED", "FINISHED"}, generation : Nat, owner : Nat]]
  BY <1>1, <1>2 DEF Failed
<1>4. InstallsElected' /\ control' \in [Controls -> [phase : {"idle", "elect", "install", "publish", "collect", "work"},
                                                    asking : Values \cup {0}, value : Values \cup {0}]]
  BY <1>1 DEF LeaderInv, LeadersTyped, InstallsElected
<1> QED BY <1>1, <1>2, <1>3, <1>4, TasksChange

\* A task is made, or reported on.
LEMMA TaskInv ==
  ASSUME LeaderInv, NEW t \in Tasks, (\E byTick \in BOOLEAN : NewTask(t, byTick)) \/ (\E state \in {"FAILED", "FINISHED"} : ReportTask(t, state))
  PROVE  LeaderInv'
<1>1. UNCHANGED <<leaderKey, asked, record, control, published>>
  BY DEF NewTask, ReportTask
<1>2. PICK x \in [state : {"none", "ACTIVE", "FAILED", "FINISHED"}, generation : Nat, owner : Nat] :
        x.generation \in {task[t].generation, record.generation} /\ task' = [task EXCEPT ![t] = x]
  <2>1. CASE \E byTick \in BOOLEAN : NewTask(t, byTick)
    <3> DEFINE x == [state |-> "ACTIVE", generation |-> record.generation, owner |-> record.owner]
    <3>1. record.owner \in Nat
      BY <2>1, ValuesPositive DEF NewTask, LeaderLive, LeaderInv, LeadersTyped
    <3>2. x \in [state : {"none", "ACTIVE", "FAILED", "FINISHED"}, generation : Nat, owner : Nat]
      BY <3>1 DEF LeaderInv, LeadersTyped
    <3>3. task' = [task EXCEPT ![t] = x]
      BY <2>1 DEF NewTask
    <3> QED BY <3>2, <3>3
  <2>2. ASSUME NEW state \in {"FAILED", "FINISHED"}, ReportTask(t, state)
        PROVE  \E x \in [state : {"none", "ACTIVE", "FAILED", "FINISHED"}, generation : Nat, owner : Nat] :
                 x.generation \in {task[t].generation, record.generation} /\ task' = [task EXCEPT ![t] = x]
    <3> DEFINE x == [task[t] EXCEPT !.state = state]
    <3>1. x \in [state : {"none", "ACTIVE", "FAILED", "FINISHED"}, generation : Nat, owner : Nat] /\ x.generation = task[t].generation
      BY DEF LeaderInv, LeadersTyped
    <3>2. task' = [task EXCEPT ![t] = x]
      BY <2>2 DEF ReportTask, LeaderInv, LeadersTyped
    <3> QED BY <3>1, <3>2
  <2> QED BY <2>1, <2>2
<1>3. /\ task' \in [Tasks -> [state : {"none", "ACTIVE", "FAILED", "FINISHED"}, generation : Nat, owner : Nat]]
      /\ \A u \in Tasks : task'[u].generation \in {task[u].generation, record.generation}
  BY <1>2 DEF LeaderInv, LeadersTyped
<1>4. InstallsElected' /\ control' \in [Controls -> [phase : {"idle", "elect", "install", "publish", "collect", "work"},
                                                    asking : Values \cup {0}, value : Values \cup {0}]]
  BY <1>1 DEF LeaderInv, LeadersTyped, InstallsElected
<1> QED BY <1>1, <1>3, <1>4, TasksChange

\* Every step keeps the invariant.
LEMMA LeaderInvNext == LeaderInv /\ [LeaderNext]_leaderVars => LeaderInv'
<1> SUFFICES ASSUME LeaderInv, [LeaderNext]_leaderVars PROVE LeaderInv'
  OBVIOUS
<1>1. ASSUME NEW k \in Controls, ControlStep(k) PROVE LeaderInv'
  BY <1>1, LookInv, ElectInv, InstallReadInv, InstallPublishInv, QuietStep, CollectTasksInv DEF ControlStep
<1>2. ASSUME NEW k \in Controls, ControlRestarts(k) \/ ElectTimeout(k) \/ InstallPublish(k, FALSE) \/ TickUnavailable(k) PROVE LeaderInv'
  BY <1>2, QuietStep, InstallPublishInv
<1>3. CASE UNCHANGED leaderVars
  BY <1>3 DEF leaderVars, LeaderInv, LeadersTyped, InstallsElected, ValuesSpent, GenerationLast, GenerationsOwned
<1> QED BY <1>1, <1>2, <1>3, ElectLateInv, TaskInv, FailedInv, LeaderGone DEF LeaderNext

\* A task changes in the name of the leader that has the key, or an active one fails.
LEMMA TaskStep ==
  ASSUME LeaderInv, [LeaderNext]_leaderVars, NEW t \in Tasks, task'[t] # task[t]
  PROVE  \/ task'[t].owner = leaderKey /\ leaderKey # 0
         \/ task[t].state = "ACTIVE" /\ task'[t] = [task[t] EXCEPT !.state = "FAILED"]
<1>1. ASSUME NEW S, S \subseteq ActiveTasks, task' = Failed(S)
      PROVE  task[t].state = "ACTIVE" /\ task'[t] = [task[t] EXCEPT !.state = "FAILED"]
  BY <1>1 DEF Failed, ActiveTasks
<1>5. \A k \in Controls : CollectTasks(k) => task' = Failed({u \in Tasks : Outdated(u)}) /\ {u \in Tasks : Outdated(u)} \subseteq ActiveTasks
  BY DEF CollectTasks, Outdated
<1>6. \A S : (DisableNode(S) \/ \E k \in Controls : CollectCopies(k, S)) => S \subseteq ActiveTasks /\ task' = Failed(S)
  BY DEF DisableNode, CollectCopies
<1>2. ASSUME NEW u \in Tasks, \E byTick \in BOOLEAN : NewTask(u, byTick) PROVE task'[t].owner = leaderKey /\ leaderKey # 0
  <2>1. task' = [task EXCEPT ![u] = [state |-> "ACTIVE", generation |-> record.generation, owner |-> record.owner]]
    BY <1>2 DEF NewTask
  <2>2. u = t
    BY <2>1 DEF LeaderInv, LeadersTyped
  <2>3. task'[t].owner = record.owner
    BY <2>1, <2>2 DEF LeaderInv, LeadersTyped
  <2> QED BY <1>2, <2>3 DEF NewTask, LeaderLive
<1>3. ASSUME NEW u \in Tasks, NEW state \in {"FAILED", "FINISHED"}, ReportTask(u, state) PROVE task'[t].owner = leaderKey /\ leaderKey # 0
  <2>1. task' = [task EXCEPT ![u].state = state]
    BY <1>3 DEF ReportTask
  <2>2. u = t
    BY <2>1 DEF LeaderInv, LeadersTyped
  <2>3. task'[t].owner = task[t].owner
    BY <2>1, <2>2 DEF LeaderInv, LeadersTyped
  <2> QED BY <1>3, <2>2, <2>3 DEF ReportTask, TaskOwned, LeaderLive
<1>4. \/ \E k \in Controls : CollectTasks(k)
      \/ \E S \in SUBSET Tasks : DisableNode(S) \/ \E k \in Controls : CollectCopies(k, S)
      \/ \E u \in Tasks : (\E byTick \in BOOLEAN : NewTask(u, byTick)) \/ (\E state \in {"FAILED", "FINISHED"} : ReportTask(u, state))
  BY DEF LeaderNext, ControlStep, leaderVars, Look, Elect, InstallRead, InstallPublish, TickFails, EndTick, ControlRestarts,
         ElectTimeout, TickUnavailable, ElectLate, LeaseEnds, LeaseLost
<1> QED BY <1>1, <1>2, <1>3, <1>4, <1>5, <1>6

\* Two leaders are never taken for one another and of what a deposed one ordered nothing is
\* finished, for any number of controls, tasks and faults (take_maintenance,
\* install_maintenance_generation, check_task_owner, collect, SetNodeAuthorization).
THEOREM LeadersStayApart == LeaderSpec => LeadersApart
<1>1. LeaderSpec => []LeaderInv
  BY LeaderInvInit, LeaderInvNext, PTL DEF LeaderSpec
<1>2. LeaderInv => GenerationsOwned
  BY DEF LeaderInv
<1>3. ASSUME LeaderInv, [LeaderNext]_leaderVars
      PROVE  \A t \in Tasks : task'[t] # task[t] =>
               \/ task'[t].owner = leaderKey /\ leaderKey # 0
               \/ task[t].state = "ACTIVE" /\ task'[t] = [task[t] EXCEPT !.state = "FAILED"]
  BY <1>3, TaskStep
<1>4. LeaderSpec => DeposedLeaderPowerless
  BY <1>1, <1>3, PTL DEF LeaderSpec, DeposedLeaderPowerless
<1> QED BY <1>1, <1>2, <1>4, PTL DEF LeadersApart


-----------------------------------------------------------------------------
(* BlockGC.                                                                 *)

\* Allocations are made by uploads that were begun.
UploadsBegun == \A o \in Ops : o > seq => ops[o].state = "NONE" /\ ops[o].allocations = {}

\* A put is of an allocated block; once it has written, the file is there.
PutsAllocated ==
  \A s \in Streams : streams[s].kind = "put" =>
    /\ streams[s].block \in Blocks
    /\ streams[s].block[2] \in ops[streams[s].block[1]].allocations
    /\ streams[s].phase = "written" => streams[s].block \in disk

\* A put has its pin alone.
PutsAlone ==
  \A s, t \in Streams : s # t /\ HasPin(s) /\ HasPin(t) /\ streams[s].block = streams[t].block => streams[s].kind # "put"

\* Receipts are of allocated blocks.
RecordsAllocated == \A b \in records : b[2] \in ops[b[1]].allocations

\* Between its halves the collector retains what is needed, but for the young blocks.
RetainedNeeded ==
  gc.phase = "files" =>
    /\ \A b \in Blocks : ops[b[1]].state = "PREPARING" /\ b[2] \in ops[b[1]].allocations => b \in gc.retained \cup young
    /\ \A b \in records \ young : Needed(b) => b \in gc.retained

BlocksInv ==
  TypeOK /\ UploadsBegun /\ PutsAllocated /\ PutsAlone /\ RecordsAllocated /\ RetainedNeeded /\ BlocksKept

\* A block is an upload and a part.
LEMMA BlockPair == ASSUME NEW b \in Blocks PROVE b[1] \in Ops /\ b[2] \in Parts /\ b = <<b[1], b[2]>>
BY DEF Blocks

\* Uploads are numbers.
LEMMA OpsNumbers == Ops \subseteq Nat /\ 0 \notin Ops /\ Ops \cup {0} = 0..MaxOps
BY OpsAssumption DEF Ops

\* The invariant holds first.
LEMMA BlocksInvInit == Init => BlocksInv
<1> SUFFICES ASSUME Init PROVE BlocksInv
  OBVIOUS
<1>1. TypeOK
  BY OpsAssumption DEF Init, TypeOK, NoOp, Op, UploadStates, Handle, NoStream, Stream, StreamKinds, StreamPhases
<1>2. UploadsBegun
  BY DEF Init, UploadsBegun, NoOp
<1>3. PutsAllocated /\ PutsAlone
  BY DEF Init, PutsAllocated, PutsAlone, HasPin, NoStream
<1>4. RecordsAllocated
  BY DEF Init, RecordsAllocated
<1>5. RetainedNeeded
  BY DEF Init, RetainedNeeded
<1>6. BlocksKept
  BY DEF Init, BlocksKept, Pinning
<1> QED BY <1>1, <1>2, <1>3, <1>4, <1>5, <1>6 DEF BlocksInv

\* One upload's record changes: it was being prepared before if it is now, its allocations
\* are the same, and so is everything else.
LEMMA UploadMoves ==
  ASSUME BlocksInv, NEW o \in Ops, NEW x \in Op, ops' = [ops EXCEPT ![o] = x],
         x.state = "PREPARING" => ops[o].state = "PREPARING", x.allocations = ops[o].allocations, ops[o].state # "NONE",
         UNCHANGED <<current, snapshots, records, disk, staging, handles, streams, gc, young, seq>>
  PROVE  BlocksInv'
<1>1. TypeOK'
  BY DEF BlocksInv, TypeOK
<1>2. UploadsBegun'
  BY DEF BlocksInv, UploadsBegun, TypeOK
<1>3. \A p \in Ops : ops'[p].allocations = ops[p].allocations /\ (ops'[p].state = "PREPARING" => ops[p].state = "PREPARING")
  BY DEF BlocksInv, TypeOK
<1>4. \A b \in Blocks : b[1] \in Ops
  BY BlockPair
<1>5. records \subseteq Blocks
  BY DEF BlocksInv, TypeOK
<1>6. PutsAllocated'
  BY <1>3, <1>4 DEF BlocksInv, PutsAllocated
<1>7. PutsAlone'
  BY DEF BlocksInv, PutsAlone, HasPin
<1>8. RecordsAllocated'
  BY <1>3, <1>4, <1>5 DEF BlocksInv, RecordsAllocated
<1>9. RetainedNeeded'
  BY <1>3, <1>4, <1>5 DEF BlocksInv, RetainedNeeded, Needed
<1>10. BlocksKept'
  BY <1>3, <1>4, <1>5 DEF BlocksInv, BlocksKept, Needed, Pinning
<1> QED BY <1>1, <1>2, <1>6, <1>7, <1>8, <1>9, <1>10 DEF BlocksInv


\* The steps of an upload that change nothing but its record.
LEMMA UploadSteps ==
  ASSUME BlocksInv, NEW o \in Ops, StageManifestPage(o) \/ SealManifest(o) \/ AbortUpload(o) \/ UploadExpires(o)
  PROVE  BlocksInv'
<1>1. ops[o] \in Op /\ ops \in [Ops -> Op]
  BY DEF BlocksInv, TypeOK
<1>2. ops[o].state # "NONE"
  BY DEF StageManifestPage, SealManifest, AbortUpload, UploadExpires, OperationOk
<1>4. UNCHANGED <<current, snapshots, records, disk, staging, handles, streams, gc, young, seq>>
  BY DEF StageManifestPage, SealManifest, AbortUpload, UploadExpires
<1>5. PICK x \in Op : /\ ops' = [ops EXCEPT ![o] = x] /\ x.allocations = ops[o].allocations
                      /\ x.state = "PREPARING" => ops[o].state = "PREPARING"
  <2>1. CASE ops' = [ops EXCEPT ![o].paged = TRUE]
    <3> DEFINE x == [ops[o] EXCEPT !.paged = TRUE]
    <3>1. x \in Op /\ x.allocations = ops[o].allocations /\ x.state = ops[o].state
      BY <1>1 DEF Op
    <3>2. ops' = [ops EXCEPT ![o] = x]
      BY <1>1, <2>1
    <3> QED BY <3>1, <3>2
  <2>2. CASE ops' = [ops EXCEPT ![o].sealed = TRUE]
    <3> DEFINE x == [ops[o] EXCEPT !.sealed = TRUE]
    <3>1. x \in Op /\ x.allocations = ops[o].allocations /\ x.state = ops[o].state
      BY <1>1 DEF Op
    <3>2. ops' = [ops EXCEPT ![o] = x]
      BY <1>1, <2>2
    <3> QED BY <3>1, <3>2
  <2>3. CASE ops' = [ops EXCEPT ![o].state = "ABORTED"]
    <3> DEFINE x == [ops[o] EXCEPT !.state = "ABORTED"]
    <3>1. x \in Op /\ x.allocations = ops[o].allocations /\ x.state = "ABORTED"
      BY <1>1 DEF Op, UploadStates
    <3>2. ops' = [ops EXCEPT ![o] = x]
      BY <1>1, <2>3
    <3> QED BY <3>1, <3>2
  <2>4. CASE ops' = [ops EXCEPT ![o].live = FALSE]
    <3> DEFINE x == [ops[o] EXCEPT !.live = FALSE]
    <3>1. x \in Op /\ x.allocations = ops[o].allocations /\ x.state = ops[o].state
      BY <1>1 DEF Op
    <3>2. ops' = [ops EXCEPT ![o] = x]
      BY <1>1, <2>4
    <3> QED BY <3>1, <3>2
  <2> QED BY <2>1, <2>2, <2>3, <2>4 DEF StageManifestPage, SealManifest, AbortUpload, UploadExpires
<1> QED BY <1>2, <1>4, <1>5, UploadMoves

\* An upload begins: nothing was allocated under its number.
LEMMA BeginUploadInv == ASSUME BlocksInv, BeginUpload PROVE BlocksInv'
<1> DEFINE o == seq + 1
           x == [NoOp EXCEPT !.state = "PREPARING", !.live = TRUE, !.base = current]
<1>1. o \in Ops /\ seq \in Nat /\ ops[o].allocations = {} /\ seq' = o
  BY OpsAssumption DEF BeginUpload, BlocksInv, TypeOK, UploadsBegun, Ops
<1>2. x \in Op /\ x.state = "PREPARING" /\ x.allocations = {} /\ ops[o].allocations = {}
  <2>1. current \in 0..MaxOps
    BY DEF BlocksInv, TypeOK
  <2>2. NoOp \in Op /\ NoOp.allocations = {}
    BY OpsAssumption DEF NoOp, Op, UploadStates
  <2> QED BY <1>1, <2>1, <2>2 DEF Op, UploadStates
<1>3. ops' = [ops EXCEPT ![o] = x] /\ UNCHANGED <<current, snapshots, records, disk, staging, handles, streams, gc, young>>
  BY DEF BeginUpload
<1> HIDE DEF x
<1>4. ops' \in [Ops -> Op] /\ ops \in [Ops -> Op] /\ ops'[o] = x /\ \A p \in Ops : p # o => ops'[p] = ops[p]
  BY <1>1, <1>2, <1>3 DEF BlocksInv, TypeOK
<1>5. \A p \in Ops : ops'[p].allocations = ops[p].allocations
  BY <1>2, <1>4
<1>6. \A b \in Blocks : b[1] \in Ops
  BY BlockPair
<1>7. records \subseteq Blocks
  BY DEF BlocksInv, TypeOK
<1>8. \A b \in records : b[1] # o
  BY <1>2 DEF BlocksInv, RecordsAllocated
<1>9. TypeOK'
  BY <1>1, <1>3, <1>4, OpsAssumption DEF BlocksInv, TypeOK, Ops
<1>10. UploadsBegun'
  BY <1>1, <1>3, <1>4, OpsNumbers DEF BlocksInv, UploadsBegun
<1>11. PutsAllocated'
  BY <1>3, <1>5, <1>6 DEF BlocksInv, PutsAllocated
<1>12. PutsAlone'
  BY <1>3 DEF BlocksInv, PutsAlone, HasPin
<1>13. RecordsAllocated'
  BY <1>3, <1>5, <1>6, <1>7 DEF BlocksInv, RecordsAllocated
<1>14. \A b \in records : Needed(b)' => Needed(b)
  BY <1>3, <1>4, <1>6, <1>7, <1>8 DEF Needed
<1>15. RetainedNeeded'
  <2> SUFFICES ASSUME gc.phase = "files"
               PROVE  /\ \A b \in Blocks : ops'[b[1]].state = "PREPARING" /\ b[2] \in ops'[b[1]].allocations => b \in gc.retained \cup young
                      /\ \A b \in records \ young : Needed(b)' => b \in gc.retained
    BY <1>3 DEF RetainedNeeded
  <2>1. \A b \in Blocks : ops'[b[1]].state = "PREPARING" /\ b[2] \in ops'[b[1]].allocations => b \in gc.retained \cup young
    BY <1>2, <1>4, <1>6 DEF BlocksInv, RetainedNeeded
  <2>2. \A b \in records \ young : Needed(b)' => b \in gc.retained
    BY <1>14 DEF BlocksInv, RetainedNeeded
  <2> QED BY <2>1, <2>2
<1>16. BlocksKept'
  <2>1. \A b \in records \ young : Needed(b)' => b \in disk
    BY <1>14 DEF BlocksInv, BlocksKept
  <2> QED BY <1>3, <2>1 DEF BlocksInv, BlocksKept, Pinning
<1> QED BY <1>9, <1>10, <1>11, <1>12, <1>13, <1>15, <1>16 DEF BlocksInv

\* A block is allocated: between the halves of a collection it is young.
LEMMA AllocateBlocksInv == ASSUME BlocksInv, NEW o \in Ops, NEW i \in Parts, AllocateBlocks(o, i) PROVE BlocksInv'
<1> DEFINE x == [ops[o] EXCEPT !.allocations = @ \cup {i}]
<1>1. ops \in [Ops -> Op] /\ ops[o] \in Op
  BY DEF BlocksInv, TypeOK
<1>2. x \in Op /\ x.allocations = ops[o].allocations \cup {i} /\ x.state = ops[o].state
  BY <1>1 DEF Op
<1>3. ops' = [ops EXCEPT ![o] = x] /\ UNCHANGED <<current, snapshots, records, disk, staging, handles, streams, gc, seq>>
  BY <1>1 DEF AllocateBlocks
<1>4. young' = IF gc.phase = "files" THEN young \cup {<<o, i>>} ELSE young
  BY DEF AllocateBlocks
<1>5. ops[o].state # "NONE"
  BY DEF AllocateBlocks, OperationOk
<1> HIDE DEF x
<1>6. ops' \in [Ops -> Op] /\ ops'[o] = x /\ \A p \in Ops : p # o => ops'[p] = ops[p]
  BY <1>1, <1>2, <1>3
<1>7. \A p \in Ops : ops[p].allocations \subseteq ops'[p].allocations /\ ops'[p].state = ops[p].state
  BY <1>2, <1>6
<1>8. \A b \in Blocks : b[1] \in Ops /\ b[2] \in Parts /\ b = <<b[1], b[2]>>
  BY BlockPair
<1>9. records \subseteq Blocks
  BY DEF BlocksInv, TypeOK
<1>10. <<o, i>> \in Blocks
  BY DEF Blocks
<1>11. TypeOK'
  BY <1>3, <1>4, <1>6, <1>10 DEF BlocksInv, TypeOK
<1>12. UploadsBegun'
  BY <1>3, <1>5, <1>6 DEF BlocksInv, UploadsBegun
<1>13. PutsAllocated'
  BY <1>3, <1>7, <1>8 DEF BlocksInv, PutsAllocated
<1>14. PutsAlone'
  BY <1>3 DEF BlocksInv, PutsAlone, HasPin
<1>15. RecordsAllocated'
  BY <1>3, <1>7, <1>8, <1>9 DEF BlocksInv, RecordsAllocated
<1>16. \A b \in records : Needed(b)' => Needed(b)
  BY <1>3, <1>7, <1>8, <1>9 DEF Needed
<1>17. RetainedNeeded'
  <2> SUFFICES ASSUME gc.phase = "files"
               PROVE  /\ \A b \in Blocks : ops'[b[1]].state = "PREPARING" /\ b[2] \in ops'[b[1]].allocations => b \in gc.retained \cup young'
                      /\ \A b \in records \ young' : Needed(b)' => b \in gc.retained
    BY <1>3 DEF RetainedNeeded
  <2>1. young' = young \cup {<<o, i>>}
    BY <1>4
  <2>2. ASSUME NEW b \in Blocks, ops'[b[1]].state = "PREPARING", b[2] \in ops'[b[1]].allocations PROVE b \in gc.retained \cup young'
    <3>1. CASE b = <<o, i>>
      BY <2>1, <3>1
    <3>2. CASE b # <<o, i>>
      <4>1. b[2] \in ops[b[1]].allocations /\ ops[b[1]].state = "PREPARING"
        BY <1>2, <1>6, <1>7, <1>8, <2>2, <3>2
      <4> QED BY <2>1, <4>1 DEF BlocksInv, RetainedNeeded
    <3> QED BY <3>1, <3>2
  <2>3. \A b \in records \ young' : Needed(b)' => b \in gc.retained
    BY <1>16, <2>1 DEF BlocksInv, RetainedNeeded
  <2> QED BY <2>2, <2>3
<1>18. BlocksKept'
  <2>1. \A b \in records \ young' : Needed(b)' => b \in disk
    BY <1>4, <1>16 DEF BlocksInv, BlocksKept
  <2> QED BY <1>3, <2>1 DEF BlocksInv, BlocksKept, Pinning
<1> QED BY <1>11, <1>12, <1>13, <1>14, <1>15, <1>17, <1>18 DEF BlocksInv

\* An upload is committed: its blocks, needed before, are needed still.
LEMMA CommitUploadInv == ASSUME BlocksInv, NEW o \in Ops, CommitUpload(o) PROVE BlocksInv'
<1> DEFINE x == [ops[o] EXCEPT !.state = "COMMITTED"]
<1>1. ops \in [Ops -> Op] /\ ops[o] \in Op
  BY DEF BlocksInv, TypeOK
<1>2. x \in Op /\ x.allocations = ops[o].allocations /\ x.state = "COMMITTED"
  BY <1>1 DEF Op, UploadStates
<1>3. ops' = [ops EXCEPT ![o] = x] /\ UNCHANGED <<records, disk, staging, handles, streams, gc, young, seq>>
  BY <1>1 DEF CommitUpload
<1>4. ops[o].state = "PREPARING" /\ BlocksOf(o) \subseteq records
  BY DEF CommitUpload, OperationOk
<1>5. snapshots' = snapshots \cup {o} /\ current' = o
  BY DEF CommitUpload
<1> HIDE DEF x
<1>6. ops' \in [Ops -> Op] /\ ops'[o] = x /\ \A p \in Ops : p # o => ops'[p] = ops[p]
  BY <1>1, <1>2, <1>3
<1>7. \A p \in Ops : ops'[p].allocations = ops[p].allocations /\ (ops'[p].state = "PREPARING" => ops[p].state = "PREPARING")
  BY <1>2, <1>6
<1>8. \A b \in Blocks : b[1] \in Ops
  BY BlockPair
<1>9. records \subseteq Blocks /\ snapshots \subseteq Ops
  BY DEF BlocksInv, TypeOK
<1>10. TypeOK'
  BY <1>3, <1>5, <1>6, OpsNumbers DEF BlocksInv, TypeOK
<1>11. UploadsBegun'
  BY <1>3, <1>4, <1>6 DEF BlocksInv, UploadsBegun
<1>12. PutsAllocated'
  BY <1>3, <1>7, <1>8 DEF BlocksInv, PutsAllocated
<1>13. PutsAlone'
  BY <1>3 DEF BlocksInv, PutsAlone, HasPin
<1>14. RecordsAllocated'
  BY <1>3, <1>7, <1>8, <1>9 DEF BlocksInv, RecordsAllocated
<1>15. \A b \in records : Needed(b)' => Needed(b)
  BY <1>3, <1>4, <1>5, <1>7, <1>8, <1>9 DEF Needed
<1>16. RetainedNeeded'
  <2> SUFFICES ASSUME gc.phase = "files"
               PROVE  /\ \A b \in Blocks : ops'[b[1]].state = "PREPARING" /\ b[2] \in ops'[b[1]].allocations => b \in gc.retained \cup young
                      /\ \A b \in records \ young : Needed(b)' => b \in gc.retained
    BY <1>3 DEF RetainedNeeded
  <2>1. \A b \in Blocks : ops'[b[1]].state = "PREPARING" /\ b[2] \in ops'[b[1]].allocations => b \in gc.retained \cup young
    BY <1>7, <1>8 DEF BlocksInv, RetainedNeeded
  <2>2. \A b \in records \ young : Needed(b)' => b \in gc.retained
    BY <1>15 DEF BlocksInv, RetainedNeeded
  <2> QED BY <2>1, <2>2
<1>17. BlocksKept'
  <2>1. \A b \in records \ young : Needed(b)' => b \in disk
    BY <1>15 DEF BlocksInv, BlocksKept
  <2> QED BY <1>3, <1>4, <1>5, <2>1 DEF BlocksInv, BlocksKept, Pinning
<1> QED BY <1>10, <1>11, <1>12, <1>13, <1>14, <1>16, <1>17 DEF BlocksInv


\* The name goes, and the uploads over it are aborted.
LEMMA RemoveInv == ASSUME BlocksInv, Remove PROVE BlocksInv'
<1>1. current' = 0 /\ UNCHANGED <<snapshots, records, disk, staging, handles, streams, gc, young, seq>>
  BY DEF Remove
<1>2. ops' = [o \in Ops |-> IF ops[o].state = "PREPARING" /\ ops[o].base # 0
                            THEN [ops[o] EXCEPT !.state = "ABORTED"] ELSE ops[o]]
  BY DEF Remove
<1>3. ops \in [Ops -> Op]
  BY DEF BlocksInv, TypeOK
<1>4. \A p \in Ops : /\ ops'[p] \in Op /\ ops'[p].allocations = ops[p].allocations
                     /\ ops'[p].state = "PREPARING" => ops[p].state = "PREPARING"
                     /\ ops[p].state = "NONE" => ops'[p].state = "NONE"
  <2> SUFFICES ASSUME NEW p \in Ops
               PROVE  /\ ops'[p] \in Op /\ ops'[p].allocations = ops[p].allocations
                      /\ ops'[p].state = "PREPARING" => ops[p].state = "PREPARING"
                      /\ ops[p].state = "NONE" => ops'[p].state = "NONE"
    OBVIOUS
  <2>1. ops[p] \in Op
    BY <1>3
  <2>2. CASE ops'[p] = ops[p]
    BY <2>1, <2>2
  <2>3. CASE ops'[p] = [ops[p] EXCEPT !.state = "ABORTED"] /\ ops[p].state = "PREPARING"
    BY <2>1, <2>3 DEF Op, UploadStates
  <2> QED BY <1>2, <2>2, <2>3
<1>5. \A b \in Blocks : b[1] \in Ops
  BY BlockPair
<1>6. records \subseteq Blocks
  BY DEF BlocksInv, TypeOK
<1>7. TypeOK'
  <2>1. ops' \in [Ops -> Op]
    BY <1>2, <1>4
  <2>2. current' \in 0..MaxOps
    BY <1>1, OpsAssumption
  <2> QED BY <1>1, <2>1, <2>2 DEF BlocksInv, TypeOK
<1>8. UploadsBegun'
  BY <1>1, <1>4 DEF BlocksInv, UploadsBegun
<1>9. PutsAllocated'
  BY <1>1, <1>4, <1>5 DEF BlocksInv, PutsAllocated
<1>10. PutsAlone'
  BY <1>1 DEF BlocksInv, PutsAlone, HasPin
<1>11. RecordsAllocated'
  BY <1>1, <1>4, <1>5, <1>6 DEF BlocksInv, RecordsAllocated
<1>12. RetainedNeeded'
  BY <1>1, <1>4, <1>5, <1>6 DEF BlocksInv, RetainedNeeded, Needed
<1>13. BlocksKept'
  BY <1>1, <1>4, <1>5, <1>6 DEF BlocksInv, BlocksKept, Needed, Pinning
<1> QED BY <1>7, <1>8, <1>9, <1>10, <1>11, <1>12, <1>13 DEF BlocksInv

\* A handle is opened on the current snapshot, closed, or runs out.
LEMMA HandleSteps == ASSUME BlocksInv, NEW h \in ReadHandles, Open(h) \/ Close(h) \/ HandleExpires(h) PROVE BlocksInv'
<1>1. UNCHANGED <<ops, current, snapshots, records, disk, staging, streams, gc, young, seq>>
  BY DEF Open, Close, HandleExpires
<1>2. handles \in [ReadHandles -> Handle] /\ handles[h] \in Handle /\ current \in 0..MaxOps
  BY DEF BlocksInv, TypeOK
<1>3. PICK x \in Handle : /\ handles' = [handles EXCEPT ![h] = x]
                          /\ ~x.closed /\ x.live => x.snapshot \in snapshots
  <2>1. CASE Open(h)
    <3> DEFINE x == [snapshot |-> current, closed |-> FALSE, live |-> TRUE]
    <3>1. x \in Handle /\ x.snapshot = current
      BY <1>2 DEF Handle
    <3>2. handles' = [handles EXCEPT ![h] = x] /\ current \in snapshots
      BY <2>1 DEF Open, BlocksInv, BlocksKept
    <3> HIDE DEF x
    <3> QED BY <3>1, <3>2
  <2>2. CASE Close(h)
    <3> DEFINE x == [handles[h] EXCEPT !.closed = TRUE]
    <3>1. x \in Handle /\ x.closed
      BY <1>2 DEF Handle
    <3>2. handles' = [handles EXCEPT ![h] = x]
      BY <1>2, <2>2 DEF Close
    <3> HIDE DEF x
    <3> QED BY <3>1, <3>2
  <2>3. CASE HandleExpires(h)
    <3> DEFINE x == [handles[h] EXCEPT !.live = FALSE]
    <3>1. x \in Handle /\ ~x.live
      BY <1>2 DEF Handle
    <3>2. handles' = [handles EXCEPT ![h] = x]
      BY <1>2, <2>3 DEF HandleExpires
    <3> HIDE DEF x
    <3> QED BY <3>1, <3>2
  <2> QED BY <2>1, <2>2, <2>3
<1>4. handles' \in [ReadHandles -> Handle] /\ handles'[h] = x /\ \A k \in ReadHandles : k # h => handles'[k] = handles[k]
  BY <1>2, <1>3
<1>5. \A k \in ReadHandles : Pinning(k)' => handles'[k].snapshot \in snapshots
  BY <1>3, <1>4 DEF BlocksInv, BlocksKept, Pinning
<1>6. BlocksKept'
  BY <1>1, <1>5 DEF BlocksInv, BlocksKept, Needed
<1>7. TypeOK' /\ UploadsBegun'
  BY <1>1, <1>4 DEF BlocksInv, TypeOK, UploadsBegun
<1>8. PutsAllocated' /\ PutsAlone' /\ RecordsAllocated' /\ RetainedNeeded'
  BY <1>1 DEF BlocksInv, PutsAllocated, PutsAlone, HasPin, RecordsAllocated, RetainedNeeded, Needed
<1> QED BY <1>6, <1>7, <1>8 DEF BlocksInv

\* One stream changes: it pins nothing that it did not pin.
LEMMA StreamMoves ==
  ASSUME BlocksInv, NEW s \in Streams, NEW x \in Stream, streams' = [streams EXCEPT ![s] = x],
         disk \subseteq disk', \A p \in Ops : ops'[p].allocations = ops[p].allocations,
         x.kind = "put" => /\ x.block \in Blocks /\ x.block[2] \in ops[x.block[1]].allocations
                           /\ x.phase = "written" => x.block \in disk',
         x.phase \in {"pinned", "written", "ending"} => HasPin(s) /\ x.block = streams[s].block /\ x.kind = streams[s].kind
  PROVE  streams' \in [Streams -> Stream] /\ PutsAllocated' /\ PutsAlone'
<1>1. streams' \in [Streams -> Stream] /\ streams'[s] = x /\ \A t \in Streams : t # s => streams'[t] = streams[t]
  BY DEF BlocksInv, TypeOK
<1>2. \A b \in Blocks : b[1] \in Ops
  BY BlockPair
<1>3. PutsAllocated'
  <2> SUFFICES ASSUME NEW t \in Streams, streams'[t].kind = "put"
               PROVE  /\ streams'[t].block \in Blocks
                      /\ streams'[t].block[2] \in ops'[streams'[t].block[1]].allocations
                      /\ streams'[t].phase = "written" => streams'[t].block \in disk'
    BY DEF PutsAllocated
  <2>1. CASE t = s
    BY <1>1, <1>2, <2>1
  <2>2. CASE t # s
    <3>1. /\ streams[t].block \in Blocks /\ streams[t].block[2] \in ops[streams[t].block[1]].allocations
          /\ streams[t].phase = "written" => streams[t].block \in disk
      BY <1>1, <2>2 DEF BlocksInv, PutsAllocated
    <3> QED BY <1>1, <1>2, <2>2, <3>1
  <2> QED BY <2>1, <2>2
<1>4. PutsAlone'
  <2>1. \A t \in Streams : HasPin(t)' => HasPin(t) /\ streams'[t].block = streams[t].block /\ streams'[t].kind = streams[t].kind
    BY <1>1 DEF HasPin
  <2> QED BY <2>1 DEF BlocksInv, PutsAlone
<1> QED BY <1>1, <1>3, <1>4

\* The rest of the invariant, while only streams and files move and no file goes.
LEMMA StreamsOnly ==
  ASSUME BlocksInv, UNCHANGED <<meta, gc, young>>, disk \subseteq disk', disk' \subseteq Blocks, staging' \subseteq Blocks,
         streams' \in [Streams -> Stream], PutsAllocated', PutsAlone'
  PROVE  BlocksInv'
<1>1. UNCHANGED <<ops, current, snapshots, records, handles, seq, gc, young>>
  BY DEF meta
<1>2. TypeOK' /\ UploadsBegun'
  BY <1>1 DEF BlocksInv, TypeOK, UploadsBegun
<1>3. RecordsAllocated' /\ RetainedNeeded' /\ BlocksKept'
  BY <1>1 DEF BlocksInv, RecordsAllocated, RetainedNeeded, Needed, BlocksKept, Pinning
<1> QED BY <1>2, <1>3 DEF BlocksInv


\* A stream begins with what its first transaction checked.
LEMMA StartInv ==
  ASSUME BlocksInv, NEW s \in Streams, NEW i \in Parts,
         \/ \E o \in Ops : StartPut(s, o, i) \/ StartVerify(s, o, i)
         \/ \E h \in ReadHandles : StartGet(s, h, i)
  PROVE  BlocksInv'
<1>1. PICK kind \in {"put", "get", "verify"}, b \in Blocks, left \in SUBSET Parts :
        Begins(s, kind, b, left) /\ (kind = "put" => b[2] \in ops[b[1]].allocations)
  <2>1. ASSUME NEW o \in Ops, StartPut(s, o, i)
        PROVE  \E kind \in {"put", "get", "verify"}, b \in Blocks, left \in SUBSET Parts :
                 Begins(s, kind, b, left) /\ (kind = "put" => b[2] \in ops[b[1]].allocations)
    <3>1. <<o, i>> \in Blocks /\ {} \in SUBSET Parts /\ Begins(s, "put", <<o, i>>, {}) /\ i \in ops[o].allocations
      BY <2>1 DEF StartPut, Blocks
    <3> QED BY <3>1
  <2>2. ASSUME NEW o \in Ops, StartVerify(s, o, i)
        PROVE  \E kind \in {"put", "get", "verify"}, b \in Blocks, left \in SUBSET Parts :
                 Begins(s, kind, b, left) /\ (kind = "put" => b[2] \in ops[b[1]].allocations)
    <3>1. <<o, i>> \in Blocks /\ Parts \ {i} \in SUBSET Parts /\ Begins(s, "verify", <<o, i>>, Parts \ {i})
      BY <2>2 DEF StartVerify, Blocks
    <3> QED BY <3>1
  <2>3. ASSUME NEW h \in ReadHandles, StartGet(s, h, i)
        PROVE  \E kind \in {"put", "get", "verify"}, b \in Blocks, left \in SUBSET Parts :
                 Begins(s, kind, b, left) /\ (kind = "put" => b[2] \in ops[b[1]].allocations)
    <3>1. handles[h].snapshot \in Ops
      BY <2>3 DEF StartGet, BlocksInv, BlocksKept, TypeOK
    <3>2. <<handles[h].snapshot, i>> \in Blocks /\ {} \in SUBSET Parts /\ Begins(s, "get", <<handles[h].snapshot, i>>, {})
      BY <2>3, <3>1 DEF StartGet, Blocks
    <3> QED BY <3>2
  <2> QED BY <2>1, <2>2, <2>3
<1> DEFINE x == [kind |-> kind, phase |-> "checked", block |-> b, left |-> left]
<1>2. x \in Stream /\ x.phase = "checked" /\ x.kind = kind /\ x.block = b
  BY DEF Stream, StreamKinds, StreamPhases
<1>3. streams' = [streams EXCEPT ![s] = x] /\ UNCHANGED <<meta, disk, staging, gc, young>>
  BY <1>1 DEF Begins
<1> HIDE DEF x
<1>4. ops' = ops
  BY <1>3 DEF meta
<1>5. streams' \in [Streams -> Stream] /\ PutsAllocated' /\ PutsAlone'
  BY <1>1, <1>2, <1>3, <1>4, StreamMoves
<1>6. disk \subseteq Blocks /\ staging \subseteq Blocks
  BY DEF BlocksInv, TypeOK
<1> QED BY <1>3, <1>5, <1>6, StreamsOnly

\* A block is pinned: by a put alone, and by readers not beside a put.
LEMMA PinInv == ASSUME BlocksInv, NEW s \in Streams, Pin(s) PROVE BlocksInv'
<1> DEFINE b == streams[s].block
           x == [streams[s] EXCEPT !.phase = "pinned"]
<1>1. streams \in [Streams -> Stream] /\ streams[s] \in Stream
  BY DEF BlocksInv, TypeOK
<1>2. x \in Stream /\ x.kind = streams[s].kind /\ x.block = b /\ x.phase = "pinned"
  BY <1>1 DEF Stream, StreamPhases
<1>3. streams' = [streams EXCEPT ![s] = x]
  BY <1>1 DEF Pin
<1>4. /\ streams[s].phase = "checked" /\ b \notin Writers /\ (streams[s].kind = "put" => b \notin Active)
      /\ staging' = (IF streams[s].kind = "put" THEN staging \cup {b} ELSE staging)
      /\ UNCHANGED <<meta, disk, gc, young>>
  BY DEF Pin
<1> HIDE DEF x
<1>5. streams' \in [Streams -> Stream] /\ streams'[s] = x /\ \A t \in Streams : t # s => streams'[t] = streams[t]
  BY <1>1, <1>2, <1>3
<1>6. ops' = ops
  BY <1>4 DEF meta
<1>7. PutsAllocated'
  BY <1>2, <1>4, <1>5, <1>6 DEF BlocksInv, PutsAllocated
<1>8. PutsAlone'
  <2>1. ASSUME NEW t \in Streams, t # s, HasPin(t), streams[t].block = b PROVE streams[t].kind # "put" /\ streams[s].kind # "put"
    BY <1>4, <2>1 DEF Writers, Active
  <2>2. \A t \in Streams : t # s => (HasPin(t)' <=> HasPin(t))
    BY <1>5 DEF HasPin
  <2> SUFFICES ASSUME NEW t \in Streams, NEW u \in Streams, t # u, HasPin(t)', HasPin(u)', streams'[t].block = streams'[u].block
               PROVE  streams'[t].kind # "put"
    BY DEF PutsAlone
  <2>3. CASE t = s
    BY <1>2, <1>5, <2>1, <2>2, <2>3
  <2>4. CASE u = s
    BY <1>2, <1>5, <2>1, <2>2, <2>4
  <2>5. CASE t # s /\ u # s
    BY <1>5, <2>2, <2>5 DEF BlocksInv, PutsAlone
  <2> QED BY <2>3, <2>4, <2>5
<1>9. disk \subseteq Blocks /\ staging' \subseteq Blocks
  BY <1>4 DEF BlocksInv, TypeOK, PutsAllocated
<1> QED BY <1>4, <1>5, <1>7, <1>8, <1>9, StreamsOnly

\* A staging file becomes the block file.
LEMMA WriteBlockInv == ASSUME BlocksInv, NEW s \in Streams, WriteBlock(s) PROVE BlocksInv'
<1> DEFINE b == streams[s].block
           x == [streams[s] EXCEPT !.phase = "written"]
<1>1. streams \in [Streams -> Stream] /\ streams[s] \in Stream /\ disk \subseteq Blocks /\ staging \subseteq Blocks
  BY DEF BlocksInv, TypeOK
<1>2. x \in Stream /\ x.kind = streams[s].kind /\ x.block = b /\ x.phase = "written"
  BY <1>1 DEF Stream, StreamPhases
<1>3. streams' = [streams EXCEPT ![s] = x]
  BY <1>1 DEF WriteBlock
<1>4. /\ streams[s].kind = "put" /\ streams[s].phase = "pinned" /\ b \in staging
      /\ disk' = disk \cup {b} /\ staging' = staging \ {b} /\ UNCHANGED <<meta, gc, young>>
  BY DEF WriteBlock
<1>5. HasPin(s) /\ b \in Blocks /\ b[2] \in ops[b[1]].allocations
  BY <1>4 DEF HasPin, BlocksInv, PutsAllocated
<1>6. ops' = ops
  BY <1>4 DEF meta
<1> HIDE DEF x
<1>7. streams' \in [Streams -> Stream] /\ PutsAllocated' /\ PutsAlone'
  BY <1>2, <1>3, <1>4, <1>5, <1>6, StreamMoves
<1>8. disk' \subseteq Blocks /\ staging' \subseteq Blocks /\ disk \subseteq disk'
  BY <1>1, <1>4
<1> QED BY <1>4, <1>7, <1>8, StreamsOnly

\* A stream ends, has sent its block or goes on with another one.
LEMMA StreamSteps ==
  ASSUME BlocksInv, NEW s \in Streams, SendBlock(s) \/ End(s) \/ \E i \in Parts : VerifyNext(s, i)
  PROVE  BlocksInv'
<1>1. streams \in [Streams -> Stream] /\ streams[s] \in Stream /\ disk \subseteq Blocks /\ staging \subseteq Blocks
  BY DEF BlocksInv, TypeOK
<1>2. UNCHANGED <<meta, disk, gc, young>> /\ staging' \subseteq staging
  BY DEF SendBlock, End, VerifyNext
<1>3. PICK x \in Stream :
        /\ streams' = [streams EXCEPT ![s] = x] /\ x.kind # "put"
        /\ x.phase \in {"pinned", "written", "ending"} => HasPin(s) /\ x.block = streams[s].block /\ x.kind = streams[s].kind
  <2>1. CASE SendBlock(s)
    <3> DEFINE x == [streams[s] EXCEPT !.phase = "ending"]
    <3>1. x \in Stream /\ x.kind = streams[s].kind /\ x.block = streams[s].block
      BY <1>1 DEF Stream, StreamPhases
    <3>2. streams' = [streams EXCEPT ![s] = x] /\ streams[s].kind = "get" /\ HasPin(s)
      BY <1>1, <2>1 DEF SendBlock, ReadBack, HasPin
    <3> HIDE DEF x
    <3> QED BY <3>1, <3>2
  <2>2. CASE End(s)
    <3>1. NoStream \in Stream /\ NoStream.kind = "none" /\ NoStream.phase = "idle"
      BY DEF NoStream, Stream, StreamKinds, StreamPhases
    <3>2. streams' = [streams EXCEPT ![s] = NoStream]
      BY <2>2 DEF End
    <3> QED BY <3>1, <3>2
  <2>3. ASSUME NEW i \in Parts, VerifyNext(s, i)
        PROVE  \E x \in Stream :
                 /\ streams' = [streams EXCEPT ![s] = x] /\ x.kind # "put"
                 /\ x.phase \in {"pinned", "written", "ending"} => HasPin(s) /\ x.block = streams[s].block /\ x.kind = streams[s].kind
    <3> DEFINE b == streams[s].block
               x == [streams[s] EXCEPT !.phase = "checked", !.block = <<b[1], i>>, !.left = streams[s].left \ {i}]
    <3>1. b \in Blocks /\ streams[s].kind = "verify"
      <4>1. b \in disk /\ streams[s].kind = "verify"
        BY <2>3 DEF VerifyNext, ReadBack
      <4> QED BY <1>1, <4>1
    <3>2. <<b[1], i>> \in Blocks
      BY <3>1 DEF Blocks
    <3>3. x \in Stream /\ x.kind = "verify" /\ x.phase = "checked"
      BY <1>1, <3>1, <3>2 DEF Stream, StreamPhases
    <3>4. streams' = [streams EXCEPT ![s] = x]
      BY <1>1, <2>3 DEF VerifyNext
    <3> HIDE DEF x
    <3> QED BY <3>3, <3>4
  <2> QED BY <2>1, <2>2, <2>3
<1>4. ops' = ops
  BY <1>2 DEF meta
<1>5. streams' \in [Streams -> Stream] /\ PutsAllocated' /\ PutsAlone'
  BY <1>2, <1>3, <1>4, StreamMoves
<1> QED BY <1>1, <1>2, <1>5, StreamsOnly


\* A receipt is recorded: the file is there, and a collector between its halves retains
\* it or it is young.
LEMMA RecordBlockInv == ASSUME BlocksInv, NEW s \in Streams, RecordBlock(s) PROVE BlocksInv'
<1> DEFINE b == streams[s].block
           x == [streams[s] EXCEPT !.phase = "ending"]
<1>1. streams \in [Streams -> Stream] /\ streams[s] \in Stream
  BY DEF BlocksInv, TypeOK
<1>2. x \in Stream /\ x.kind = streams[s].kind /\ x.block = b /\ x.phase = "ending"
  BY <1>1 DEF Stream, StreamPhases
<1>3. streams' = [streams EXCEPT ![s] = x]
  BY <1>1 DEF RecordBlock
<1>4. /\ streams[s].kind = "put" /\ streams[s].phase = "written" /\ ops[b[1]].state = "PREPARING"
      /\ records' = records \cup {b} /\ UNCHANGED <<ops, current, snapshots, disk, staging, handles, gc, young, seq>>
  BY DEF RecordBlock, OperationOk
<1>5. HasPin(s) /\ b \in Blocks /\ b[2] \in ops[b[1]].allocations /\ b \in disk
  BY <1>4 DEF HasPin, BlocksInv, PutsAllocated
<1> HIDE DEF x
<1>6. streams' \in [Streams -> Stream] /\ PutsAllocated' /\ PutsAlone'
  BY <1>2, <1>3, <1>4, <1>5, StreamMoves
<1> HIDE DEF b
<1>7. TypeOK' /\ UploadsBegun'
  BY <1>4, <1>5, <1>6 DEF BlocksInv, TypeOK, UploadsBegun
<1>8. RecordsAllocated'
  BY <1>4, <1>5 DEF BlocksInv, RecordsAllocated
<1>9. RetainedNeeded'
  BY <1>4, <1>5 DEF BlocksInv, RetainedNeeded, Needed
<1>10. BlocksKept'
  BY <1>4, <1>5 DEF BlocksInv, BlocksKept, Needed, Pinning
<1> QED BY <1>6, <1>7, <1>8, <1>9, <1>10 DEF BlocksInv

\* The last block of a manifest is read back.
LEMMA VerifyLastInv == ASSUME BlocksInv, NEW s \in Streams, VerifyLast(s) PROVE BlocksInv'
<1> DEFINE b == streams[s].block
           o == b[1]
           x == [streams[s] EXCEPT !.phase = "ending"]
           y == [ops[o] EXCEPT !.verified = TRUE]
<1>1. streams \in [Streams -> Stream] /\ streams[s] \in Stream /\ ops \in [Ops -> Op] /\ disk \subseteq Blocks
  BY DEF BlocksInv, TypeOK
<1>2. x \in Stream /\ x.kind = streams[s].kind /\ x.block = b /\ x.phase = "ending"
  BY <1>1 DEF Stream, StreamPhases
<1>3. /\ streams' = [streams EXCEPT ![s] = x] /\ streams[s].kind = "verify" /\ streams[s].phase = "pinned" /\ b \in disk
      /\ UNCHANGED <<current, snapshots, records, disk, staging, handles, gc, young, seq>>
  BY <1>1 DEF VerifyLast, ReadBack
<1>4. HasPin(s) /\ b \in Blocks
  BY <1>1, <1>3 DEF HasPin
<1>5. o \in Ops
  BY <1>4, BlockPair
<1>6. y \in Op /\ y.allocations = ops[o].allocations /\ y.state = ops[o].state
  BY <1>1, <1>5 DEF Op
<1>7. ops' = [ops EXCEPT ![o] = y]
  BY <1>1 DEF VerifyLast
<1> HIDE DEF x, y
<1>8. ops' \in [Ops -> Op] /\ ops'[o] = y /\ \A p \in Ops : p # o => ops'[p] = ops[p]
  BY <1>1, <1>5, <1>6, <1>7
<1>9. \A p \in Ops : ops'[p].allocations = ops[p].allocations /\ ops'[p].state = ops[p].state
  BY <1>6, <1>8
<1>10. streams' \in [Streams -> Stream] /\ PutsAllocated' /\ PutsAlone'
  BY <1>2, <1>3, <1>4, <1>9, StreamMoves
<1>11. UploadsBegun'
  BY <1>3, <1>9 DEF BlocksInv, UploadsBegun
<1>12. \A c \in Blocks : c[1] \in Ops
  BY BlockPair
<1>13. records \subseteq Blocks
  BY DEF BlocksInv, TypeOK
<1>14. TypeOK'
  BY <1>3, <1>8, <1>10 DEF BlocksInv, TypeOK
<1>15. RecordsAllocated'
  BY <1>3, <1>9, <1>12, <1>13 DEF BlocksInv, RecordsAllocated
<1>16. RetainedNeeded'
  BY <1>3, <1>9, <1>12, <1>13 DEF BlocksInv, RetainedNeeded, Needed
<1>17. BlocksKept'
  BY <1>3, <1>9, <1>12, <1>13 DEF BlocksInv, BlocksKept, Needed, Pinning
<1> QED BY <1>10, <1>11, <1>14, <1>15, <1>16, <1>17 DEF BlocksInv

\* The transaction of a collection: late uploads are settled, or those of a process that
\* died; what it retains is what is needed.
LEMMA CollectTxKeeps ==
  ASSUME BlocksInv, NEW after \in [Ops -> Op],
         \A p \in Ops : /\ after[p].allocations = ops[p].allocations
                        /\ after[p].state = "PREPARING" => ops[p].state = "PREPARING"
                        /\ ops[p].state = "NONE" => after[p].state = "NONE",
         NEW keep, keep = Retained(snapshots \cap PinnedSnapshots, after),
         ops' = after, snapshots' = snapshots \cap PinnedSnapshots, records' = records \cap keep,
         UNCHANGED <<current, handles, seq, young>>
  PROVE  /\ UploadsBegun' /\ RecordsAllocated' /\ keep \subseteq Blocks
         /\ \A b \in Blocks : ops'[b[1]].state = "PREPARING" /\ b[2] \in ops'[b[1]].allocations => b \in keep
         /\ \A o \in snapshots' : BlocksOf(o) \subseteq records'
         /\ current # 0 => current \in snapshots'
         /\ \A h \in ReadHandles : Pinning(h) => handles[h].snapshot \in snapshots'
         /\ \A b \in records' : Needed(b)' => Needed(b)
<1>1. \A b \in Blocks : b[1] \in Ops
  BY BlockPair
<1>2. records \subseteq Blocks /\ snapshots \subseteq Ops
  BY DEF BlocksInv, TypeOK
<1>3. UploadsBegun'
  BY DEF BlocksInv, UploadsBegun
<1>4. RecordsAllocated'
  BY <1>1, <1>2 DEF BlocksInv, RecordsAllocated
<1>5. keep \subseteq Blocks /\ \A b \in Blocks : ops'[b[1]].state = "PREPARING" /\ b[2] \in ops'[b[1]].allocations => b \in keep
  BY DEF Retained
<1>6. ASSUME NEW o \in snapshots' PROVE BlocksOf(o) \subseteq records'
  <2>1. BlocksOf(o) \subseteq records /\ o \in Ops
    BY <1>2 DEF BlocksInv, BlocksKept
  <2>2. \A b \in BlocksOf(o) : b \in Blocks /\ b[1] = o
    BY <2>1 DEF BlocksOf, Blocks
  <2>3. BlocksOf(o) \subseteq keep
    BY <1>6, <2>2 DEF Retained
  <2> QED BY <2>1, <2>3
<1>7. current # 0 => current \in snapshots'
  BY DEF BlocksInv, BlocksKept, PinnedSnapshots
<1>8. \A h \in ReadHandles : Pinning(h) => handles[h].snapshot \in snapshots'
  BY DEF BlocksInv, BlocksKept, PinnedSnapshots
<1>9. \A b \in records' : Needed(b)' => Needed(b)
  BY <1>1, <1>2 DEF Needed
<1> QED BY <1>3, <1>4, <1>5, <1>6, <1>7, <1>8, <1>9


\* The first half of a collection.
LEMMA CollectMetadataInv == ASSUME BlocksInv, CollectMetadata PROVE BlocksInv'
<1> DEFINE late == {o \in Ops : ops[o].state = "PREPARING" /\ ~ops[o].live}
           after == [o \in Ops |-> IF o \in late THEN [ops[o] EXCEPT !.state = "EXPIRED"] ELSE ops[o]]
           keep == Retained(snapshots \cap PinnedSnapshots, after)
<1>1. ops \in [Ops -> Op]
  BY DEF BlocksInv, TypeOK
<1>2. \A p \in Ops : /\ after[p] \in Op /\ after[p].allocations = ops[p].allocations
                     /\ after[p].state = "PREPARING" => ops[p].state = "PREPARING"
                     /\ ops[p].state = "NONE" => after[p].state = "NONE"
  <2> SUFFICES ASSUME NEW p \in Ops
               PROVE  /\ after[p] \in Op /\ after[p].allocations = ops[p].allocations
                      /\ after[p].state = "PREPARING" => ops[p].state = "PREPARING"
                      /\ ops[p].state = "NONE" => after[p].state = "NONE"
    OBVIOUS
  <2>1. CASE p \in late
    <3> DEFINE y == [ops[p] EXCEPT !.state = "EXPIRED"]
    <3>1. y \in Op /\ y.state = "EXPIRED" /\ y.allocations = ops[p].allocations
      BY <1>1 DEF Op, UploadStates
    <3>2. after[p] = y /\ ops[p].state = "PREPARING"
      BY <2>1
    <3> HIDE DEF y, after, late
    <3> QED BY <3>1, <3>2
  <2>2. CASE p \notin late
    BY <1>1, <2>2
  <2> QED BY <2>1, <2>2
<1>3. after \in [Ops -> Op]
  BY <1>2
<1>4. /\ ops' = after /\ snapshots' = snapshots \cap PinnedSnapshots /\ records' = records \cap keep
      /\ gc' = [phase |-> "files", retained |-> keep]
      /\ UNCHANGED <<current, handles, seq, disk, staging, streams, young>>
  BY DEF CollectMetadata, CollectTx
<1> HIDE DEF after, keep
<1>5. keep = Retained(snapshots \cap PinnedSnapshots, after)
  BY DEF keep
<1>6. /\ UploadsBegun' /\ RecordsAllocated' /\ keep \subseteq Blocks
      /\ \A b \in Blocks : ops'[b[1]].state = "PREPARING" /\ b[2] \in ops'[b[1]].allocations => b \in keep
      /\ \A o \in snapshots' : BlocksOf(o) \subseteq records'
      /\ current # 0 => current \in snapshots'
      /\ \A h \in ReadHandles : Pinning(h) => handles[h].snapshot \in snapshots'
      /\ \A b \in records' : Needed(b)' => Needed(b)
  BY <1>2, <1>3, <1>4, <1>5, CollectTxKeeps
<1>7. TypeOK'
  BY <1>3, <1>4, <1>6 DEF BlocksInv, TypeOK
<1>8. PutsAllocated'
  <2>1. \A b \in Blocks : b[1] \in Ops
    BY BlockPair
  <2> QED BY <1>2, <1>4, <2>1 DEF BlocksInv, PutsAllocated
<1>9. PutsAlone'
  BY <1>4 DEF BlocksInv, PutsAlone, HasPin
<1>10. RetainedNeeded'
  <2>1. gc'.retained = keep
    BY <1>4
  <2> QED BY <1>4, <1>6, <2>1 DEF RetainedNeeded
<1>11. BlocksKept'
  BY <1>4, <1>6 DEF BlocksInv, BlocksKept, Pinning
<1> QED BY <1>6, <1>7, <1>8, <1>9, <1>10, <1>11 DEF BlocksInv

\* The second half: a file goes that is neither retained nor pinned.
LEMMA CollectFilesInv == ASSUME BlocksInv, CollectFiles PROVE BlocksInv'
<1>1. /\ gc.phase = "files" /\ disk' = disk \cap (gc.retained \cup Active) /\ staging' \subseteq staging
      /\ gc' = [phase |-> "idle", retained |-> {}] /\ UNCHANGED <<meta, streams, young>>
  BY DEF CollectFiles
<1>2. UNCHANGED <<ops, current, snapshots, records, handles, seq, streams, young>> /\ gc'.phase = "idle"
  BY <1>1 DEF meta
<1>3. TypeOK' /\ UploadsBegun'
  BY <1>1, <1>2 DEF BlocksInv, TypeOK, UploadsBegun
<1>4. PutsAllocated'
  <2>1. \A s \in Streams : streams[s].phase = "written" => streams[s].block \in Active
    BY DEF Active, HasPin
  <2> QED BY <1>1, <1>2, <2>1 DEF BlocksInv, PutsAllocated
<1>5. PutsAlone' /\ RecordsAllocated'
  BY <1>2 DEF BlocksInv, PutsAlone, HasPin, RecordsAllocated
<1>6. RetainedNeeded'
  BY <1>2 DEF RetainedNeeded
<1>7. BlocksKept'
  <2>1. \A b \in records \ young : Needed(b) => b \in disk'
    BY <1>1 DEF BlocksInv, BlocksKept, RetainedNeeded
  <2> QED BY <1>2, <2>1 DEF BlocksInv, BlocksKept, Needed, Pinning
<1> QED BY <1>3, <1>4, <1>5, <1>6, <1>7 DEF BlocksInv

\* The process starts again, with a whole collection.
LEMMA RestartInv == ASSUME BlocksInv, Restart PROVE BlocksInv'
<1> DEFINE alive == {o \in Ops : ops[o].state = "PREPARING"}
           after == [o \in Ops |-> [ops[o] EXCEPT !.verified = FALSE,
                                                  !.state = IF o \in alive THEN "ABORTED" ELSE @]]
           keep == Retained(snapshots \cap PinnedSnapshots, after)
<1>1. ops \in [Ops -> Op]
  BY DEF BlocksInv, TypeOK
<1>2. \A p \in Ops : /\ after[p] \in Op /\ after[p].allocations = ops[p].allocations
                     /\ after[p].state # "PREPARING"
                     /\ ops[p].state = "NONE" => after[p].state = "NONE"
  <2> SUFFICES ASSUME NEW p \in Ops
               PROVE  /\ after[p] \in Op /\ after[p].allocations = ops[p].allocations
                      /\ after[p].state # "PREPARING"
                      /\ ops[p].state = "NONE" => after[p].state = "NONE"
    OBVIOUS
  <2> DEFINE st == IF p \in alive THEN "ABORTED" ELSE ops[p].state
             y == [ops[p] EXCEPT !.verified = FALSE, !.state = st]
  <2>1. ops[p] \in Op /\ ops[p].state \in UploadStates
    BY <1>1 DEF Op
  <2>2. st \in UploadStates /\ st # "PREPARING" /\ (ops[p].state = "NONE" => st = "NONE")
    BY <2>1 DEF UploadStates
  <2>3. after[p] = y
    OBVIOUS
  <2> HIDE DEF st
  <2>4. y \in Op /\ y.state = st /\ y.allocations = ops[p].allocations
    BY <2>1, <2>2 DEF Op
  <2> HIDE DEF y, after
  <2> QED BY <2>2, <2>3, <2>4
<1>3. after \in [Ops -> Op]
  BY <1>2
<1>4. /\ ops' = after /\ snapshots' = snapshots \cap PinnedSnapshots /\ records' = records \cap keep
      /\ disk' = disk \cap keep /\ staging' = {}
      /\ streams' = [s \in Streams |-> NoStream]
      /\ gc' = [phase |-> "idle", retained |-> {}]
      /\ UNCHANGED <<current, handles, young, seq>>
  BY DEF Restart
<1> HIDE DEF after, keep
<1>5. keep = Retained(snapshots \cap PinnedSnapshots, after)
  BY DEF keep
<1>6. /\ UploadsBegun' /\ RecordsAllocated' /\ keep \subseteq Blocks
      /\ \A o \in snapshots' : BlocksOf(o) \subseteq records'
      /\ current # 0 => current \in snapshots'
      /\ \A h \in ReadHandles : Pinning(h) => handles[h].snapshot \in snapshots'
      /\ \A b \in records' : Needed(b)' => Needed(b)
  BY <1>2, <1>3, <1>4, <1>5, CollectTxKeeps
<1>7. NoStream \in Stream /\ NoStream.kind = "none" /\ NoStream.phase = "idle"
  BY DEF NoStream, Stream, StreamKinds, StreamPhases
<1>8. TypeOK'
  BY <1>3, <1>4, <1>6, <1>7 DEF BlocksInv, TypeOK
<1>9. PutsAllocated' /\ PutsAlone'
  BY <1>4, <1>7 DEF PutsAllocated, PutsAlone, HasPin
<1>10. RetainedNeeded'
  BY <1>4 DEF RetainedNeeded
<1>11. BlocksKept'
  <2>1. \A b \in records' \ young' : Needed(b)' => b \in disk'
    BY <1>4, <1>6 DEF BlocksInv, BlocksKept
  <2> QED BY <1>4, <1>6, <2>1 DEF BlocksKept, Pinning
<1> QED BY <1>6, <1>8, <1>9, <1>10, <1>11 DEF BlocksInv

\* Every step keeps the invariant.
LEMMA BlocksInvNext == BlocksInv /\ [Next]_vars => BlocksInv'
<1> SUFFICES ASSUME BlocksInv, [Next]_vars PROVE BlocksInv'
  OBVIOUS
<1>1. ASSUME NEW o \in Ops, \/ StageManifestPage(o) \/ SealManifest(o) \/ CommitUpload(o)
                            \/ AbortUpload(o) \/ UploadExpires(o)
                            \/ \E i \in Parts : AllocateBlocks(o, i)
      PROVE  BlocksInv'
  BY <1>1, UploadSteps, CommitUploadInv, AllocateBlocksInv
<1>2. ASSUME NEW s \in Streams,
             \/ \E o \in Ops, i \in Parts : StartPut(s, o, i) \/ StartVerify(s, o, i)
             \/ \E h \in ReadHandles, i \in Parts : StartGet(s, h, i)
             \/ Pin(s) \/ WriteBlock(s) \/ RecordBlock(s) \/ SendBlock(s) \/ VerifyLast(s) \/ End(s)
             \/ \E i \in Parts : VerifyNext(s, i)
      PROVE  BlocksInv'
  BY <1>2, StartInv, PinInv, WriteBlockInv, RecordBlockInv, StreamSteps, VerifyLastInv
<1>3. CASE UNCHANGED vars
  <2>1. UNCHANGED <<meta, gc, young, disk, staging, streams>>
    BY <1>3 DEF vars, meta
  <2>2. ops' = ops
    BY <1>3 DEF vars
  <2>3. PutsAllocated' /\ PutsAlone'
    BY <2>1, <2>2 DEF BlocksInv, PutsAllocated, PutsAlone, HasPin
  <2>4. disk \subseteq Blocks /\ staging \subseteq Blocks /\ streams \in [Streams -> Stream]
    BY DEF BlocksInv, TypeOK
  <2> QED BY <2>1, <2>3, <2>4, StreamsOnly
<1> QED BY <1>1, <1>2, <1>3, BeginUploadInv, RemoveInv, CollectMetadataInv, CollectFilesInv, RestartInv, HandleSteps DEF Next

\* What a stream has pinned goes with that stream or with the process, and not before.
LEMMA PinnedStep ==
  ASSUME BlocksInv, [Next]_vars, NEW s \in Streams,
         HasPin(s), streams'[s].block = streams[s].block, streams'[s].phase # "idle"
  PROVE  /\ streams[s].block \in disk => streams[s].block \in disk'
         /\ streams[s].block \in staging => streams[s].block \in staging' \cup disk'
<1>1. streams[s].block \in Active /\ streams \in [Streams -> Stream]
  BY DEF Active, BlocksInv, TypeOK
<1>2. CASE CollectFiles
  BY <1>1, <1>2 DEF CollectFiles
<1>3. CASE Restart
  BY <1>3 DEF Restart, NoStream
<1>4. ASSUME NEW t \in Streams, End(t)
      PROVE  /\ streams[s].block \in disk => streams[s].block \in disk'
             /\ streams[s].block \in staging => streams[s].block \in staging' \cup disk'
  <2>1. s # t
    BY <1>1, <1>4 DEF End, NoStream
  <2>2. ~(HasPin(t) /\ streams[t].kind = "put" /\ streams[t].block = streams[s].block)
    BY <2>1 DEF BlocksInv, PutsAlone
  <2> QED BY <1>4, <2>2 DEF End
<1>5. ASSUME NEW t \in Streams, WriteBlock(t)
      PROVE  /\ streams[s].block \in disk => streams[s].block \in disk'
             /\ streams[s].block \in staging => streams[s].block \in staging' \cup disk'
  BY <1>5 DEF WriteBlock
<1>6. ASSUME NEW t \in Streams, Pin(t)
      PROVE  /\ streams[s].block \in disk => streams[s].block \in disk'
             /\ streams[s].block \in staging => streams[s].block \in staging' \cup disk'
  BY <1>6 DEF Pin
<1>7. \/ CollectFiles \/ Restart \/ \E t \in Streams : End(t) \/ WriteBlock(t) \/ Pin(t)
      \/ UNCHANGED <<disk, staging>>
  BY DEF Next, vars, BeginUpload, Remove, CollectMetadata, StageManifestPage, SealManifest, CommitUpload, AbortUpload,
         UploadExpires, AllocateBlocks, Open, Close, HandleExpires, StartPut, StartVerify, StartGet, Begins, RecordBlock,
         SendBlock, VerifyLast, VerifyNext
<1> QED BY <1>2, <1>3, <1>4, <1>5, <1>6, <1>7

\* The collector takes no block that is recorded and needed, and no file that a stream has
\* pinned, for any number of uploads, blocks, streams and handles (collect,
\* BlockStore.pin).
THEOREM CollectorSpares == Spec => BlocksStay
<1>1. Spec => []BlocksInv
  BY BlocksInvInit, BlocksInvNext, PTL DEF Spec
<1>2. BlocksInv => BlocksKept
  BY DEF BlocksInv
<1>3. ASSUME BlocksInv, [Next]_vars
      PROVE  \A s \in Streams :
               HasPin(s) /\ streams'[s].block = streams[s].block /\ streams'[s].phase # "idle" =>
                 /\ streams[s].block \in disk => streams[s].block \in disk'
                 /\ streams[s].block \in staging => streams[s].block \in staging' \cup disk'
  BY <1>3, PinnedStep
<1>4. Spec => PinnedFilesStay
  BY <1>1, <1>3, PTL DEF Spec, PinnedFilesStay
<1> QED BY <1>1, <1>2, <1>4, PTL DEF BlocksStay
=============================================================================
