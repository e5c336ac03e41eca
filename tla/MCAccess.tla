----------------------------- MODULE MCAccess ------------------------------
(***************************************************************************)
(* A path as the access authority keeps it (FileAccess) and as the command  *)
(* lines of its users see it (Shell).  The two share no state in the model: *)
(* a behaviour of this module is a behaviour of one of them, chosen at the  *)
(* start.                                                                   *)
(***************************************************************************)
EXTENDS MCFileAccess, Shell

VARIABLE moves   \* which of the two moves

accessVars == <<vars, shellVars, moves>>

AccessInit == moves \in {"access", "shell"} /\ Init /\ ShellInit

AccessRests == UNCHANGED vars
ShellRests == UNCHANGED shellVars

\* The command line may come to an end, when its keys are used up, and then rests.
AccessNext ==
  /\ UNCHANGED moves
  /\ IF moves = "access" THEN Next /\ ShellRests ELSE AccessRests /\ (ShellNext \/ ShellRests)

AccessSpec == AccessInit /\ [][AccessNext]_accessVars
=============================================================================
