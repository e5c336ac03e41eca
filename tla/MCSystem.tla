------------------------------ MODULE MCSystem ------------------------------
(***************************************************************************)
(* Safety of the parts of the system that share no state in the model, side *)
(* by side: a behaviour of this module is a behaviour of one of them,       *)
(* chosen at the start.                                                     *)
(***************************************************************************)
EXTENDS Sessions, RangeWrite, PatchCall, Promotion, Migration, Namespace, Volume, Keys,
        Recovery, Processes, Permissions, Laboratory, RootWatch, MetaUnit, Deployment

VARIABLE moves   \* which part moves

systemVars == <<sessionsVars, rangeVars, patchVars, promotionVars, migrationVars,
                namespaceVars, volumeVars, keysVars, recoveryVars, processesVars,
                permissionsVars, laboratoryVars, watchVars, unitVars,
                deploymentVars, moves>>

\* A part with several initial states starts in one of them when it is not to move.
SystemInit ==
  /\ moves \in {"sessions", "range", "patch", "promotion", "migration", "namespace", "volume",
               "keys", "recovery", "processes", "permissions", "laboratory", "watch",
               "unit", "deployment"}
  /\ SessionsInit /\ PromotionInit /\ NamespaceInit /\ VolumeInit /\ LaboratoryInit /\
     WatchInit /\ UnitInit
  /\ PatchInit
  /\ moves # "patch" => basis = "stored"
  /\ RangeInit
  /\ moves # "range" => before = 0 /\ request.length = 1
  /\ MigrationInit
  /\ moves # "migration" => \A m \in Runs : run[m].source = CHOOSE s \in Sources : TRUE
  /\ KeysInit
  /\ moves # "keys" => running = {}
  /\ ProcessesInit
  /\ moves # "processes" => role = "node"
  /\ PermissionsInit
  /\ moves # "permissions" => strict /\ acl = FirstPolicies
  /\ RecoveryInit
  /\ moves # "recovery" => labKind = "plain"
  /\ DeploymentInit
  /\ moves # "deployment" => site = "single" /\ machines = [s \in Slots |-> s]

SessionsRests == UNCHANGED sessionsVars
RangeRests == UNCHANGED rangeVars
PatchRests == UNCHANGED patchVars
PromotionRests == UNCHANGED promotionVars
MigrationRests == UNCHANGED migrationVars
NamespaceRests == UNCHANGED namespaceVars
VolumeRests == UNCHANGED volumeVars
KeysRests == UNCHANGED keysVars
RecoveryRests == UNCHANGED recoveryVars
ProcessesRests == UNCHANGED processesVars
PermissionsRests == UNCHANGED permissionsVars
LaboratoryRests == UNCHANGED laboratoryVars
WatchRests == UNCHANGED watchVars
UnitRests == UNCHANGED unitVars
DeploymentRests == UNCHANGED deploymentVars

\* One part moves, as its own module says; the others rest.
SystemNext ==
  /\ UNCHANGED moves
  /\ IF moves = "sessions" THEN SessionsNext ELSE SessionsRests
  /\ IF moves = "range" THEN RangeNext ELSE RangeRests
  /\ IF moves = "patch" THEN PatchNext ELSE PatchRests
  /\ IF moves = "promotion" THEN PromotionNext ELSE PromotionRests
  /\ IF moves = "migration" THEN MigrationNext ELSE MigrationRests
  /\ IF moves = "namespace" THEN NamespaceNext ELSE NamespaceRests
  /\ IF moves = "volume" THEN VolumeNext ELSE VolumeRests
  /\ IF moves = "keys" THEN KeysNext ELSE KeysRests
  /\ IF moves = "recovery" THEN RecoveryNext ELSE RecoveryRests
  /\ IF moves = "processes" THEN ProcessesNext ELSE ProcessesRests
  /\ IF moves = "permissions" THEN PermissionsNext ELSE PermissionsRests
  /\ IF moves = "laboratory" THEN LaboratoryNext ELSE LaboratoryRests
  /\ IF moves = "watch" THEN WatchNext ELSE WatchRests
  /\ IF moves = "unit" THEN UnitNext ELSE UnitRests
  /\ IF moves = "deployment" THEN DeploymentNext ELSE DeploymentRests

SystemSpec == SystemInit /\ [][SystemNext]_systemVars

\* Every part is well typed in every state; one that rests is as it was at the start.
SystemTypeOK ==
  /\ moves = "sessions" => SessionsTypeOK
  /\ moves = "patch" => PatchTypeOK
  /\ moves = "promotion" => PromotionTypeOK
  /\ moves = "migration" => MigrationTypeOK
  /\ moves = "namespace" => NamespaceTypeOK
  /\ moves = "volume" => VolumeTypeOK
  /\ moves = "keys" => KeysTypeOK
  /\ moves = "recovery" => RecoveryTypeOK
  /\ moves = "processes" => ProcessesTypeOK
  /\ moves = "permissions" => PermissionsTypeOK
  /\ moves = "laboratory" => LaboratoryTypeOK
  /\ moves = "watch" => WatchTypeOK
  /\ moves = "unit" => UnitTypeOK
  /\ moves = "deployment" => DeploymentTypeOK
=============================================================================
