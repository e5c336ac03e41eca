---------------------------- MODULE Deployment -----------------------------
(***************************************************************************)
(* How an installation comes to be.  initialize() makes the master key and  *)
(* the first database, on one machine or as the seed of a cloud deployment; *)
(* there the custodian prepares the private material once, a bundle is      *)
(* rendered and installed on each VM, its secrets are provisioned, etcd is  *)
(* given its users and the seed is imported into it, the epoch is activated *)
(* on every VM and the services are started, inside a window after which    *)
(* every VM powers itself off.  The commands are typed by operators, in any *)
(* order, with the bundle and the epoch they have at hand, and are cut off  *)
(* between any two of their steps.                                          *)
(***************************************************************************)
EXTENDS Integers, FiniteSets, Sequences

CONSTANTS
  Makers,      \* those who call initialize, each with a password of its own
  Hosts,       \* virtual machines
  Slots,       \* slots of the inventory, and as many machines that the provider has
  NoOne,       \* no maker, no slot
  MaxEpochs,   \* epochs that operators have at hand
  MaxDays,     \* ends of windows
  PrefixFits   \* whether the etcd prefix in the configuration is one EtcdMetadataStore accepts

ASSUME DeploymentAssumption ==
  /\ MaxEpochs \in Nat /\ MaxDays \in Nat \ {0} /\ PrefixFits \in BOOLEAN
  /\ Hosts \subseteq Slots /\ NoOne \notin Makers \cup Slots

VARIABLES
  site,        \* one machine ("single") or a cloud deployment
  machines,    \* the machine of each slot, as the operators wrote it
  maker,       \* where each maker is in initialize
  seedKey,     \* the master key: who made it
  seed,        \* the first database
  material,    \* the private material of the cloud deployment
  bundles,     \* the rendered bundles: none, drafts, or attested by the provider's API
  vm,          \* each virtual machine
  etcdAuth,    \* how many steps of the users of etcd are done; 3: authentication is on
  import,      \* the run of cloud_initialize, and what it has left behind
  etcdEpoch,   \* the epoch of the authority in etcd, or 0
  day,         \* windows that have ended
  approved     \* the window in the user data of the machines

deploymentVars ==
  <<site, machines, maker, seedKey, seed, material, bundles, vm, etcdAuth, import, etcdEpoch, day, approved>>

Roles == {"control", "data", "etcd"}
Machine ==
  [on : BOOLEAN, deadline : 1..MaxDays, command : {"none", "install", "provision", "activate"}, argument : 0..MaxEpochs,
   installed : 0..4, slot : Slots \cup {NoOne}, secrets : 0..4, control : 0..MaxEpochs, data : 0..MaxEpochs,
   marker : 0..MaxEpochs, step : 0..3, up : SUBSET Roles, serves : 0..MaxEpochs]

DeploymentTypeOK ==
  /\ site \in {"single", "cloud"} /\ machines \in [Slots -> Slots \cup {NoOne}]
  /\ maker \in [Makers -> {"idle", "checked", "keyed", "tabled", "done"}]
  /\ seedKey \in Makers \cup {NoOne}
  /\ seed \in [at : {"absent", "tables", "filled"}, key : Makers \cup {NoOne}, admin : Makers \cup {NoOne}, fills : 0..2]
  /\ material \in {"none", "making", "ready"} /\ bundles \in {"none", "draft", "attested"}
  /\ vm \in [Hosts -> Machine]
  /\ etcdAuth \in 0..3 /\ etcdEpoch \in 0..1 /\ day \in 0..MaxDays /\ approved \in 1..MaxDays
  /\ import \in [at : {"idle", "users", "open", "copy", "activate", "refused"}, backup : BOOLEAN, disabled : BOOLEAN]

NewMachine ==
  [on |-> TRUE, deadline |-> 1, command |-> "none", argument |-> 0, installed |-> 0, slot |-> NoOne, secrets |-> 0,
   control |-> 0, data |-> 0, marker |-> 0, step |-> 0, up |-> {}, serves |-> 0]

DeploymentInit ==
  /\ site \in {"single", "cloud"} /\ machines \in [Slots -> Slots \cup {NoOne}]
  /\ maker = [m \in Makers |-> "idle"]
  /\ seedKey = NoOne /\ seed = [at |-> "absent", key |-> NoOne, admin |-> NoOne, fills |-> 0]
  /\ material = "none" /\ bundles = "none"
  /\ vm = [h \in Hosts |-> NewMachine]
  /\ etcdAuth = 0 /\ etcdEpoch = 0
  /\ import = [at |-> "idle", backup |-> FALSE, disabled |-> FALSE]
  /\ day = 0 /\ approved = 1

-----------------------------------------------------------------------------
(* initialize(): the master key and the first database.                     *)

hostVars == <<bundles, vm, etcdAuth, import, etcdEpoch, day, approved>>

\* What is there already is left alone: the same administrator is told that it is done,
\* anybody else is refused (ALREADY_EXISTS), also when only one of the two files is there.
MayMake(m) == site = "single" /\ seedKey = NoOne /\ seed.at = "absent"
AlreadyMade(m) == seedKey # NoOne /\ seed.at = "filled" /\ seed.key = seedKey /\ seed.admin = m

CheckSeed(m) ==
  /\ site = "single" /\ maker[m] = "idle"
  /\ \/ MayMake(m) /\ maker' = [maker EXCEPT ![m] = "checked"]
     \/ AlreadyMade(m) /\ maker' = [maker EXCEPT ![m] = "done"]
  /\ UNCHANGED <<site, machines, seedKey, seed, material, hostVars>>

\* The key file is opened exclusively: a second maker that has passed the checks ends here.
MakeKey(m) ==
  /\ maker[m] = "checked"
  /\ IF seedKey = NoOne
     THEN seedKey' = m /\ maker' = [maker EXCEPT ![m] = "keyed"]
     ELSE UNCHANGED seedKey /\ maker' = [maker EXCEPT ![m] = "idle"]
  /\ UNCHANGED <<site, machines, seed, material, hostVars>>

MakeTables(m) ==
  /\ maker[m] = "keyed"
  /\ seed' = IF seed.at = "absent" THEN [seed EXCEPT !.at = "tables"] ELSE seed
  /\ maker' = [maker EXCEPT ![m] = "tabled"]
  /\ UNCHANGED <<site, machines, seedKey, material, hostVars>>

\* One transaction: the settings with the digest of the key file, the administrator, the root.
FillSeed(m) ==
  /\ maker[m] = "tabled"
  /\ seed' = [at |-> "filled", key |-> seedKey, admin |-> m, fills |-> seed.fills + 1]
  /\ maker' = [maker EXCEPT ![m] = "done"]
  /\ UNCHANGED <<site, machines, seedKey, material, hostVars>>

\* It dies, or ends; on one machine it may be called again.
MakerEnds(m) ==
  /\ maker[m] # "idle" /\ site = "single"
  /\ maker' = [maker EXCEPT ![m] = "idle"]
  /\ UNCHANGED <<site, machines, seedKey, seed, material, hostVars>>

\* What the inventory must be for anything to be made from it: no two slots on one machine.
Validated == \A s, t \in Slots : machines[s] = machines[t] => s = t

\* The custodian makes a new directory for the material, and initialize is called in it.
Prepare(m) ==
  /\ site = "cloud" /\ material = "none" /\ Validated
  /\ material' = "making"
  /\ maker' = [maker EXCEPT ![m] = "checked"]
  /\ UNCHANGED <<site, machines, seedKey, seed, hostVars>>

\* Certificates, keys and inventories of the machines, and the copy for the administration.
MaterialReady(m) ==
  /\ site = "cloud" /\ material = "making" /\ maker[m] = "done" /\ seed.admin = m
  /\ material' = "ready"
  /\ UNCHANGED <<site, machines, maker, seedKey, seed, hostVars>>

-----------------------------------------------------------------------------
(* The commands on a machine.                                               *)

seedVars == <<site, machines, maker, seedKey, seed, material>>
awayVars == <<seedVars, bundles, etcdAuth, import, etcdEpoch, day, approved>>

\* The provider's API was asked, and has every machine of the inventory.
Attested == NoOne \notin {machines[s] : s \in Slots}

\* A bundle without the provider's attestation can be rendered and not installed; a new one
\* goes to a new directory.
Render(attested) ==
  /\ site = "cloud" /\ bundles # "attested" /\ Validated /\ (attested => Attested)
  /\ bundles' = IF attested THEN "attested" ELSE "draft"
  /\ UNCHANGED <<seedVars, vm, etcdAuth, import, etcdEpoch, day, approved>>

InWindow(h) == day < vm[h].deadline
HostFree(h) == site = "cloud" /\ vm[h].on /\ vm[h].command = "none"

\* install-host.sh, on a machine where no environment was made before, with the bundle of
\* some slot.
BeginInstall(h, slot) ==
  /\ HostFree(h) /\ InWindow(h) /\ bundles = "attested" /\ vm[h].installed = 0
  /\ vm' = [vm EXCEPT ![h].command = "install", ![h].slot = slot]
  /\ UNCHANGED awayVars

\* The environment; accounts, units and configurations; provisioned.json; the firewall's unit.
InstallStep(h) ==
  /\ vm[h].command = "install"
  /\ vm' = [vm EXCEPT ![h].installed = @ + 1, ![h].command = IF vm[h].installed = 3 THEN "none" ELSE @]
  /\ UNCHANGED awayVars

BundleInstalled(h) == vm[h].installed >= 3

\* The material is of the slot that was installed, and the slot is this machine's.
Fits(h, slot) == slot = vm[h].slot /\ machines[slot] = h

\* provision-host.sh: never over secrets or an inventory that are there.
BeginProvision(h, slot) ==
  /\ HostFree(h) /\ BundleInstalled(h) /\ material = "ready" /\ Fits(h, slot) /\ vm[h].secrets = 0
  /\ vm' = [vm EXCEPT ![h].command = "provision", ![h].slot = slot]
  /\ UNCHANGED awayVars

\* The secrets of the control, of the DataNode, of etcd; the inventory.
ProvisionStep(h) ==
  /\ vm[h].command = "provision"
  /\ vm' = [vm EXCEPT ![h].secrets = @ + 1, ![h].command = IF vm[h].secrets = 3 THEN "none" ELSE @]
  /\ UNCHANGED awayVars

\* activate, with the epoch the operator gives: not on a machine that has another one.
BeginActivate(h, epoch) ==
  /\ HostFree(h) /\ BundleInstalled(h) /\ vm[h].marker = 0
  /\ vm' = [vm EXCEPT ![h].command = "activate", ![h].argument = epoch, ![h].step = 0]
  /\ UNCHANGED awayVars

\* Mutant: the machine is marked as active before its configurations are.
MarkerFirst == <<"marker", "control", "data">>
\* The files of an activation, in the order they are replaced in.
ActivationOrder == <<"control", "data", "marker">>

ActivateStep(h) ==
  /\ vm[h].command = "activate"
  /\ vm' = [vm EXCEPT ![h] = [[vm[h] EXCEPT ![ActivationOrder[vm[h].step + 1]] = vm[h].argument]
                                EXCEPT !.step = (@ + 1) % 3, !.command = IF vm[h].step = 2 THEN "none" ELSE @,
                                       !.argument = IF vm[h].step = 2 THEN 0 ELSE @]]
  /\ UNCHANGED awayVars

\* A command is cut off: what it did stays.
Interrupted(machine) == [machine EXCEPT !.command = "none", !.argument = 0, !.step = 0]
CutOff(h) ==
  /\ vm[h].command # "none"
  /\ vm' = [vm EXCEPT ![h] = Interrupted(vm[h])]
  /\ UNCHANGED awayVars

-----------------------------------------------------------------------------
(* The services of a machine.                                               *)

EtcdUp == \A h \in Hosts : "etcd" \in vm[h].up

\* What the unit of a service asks for: the window, the firewall's unit, a marker file and a
\* secret of its role.
UnitStarts(h, role) ==
  /\ vm[h].on /\ InWindow(h) /\ vm[h].installed = 4
  /\ role # "etcd" => vm[h].marker # 0
  /\ vm[h].secrets >= CASE role = "control" -> 1 [] role = "data" -> 2 [] role = "etcd" -> 3

\* And what the process needs to go on: a DataNode its inventory, a control the authority in
\* etcd, under a prefix that the store accepts.
Serves(h, role) ==
  /\ role = "data" => vm[h].secrets = 4
  /\ role = "control" => EtcdUp /\ PrefixFits /\ etcdEpoch # 0

StartRole(h, role) ==
  /\ role \notin vm[h].up /\ UnitStarts(h, role) /\ Serves(h, role)
  /\ vm' = [vm EXCEPT ![h].up = @ \cup {role}, ![h].serves = IF role = "data" THEN vm[h].data ELSE @]
  /\ UNCHANGED awayVars

RolesEnded(machine) == [machine EXCEPT !.up = {}, !.serves = 0]
StopRoles(h) ==
  /\ vm[h].up # {}
  /\ vm' = [vm EXCEPT ![h] = RolesEnded(vm[h])]
  /\ UNCHANGED awayVars

\* The deadline passes.
WindowEnds ==
  /\ site = "cloud" /\ day < MaxDays
  /\ day' = day + 1
  /\ UNCHANGED <<seedVars, bundles, vm, etcdAuth, import, etcdEpoch, approved>>

\* The timer finds the deadline passed, and powers the machine off.
GuardFires(h) ==
  /\ vm[h].on /\ ~InWindow(h)
  /\ vm' = [vm EXCEPT ![h] = [Interrupted(RolesEnded(vm[h])) EXCEPT !.on = FALSE]]
  /\ UNCHANGED awayVars

\* A new window is approved while all the machines are stopped.
ApproveWindow ==
  /\ approved < MaxDays /\ day >= approved /\ \A h \in Hosts : ~vm[h].on
  /\ approved' = approved + 1
  /\ UNCHANGED <<seedVars, bundles, vm, etcdAuth, import, etcdEpoch, day>>

\* At boot the deadline is read from the user data, if they can be read.
Boot(h) ==
  /\ ~vm[h].on /\ day < approved
  /\ \E deadline \in {approved, vm[h].deadline} :
       /\ day < deadline
       /\ vm' = [vm EXCEPT ![h].on = TRUE, ![h].deadline = deadline]
  /\ UNCHANGED awayVars

-----------------------------------------------------------------------------
(* cloud_initialize: the users of etcd, and the import of the seed.          *)

importVars == <<seedVars, bundles, vm, day, approved>>

\* Users that were made by a run that was cut off are not made again: that is an error.
InitializeBegin ==
  /\ site = "cloud" /\ import.at = "idle" /\ EtcdUp /\ etcdAuth \in {0, 3}
  /\ import' = [import EXCEPT !.at = IF etcdAuth = 3 THEN "open" ELSE "users"]
  /\ UNCHANGED <<importVars, etcdAuth, etcdEpoch>>

\* The root user and the role; the users of the controls; authentication on.
MakeUsers ==
  /\ import.at = "users" /\ EtcdUp
  /\ etcdAuth' = etcdAuth + 1
  /\ import' = [import EXCEPT !.at = IF etcdAuth = 2 THEN "open" ELSE @]
  /\ UNCHANGED <<importVars, etcdEpoch>>

\* The store is opened, and an authority that is there is reported; otherwise migrate checks
\* that there is no backup yet.
OpenAuthority ==
  /\ import.at = "open" /\ EtcdUp
  /\ import' = [import EXCEPT !.at = IF ~PrefixFits THEN "refused"
                                     ELSE IF etcdEpoch # 0 \/ import.backup THEN "idle" ELSE "copy"]
  /\ UNCHANGED <<importVars, etcdAuth, etcdEpoch>>

\* migrate: the backup is made and the seed deactivated.
DeactivateSeed ==
  /\ import.at = "copy"
  /\ import' = [at |-> IF import.disabled THEN "idle" ELSE "activate", backup |-> TRUE, disabled |-> TRUE]
  /\ UNCHANGED <<importVars, etcdAuth, etcdEpoch>>

ActivateAuthority ==
  /\ import.at = "activate" /\ EtcdUp /\ etcdEpoch = 0
  /\ etcdEpoch' = 1
  /\ import' = [import EXCEPT !.at = "idle"]
  /\ UNCHANGED <<importVars, etcdAuth>>

InitializeDies ==
  /\ import.at \in {"users", "open", "copy", "activate"}
  /\ import' = [import EXCEPT !.at = "idle"]
  /\ UNCHANGED <<importVars, etcdAuth, etcdEpoch>>

DeploymentNext ==
  \/ \E m \in Makers : \/ CheckSeed(m) \/ MakeKey(m) \/ MakeTables(m) \/ FillSeed(m) \/ MakerEnds(m)
                       \/ Prepare(m) \/ MaterialReady(m)
  \/ \E attested \in BOOLEAN : Render(attested)
  \/ \E h \in Hosts :
       \/ \E slot \in Slots : BeginInstall(h, slot) \/ BeginProvision(h, slot)
       \/ \E epoch \in 1..MaxEpochs : BeginActivate(h, epoch)
       \/ InstallStep(h) \/ ProvisionStep(h) \/ ActivateStep(h) \/ CutOff(h)
       \/ \E role \in Roles : StartRole(h, role)
       \/ StopRoles(h) \/ GuardFires(h) \/ Boot(h)
  \/ WindowEnds \/ ApproveWindow
  \/ InitializeBegin \/ MakeUsers \/ OpenAuthority \/ DeactivateSeed \/ ActivateAuthority \/ InitializeDies

DeploymentSpec == DeploymentInit /\ [][DeploymentNext]_deploymentVars

-----------------------------------------------------------------------------
(* Properties.                                                              *)

\* A database that was filled belongs to the key file that is there, and was filled once, by
\* the maker of that key: makers that run at the same time, die half way or come again never
\* leave a database under another key or with a second administrator (initialize).
SeedOnce == seed.at = "filled" => seed.key = seedKey /\ seed.admin = seedKey /\ seed.fills = 1

\* A machine serves under the identity of its own slot, which no other machine has, with its
\* secrets and its inventory complete, whatever was written in the inventory, whatever bundle
\* the operators installed and wherever they were cut off (validate, provision-host.sh).
OwnIdentity ==
  \A h \in Hosts : vm[h].up # {} =>
    /\ {s \in Slots : machines[s] = h} = {vm[h].slot}
    /\ "data" \in vm[h].up => vm[h].secrets = 4

\* A machine that is marked as active has the same epoch in the two configurations, and its
\* DataNode serves that epoch: activations that were cut off, and repeated with another epoch,
\* leave no mixture (activate).
EpochWhole ==
  \A h \in Hosts : /\ vm[h].marker # 0 => vm[h].control = vm[h].marker /\ vm[h].data = vm[h].marker
                   /\ "data" \in vm[h].up => vm[h].serves = vm[h].marker

\* However the commands are mixed and cut off, the installation has one seed, every machine its
\* own identity and one epoch (initialize, provision-host.sh, activate).
DeploymentSound == SeedOnce /\ OwnIdentity /\ EpochWhole

\* An initialisation that has made the users of etcd and is not cut off imports the seed or
\* reports the authority that is there: it is not refused (cloud_initialize).
ImportNotRefused == import.at # "refused"
=============================================================================
