-------------------------------- MODULE Keys --------------------------------
(***************************************************************************)
(* Rotation of the content key.  An operator provisions a key at every      *)
(* node, the nodes restart one by one, and the key is activated, which the  *)
(* nodes follow at their next restart; blocks keep the key they were        *)
(* written under and are copied as they are.                                *)
(*                                                                          *)
(* The scripts write one file after another and may die anywhere; nodes     *)
(* stop, start, store, copy and delete meanwhile.  Operators run one script *)
(* at a time, and activate a key that provision() returned.                 *)
(***************************************************************************)
EXTENDS Integers, FiniteSets

CONSTANTS
  KeyNodes,
  ContentKeys,
  BootKey,     \* the key of key_path, which every node has from the start
  NeedRunning, \* nodes that have to run for activate(): 3 in the code
  MaxBoots     \* starts of nodes

ASSUME KeysAssumption == BootKey \in ContentKeys /\ NeedRunning \in Nat /\ MaxBoots \in Nat

VARIABLES
  keyFiles,    \* key files of each node
  readPaths,   \* content_read_key_paths of its configuration
  activePath,  \* content_active_key_path of its configuration
  running,     \* nodes whose process runs
  loaded,      \* keys of each running process
  activeKey,   \* key under which it writes
  sealedWith,  \* keys of the blocks on each volume
  script,      \* the script that runs
  provisioned, \* keys provision() returned
  boots

keysVars == <<keyFiles, readPaths, activePath, running, loaded, activeKey, sealedWith, script,
              provisioned, boots>>
configs == <<keyFiles, readPaths, activePath>>
processes == <<running, loaded, activeKey, boots>>

NoScript == [kind |-> "none", key |-> BootKey, todo |-> {}]

KeysTypeOK ==
  /\ keyFiles \in [KeyNodes -> SUBSET ContentKeys] /\ readPaths \in [KeyNodes -> SUBSET ContentKeys]
  /\ activePath \in [KeyNodes -> ContentKeys] /\ activeKey \in [KeyNodes -> ContentKeys]
  /\ running \subseteq KeyNodes /\ loaded \in [KeyNodes -> SUBSET ContentKeys]
  /\ sealedWith \in [KeyNodes -> SUBSET ContentKeys] /\ provisioned \subseteq ContentKeys
  /\ script \in [kind : {"none", "provision", "check", "activate"}, key : ContentKeys,
                 todo : SUBSET KeyNodes]
  /\ boots \in 0..MaxBoots

\* Some nodes run, on the key they were created with.
KeysInit ==
  /\ keyFiles = [n \in KeyNodes |-> {BootKey}] /\ readPaths = [n \in KeyNodes |-> {}]
  /\ activePath = [n \in KeyNodes |-> BootKey] /\ activeKey = [n \in KeyNodes |-> BootKey]
  /\ running \in SUBSET KeyNodes /\ loaded = [n \in KeyNodes |-> {BootKey}]
  /\ sealedWith = [n \in KeyNodes |-> {}]
  /\ script = NoScript /\ provisioned = {} /\ boots = 0

-----------------------------------------------------------------------------
(* The operator's scripts.                                                  *)

Next1(n) == script' = [script EXCEPT !.todo = @ \ {n}]

\* provision() begins, for a new key or again for one that was given up.
Provision(k) ==
  /\ script = NoScript /\ k # BootKey
  /\ script' = [kind |-> "provision", key |-> k, todo |-> KeyNodes]
  /\ UNCHANGED <<configs, processes, sealedWith, provisioned>>

\* Node by node: its key file, unless it is there, then its configuration.
WriteKeyFile(n) ==
  /\ script.kind = "provision" /\ n \in script.todo /\ script.key \notin keyFiles[n]
  /\ keyFiles' = [keyFiles EXCEPT ![n] = @ \cup {script.key}]
  /\ UNCHANGED <<readPaths, activePath, processes, sealedWith, script, provisioned>>

ListKey(n) ==
  /\ script.kind = "provision" /\ n \in script.todo /\ script.key \in keyFiles[n]
  /\ readPaths' = [readPaths EXCEPT ![n] = @ \cup {script.key}]
  /\ Next1(n)
  /\ UNCHANGED <<keyFiles, activePath, processes, sealedWith, provisioned>>

Provisioned ==
  /\ script.kind = "provision" /\ script.todo = {}
  /\ provisioned' = provisioned \cup {script.key}
  /\ script' = NoScript
  /\ UNCHANGED <<configs, processes, sealedWith>>

\* activate() lists the running nodes, of which there must be enough.
ActivateKey(k) ==
  /\ script = NoScript /\ k \in provisioned /\ Cardinality(running) >= NeedRunning
  /\ script' = [kind |-> "check", key |-> k, todo |-> running]
  /\ UNCHANGED <<configs, processes, sealedWith, provisioned>>

\* GetKeyStatus: the process at n has loaded the key; its file alone is no evidence.
HasFile(n, k) == k \in keyFiles[n]
HasLoaded(n, k) == k \in loaded[n]

AskStatus(n) ==
  /\ script.kind = "check" /\ n \in script.todo
  /\ script' = IF n \in running /\ HasLoaded(n, script.key)
               THEN [script EXCEPT !.todo = @ \ {n}] ELSE NoScript
  /\ UNCHANGED <<configs, processes, sealedWith, provisioned>>

AllLoaded ==
  /\ script.kind = "check" /\ script.todo = {}
  /\ script' = [script EXCEPT !.kind = "activate", !.todo = KeyNodes]
  /\ UNCHANGED <<configs, processes, sealedWith, provisioned>>

\* Then it changes the configuration of every node that has the file.
SetActive(n) ==
  /\ script.kind = "activate" /\ n \in script.todo
  /\ IF HasFile(n, script.key)
     THEN /\ activePath' = [activePath EXCEPT ![n] = script.key]
          /\ script' = IF script.todo = {n} THEN NoScript ELSE [script EXCEPT !.todo = @ \ {n}]
     ELSE script' = NoScript /\ UNCHANGED activePath
  /\ UNCHANGED <<keyFiles, readPaths, processes, sealedWith, provisioned>>

ScriptDies ==
  /\ script # NoScript
  /\ script' = NoScript
  /\ UNCHANGED <<configs, processes, sealedWith, provisioned>>

\* check_retirement(), which changes nothing: everything is stopped, no block is under the
\* key, and it is the first or the active key of no node.
RetirementEligible(k) ==
  /\ running = {}
  /\ \A n \in KeyNodes : k \notin sealedWith[n] \cup {BootKey, activePath[n]}

\* The operator takes a key that is eligible out of every node.
WithdrawKey(k) ==
  /\ script = NoScript /\ RetirementEligible(k)
  /\ keyFiles' = [n \in KeyNodes |-> keyFiles[n] \ {k}]
  /\ readPaths' = [n \in KeyNodes |-> readPaths[n] \ {k}]
  /\ provisioned' = provisioned \ {k}
  /\ UNCHANGED <<activePath, processes, sealedWith, script>>

-----------------------------------------------------------------------------
(* The nodes.                                                               *)

\* DataNode.__init__: all the keys of the configuration, or the process does not start.
StartNode(n) ==
  LET ring == readPaths[n] \cup {BootKey, activePath[n]} IN
  /\ n \notin running /\ boots < MaxBoots /\ ring \subseteq keyFiles[n]
  /\ boots' = boots + 1
  /\ running' = running \cup {n}
  /\ loaded' = [loaded EXCEPT ![n] = ring]
  /\ activeKey' = [activeKey EXCEPT ![n] = activePath[n]]
  /\ UNCHANGED <<configs, sealedWith, script, provisioned>>

StopNode(n) ==
  /\ n \in running
  /\ running' = running \ {n}
  /\ UNCHANGED <<configs, loaded, activeKey, boots, sealedWith, script, provisioned>>

\* put(): under the active key of the process.
StoreUnderKey(n) ==
  /\ n \in running
  /\ sealedWith' = [sealedWith EXCEPT ![n] = @ \cup {activeKey[n]}]
  /\ UNCHANGED <<configs, processes, script, provisioned>>

\* copy(): the block arrives as it is, at a node that has loaded its key.
CopyUnderKey(s, n, k) ==
  /\ {s, n} \subseteq running /\ k \in sealedWith[s] /\ k \in loaded[n]
  /\ sealedWith' = [sealedWith EXCEPT ![n] = @ \cup {k}]
  /\ UNCHANGED <<configs, processes, script, provisioned>>

\* The last block under a key is collected from a node.
LastDeleted(n, k) ==
  /\ n \in running /\ k \in sealedWith[n]
  /\ sealedWith' = [sealedWith EXCEPT ![n] = @ \ {k}]
  /\ UNCHANGED <<configs, processes, script, provisioned>>

KeysNext ==
  \/ \E k \in ContentKeys : Provision(k) \/ ActivateKey(k) \/ WithdrawKey(k)
  \/ Provisioned \/ AllLoaded \/ ScriptDies
  \/ \E n \in KeyNodes : \/ WriteKeyFile(n) \/ ListKey(n) \/ AskStatus(n) \/ SetActive(n)
                         \/ StartNode(n) \/ StopNode(n) \/ StoreUnderKey(n)
  \/ \E n \in KeyNodes, k \in ContentKeys :
       LastDeleted(n, k) \/ \E s \in KeyNodes : CopyUnderKey(s, n, k)

KeysSpec == KeysInit /\ [][KeysNext]_keysVars

-----------------------------------------------------------------------------

\* Every block on any volume, running or not, can be read by every node that runs and by any
\* node that starts, so that each may serve, verify and receive any copy, through rotations
\* that overlap with restarts and scripts that die half way, and after a key was withdrawn
\* (provision, activate, check_retirement, put, copy, DataNode.__init__).
KeysEverywhere ==
  \A s \in KeyNodes : \A k \in sealedWith[s], n \in KeyNodes :
    /\ n \in running => k \in loaded[n]
    /\ k \in readPaths[n] \cup {BootKey} /\ k \in keyFiles[n]
=============================================================================
