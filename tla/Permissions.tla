---------------------------- MODULE Permissions ----------------------------
(***************************************************************************)
(* Who may do what: groups and the policies of a home directory and of the  *)
(* file in it.  One client is followed over several calls: it holds a       *)
(* handle on the file, an upload in preparation or a policy it has read.    *)
(* Meanwhile the others open, truncate, make and remove the file and change *)
(* policies and groups, each client without a pause between its calls.      *)
(*                                                                          *)
(* The tree is /home/dir/file.  Nodes are numbers, the directories below    *)
(* zero; a file that is removed and made again is another node.  Sessions,       *)
(* leases and contents are in other modules; a call that is refused changes *)
(* nothing and is no step.                                                  *)
(***************************************************************************)
EXTENDS Integers, FiniteSets

CONSTANTS
  Admin,      \* the administrator initialize() makes
  People,     \* the other users
  Owner,      \* the one whose home directory is modelled
  Team,       \* a group beside the users' own ones
  MaxFiles,   \* file nodes ever made
  MaxBumps,   \* the highest revision of a file, and one less than that of a directory
  MaxEdits    \* changes of policies and groups

ASSUME PermissionsAssumption ==
  /\ Owner \in People /\ Admin \notin People /\ Team \notin People \cup {Admin}
  /\ MaxFiles \in Nat /\ MaxBumps \in Nat \ {0} /\ MaxEdits \in Nat

Accounts == People \cup {Admin}
Home == -2
Dir == -1
Folders == {Home, Dir}
NoFileHere == 0
Nodes == Folders \cup 1..MaxFiles

Bits == {"r", "w", "x"}
OpenModes == {"R", "R_PLUS", "W"}
Policy(o, own, grp, oth) ==
  [owner |-> o, group |-> o, mode |-> [owner |-> own, group |-> grp, other |-> oth], entries |-> {}]
NoPolicy == Policy(Admin, {}, {}, {})

\* The modes and the entries that requests ask for.
ModesAsked == {[owner |-> Bits, group |-> {}, other |-> {}],
               [owner |-> Bits, group |-> Bits, other |-> {"x"}]}
EntriesAsked == {{}, {[who |-> Team, isGroup |-> TRUE, bits |-> {"r"}]}} \cup
                {{[who |-> p, isGroup |-> FALSE, bits |-> Bits]} : p \in People \ {Owner}}
\* The policy of /home stays: everyone may cross it.
NodesAsked == Nodes \ {Home}

VARIABLES
  strict,   \* settings: strict_content_permissions
  groups,   \* group records: the members of each
  acl,      \* the policy of every node
  revision, \* the revision of every node
  filed,    \* the file the name leads to
  filesMade,\* file nodes so far
  held,     \* what the client that is followed holds
  did,      \* history: what the last step did to content or policies
  edits     \* changes so far

permissionsVars == <<strict, groups, acl, revision, filed, filesMade, held, did, edits>>

Nothing == [what |-> "nothing", who |-> Admin, node |-> NoFileHere, read |-> NoFileHere, kept |-> TRUE]
NoHold == [kind |-> "none", who |-> Admin, node |-> NoFileHere, mode |-> "R",
           acl |-> NoPolicy, revision |-> 0]

LastRevision(n) == IF n \in Folders THEN MaxBumps + 1 ELSE MaxBumps

PermissionsTypeOK ==
  /\ strict \in BOOLEAN
  /\ groups \in [Accounts \cup {Team} -> SUBSET Accounts]
  /\ \A n \in Nodes : acl[n].owner \in Accounts /\ acl[n].group \in DOMAIN groups
  /\ \A n \in Nodes : revision[n] \in 1..LastRevision(n)
  /\ filesMade \in 0..MaxFiles /\ filed \in 0..filesMade
  /\ held.kind \in {"none", "handle", "upload", "policy"} /\ held.who \in Accounts
  /\ held.node \in Folders \cup 0..filesMade
  /\ edits \in 0..MaxEdits

\* What CreateUser and CreateGroup made: every user has a group of his own.
FirstGroups == [g \in Accounts \cup {Team} |-> IF g = Team THEN {} ELSE {g}]

\* The policies of the directories made by initialize() and CreateUser().
FirstPolicies == [n \in Nodes |->
  CASE n = Home -> Policy(Admin, Bits, {"r", "x"}, {"r", "x"})
    [] n = Dir -> Policy(Owner, Bits, {}, {})
    [] OTHER -> NoPolicy]

\* The owner may have opened the directory before.
PermissionsInit ==
  /\ strict \in BOOLEAN
  /\ groups = FirstGroups
  /\ \E m \in ModesAsked : acl = [FirstPolicies EXCEPT ![Dir].mode = m]
  /\ revision = [n \in Nodes |-> 1]
  /\ filed = NoFileHere /\ filesMade = 0
  /\ held = NoHold /\ did = Nothing /\ edits = 0

-----------------------------------------------------------------------------
(* Checks.                                                                  *)

InGroup(u, g) == u \in groups[g]
NamedBy(u, entry) == IF entry.isGroup THEN InGroup(u, entry.who) ELSE entry.who = u

\* The bits a policy gives a user: those of one class, and of every entry that names him.
Allowed(u, n) ==
  LET a == acl[n]
      class == IF a.owner = u THEN "owner" ELSE IF InGroup(u, a.group) THEN "group" ELSE "other"
  IN a.mode[class] \cup UNION {e.bits : e \in {x \in a.entries : NamedBy(u, x)}}

\* require(): the administrator may do everything, or in the strict profile only cross
\* directories.
Passes(u, n, bits) ==
  \/ u = Admin /\ (~strict \/ (n \in Folders /\ bits = {"x"}))
  \/ bits \subseteq Allowed(u, n)

\* walk(): every directory on the way is crossed.
Above(n) == CASE n = Home -> {} [] n = Dir -> {Home} [] OTHER -> Folders
Reaches(u, n) == \A d \in Above(n) : Passes(u, d, {"x"})

\* parent(): the directory in which an entry is made or removed.
MayEnter(u) == Reaches(u, Dir) /\ Passes(u, Dir, {"w", "x"})

OpenNeeds(mode) == CASE mode = "R" -> {"r"} [] mode = "R_PLUS" -> {"r", "w"} [] OTHER -> {"w"}
UseNeeds(mode) == IF mode = "W" THEN {"w"} ELSE {"r"}

\* Mutant: the rights are looked at only when the file is opened.
HandleAtOpen == held.kind = "handle"
\* handle(): the rights on the file, and on the way to it, are looked at again.
Handle ==
  /\ held.kind = "handle"
  /\ Passes(held.who, held.node, UseNeeds(held.mode))
  /\ \A d \in Folders : Passes(held.who, d, {"x"})

\* writable(): and the file is still there.
Writable ==
  /\ Handle /\ held.mode # "R"
  /\ Passes(held.who, held.node, {"w"})
  /\ filed = held.node

\* operation(): the rights on the directory and on the file that would be replaced.
OperationPermitted ==
  /\ held.kind = "upload"
  /\ Passes(held.who, Dir, {"w", "x"})
  /\ held.node # NoFileHere => held.node = filed /\ Passes(held.who, filed, {"w"})

-----------------------------------------------------------------------------
(* Content.                                                                 *)

BumpNodes(D) ==
  /\ \A n \in D : revision[n] < LastRevision(n)
  /\ revision' = [n \in Nodes |-> IF n \in D THEN revision[n] + 1 ELSE revision[n]]

\* new_node(): it belongs to its maker, who alone may use it.
NewFile(u) ==
  /\ filesMade < MaxFiles
  /\ filesMade' = filesMade + 1 /\ filed' = filesMade + 1
  /\ acl' = [acl EXCEPT ![filesMade + 1] = Policy(u, {"r", "w"}, {}, {})]
  /\ BumpNodes({Dir, filesMade + 1})

NewContent(D) == BumpNodes(D \cup {filed}) /\ UNCHANGED <<filesMade, filed, acl>>

Effect(what, u, n) == did' = [Nothing EXCEPT !.what = what, !.who = u, !.node = n]

\* The client that is followed holds this, or another client that does not keep it.
Holds(h) == held' = held \/ (held = NoHold /\ held' = h)

\* Open; the creating mode makes the file or truncates it, unless an upload has the name.
Open(u, mode) ==
  /\ Reaches(u, filed)
  /\ mode = "W" => held.kind # "upload"   \* reserved()
  /\ \/ /\ filed # NoFileHere
        /\ Passes(u, filed, OpenNeeds(mode))
        /\ IF mode = "W" THEN NewContent({Dir}) /\ Effect("write", u, filed)
           ELSE did' = Nothing /\ UNCHANGED <<acl, revision, filed, filesMade>>
     \/ /\ filed = NoFileHere /\ mode = "W"
        /\ MayEnter(u) /\ NewFile(u)
        /\ did' = Nothing
  /\ Holds([NoHold EXCEPT !.kind = "handle", !.who = u, !.node = filed', !.mode = mode])
  /\ UNCHANGED <<strict, groups, edits>>

\* BeginRead, ResolveBlocks and the block authorisations of a read.
Read ==
  /\ Handle /\ held.mode # "W"
  /\ Effect("read", held.who, held.node)
  /\ UNCHANGED <<strict, groups, acl, revision, filed, filesMade, held, edits>>

\* CommitWrite.
Write ==
  /\ Writable
  /\ NewContent({}) /\ Effect("write", held.who, filed)
  /\ UNCHANGED <<strict, groups, held, edits>>

PrepareUpload(u) ==
  /\ held = NoHold
  /\ MayEnter(u)
  /\ filed # NoFileHere => Passes(u, filed, {"w"})
  /\ held' = [NoHold EXCEPT !.kind = "upload", !.who = u, !.node = filed]
  /\ did' = Nothing
  /\ UNCHANGED <<strict, groups, acl, revision, filed, filesMade, edits>>

PublishUpload ==
  /\ OperationPermitted
  /\ \/ held.node = NoFileHere /\ filed = NoFileHere /\ NewFile(held.who)
     \/ held.node # NoFileHere /\ NewContent({Dir})
  /\ Effect("upload", held.who, held.node)
  /\ held' = NoHold
  /\ UNCHANGED <<strict, groups, edits>>

\* Close, AbortUpload, a lease or an operation that runs out, a policy not sent.
LetGo ==
  /\ held # NoHold /\ held' = NoHold
  /\ did' = Nothing
  /\ UNCHANGED <<strict, groups, acl, revision, filed, filesMade, edits>>

\* remove(): an upload that would replace the file is aborted.
RemoveTarget(u) ==
  /\ filed # NoFileHere
  /\ Reaches(u, filed) /\ Passes(u, Dir, {"w", "x"})
  /\ filed' = NoFileHere
  /\ BumpNodes({filed, Dir})
  /\ held' = IF held.kind = "upload" /\ held.node = filed THEN NoHold ELSE held
  /\ did' = Nothing
  /\ UNCHANGED <<strict, groups, acl, filesMade, edits>>

-----------------------------------------------------------------------------
(* Policies.                                                                *)

\* What a path leads to: a directory, or the file that has the name now.
Named == Folders \cup ({filed} \ {NoFileHere})
Again(n) == IF n \in Folders THEN n ELSE filed

Answer(u, n) == [NoHold EXCEPT !.kind = "policy", !.who = u, !.node = n, !.acl = acl[n],
                               !.revision = revision[n]]

GetAcl(u, n) ==
  /\ held = NoHold /\ n \in Named /\ Reaches(u, n)
  /\ u = Admin \/ acl[n].owner = u \/ Passes(u, n, {"r"})
  /\ held' = Answer(u, n)
  /\ did' = Nothing
  /\ UNCHANGED <<strict, groups, acl, revision, filed, filesMade, edits>>

\* The policies a request may ask for, made from one that was read: chmod changes the
\* mode, set_acl the entries, the owner or the group.
Asked(a) ==
  {[a EXCEPT !.mode = m] : m \in ModesAsked} \cup {[a EXCEPT !.entries = es] : es \in EntriesAsked}
    \cup {[a EXCEPT !.owner = v] : v \in People \ {Owner}} \cup {[a EXCEPT !.group = Team]}

\* SetPolicy: the path is resolved again, and the revision compared is that of what it leads
\* to now.
SetPolicy(u, read) ==
  LET n == Again(read.node)
  IN /\ edits < MaxEdits /\ edits' = edits + 1
     /\ n \in Named /\ Reaches(u, n)
     /\ u = Admin \/ acl[n].owner = u
     /\ read.revision = revision[n]
     /\ \E a \in Asked(read.acl) :
          /\ u = Admin \/ (a.owner = acl[n].owner /\ a.group = acl[n].group)
          /\ acl' = [acl EXCEPT ![n] = a]
     /\ BumpNodes({n})
     /\ did' = [what |-> "policy", who |-> u, node |-> n, read |-> read.node, kept |-> read.acl = acl[n]]
     /\ UNCHANGED <<strict, groups, filed, filesMade>>

SetHeld == held.kind = "policy" /\ SetPolicy(held.who, held) /\ held' = NoHold
SetAtOnce(u, n) == n \in Named /\ SetPolicy(u, Answer(u, n)) /\ UNCHANGED held

SetGroupMembers(S) ==
  /\ edits < MaxEdits /\ edits' = edits + 1
  /\ groups' = [groups EXCEPT ![Team] = S]
  /\ did' = Nothing
  /\ UNCHANGED <<strict, acl, revision, filed, filesMade, held>>

PermissionsNext ==
  \/ \E u \in Accounts :
       \/ \E mode \in OpenModes : Open(u, mode)
       \/ PrepareUpload(u) \/ RemoveTarget(u)
       \/ \E n \in NodesAsked : GetAcl(u, n) \/ SetAtOnce(u, n)
  \/ Read \/ Write \/ PublishUpload \/ LetGo \/ SetHeld
  \/ \E S \in SUBSET (People \ {Owner}) : SetGroupMembers(S)

PermissionsSpec == PermissionsInit /\ [][PermissionsNext]_permissionsVars

-----------------------------------------------------------------------------
(* Property.                                                                *)

\* What a handle or an upload does, it does with rights the policies give at that moment,
\* however long ago it was opened and whatever it could do then; in the strict profile the
\* administrator has no others.  A policy made from one that was read, the administrator's
\* too, replaces exactly that one, with one exception: when the file it was read from has
\* been removed, and a file made later has its name and as many changes, that file's policy
\* is replaced although nobody read it, because SetAcl compares only the revision of what
\* the path leads to now (require, handle, writable, operation, SetAcl, chmod).
RightsCurrent ==
  [][LET u == did'.who
         f == did'.node
         crosses == u = Admin \/ \A d \in Folders : "x" \in Allowed(u, d)
     IN /\ strict \/ u # Admin =>
             /\ did'.what = "read" => "r" \in Allowed(u, f) /\ crosses
             /\ did'.what = "write" => "w" \in Allowed(u, f) /\ crosses
             /\ did'.what = "upload" => {"w", "x"} \subseteq Allowed(u, Dir)
             /\ did'.what = "upload" /\ f # NoFileHere => "w" \in Allowed(u, f)
        /\ did'.what = "policy" => did'.kept \/ (0 < did'.read /\ did'.read < f)]_permissionsVars
=============================================================================
