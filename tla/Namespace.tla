----------------------------- MODULE Namespace -----------------------------
(***************************************************************************)
(* The directory tree: creations, removals and uploads of many clients,     *)
(* each one write transaction, beside a client that lists a directory in    *)
(* several pages, each page a transaction of its own that resolves the path *)
(* again.                                                                   *)
(*                                                                          *)
(* A name is a number, in the order in which a directory lists its names; a *)
(* path is a sequence of names.  Node 1 is the root.  The revision of a     *)
(* node only grows, and is compared only with the one in a cursor: the      *)
(* listing keeps whether the two still agree.  Permissions, and the         *)
(* identity of the client's working directory, only refuse calls, and a     *)
(* call that is refused changes nothing: they are left out.                 *)
(***************************************************************************)
EXTENDS Integers, Sequences, FiniteSets

CONSTANTS
  MaxNodes,     \* nodes ever made
  MaxNames,     \* names in use
  MaxDepth,     \* longest path (32 in the code)
  MaxUploads,   \* uploads ever begun
  PageLimit     \* entries of a page (at most 100 in the code)

ASSUME NamespaceAssumption ==
  /\ MaxNodes \in Nat \ {0} /\ MaxNames \in Nat /\ MaxDepth \in Nat
  /\ MaxUploads \in Nat /\ PageLimit \in Nat \ {0}

Root == 1
NodeIds == 1..MaxNodes
Names == 1..MaxNames
Paths == UNION {[1..d -> Names] : d \in 0..MaxDepth}
Directory == "directory"
File == "file"

VARIABLES
  node,     \* node records, by identity; 0 as parent for the root and the unused
  upload,   \* upload records
  listing   \* the client's listing: its path, cursor and entries so far

namespaceVars == <<node, upload, listing>>

NoNode == [name |-> 0, parent |-> 0, kind |-> File, alive |-> FALSE]
NoUpload == [state |-> "none", live |-> FALSE, parent |-> 0, name |-> 0, base |-> 0]
Ended == [NoUpload EXCEPT !.state = "ended"]  \* committed or aborted
NoListing == [state |-> "off", path |-> <<>>, dir |-> 0, fresh |-> FALSE, last |-> 0, got |-> {}]

NamespaceTypeOK ==
  /\ node \in [NodeIds -> [name : 0..MaxNames, parent : 0..MaxNodes, kind : {Directory, File},
                           alive : BOOLEAN]]
  /\ upload \in [1..MaxUploads -> [state : {"none", "PREPARING", "ended"}, live : BOOLEAN,
                                   parent : 0..MaxNodes, name : 0..MaxNames, base : 0..MaxNodes]]
  /\ listing \in [state : {"off", "open", "done"}, path : Paths, dir : 0..MaxNodes,
                  fresh : BOOLEAN, last : 0..MaxNodes, got : SUBSET NodeIds]

NamespaceInit ==
  /\ node = [i \in NodeIds |-> IF i = Root THEN [NoNode EXCEPT !.kind = Directory, !.alive = TRUE]
                               ELSE NoNode]
  /\ upload = [o \in 1..MaxUploads |-> NoUpload]
  /\ listing = NoListing

-----------------------------------------------------------------------------
(* Lookup.                                                                  *)

\* tx.children(): the living ones.
Children(d) == {i \in NodeIds : node[i].alive /\ node[i].parent = d}
ChildNamed(d, name) == {i \in Children(d) : node[i].name = name}
IsDirectory(i) == i \in NodeIds /\ node[i].alive /\ node[i].kind = Directory

\* walk(): the node a path names, 0 when one of its names is missing.
walk[p \in Paths] ==
  IF p = <<>> THEN Root
  ELSE LET d == walk[SubSeq(p, 1, Len(p) - 1)]
           found == IF IsDirectory(d) THEN ChildNamed(d, p[Len(p)]) ELSE {}
       IN IF found = {} THEN 0 ELSE CHOOSE i \in found : TRUE

\* reserved(): an upload that is still alive holds the name.
Reserved(d, name) == \E o \in 1..MaxUploads :
  upload[o].state = "PREPARING" /\ upload[o].live /\ upload[o].parent = d /\ upload[o].name = name

\* uid(): nodes are made in order.
Fresh(i) == node[i] = NoNode /\ \A k \in 1..(i - 1) : node[k] # NoNode

\* bump(): a cursor made before for one of these nodes is no longer good.
Bump(D) == [listing EXCEPT !.fresh = @ /\ listing.dir \notin D]

-----------------------------------------------------------------------------
(* Commands.  d is the directory that the request's path leads to.          *)

\* Mkdir, and the creating modes of Open, of a name that does not exist.
Make(d, name, kind) ==
  /\ IsDirectory(d)
  /\ ChildNamed(d, name) = {} /\ ~Reserved(d, name)
  /\ \E i \in NodeIds :
       /\ Fresh(i)
       /\ node' = [node EXCEPT ![i] = [name |-> name, parent |-> d, kind |-> kind, alive |-> TRUE]]
  /\ listing' = Bump({d})
  /\ UNCHANGED upload

\* Its path is not too long.
MakeAt(p, name, kind) == walk[p] # 0 /\ Len(p) < MaxDepth /\ Make(walk[p], name, kind)

\* remove(): what makes a directory empty.
Empty(i) ==
  /\ Children(i) = {}
  /\ ~\E o \in 1..MaxUploads : upload[o].state = "PREPARING" /\ upload[o].live /\ upload[o].parent = i

\* Rmdir and Remove; uploads that would replace the file are aborted.
RemoveNode(i) ==
  /\ i # Root /\ node[i].alive
  /\ node[i].kind = Directory => Empty(i)
  /\ node' = [node EXCEPT ![i].alive = FALSE]
  /\ upload' = [o \in 1..MaxUploads |->
                  IF upload[o].state = "PREPARING" /\ upload[o].base = i
                  THEN Ended ELSE upload[o]]
  /\ listing' = Bump({i, node[i].parent})

\* SetAcl: only the revision of the node matters here.
SetAcl(i) ==
  /\ node[i].alive
  /\ listing' = Bump({i})
  /\ UNCHANGED <<node, upload>>

\* A new file, or a new content for one.
BeginUpload(o, d, name) ==
  /\ upload[o] = NoUpload
  /\ IsDirectory(d) /\ ~Reserved(d, name)
  /\ \A i \in ChildNamed(d, name) : node[i].kind = File
  /\ upload' = [upload EXCEPT ![o] = [state |-> "PREPARING", live |-> TRUE, parent |-> d, name |-> name,
                                      base |-> IF ChildNamed(d, name) = {} THEN 0
                                               ELSE CHOOSE i \in ChildNamed(d, name) : TRUE]]
  /\ UNCHANGED <<node, listing>>

\* Its five minutes pass without a renewal; the record stays as it is.
UploadLapses(o) ==
  /\ upload[o].state = "PREPARING" /\ upload[o].live
  /\ upload' = [upload EXCEPT ![o].live = FALSE]
  /\ UNCHANGED <<node, listing>>

\* Mutant: only the state of the operation is looked at, not its deadline and its directory.
OperationPrepared(o) == upload[o].state = "PREPARING"
\* operation(): in preparation, in time, its directory and its base still there.
Operation(o) ==
  /\ upload[o].state = "PREPARING" /\ upload[o].live
  /\ node[upload[o].parent].alive
  /\ upload[o].base # 0 => node[upload[o].base].alive

CommitUpload(o) ==
  /\ Operation(o)
  /\ \/ /\ upload[o].base = 0 /\ ChildNamed(upload[o].parent, upload[o].name) = {}
        /\ \E i \in NodeIds :
             /\ Fresh(i)
             /\ node' = [node EXCEPT ![i] = [name |-> upload[o].name, parent |-> upload[o].parent,
                                             kind |-> File, alive |-> TRUE]]
     \/ /\ upload[o].base # 0
        /\ UNCHANGED node
  /\ listing' = Bump({upload[o].base, upload[o].parent})
  /\ upload' = [upload EXCEPT ![o] = Ended]

\* AbortUpload, and the collector on an operation whose deadline passed.
AbortUpload(o) ==
  /\ upload[o].state = "PREPARING"
  /\ upload' = [upload EXCEPT ![o] = Ended]
  /\ UNCHANGED <<node, listing>>

-----------------------------------------------------------------------------
(* The client.                                                              *)

\* List: a cursor is good for the directory and the revision it was made at.
CursorGood(d) == listing.dir = d /\ listing.fresh /\ listing.last \in Children(d)

\* The entries of the next page: the first PageLimit names after the last one sent.
After(d, last) == {i \in Children(d) : last = 0 \/ node[i].name > node[last].name}
Page(d, last) == {i \in After(d, last) :
  Cardinality({k \in After(d, last) : node[k].name < node[i].name}) < PageLimit}
LastOf(S) == CHOOSE i \in S : \A k \in S : node[k].name <= node[i].name

\* ls: a page at a time; LIST_CHANGED ends it.
ListPage(p) ==
  /\ listing.state = "open" => p = listing.path
  /\ LET d == walk[p]
         last == IF listing.state = "open" THEN listing.last ELSE 0
         got == (IF listing.state = "open" THEN listing.got ELSE {}) \cup Page(d, last)
     IN /\ IsDirectory(d)
        /\ \/ /\ listing.state = "open" /\ ~CursorGood(d)
              /\ listing' = NoListing
           \/ /\ listing.state # "open" \/ CursorGood(d)
              /\ listing' = IF After(d, last) = Page(d, last)
                            THEN [NoListing EXCEPT !.state = "done", !.dir = d, !.got = got]
                            ELSE [state |-> "open", path |-> p, dir |-> d, fresh |-> TRUE,
                                  last |-> LastOf(Page(d, last)), got |-> got]
  /\ UNCHANGED <<node, upload>>

NamespaceNext ==
  \/ \E p \in Paths, name \in Names, kind \in {Directory, File} : MakeAt(p, name, kind)
  \/ \E i \in NodeIds : RemoveNode(i) \/ SetAcl(i)
  \/ \E o \in 1..MaxUploads : \/ \E d \in NodeIds, name \in Names : BeginUpload(o, d, name)
                              \/ UploadLapses(o) \/ CommitUpload(o) \/ AbortUpload(o)
  \/ \E p \in Paths : ListPage(p)

NamespaceSpec == NamespaceInit /\ [][NamespaceNext]_namespaceVars

-----------------------------------------------------------------------------
(* Properties.                                                              *)

\* The tree is a tree with unique names, although names are reserved by uploads that
\* lapse and directories are removed while uploads into them are being prepared (Mkdir,
\* remove, BeginUpload, CommitUpload): a living node has a living directory above it, and
\* no living sibling of its name.
TreeSound ==
  \A i \in NodeIds \ {Root} : node[i].alive =>
    IsDirectory(node[i].parent) /\ ChildNamed(node[i].parent, node[i].name) = {i}

\* A listing that comes to its end is that of one moment: what the directory holds at its
\* last page, although every page resolves the path again and is a transaction of its own
\* (List, ls, and every command's bump of the directory).
ListingExact ==
  listing'.state = "done" /\ listing' # listing => listing'.got = Children(listing'.dir)

\* After every step the tree is a tree with unique names, and it is listed as it is
\* (Namespace's commands and queries).
NamesConsistent == [][TreeSound' /\ ListingExact]_namespaceVars
=============================================================================
