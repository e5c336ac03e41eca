----------------------------- MODULE RootWatch -----------------------------
(***************************************************************************)
(* The watch of the metadata root that every HA control keeps (RootWatch in *)
(* control/etcd_watch.py).  Its thread reads the root once, asks etcd for   *)
(* the changes after the revision it has seen, and reconnects from that     *)
(* revision when the stream ends, or reads the root again when etcd has     *)
(* compacted the changes it asks for.  Others pause, resume and close it    *)
(* from their own threads, between any two of its steps.                    *)
(***************************************************************************)
EXTENDS Integers, FiniteSets

CONSTANTS
  MaxEtcdRevision,   \* revisions of etcd
  Endpoints      \* etcd endpoints of the shared channel

ASSUME WatchAssumption == MaxEtcdRevision \in Nat \ {0} /\ Endpoints \in Nat \ {0}

VARIABLES
  etcdRev,      \* the revision of etcd
  rootRevs,     \* the revisions at which the root was put
  compacted,    \* the revision etcd has compacted up to
  watcher,      \* the thread: where it is, and the revision it has seen
  feed,         \* its stream: open, and the revision that comes next on it
  orders,       \* what others have asked for: a pause, the end
  events,       \* events it counted
  told,         \* revisions the events had
  reread,       \* revisions of the root it read instead
  endpoint      \* the endpoint the channel prefers

watchVars == <<etcdRev, rootRevs, compacted, watcher, feed, orders, events, told, reread, endpoint>>

WatchTypeOK ==
  /\ etcdRev \in 1..MaxEtcdRevision /\ compacted \in 0..MaxEtcdRevision
  /\ rootRevs \cup told \cup reread \subseteq 1..MaxEtcdRevision
  /\ watcher \in [at : {"top", "read", "connect", "stream", "ended"}, seen : 0..MaxEtcdRevision, disconnected : BOOLEAN]
  /\ feed \in [open : BOOLEAN, next : 1..MaxEtcdRevision + 1]
  /\ orders \in [paused : BOOLEAN, stop : BOOLEAN]
  /\ events \in Nat /\ endpoint \in 0..Endpoints - 1

WatchInit ==
  /\ etcdRev = 1 /\ rootRevs = {1} /\ compacted = 0
  /\ watcher = [at |-> "top", seen |-> 0, disconnected |-> FALSE]
  /\ feed = [open |-> FALSE, next |-> 1]
  /\ orders = [paused |-> FALSE, stop |-> FALSE]
  /\ events = 0 /\ told = {} /\ reread = {} /\ endpoint = 0

-----------------------------------------------------------------------------
(* etcd and the others.                                                     *)

PutKey(isRoot) ==
  /\ etcdRev < MaxEtcdRevision
  /\ etcdRev' = etcdRev + 1
  /\ rootRevs' = IF isRoot THEN rootRevs \cup {etcdRev'} ELSE rootRevs
  /\ UNCHANGED <<compacted, watcher, feed, orders, events, told, reread, endpoint>>

Compact ==
  /\ compacted' \in compacted + 1..etcdRev
  /\ UNCHANGED <<etcdRev, rootRevs, watcher, feed, orders, events, told, reread, endpoint>>

\* cancel() on the stream that is there: it says no more.
Cancelled == [feed EXCEPT !.open = FALSE]

\* A stream that the thread opens after this is not cancelled by it.
Pause ==
  /\ ~orders.paused
  /\ orders' = [orders EXCEPT !.paused = TRUE]
  /\ feed' = Cancelled
  /\ UNCHANGED <<etcdRev, rootRevs, compacted, watcher, events, told, reread, endpoint>>

Resume ==
  /\ orders.paused
  /\ orders' = [orders EXCEPT !.paused = FALSE]
  /\ UNCHANGED <<etcdRev, rootRevs, compacted, watcher, feed, events, told, reread, endpoint>>

CloseWatch ==
  /\ ~orders.stop
  /\ orders' = [orders EXCEPT !.stop = TRUE]
  /\ feed' = Cancelled
  /\ UNCHANGED <<etcdRev, rootRevs, compacted, watcher, events, told, reread, endpoint>>

-----------------------------------------------------------------------------
(* The thread.                                                              *)

\* The head of the loop: it ends, waits while it is paused, or goes on with a read of the
\* root if it has seen nothing.
LoopHead ==
  /\ watcher.at = "top"
  /\ watcher' = IF orders.stop THEN [watcher EXCEPT !.at = "ended"]
                ELSE IF orders.paused THEN [watcher EXCEPT !.disconnected = TRUE]
                ELSE [watcher EXCEPT !.at = IF watcher.seen = 0 THEN "read" ELSE "connect", !.disconnected = FALSE]
  /\ UNCHANGED <<etcdRev, rootRevs, compacted, feed, orders, events, told, reread, endpoint>>

\* The root is read; what is seen is the revision of etcd at the read, not that of the root.
ReadRootNow ==
  /\ watcher.at = "read"
  /\ watcher' = [watcher EXCEPT !.at = "connect", !.seen = etcdRev]
  /\ reread' = reread \cup rootRevs
  /\ UNCHANGED <<etcdRev, rootRevs, compacted, feed, orders, events, told, endpoint>>

\* Mutant: the watch is asked for from what is new when it connects.
ResumeFromNow == etcdRev + 1
\* The revision a new stream starts at.
ResumeFrom == watcher.seen + 1

Connect ==
  /\ watcher.at = "connect"
  /\ feed' = [open |-> TRUE, next |-> ResumeFrom]
  /\ watcher' = [watcher EXCEPT !.at = "stream"]
  /\ UNCHANGED <<etcdRev, rootRevs, compacted, orders, events, told, reread, endpoint>>

\* finally: the stream is cancelled, and the loop begins again.
LoopAgain == [watcher EXCEPT !.at = "top", !.disconnected = TRUE]

\* The changes of the root from the next revision of the stream up to one.
Batch(upTo) == {r \in rootRevs : feed.next <= r /\ r <= upTo}
Newest(revs) == CHOOSE r \in revs : \A s \in revs : s <= r

\* A response with events.  A pause or the end that came with it ends the stream.
Deliver ==
  /\ watcher.at = "stream" /\ feed.open /\ feed.next >= compacted
  /\ \E upTo \in feed.next..etcdRev :
       LET batch == Batch(upTo)
           heard == [watcher EXCEPT !.seen = Newest(batch)]
           over  == orders.stop \/ orders.paused
       IN /\ batch # {}
          /\ told' = told \cup batch /\ events' = events + Cardinality(batch)
          /\ watcher' = IF over THEN [heard EXCEPT !.at = "top", !.disconnected = TRUE] ELSE heard
          /\ feed' = [feed EXCEPT !.next = upTo + 1, !.open = ~over]
  /\ UNCHANGED <<etcdRev, rootRevs, compacted, orders, reread, endpoint>>

\* A progress notification: there was no change of the root.  It has no events, so what the
\* thread has seen stays, but a compaction does not reach the stream any more.
Progress ==
  /\ watcher.at = "stream" /\ feed.open /\ feed.next >= compacted
  /\ feed.next <= etcdRev /\ Batch(etcdRev) = {}
  /\ IF orders.stop \/ orders.paused
     THEN watcher' = LoopAgain /\ feed' = Cancelled
     ELSE UNCHANGED watcher /\ feed' = [feed EXCEPT !.next = etcdRev + 1]
  /\ UNCHANGED <<etcdRev, rootRevs, compacted, orders, events, told, reread, endpoint>>

\* etcd no longer has the changes that the stream is to begin with: the root is read again.
CompactedAway ==
  /\ watcher.at = "stream" /\ feed.open /\ feed.next < compacted
  /\ watcher' = [LoopAgain EXCEPT !.seen = 0]
  /\ feed' = Cancelled
  /\ UNCHANGED <<etcdRev, rootRevs, compacted, orders, events, told, reread, endpoint>>

\* Mutant: the index is not wrapped.
NextIndex == endpoint + 1
\* The endpoint after the one the channel prefers.
NextEndpoint == (endpoint + 1) % Endpoints

\* The read, the connection or the stream fails, by its deadline or because it was
\* cancelled: the endpoint of the channel all users of the store share is changed.
WatchFails ==
  /\ watcher.at \in {"read", "connect", "stream"}
  /\ watcher' = LoopAgain
  /\ feed' = Cancelled
  /\ endpoint' = NextEndpoint
  /\ UNCHANGED <<etcdRev, rootRevs, compacted, orders, events, told, reread>>

WatchNext ==
  \/ \E isRoot \in BOOLEAN : PutKey(isRoot)
  \/ Compact \/ Pause \/ Resume \/ CloseWatch
  \/ LoopHead \/ ReadRootNow \/ Connect \/ Deliver \/ Progress \/ CompactedAway \/ WatchFails

WatchSpec == WatchInit /\ [][WatchNext]_watchVars

-----------------------------------------------------------------------------
(* Property.                                                                *)

\* No change of the root is missed or counted twice, however often the stream is cancelled,
\* fails or falls behind a compaction: every revision of the root up to the one the watch has
\* seen came as an event or was there when the root was read, the events were counted once
\* each, and a stream that is open goes on right after what was seen, as far as the root is
\* concerned (RootWatch.run).
WatchComplete ==
  /\ \A r \in rootRevs : r <= watcher.seen => r \in told \cup reread
  /\ events = Cardinality(told)
  /\ watcher.at = "stream" /\ feed.open =>
       \A r \in rootRevs : watcher.seen < r /\ r < feed.next => r \in told \cup reread
=============================================================================
