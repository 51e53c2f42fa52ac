----------------------------- MODULE ChangeFeed -----------------------------
(***************************************************************************)
(* What the transactional outbox promises to everything downstream of it   *)
(* (the realtime transport, `projects.changes`, the browser's cursor): one *)
(* append-only feed of committed domain events.                            *)
(*                                                                         *)
(* An event is a pair <<aggregate, version>>.  An event is committed in    *)
(* version order, enters the feed at most once and only after every event  *)
(* that is already in it, and is first handed to the transport in feed     *)
(* order.  An event whose stored envelope cannot be parsed is never fed.   *)
(***************************************************************************)
EXTENDS Naturals, Sequences, FiniteSets

CONSTANT Aggregates

VARIABLES
  committed,   \* the events whose transaction committed
  feed,        \* the feed: the event with feedSeq n is feed[n]
  delivered    \* how long a prefix of the feed has reached the transport

vars == <<committed, feed, delivered>>

Fed(f) == {f[n] : n \in 1..Len(f)}

Init ==
  /\ committed = {}
  /\ feed = <<>>
  /\ delivered = 0

\* The next version of one aggregate becomes durable.
Commit ==
  /\ \E a \in Aggregates :
       committed' = committed \cup {<<a, Cardinality({e \in committed : e[1] = a}) + 1>>}
  /\ UNCHANGED <<feed, delivered>>

\* Committed events join the end of the feed, each aggregate's in version order.
Extend ==
  /\ Len(feed') > Len(feed)
  /\ SubSeq(feed', 1, Len(feed)) = feed
  /\ Fed(feed') \subseteq committed
  /\ \A m, n \in 1..Len(feed') :
       m < n /\ feed'[m][1] = feed'[n][1] => feed'[m][2] < feed'[n][2]
  /\ UNCHANGED <<committed, delivered>>

\* The next event of the feed reaches the transport for the first time.
Deliver ==
  /\ delivered < Len(feed)
  /\ delivered' = delivered + 1
  /\ UNCHANGED <<committed, feed>>

Next == Commit \/ Extend \/ Deliver

Spec == Init /\ [][Next]_vars
=============================================================================
