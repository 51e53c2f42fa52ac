------------------------------ MODULE Presence -------------------------------
(***************************************************************************)
(* Who looks at one scope: PresenceService over RedisPresenceStore, the    *)
(* tabs that report themselves and one browser that shows the result.      *)
(*                                                                         *)
(* A call of the store is several round trips to Redis, and each of them   *)
(* is a step here: calls of other tabs, of the sweeper and of other nodes  *)
(* come in between.  A call first drops the expired members.  The second   *)
(* reading of beat and leave drops none: it uses the clock value the call  *)
(* began with, and what had expired then is gone or renewed.               *)
(*                                                                         *)
(* Time is abstract.  A member may expire once its tab is silent, or late. *)
(* Every tab is a user of its own, in one state: a change of state travels *)
(* as a join does.  Beats that the throttle or the rate limit refuses, the *)
(* lists that other browsers load, and lost snapshots are left out.        *)
(***************************************************************************)
EXTENDS Naturals, FiniteSets

CONSTANTS
  Nodes,       \* server processes
  Tabs,
  Guests,      \* bound: the tabs that are closed again, or die
  MaxVisits,   \* bound: how often a tab enters the scope
  MaxLates,    \* bound: beats that come after their member has expired
  MaxCalls     \* bound: calls of the store under way at a time, publishing aside

ASSUME PresenceAssumption ==
  /\ MaxVisits \in Nat /\ MaxLates \in Nat /\ MaxCalls \in Nat \ {0}
  /\ Nodes # {} /\ Guests \subseteq Tabs

VARIABLES
  tab,       \* tab -> [place, visits]; place "gone": its browser died without a word
  members,   \* Redis: the tabs in the HASH and the ZSET of the scope
  expired,   \* those whose score has passed
  active,    \* is the scope in the SET the sweeper visits?
  call,      \* the calls under way, see Idle
  node,      \* node -> [queued, recent, owed]: its publish timer
  view,      \* the tabs the browser shows
  lates

redis == <<members, expired, active>>
vars == <<tab, members, expired, active, call, node, view, lates>>

BeatOf(t) == <<"beat", t>>
LeaveOf(t) == <<"leave", t>>
PublishOf(n) == <<"publish", n>>
Sweeper == <<"sweep", "cluster">>   \* one at a time (SET NX for 9 s)
Calls == {BeatOf(t) : t \in Tabs} \cup {LeaveOf(t) : t \in Tabs}
         \cup {PublishOf(n) : n \in Nodes} \cup {Sweeper}

Idle == [pc |-> "idle"]
AtRest(c) == call[c] = Idle

Init ==
  /\ tab = [t \in Tabs |-> [place |-> "away", visits |-> 0]]
  /\ members = {} /\ expired = {} /\ active = FALSE
  /\ call = [c \in Calls |-> Idle]
  \* owed: a change was reported and no snapshot has been read since
  /\ node = [n \in Nodes |-> [queued |-> FALSE, recent |-> FALSE, owed |-> FALSE]]
  /\ view = {}
  /\ lates = 0

-----------------------------------------------------------------------------
(* Tabs *)

\* A call at node n: its next round trip, the expired members it is to drop, the snapshot it
\* compares with.
Under(pc, n, dead, seen) == [pc |-> pc, at |-> n, dead |-> dead, seen |-> seen]

DropsNobody(n, seen) == Under("read", n, {}, seen)   \* (mutant)

\* A call first asks Redis who has expired (ZRANGEBYSCORE).
Called(n, seen) == Under(IF expired = {} THEN "read" ELSE "drop", n, expired, seen)

Begin(c, seen) ==
  /\ AtRest(c)
  /\ Cardinality({d \in Calls : ~AtRest(d) /\ d[1] # "publish"}) < MaxCalls
  /\ \E n \in Nodes : call' = [call EXCEPT ![c] = Called(n, seen)]

Enter(t) ==
  /\ tab[t].place = "away" /\ tab[t].visits < MaxVisits
  /\ tab' = [tab EXCEPT ![t] = [place |-> "here", visits |-> @.visits + 1]]
  /\ UNCHANGED <<redis, call, node, view, lates>>

\* At once, on every change and every 15 s; any node may get it.
Beat(t) ==
  /\ tab[t].place = "here"
  /\ Begin(BeatOf(t), {})
  /\ UNCHANGED <<tab, redis, node, view, lates>>

\* Leaving does not wait for a beat that is under way.
Leave(t) ==
  /\ tab[t].place = "here" /\ t \in Guests
  /\ tab' = [tab EXCEPT ![t].place = "away"]
  /\ Begin(LeaveOf(t), {})
  /\ UNCHANGED <<redis, node, view, lates>>

\* The browser crashes, or its goodbye is lost.
Die(t) ==
  /\ tab[t].place = "here" /\ t \in Guests
  /\ tab' = [tab EXCEPT ![t].place = "gone"]
  /\ UNCHANGED <<redis, call, node, view, lates>>

Expire(t) ==
  /\ t \in members \ expired
  /\ IF tab[t].place = "here"
     THEN lates < MaxLates /\ lates' = lates + 1
     ELSE UNCHANGED lates
  /\ expired' = expired \cup {t}
  /\ UNCHANGED <<tab, members, active, call, node, view>>

\* The keys themselves expire six lifetimes after the last beat: by then a sweep would have come.
KeysExpire ==
  /\ ~active /\ members # {} /\ members = expired
  /\ \A t \in Tabs : tab[t].place # "here"
  /\ \A c \in Calls : AtRest(c)
  /\ members' = {} /\ expired' = {}
  /\ UNCHANGED <<tab, active, call, node, view, lates>>

-----------------------------------------------------------------------------
(* The publisher of a node: at once, then at most once per window *)

AlsoRunning(n) == node[n].queued \/ ~AtRest(PublishOf(n))   \* (mutant)

\* A trailing publish that is queued will carry the latest snapshot; one under way may not.
Queued(n) == node[n].queued

\* A change was reported; is a publish queued, and is the last one recent?
Owing(queued, recent) == [queued |-> queued, recent |-> recent, owed |-> TRUE]

\* schedulePublish, at the end of call c.
Schedule(c) ==
  LET n == call[c].at  rest == [call EXCEPT ![c] = Idle] IN
  IF Queued(n)
  THEN /\ node' = [node EXCEPT ![n] = Owing(@.queued, @.recent)]
       /\ call' = rest
  ELSE IF node[n].recent
  THEN /\ node' = [node EXCEPT ![n] = Owing(TRUE, TRUE)]
       /\ call' = rest
  ELSE /\ node' = [node EXCEPT ![n] = Owing(FALSE, TRUE)]
       /\ call' = [rest EXCEPT ![PublishOf(n)] = Called(n, {})]

Finish(c, changed) ==
  IF changed THEN Schedule(c)
  ELSE call' = [call EXCEPT ![c] = Idle] /\ UNCHANGED node

\* The window is over; a publish takes less than that.
WindowEnds(n) ==
  /\ node[n].recent /\ AtRest(PublishOf(n))
  /\ IF node[n].queued
     THEN /\ node' = [node EXCEPT ![n].queued = FALSE]
          /\ call' = [call EXCEPT ![PublishOf(n)] = Called(n, {})]
     ELSE /\ node' = [node EXCEPT ![n].recent = FALSE]
          /\ UNCHANGED call
  /\ UNCHANGED <<tab, redis, view, lates>>

-----------------------------------------------------------------------------
(* The store, one round trip at a time *)

\* HDEL and ZREM, by name: also who has been renewed since.
DropExpired(c) ==
  /\ call[c].pc = "drop"
  /\ members' = members \ call[c].dead
  /\ expired' = expired \ call[c].dead
  /\ call' = [call EXCEPT ![c] = Under("read", @.at, {}, @.seen)]
  /\ UNCHANGED <<tab, active, node, view, lates>>

\* HVALS, the snapshot before a beat or a goodbye.
ReadBefore(c) ==
  /\ call[c].pc = "read" /\ c[1] \in {"beat", "leave"}
  /\ call' = [call EXCEPT ![c] = Under("write", @.at, @.dead, members)]
  /\ UNCHANGED <<tab, redis, node, view, lates>>

WriteBeat(t) ==
  /\ call[BeatOf(t)].pc = "write"
  /\ members' = members \cup {t}
  /\ expired' = expired \ {t}
  /\ active' = TRUE
  /\ call' = [call EXCEPT ![BeatOf(t)].pc = "compare"]
  /\ UNCHANGED <<tab, node, view, lates>>

WriteLeave(t) ==
  /\ call[LeaveOf(t)].pc = "write"
  /\ members' = members \ {t}
  /\ expired' = expired \ {t}
  /\ call' = [call EXCEPT ![LeaveOf(t)].pc = "compare"]
  /\ UNCHANGED <<tab, active, node, view, lates>>

Compare(c) ==
  /\ call[c].pc = "compare"
  /\ Finish(c, members # call[c].seen)
  /\ UNCHANGED <<tab, redis, view, lates>>

\* Every 10 s, for the scopes in the SET; HLEN first.
Sweep ==
  /\ active
  /\ Begin(Sweeper, members)
  /\ UNCHANGED <<tab, redis, node, view, lates>>

\* Fewer, or more, than were counted.
CountDiffers == Cardinality(members) # Cardinality(call[Sweeper].seen)

SweepRead ==
  /\ call[Sweeper].pc = "read"
  /\ IF members = {}
     THEN call' = [call EXCEPT ![Sweeper].pc = IF CountDiffers THEN "srem changed" ELSE "srem"]
          /\ UNCHANGED node
     ELSE Finish(Sweeper, CountDiffers)
  /\ UNCHANGED <<tab, redis, view, lates>>

\* Nobody was there: the scope is not visited any more.
SweepEnds ==
  /\ call[Sweeper].pc \in {"srem", "srem changed"}
  /\ active' = FALSE
  /\ Finish(Sweeper, call[Sweeper].pc = "srem changed")
  /\ UNCHANGED <<tab, members, expired, view, lates>>

\* "always the CURRENT snapshot": read, sent, and shown as it is.  Between the reading and the
\* sending nothing can happen on one node.
Publish(n) ==
  /\ call[PublishOf(n)].pc = "read"
  /\ view' = members
  /\ node' = [node EXCEPT ![n].owed = FALSE]
  /\ call' = [call EXCEPT ![PublishOf(n)].pc = "sent"]
  /\ UNCHANGED <<tab, redis, lates>>

Published(n) ==
  /\ call[PublishOf(n)].pc = "sent"
  /\ call' = [call EXCEPT ![PublishOf(n)] = Idle]
  /\ UNCHANGED <<tab, redis, node, view, lates>>

-----------------------------------------------------------------------------
Store(c) == DropExpired(c) \/ ReadBefore(c) \/ Compare(c)
Redis ==
  \/ \E c \in Calls : Store(c)
  \/ \E t \in Tabs : WriteBeat(t) \/ WriteLeave(t)
  \/ SweepRead \/ SweepEnds
  \/ \E n \in Nodes : Publish(n) \/ Published(n)

Next ==
  \/ \E t \in Tabs : Enter(t) \/ Beat(t) \/ Leave(t) \/ Die(t) \/ Expire(t)
  \/ KeysExpire \/ Sweep \/ Redis
  \/ \E n \in Nodes : WindowEnds(n)

Spec == Init /\ [][Next]_vars

CallEnds(c) ==
  \/ DropExpired(c) \/ ReadBefore(c) \/ Compare(c)
  \/ \E t \in Tabs : (c = BeatOf(t) /\ WriteBeat(t)) \/ (c = LeaveOf(t) /\ WriteLeave(t))
  \/ c = Sweeper /\ (SweepRead \/ SweepEnds)
  \/ \E n \in Nodes : c = PublishOf(n) /\ (Publish(n) \/ Published(n))

\* Redis answers, a tab that is here goes on beating, the sweeper comes every 10 s, and what
\* nobody renews expires.
Fairness ==
  /\ \A c \in Calls : WF_vars(CallEnds(c))
  /\ \A t \in Tabs : SF_vars(Beat(t)) /\ WF_vars(tab[t].place # "here" /\ Expire(t))
  /\ SF_vars(Sweep) /\ WF_vars(KeysExpire)

FairSpec == Spec /\ Fairness

-----------------------------------------------------------------------------
(* Properties *)

\* Who stays is in the store in the end and remains there, though the sweeper may drop a member
\* just after a late beat renewed it; who has left, or fell silent, is not.
StoreSettles == \A t \in Tabs : <>[](t \in members <=> tab[t].place = "here")

\* No reported change is left unpublished.
ChangesArePublished ==
  \A n \in Nodes : node[n].owed =>
    node[n].queued \/ call[PublishOf(n)].pc \in {"drop", "read"}

\* docs/realtime.md: a sweeper "expires silent members and publishes the new snapshot".
SilentTabsVanish ==
  (\A c \in Calls : AtRest(c)) /\ (\A n \in Nodes : ~node[n].queued) =>
    \A t \in Tabs : tab[t].place = "gone" /\ t \notin members => t \notin view
=============================================================================
