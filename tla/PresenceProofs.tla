--------------------------- MODULE PresenceProofs ----------------------------
(***************************************************************************)
(* Proofs about presence, for any nodes, tabs, visits, late beats and      *)
(* calls under way.                                                        *)
(*                                                                         *)
(* That a reported change is published is a matter of the publisher's      *)
(* timer alone, but not inductive: Timed adds that whoever publishes, or   *)
(* has a publish queued, counts as having published just now.  So when a   *)
(* change is published at once, no older publish is in its way, and when   *)
(* the window ends with nothing queued, nothing is left to be carried.     *)
(***************************************************************************)
EXTENDS Presence, TLAPS

\* The calls that are under way, by their next round trip.
Rounds == {"drop", "read", "write", "compare", "srem", "srem changed", "sent"}
CallRecords == [pc : Rounds, at : Nodes, dead : SUBSET Tabs, seen : SUBSET Tabs]
Timers == [queued : BOOLEAN, recent : BOOLEAN, owed : BOOLEAN]

Typed ==
  /\ members \subseteq Tabs /\ expired \subseteq Tabs
  /\ call \in [Calls -> CallRecords \cup {Idle}]
  /\ node \in [Nodes -> Timers]

\* A publisher's call makes no comparison, and while one is under way or queued, so soon after
\* the last, the next one has to wait for the window's end.
Timed(n) ==
  /\ call[PublishOf(n)].pc \in {"idle", "drop", "read", "sent"}
  /\ node[n].queued \/ call[PublishOf(n)].pc # "idle" => node[n].recent

Carried(n) ==
  node[n].owed => node[n].queued \/ call[PublishOf(n)].pc \in {"drop", "read"}

IInv == Typed /\ \A n \in Nodes : Timed(n) /\ Carried(n)

-----------------------------------------------------------------------------
(* Calls *)

\* Calls of different kinds, and of different tabs or nodes, are different.
LEMMA CallsDiffer ==
  /\ \A t \in Tabs : BeatOf(t) \in Calls /\ LeaveOf(t) \in Calls
  /\ Sweeper \in Calls
  /\ \A n \in Nodes : /\ PublishOf(n) \in Calls /\ PublishOf(n) # Sweeper
                      /\ \A t \in Tabs : PublishOf(n) # BeatOf(t) /\ PublishOf(n) # LeaveOf(t)
                      /\ PublishOf(n)[1] = "publish"
  /\ \A m, n : PublishOf(m) = PublishOf(n) => m = n
  BY DEF Calls, BeatOf, LeaveOf, PublishOf, Sweeper

\* A record of a call, from its parts.
LEMMA UnderTyped ==
  ASSUME NEW pc \in Rounds, NEW n \in Nodes, NEW dead \in SUBSET Tabs, NEW seen \in SUBSET Tabs
  PROVE  Under(pc, n, dead, seen) \in CallRecords /\ Under(pc, n, dead, seen).pc = pc
  BY DEF Under, CallRecords

\* A call begins with one of the two round trips of the reading.
LEMMA CalledTyped ==
  ASSUME Typed, NEW n \in Nodes, NEW seen \in SUBSET Tabs
  PROVE  Called(n, seen) \in CallRecords /\ Called(n, seen).pc \in {"drop", "read"}
<1> DEFINE pc == IF expired = {} THEN "read" ELSE "drop"
<1>1. pc \in Rounds /\ pc \in {"drop", "read"} /\ expired \in SUBSET Tabs
  BY DEF Typed, Rounds
<1>2. Called(n, seen) = Under(pc, n, expired, seen)
  BY DEF Called
<1> HIDE DEF pc
<1> QED
  BY <1>1, <1>2, UnderTyped

\* Who is not at rest has a record.
LEMMA UnderWay ==
  ASSUME Typed, NEW c \in Calls, call[c].pc # "idle"
  PROVE  /\ call[c] \in CallRecords
         /\ call[c].pc \in Rounds /\ call[c].at \in Nodes
         /\ call[c].dead \in SUBSET Tabs /\ call[c].seen \in SUBSET Tabs
  BY DEF Typed, CallRecords, Idle

\* A call that goes on keeps its record.
LEMMA PcChanges ==
  ASSUME Typed, NEW c \in Calls, call[c].pc # "idle", NEW pc \in Rounds
  PROVE  /\ [call EXCEPT ![c].pc = pc] \in [Calls -> CallRecords \cup {Idle}]
         /\ [call EXCEPT ![c].pc = pc][c].pc = pc
         /\ \A d \in Calls \ {c} : [call EXCEPT ![c].pc = pc][d] = call[d]
<1> DEFINE r == [call[c] EXCEPT !.pc = pc]
<1>1. r \in CallRecords /\ r.pc = pc
  BY UnderWay DEF CallRecords
<1>2. [call EXCEPT ![c].pc = pc] = [call EXCEPT ![c] = r]
  OBVIOUS
<1> HIDE DEF r
<1> QED
  BY <1>1, <1>2 DEF Typed

-----------------------------------------------------------------------------
(* What a step means to the publisher of one node *)

\* Nothing: its timer and its call are left alone.
Untouched == node' = node /\ \A n \in Nodes : call'[PublishOf(n)].pc = call[PublishOf(n)].pc

LEMMA UntouchedKeeps ==
  ASSUME IInv, Untouched, Typed' PROVE IInv'
  BY DEF IInv, Untouched, Timed, Carried

\* The end of a call that reports a change: whatever the timer says, a later snapshot is due.
LEMMA ScheduleStep ==
  ASSUME IInv, NEW c \in Calls, call[c].pc # "idle", \A n \in Nodes : c # PublishOf(n),
         Schedule(c), UNCHANGED <<members, expired>>
  PROVE  IInv'
<1> DEFINE k == call[c].at
<1>1. k \in Nodes
  BY UnderWay DEF IInv
<1>2. Typed
  BY DEF IInv
<1>3. PublishOf(k) \in Calls /\ PublishOf(k) # c /\ node[k] \in Timers
  BY <1>1, <1>2, CallsDiffer DEF Typed
<1> HIDE DEF k
<1>4. members' \subseteq Tabs /\ expired' \subseteq Tabs
  BY <1>2 DEF Typed
<1>5. CASE Queued(k)
  <2>1. node' = [node EXCEPT ![k] = Owing(node[k].queued, node[k].recent)]
        /\ call' = [call EXCEPT ![c] = Idle]
    BY <1>5 DEF Schedule, k
  <2>2. Owing(node[k].queued, node[k].recent) \in Timers
        /\ Owing(node[k].queued, node[k].recent).queued = TRUE
        /\ Owing(node[k].queued, node[k].recent).recent = node[k].recent
    BY <1>3, <1>5 DEF Timers, Owing, Queued
  <2>3. Typed'
    BY <1>1, <1>2, <1>4, <2>1, <2>2 DEF Typed
  <2>4. \A n \in Nodes : call'[PublishOf(n)] = call[PublishOf(n)]
    BY <1>2, <2>1, CallsDiffer DEF Typed
  <2>5. \A n \in Nodes \ {k} : node'[n] = node[n]
    BY <1>2, <2>1 DEF Typed
  <2>6. node'[k].queued = TRUE /\ node'[k].recent = node[k].recent
    BY <1>1, <1>2, <2>1, <2>2 DEF Typed
  <2> QED
    BY <1>1, <1>5, <2>3, <2>4, <2>5, <2>6 DEF IInv, Timed, Carried, Queued
<1>6. CASE ~Queued(k) /\ node[k].recent
  <2>1. node' = [node EXCEPT ![k] = Owing(TRUE, TRUE)] /\ call' = [call EXCEPT ![c] = Idle]
    BY <1>6 DEF Schedule, k
  <2>2. Owing(TRUE, TRUE) \in Timers /\ Owing(TRUE, TRUE).queued /\ Owing(TRUE, TRUE).recent
    BY DEF Timers, Owing
  <2>3. Typed'
    BY <1>1, <1>2, <1>4, <2>1, <2>2 DEF Typed
  <2>4. \A n \in Nodes : call'[PublishOf(n)] = call[PublishOf(n)]
    BY <1>2, <2>1, CallsDiffer DEF Typed
  <2>5. \A n \in Nodes \ {k} : node'[n] = node[n]
    BY <1>2, <2>1 DEF Typed
  <2>6. node'[k].queued /\ node'[k].recent
    BY <1>1, <1>2, <2>1, <2>2 DEF Typed
  <2> QED
    BY <2>3, <2>4, <2>5, <2>6 DEF IInv, Timed, Carried
<1>7. CASE ~Queued(k) /\ ~node[k].recent
  <2> DEFINE new == Called(k, {})
             old == [call EXCEPT ![c] = Idle]
  <2>1. node' = [node EXCEPT ![k] = Owing(FALSE, TRUE)]
        /\ call' = [old EXCEPT ![PublishOf(k)] = new]
    BY <1>7 DEF Schedule, k
  <2>2. Owing(FALSE, TRUE) \in Timers /\ Owing(FALSE, TRUE).recent
    BY DEF Timers, Owing
  <2>3. new \in CallRecords /\ new.pc \in {"drop", "read"}
    BY <1>1, <1>2, CalledTyped
  <2>4. old \in [Calls -> CallRecords \cup {Idle}]
        /\ \A n \in Nodes : old[PublishOf(n)] = call[PublishOf(n)]
    BY <1>2, CallsDiffer DEF Typed
  <2> HIDE DEF new, old
  <2>5. call' \in [Calls -> CallRecords \cup {Idle}] /\ call'[PublishOf(k)] = new
        /\ \A n \in Nodes \ {k} : call'[PublishOf(n)] = call[PublishOf(n)]
    BY <1>3, <2>1, <2>3, <2>4, CallsDiffer
  <2>6. Typed'
    BY <1>1, <1>2, <1>4, <2>1, <2>2, <2>5 DEF Typed
  <2>7. node'[k].recent /\ \A n \in Nodes \ {k} : node'[n] = node[n]
    BY <1>1, <1>2, <2>1, <2>2 DEF Typed
  <2> QED
    BY <2>3, <2>5, <2>6, <2>7 DEF IInv, Timed, Carried
<1> QED
  BY <1>5, <1>6, <1>7

\* The end of a call, with or without a change to report.
LEMMA FinishStep ==
  ASSUME IInv, NEW c \in Calls, call[c].pc # "idle", \A n \in Nodes : c # PublishOf(n),
         NEW changed \in BOOLEAN, Finish(c, changed),
         UNCHANGED <<members, expired>>
  PROVE  IInv'
<1>1. CASE changed
  BY <1>1, ScheduleStep DEF Finish
<1>2. CASE ~changed
  <2>1. call' = [call EXCEPT ![c] = Idle] /\ node' = node
    BY <1>2 DEF Finish
  <2>2. Typed'
    BY <2>1 DEF IInv, Typed
  <2>3. Untouched
    BY <2>1, CallsDiffer DEF IInv, Typed, Untouched
  <2> QED
    BY <2>2, <2>3, UntouchedKeeps
<1> QED
  BY <1>1, <1>2

-----------------------------------------------------------------------------
(* The steps *)

\* At the start no call is under way and nothing is owed.
LEMMA InitInv == Init => IInv
  BY CallsDiffer DEF Init, IInv, Typed, Timed, Carried, Idle, Timers

\* A call begins: none of the publishers'.
LEMMA BeginStep ==
  ASSUME IInv, NEW c \in Calls, \A n \in Nodes : c # PublishOf(n), NEW seen \in SUBSET Tabs,
         Begin(c, seen), UNCHANGED <<members, expired, node>>
  PROVE  IInv'
<1>1. PICK n \in Nodes : call' = [call EXCEPT ![c] = Called(n, seen)]
  BY DEF Begin
<1>2. Called(n, seen) \in CallRecords
  BY CalledTyped DEF IInv
<1>3. Typed'
  BY <1>1, <1>2 DEF IInv, Typed
<1>4. Untouched
  BY <1>1, CallsDiffer DEF IInv, Typed, Untouched
<1> QED
  BY <1>3, <1>4, UntouchedKeeps

\* The sets in Redis change, no call and no timer does.
LEMMA RedisStep ==
  ASSUME IInv, UNCHANGED <<call, node>>, members' \subseteq Tabs, expired' \subseteq Tabs
  PROVE  IInv'
  BY UntouchedKeeps DEF IInv, Typed, Untouched

\* The window is over: what is queued goes out now.
LEMMA WindowStep ==
  ASSUME IInv, NEW k \in Nodes, WindowEnds(k) PROVE IInv'
<1>1. Typed /\ UNCHANGED <<members, expired>>
  BY DEF WindowEnds, IInv, redis
<1>2. node[k] \in Timers /\ PublishOf(k) \in Calls
  BY <1>1, CallsDiffer DEF Typed
<1>3. CASE node[k].queued
  <2> DEFINE t == [node[k] EXCEPT !.queued = FALSE]
             new == Called(k, {})
  <2>1. node' = [node EXCEPT ![k] = t] /\ call' = [call EXCEPT ![PublishOf(k)] = new]
    BY <1>3 DEF WindowEnds
  <2>2. t \in Timers /\ t.recent = node[k].recent
    BY <1>2 DEF Timers
  <2>3. new \in CallRecords /\ new.pc \in {"drop", "read"}
    BY <1>1, CalledTyped
  <2> HIDE DEF t, new
  <2>4. Typed'
    BY <1>1, <2>1, <2>2, <2>3 DEF Typed
  <2>5. /\ node'[k] = t /\ call'[PublishOf(k)] = new
        /\ \A n \in Nodes \ {k} : node'[n] = node[n] /\ call'[PublishOf(n)] = call[PublishOf(n)]
    BY <1>1, <1>2, <2>1, CallsDiffer DEF Typed
  <2> QED
    BY <1>3, <2>2, <2>3, <2>4, <2>5 DEF IInv, Timed, Carried
<1>4. CASE ~node[k].queued
  <2> DEFINE t == [node[k] EXCEPT !.recent = FALSE]
  <2>1. node' = [node EXCEPT ![k] = t] /\ call' = call /\ call[PublishOf(k)] = Idle
    BY <1>4 DEF WindowEnds, AtRest
  <2>2. t \in Timers /\ t.queued = node[k].queued /\ t.owed = node[k].owed
    BY <1>2 DEF Timers
  <2> HIDE DEF t
  <2>3. Typed'
    BY <1>1, <2>1, <2>2 DEF Typed
  <2>4. node'[k] = t /\ \A n \in Nodes \ {k} : node'[n] = node[n]
    BY <1>1, <2>1 DEF Typed
  <2>5. call[PublishOf(k)].pc = "idle"
    BY <2>1 DEF Idle
  <2> QED
    BY <1>4, <2>1, <2>2, <2>3, <2>4, <2>5 DEF IInv, Timed, Carried
<1> QED
  BY <1>3, <1>4

\* Expired members are dropped: a publisher's call comes to its reading.
LEMMA DropStep ==
  ASSUME IInv, NEW c \in Calls, DropExpired(c) PROVE IInv'
<1> DEFINE r == Under("read", call[c].at, {}, call[c].seen)
<1>1. Typed /\ UNCHANGED node /\ call[c].pc = "drop" /\ call' = [call EXCEPT ![c] = r]
      /\ members' \subseteq members /\ expired' \subseteq expired
  BY DEF DropExpired, IInv
<1>2. "read" \in Rounds /\ {} \in SUBSET Tabs /\ call[c].at \in Nodes /\ call[c].seen \in SUBSET Tabs
  BY <1>1, UnderWay DEF Rounds
<1>3. r \in CallRecords /\ r.pc = "read"
  BY <1>2, UnderTyped
<1> HIDE DEF r
<1>4. Typed'
  BY <1>1, <1>3 DEF Typed
<1>5. \A n \in Nodes : \/ call'[PublishOf(n)] = call[PublishOf(n)]
                       \/ call[PublishOf(n)].pc = "drop" /\ call'[PublishOf(n)].pc = "read"
  BY <1>1, <1>3, CallsDiffer DEF Typed
<1> QED
  BY <1>1, <1>4, <1>5 DEF IInv, Timed, Carried

\* A beat or a goodbye reads, and writes: no publisher's call.
LEMMA BeatOrLeaveStep ==
  ASSUME IInv, NEW c \in Calls, \A n \in Nodes : c # PublishOf(n), call[c].pc # "idle",
         NEW pc \in Rounds, call' = [call EXCEPT ![c].pc = pc], UNCHANGED node,
         members' \subseteq Tabs, expired' \subseteq Tabs
  PROVE  IInv'
<1>1. Typed
  BY DEF IInv
<1>2. Typed'
  BY <1>1, PcChanges DEF Typed
<1>3. Untouched
  BY <1>1, PcChanges, CallsDiffer DEF Untouched
<1> QED
  BY <1>2, <1>3, UntouchedKeeps

LEMMA ReadStep ==
  ASSUME IInv, NEW c \in Calls, ReadBefore(c) PROVE IInv'
<1> DEFINE r == Under("write", call[c].at, call[c].dead, members)
<1>1. Typed /\ UNCHANGED <<members, expired, node>> /\ call[c].pc = "read"
      /\ call' = [call EXCEPT ![c] = r] /\ \A n \in Nodes : c # PublishOf(n)
  BY CallsDiffer DEF ReadBefore, IInv, redis
<1>2. r \in CallRecords
  BY <1>1, UnderWay, UnderTyped DEF Rounds, Typed
<1> HIDE DEF r
<1>3. Typed'
  BY <1>1, <1>2 DEF Typed
<1>4. Untouched
  BY <1>1, CallsDiffer DEF Typed, Untouched
<1> QED
  BY <1>3, <1>4, UntouchedKeeps

LEMMA WriteStep ==
  ASSUME IInv, NEW t \in Tabs, WriteBeat(t) \/ WriteLeave(t) PROVE IInv'
<1>1. members \subseteq Tabs /\ expired \subseteq Tabs /\ "compare" \in Rounds
  BY DEF IInv, Typed, Rounds
<1>2. CASE WriteBeat(t)
  <2>1. call[BeatOf(t)].pc # "idle" /\ UNCHANGED node
        /\ call' = [call EXCEPT ![BeatOf(t)].pc = "compare"]
        /\ members' \subseteq Tabs /\ expired' \subseteq Tabs
    BY <1>1, <1>2 DEF WriteBeat
  <2> QED
    BY <1>1, <2>1, BeatOrLeaveStep, CallsDiffer
<1>3. CASE WriteLeave(t)
  <2>1. call[LeaveOf(t)].pc # "idle" /\ UNCHANGED node
        /\ call' = [call EXCEPT ![LeaveOf(t)].pc = "compare"]
        /\ members' \subseteq Tabs /\ expired' \subseteq Tabs
    BY <1>1, <1>3 DEF WriteLeave
  <2> QED
    BY <1>1, <2>1, BeatOrLeaveStep, CallsDiffer
<1> QED
  BY <1>2, <1>3

LEMMA CompareStep ==
  ASSUME IInv, NEW c \in Calls, Compare(c) PROVE IInv'
<1>1. call[c].pc = "compare" /\ Finish(c, members # call[c].seen)
      /\ UNCHANGED <<members, expired>>
  BY DEF Compare, redis
<1>2. \A n \in Nodes : c # PublishOf(n)
  BY <1>1 DEF IInv, Timed
<1> DEFINE changed == members # call[c].seen
<1>3. changed \in BOOLEAN /\ Finish(c, changed)
  BY <1>1
<1> HIDE DEF changed
<1> QED
  BY <1>1, <1>2, <1>3, FinishStep

LEMMA SweepReadStep ==
  ASSUME IInv, SweepRead PROVE IInv'
<1>1. Sweeper \in Calls /\ \A n \in Nodes : Sweeper # PublishOf(n)
  BY CallsDiffer
<1>2. call[Sweeper].pc = "read" /\ UNCHANGED <<members, expired>>
      /\ members \subseteq Tabs /\ expired \subseteq Tabs
  BY DEF SweepRead, redis, IInv, Typed
<1>3. CASE members = {}
  <2> DEFINE pc == IF CountDiffers THEN "srem changed" ELSE "srem"
  <2>1. pc \in Rounds /\ call' = [call EXCEPT ![Sweeper].pc = pc] /\ UNCHANGED node
    BY <1>3 DEF SweepRead, Rounds
  <2> HIDE DEF pc
  <2> QED
    BY <1>1, <1>2, <2>1, BeatOrLeaveStep
<1>4. CASE members # {}
  <2> DEFINE changed == CountDiffers
  <2>1. changed \in BOOLEAN /\ Finish(Sweeper, changed)
    BY <1>4 DEF SweepRead, CountDiffers
  <2> HIDE DEF changed
  <2> QED
    BY <1>1, <1>2, <2>1, FinishStep
<1> QED
  BY <1>3, <1>4

LEMMA SweepEndsStep ==
  ASSUME IInv, SweepEnds PROVE IInv'
<1> DEFINE changed == call[Sweeper].pc = "srem changed"
<1>1. Sweeper \in Calls /\ \A n \in Nodes : Sweeper # PublishOf(n)
  BY CallsDiffer
<1>2. call[Sweeper].pc # "idle" /\ UNCHANGED <<members, expired>>
      /\ changed \in BOOLEAN /\ Finish(Sweeper, changed)
  BY DEF SweepEnds
<1> HIDE DEF changed
<1> QED
  BY <1>1, <1>2, FinishStep

\* The snapshot is read: what was owed is in it.
LEMMA PublishStep ==
  ASSUME IInv, NEW k \in Nodes, Publish(k) PROVE IInv'
<1> DEFINE t == [node[k] EXCEPT !.owed = FALSE]
<1>1. Typed /\ UNCHANGED <<members, expired>> /\ call[PublishOf(k)].pc = "read"
      /\ PublishOf(k) \in Calls /\ node[k] \in Timers /\ "sent" \in Rounds
  BY CallsDiffer DEF Publish, redis, IInv, Typed, Rounds
<1>2. node' = [node EXCEPT ![k] = t] /\ call' = [call EXCEPT ![PublishOf(k)].pc = "sent"]
  BY DEF Publish
<1>3. t \in Timers /\ t.recent = node[k].recent /\ t.owed = FALSE
  BY <1>1 DEF Timers
<1> HIDE DEF t
<1>4. call' \in [Calls -> CallRecords \cup {Idle}] /\ call'[PublishOf(k)].pc = "sent"
      /\ \A n \in Nodes \ {k} : call'[PublishOf(n)] = call[PublishOf(n)]
  BY <1>1, <1>2, PcChanges, CallsDiffer
<1>5. node' \in [Nodes -> Timers] /\ node'[k] = t /\ \A n \in Nodes \ {k} : node'[n] = node[n]
  BY <1>1, <1>2, <1>3 DEF Typed
<1>6. Typed'
  BY <1>1, <1>4, <1>5 DEF Typed
<1> QED
  BY <1>1, <1>3, <1>4, <1>5, <1>6 DEF IInv, Timed, Carried

LEMMA PublishedStep ==
  ASSUME IInv, NEW k \in Nodes, Published(k) PROVE IInv'
<1>1. Typed /\ UNCHANGED <<members, expired, node>> /\ call[PublishOf(k)].pc = "sent"
      /\ PublishOf(k) \in Calls /\ call' = [call EXCEPT ![PublishOf(k)] = Idle]
  BY CallsDiffer DEF Published, redis, IInv
<1>2. Typed'
  BY <1>1 DEF Typed
<1>3. call'[PublishOf(k)] = Idle /\ \A n \in Nodes \ {k} : call'[PublishOf(n)] = call[PublishOf(n)]
  BY <1>1, CallsDiffer DEF Typed
<1> QED
  BY <1>1, <1>2, <1>3 DEF IInv, Timed, Carried, Idle

\* Every step keeps the invariant.
LEMMA InvStep == IInv /\ [Next]_vars => IInv'
<1> SUFFICES ASSUME IInv, [Next]_vars PROVE IInv'
  OBVIOUS
<1>0. members \subseteq Tabs /\ expired \subseteq Tabs
  BY DEF IInv, Typed
<1>1. ASSUME NEW t \in Tabs, Enter(t) \/ Die(t) \/ Expire(t) PROVE IInv'
  <2>1. UNCHANGED <<call, node>> /\ members' \subseteq Tabs /\ expired' \subseteq Tabs
    BY <1>0, <1>1 DEF Enter, Die, Expire, redis
  <2> QED
    BY <2>1, RedisStep
<1>2. ASSUME NEW t \in Tabs, Beat(t) \/ Leave(t) PROVE IInv'
  <2>1. UNCHANGED <<members, expired, node>> /\ {} \in SUBSET Tabs
        /\ (Begin(BeatOf(t), {}) \/ Begin(LeaveOf(t), {}))
    BY <1>2 DEF Beat, Leave, redis
  <2> QED
    BY <2>1, BeginStep, CallsDiffer
<1>3. CASE KeysExpire
  BY <1>3, RedisStep DEF KeysExpire
<1>4. CASE Sweep
  <2>1. UNCHANGED <<members, expired, node>> /\ Begin(Sweeper, members) /\ members \in SUBSET Tabs
    BY <1>0, <1>4 DEF Sweep, redis
  <2> QED
    BY <2>1, BeginStep, CallsDiffer
<1>5. CASE Redis
  BY <1>5, DropStep, ReadStep, CompareStep, WriteStep, SweepReadStep, SweepEndsStep,
     PublishStep, PublishedStep DEF Redis, Store
<1>6. ASSUME NEW n \in Nodes, WindowEnds(n) PROVE IInv'
  BY <1>6, WindowStep
<1>7. CASE UNCHANGED vars
  BY <1>0, <1>7, RedisStep DEF vars, redis
<1> QED
  BY <1>1, <1>2, <1>3, <1>4, <1>5, <1>6, <1>7 DEF Next

-----------------------------------------------------------------------------
(* Theorems *)

\* A change of who is there that a beat, a goodbye or the sweeper reported is followed by a
\* snapshot read after it: schedulePublish drops a report only when a queued publish will carry
\* it, never because of one that is under way and may have read already.
THEOREM ReportsArePublished == Spec => []ChangesArePublished
<1>1. IInv => ChangesArePublished
  BY DEF IInv, Carried, ChangesArePublished
<1> QED
  BY InitInv, InvStep, <1>1, PTL DEF Spec
=============================================================================
