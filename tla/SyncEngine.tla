----------------------------- MODULE SyncEngine ------------------------------
(***************************************************************************)
(* The browser's copy of the projects: ProjectSyncEngine, the list query   *)
(* that fills it and the connection that feeds it.                         *)
(*                                                                         *)
(* Everything the browser does between two awaits is one step.  What is in *)
(* flight between it and the server is state: list pages, the page of the  *)
(* change feed a catch-up waits for, the `projects.sync` answers a         *)
(* recovery or a resync waits for.  A page is read on the server at one    *)
(* moment and arrives at a later one; a sync reads the versions first and, *)
(* project by project, the events or the snapshot it owes later.           *)
(*                                                                         *)
(* A project's history is given: Shown[p][v] says whether version v leaves *)
(* it in what this user sees, so that a step into FALSE is a deletion or a *)
(* move-out and a step into TRUE a creation or a move-in.  A copy is the   *)
(* set of versions whose changes it contains.                              *)
(***************************************************************************)
EXTENDS Integers, Sequences, FiniteSets

CONSTANTS
  Projects,
  Shown,        \* project -> visibility after each of its versions
  First,        \* project -> its version when the browser starts
  MaxReplay,    \* missed events that `sync` replays; beyond it sends a snapshot (25 in the code)
  SyncLimit,    \* projects one `sync` call asks for (200 in the code)
  PageSize,     \* feed events one `changes` call scans
  MaxDrops,     \* bound: lost streams
  MaxFailures   \* bound: failed requests

None == -1      \* no feed cursor, no upper limit

ASSUME SyncAssumption ==
  /\ Shown \in [Projects -> Seq(BOOLEAN)]
  /\ First \in [Projects -> Nat]
  /\ \A p \in Projects : First[p] <= Len(Shown[p])
  /\ MaxReplay \in Nat
  /\ SyncLimit \in Nat \ {0}
  /\ PageSize \in Nat \ {0}
  /\ MaxDrops \in Nat
  /\ MaxFailures \in Nat

VARIABLES
  version,   \* server: project -> its committed version
  feed,      \* server: the numbered events <<project, version>>
  eng,       \* the engine's synchronous state: [copy, parked, recovery, stale]
  seen,      \* the events whose id the engine has seen
  cursor,    \* feedCursor
  catching,  \* the running catch-up, shared by everyone who asks for one
  list,      \* the list request in flight: [pc, head, rows]
  conn,      \* the connection: [state, goal, answer, known]
  drops, failures

server == <<version, feed>>
faults == <<drops, failures>>
vars == <<version, feed, eng, seen, cursor, catching, list, conn, drops, failures>>

\* Is p in view after its version v?
InView(p, v) == v > 0 /\ Shown[p][v]
\* The recipient filter: an event neither of whose sides is in view is not sent.
Sent(p, v) == InView(p, v - 1) \/ InView(p, v)

Holds(s, p) == s.copy[p] # {}
VersionOf(s, p) == CHOOSE v \in s.copy[p] : \A w \in s.copy[p] : w <= v

NoRecovery == [pc |-> "none"]
NoCatchUp == [pc |-> "none"]
NoList == [pc |-> "none"]

Init ==
  /\ version = First
  /\ feed = <<>>
  /\ eng = [copy     |-> [p \in Projects |-> {}],
            parked   |-> [p \in Projects |-> {}],
            recovery |-> [p \in Projects |-> NoRecovery],
            stale    |-> TRUE]
  /\ seen = {}
  /\ cursor = None
  /\ catching = NoCatchUp
  /\ list = NoList
  /\ conn = [state |-> "connected", goal |-> 0, answer |-> <<>>, known |-> <<>>]
  /\ drops = 0
  /\ failures = 0

-----------------------------------------------------------------------------
(* The server *)

Commit(p) ==
  /\ version[p] < Len(Shown[p])
  /\ version' = [version EXCEPT ![p] = @ + 1]
  /\ UNCHANGED <<feed, eng, seen, cursor, catching, list, conn, faults>>

Fed(p) == First[p] + Cardinality({n \in 1..Len(feed) : feed[n][1] = p})

\* The relay numbers the next event of p (Outbox).
Number(p) ==
  /\ Fed(p) < version[p]
  /\ feed' = Append(feed, <<p, Fed(p) + 1>>)
  /\ UNCHANGED <<version, eng, seen, cursor, catching, list, conn, faults>>

ForgetsUnchanged(p, k) ==   \* (mutant)
  [how |-> IF version[p] <= k THEN "gone" ELSE "checked", from |-> k,
   to |-> IF version[p] <= k THEN k ELSE version[p]]

\* ProjectService.sync, its first read: the version of a project held at version k, and whether
\* it is in view.  What a newer one is answered with is read later (Loaded).
Answers(p, k) ==
  IF ~InView(p, version[p]) THEN [how |-> "gone", from |-> k, to |-> k]
  ELSE IF version[p] <= k THEN [how |-> "same", from |-> k, to |-> k]
  ELSE [how |-> "checked", from |-> k, to |-> version[p]]

\* Its second: the missed events, if they are as many as the first read said (the query stops
\* at MaxReplay), else the project as it is by now, in view or not.  One deleted by now (a last
\* version out of view may be a deletion) is not in the answer at all.
Loaded(p, a) ==
  LET missed == a.to - a.from IN
  IF missed <= MaxReplay /\ (version[p] = a.to \/ missed = MaxReplay)
  THEN {[a EXCEPT !.how = "events"]}
  ELSE {[a EXCEPT !.how = "snapshot", !.to = version[p]]}
         \cup IF version[p] = Len(Shown[p]) /\ ~InView(p, version[p])
              THEN {[a EXCEPT !.how = "same", !.to = a.from]} ELSE {}

-----------------------------------------------------------------------------
(* The engine: what one event or one answer does to its state *)

\* A project entering the view is never fabricated: the list is read again.
ApplyUnseen(s, p, v) ==
  IF ~InView(p, v - 1) /\ InView(p, v) THEN [s EXCEPT !.stale = TRUE] ELSE s

Merge(s, p, v) ==
  [s EXCEPT !.copy[p] = IF InView(p, v) THEN @ \cup {v} ELSE {}]

Park(s, p, v) == [s EXCEPT !.parked[p] = @ \cup {v}]

\* recover(): one at a time per project.
Recover(s, p) ==
  IF s.recovery[p] = NoRecovery
  THEN [s EXCEPT !.recovery[p] = [pc |-> "asked", from |-> VersionOf(s, p)]]
  ELSE s

BridgesGaps(s, p, v) == v > VersionOf(s, p)   \* (mutant)

\* decideEvent: the next version is applied, a later one is a gap, the rest is stale.
Applies(s, p, v) == v = VersionOf(s, p) + 1
Gap(s, p, v) == v > VersionOf(s, p) /\ ~Applies(s, p, v)

Replay(s, p, v) ==
  IF ~Holds(s, p) THEN ApplyUnseen(s, p, v)
  ELSE IF Applies(s, p, v) THEN Merge(s, p, v)
  ELSE IF Gap(s, p, v) THEN Recover(Park(s, p, v), p)
  ELSE s

OverwritesNewer(s, p, v) == [s EXCEPT !.copy[p] = 1..v]   \* (mutant)

\* seed, confirm, rollback and a snapshot: never backwards.
Adopt(s, p, v) ==
  IF Holds(s, p) /\ v <= VersionOf(s, p) THEN s ELSE [s EXCEPT !.copy[p] = 1..v]

\* The events of p whose version is in S, replayed in version order.
ReplayAll(s, p, S) ==
  LET after[v \in 0..Len(Shown[p])] ==
        IF v = 0 THEN s
        ELSE IF v \in S THEN Replay(after[v - 1], p, v) ELSE after[v - 1]
  IN after[Len(Shown[p])]

\* applyRecovery, for one project of the answer.
ApplyAnswer(s, p, a) ==
  CASE a.how = "snapshot" -> Adopt(s, p, a.to)
    [] a.how = "events" -> ReplayAll(s, p, {v \in (a.from + 1)..a.to : Sent(p, v)})
    [] a.how = "gone" -> [s EXCEPT !.copy[p] = {}]
    [] a.how = "same" -> s    \* not in the answer

-----------------------------------------------------------------------------
(* Live events *)

\* The stream hands over some event of the feed.  Which one is left open: events are lost,
\* delayed and published again.  While a resync runs the stream is not read.
Live(p, v) ==
  /\ conn.state = "connected"
  /\ <<p, v>> \notin seen
  /\ \E n \in 1..Len(feed) : feed[n] = <<p, v>>
  /\ Sent(p, v)
  /\ seen' = seen \cup {<<p, v>>}
  /\ eng' = IF eng.recovery[p] # NoRecovery THEN Park(eng, p, v) ELSE Replay(eng, p, v)
  /\ UNCHANGED <<server, cursor, catching, list, conn, faults>>

\* The server checks what a recovery asked for, and then loads the answer.
RecoveryRead(p) ==
  /\ eng.recovery[p].pc = "asked"
  /\ eng' = [eng EXCEPT !.recovery[p] =
               [pc |-> "answered", answer |-> Answers(p, eng.recovery[p].from)]]
  /\ UNCHANGED <<server, seen, cursor, catching, list, conn, faults>>

RecoveryLoad(p) ==
  /\ eng.recovery[p].pc = "answered"
  /\ eng.recovery[p].answer.how = "checked"
  /\ \E a \in Loaded(p, eng.recovery[p].answer) :
       eng' = [eng EXCEPT !.recovery[p] = [pc |-> "answered", answer |-> a]]
  /\ UNCHANGED <<server, seen, cursor, catching, list, conn, faults>>

\* A catch-up that waits for this recovery goes on.
Resumed(p) ==
  IF catching.pc = "recovering" /\ catching.project = p
  THEN [pc |-> "read", upTo |-> catching.upTo, at |-> catching.at, to |-> catching.to,
        more |-> catching.more]
  ELSE catching

\* The parked events are replayed, in version order.
ReplayParked(s, p) ==
  ReplayAll([s EXCEPT !.recovery[p] = NoRecovery, !.parked[p] = {}], p, s.parked[p])

RecoveryArrives(p) ==
  /\ eng.recovery[p].pc = "answered"
  /\ eng.recovery[p].answer.how # "checked"
  /\ LET a == eng.recovery[p].answer IN
       /\ eng' = ReplayParked(ApplyAnswer(eng, p, a), p)
       /\ seen' = seen \cup (IF a.how = "events" THEN {p} \X ((a.from + 1)..a.to) ELSE {})
  /\ catching' = Resumed(p)
  /\ UNCHANGED <<server, cursor, list, conn, faults>>

\* What is parked stays parked.
RecoveryFails(p) ==
  /\ eng.recovery[p] # NoRecovery
  /\ failures < MaxFailures
  /\ failures' = failures + 1
  /\ eng' = [eng EXCEPT !.recovery[p] = NoRecovery]
  /\ catching' = Resumed(p)
  /\ UNCHANGED <<server, seen, cursor, list, conn, drops>>

-----------------------------------------------------------------------------
(* The change feed *)

\* catchUp: without a cursor there is nothing to do, and a running one is shared.
StartCatchUp(upTo) ==
  catching' = IF cursor # None /\ catching = NoCatchUp
              THEN [pc |-> "asked", upTo |-> upTo] ELSE catching

\* The 30 s timer, or the server's hint that its transport recovered.
Poll ==
  /\ cursor # None /\ catching = NoCatchUp
  /\ StartCatchUp(None)
  /\ UNCHANGED <<server, eng, seen, cursor, list, conn, faults>>

SmallerOf(m, n) == IF m < n THEN m ELSE n

\* ProjectService.changes: [at, to] is the page still to be walked.
CatchUpRead ==
  /\ catching.pc = "asked"
  /\ LET last == IF catching.upTo = None THEN Len(feed) ELSE SmallerOf(catching.upTo, Len(feed))
         to   == SmallerOf(cursor + PageSize, last)
     IN catching' = [pc |-> "read", upTo |-> catching.upTo, at |-> cursor + 1, to |-> to,
                     more |-> to = cursor + PageSize]
  /\ UNCHANGED <<server, eng, seen, cursor, list, conn, faults>>

\* One event of the page.  A copy goes by its version alone; only what is not held is
\* skipped when its id was seen.
FromFeed(w, n) ==
  LET p == feed[n][1]  v == feed[n][2] IN
  IF w.stop # 0 \/ ~Sent(p, v) THEN w
  ELSE IF ~Holds(w.eng, p)
       THEN [eng |-> IF feed[n] \in w.seen THEN w.eng ELSE ApplyUnseen(w.eng, p, v),
             seen |-> w.seen \cup {feed[n]}, stop |-> 0]
       ELSE [eng |-> Replay(w.eng, p, v), seen |-> w.seen \cup {feed[n]},
             stop |-> IF Gap(w.eng, p, v) THEN n ELSE 0]

\* The events at..to of the feed, in feed order, up to the first gap.
Walk(at, to) ==
  LET after[n \in (at - 1)..to] ==
        IF n < at THEN [eng |-> eng, seen |-> seen, stop |-> 0] ELSE FromFeed(after[n - 1], n)
  IN after[to]

HeadOfFeed == Len(feed)        \* (mutant)
OneTooFar == catching.to + 1   \* (mutant)

\* The last number a walked page accounts for.
Scanned == IF catching.to > cursor THEN catching.to ELSE cursor

\* The page is walked; at a gap the walk waits for the recovery.  At its end the cursor moves.
CatchUpArrives ==
  /\ catching.pc = "read"
  /\ LET w == Walk(catching.at, catching.to) IN
       /\ eng' = w.eng
       /\ seen' = w.seen
       /\ \/ /\ w.stop # 0
             /\ catching' = [pc |-> "recovering", project |-> feed[w.stop][1],
                             upTo |-> catching.upTo, at |-> w.stop + 1, to |-> catching.to,
                             more |-> catching.more]
             /\ UNCHANGED cursor
          \/ /\ w.stop = 0
             /\ cursor' = Scanned
             /\ catching' = IF catching.more THEN [pc |-> "asked", upTo |-> catching.upTo]
                            ELSE NoCatchUp
  /\ UNCHANGED <<server, list, conn, faults>>

CatchUpFails ==
  /\ catching.pc = "asked"
  /\ failures < MaxFailures
  /\ failures' = failures + 1
  /\ catching' = NoCatchUp
  /\ UNCHANGED <<server, eng, seen, cursor, list, conn, drops>>

-----------------------------------------------------------------------------
(* The list *)

\* The head of the feed is read before the page.
ListAsk ==
  /\ list = NoList
  /\ eng.stale
  /\ list' = [pc |-> "head", head |-> Len(feed)]
  /\ eng' = [eng EXCEPT !.stale = FALSE]
  /\ UNCHANGED <<server, seen, cursor, catching, conn, faults>>

ListRead ==
  /\ list.pc = "head"
  /\ list' = [pc |-> "page", head |-> list.head,
              rows |-> [p \in Projects |-> IF InView(p, version[p]) THEN version[p] ELSE 0]]
  /\ UNCHANGED <<server, eng, seen, cursor, catching, conn, faults>>

RowsOf(s, rows) ==
  [s EXCEPT !.copy = [p \in Projects |-> IF rows[p] = 0 THEN s.copy[p]
                                         ELSE Adopt(s, p, rows[p]).copy[p]]]

CursorFromPage(n) == Len(feed)   \* (mutant)

\* initCursor: the first list decides.
FirstCursor(n) == IF cursor = None THEN n ELSE cursor

ListArrives ==
  /\ list.pc = "page"
  /\ cursor' = FirstCursor(list.head)
  /\ eng' = RowsOf(eng, list.rows)
  /\ list' = NoList
  /\ UNCHANGED <<server, seen, catching, conn, faults>>

\* The user opens more rows, changes a filter, opens a project: the same kind of read.
Browse ==
  /\ list = NoList /\ ~eng.stale
  /\ eng' = [eng EXCEPT !.stale = TRUE]
  /\ UNCHANGED <<server, seen, cursor, catching, list, conn, faults>>

-----------------------------------------------------------------------------
(* The connection *)

Drop ==
  /\ conn.state = "connected"
  /\ drops < MaxDrops
  /\ drops' = drops + 1
  /\ conn' = [conn EXCEPT !.state = "reconnecting"]
  /\ UNCHANGED <<server, eng, seen, cursor, catching, list, failures>>

\* hello carries the feed head; resync first catches up to it, if there is a cursor to move.
Hello ==
  /\ conn.state = "reconnecting"
  /\ conn' = [conn EXCEPT !.state = "catching",
                          !.goal = IF cursor = None THEN 0 ELSE Len(feed)]
  /\ StartCatchUp(Len(feed))
  /\ UNCHANGED <<server, eng, seen, cursor, list, faults>>

\* The next rows to be compared, as many as one call asks for; or none are left.
AskNext(known) ==
  \/ /\ DOMAIN known = {}
     /\ conn' = [conn EXCEPT !.state = "connected", !.answer = <<>>, !.known = <<>>]
  \/ \E chunk \in SUBSET DOMAIN known :
       /\ chunk # {}
       /\ Cardinality(chunk) = SmallerOf(SyncLimit, Cardinality(DOMAIN known))
       /\ conn' = [conn EXCEPT !.state = "asked",
                               !.answer = [p \in chunk |-> known[p]],
                               !.known = [p \in DOMAIN known \ chunk |-> known[p]]]

\* Then every row held is compared; what was parked is covered by the answers.
ResyncAsk ==
  /\ conn.state = "catching"
  /\ catching = NoCatchUp
  /\ LET held == {p \in Projects : Holds(eng, p)} IN
       /\ AskNext([p \in held |-> VersionOf(eng, p)])
       /\ eng' = IF held = {} THEN eng
                 ELSE [eng EXCEPT !.parked = [p \in Projects |-> {}]]
  /\ UNCHANGED <<server, seen, cursor, catching, list, faults>>

\* The versions of all the rows asked for are read at once, what is owed row by row.
ResyncRead ==
  /\ conn.state = "asked"
  /\ conn' = [conn EXCEPT !.state = "answered",
                          !.answer = [p \in DOMAIN conn.answer |-> Answers(p, conn.answer[p])]]
  /\ UNCHANGED <<server, eng, seen, cursor, catching, list, faults>>

ResyncLoad(p) ==
  /\ conn.state = "answered"
  /\ p \in DOMAIN conn.answer /\ conn.answer[p].how = "checked"
  /\ \E a \in Loaded(p, conn.answer[p]) : conn' = [conn EXCEPT !.answer[p] = a]
  /\ UNCHANGED <<server, eng, seen, cursor, catching, list, faults>>

\* applyRecovery, for an answer about several projects.
ApplyAnswers(s, answer) ==
  LET after == [p \in Projects |-> IF p \in DOMAIN answer THEN ApplyAnswer(s, p, answer[p])
                                                         ELSE s] IN
  [copy     |-> [p \in Projects |-> after[p].copy[p]],
   parked   |-> [p \in Projects |-> after[p].parked[p]],
   recovery |-> [p \in Projects |-> after[p].recovery[p]],
   stale    |-> s.stale \/ \E p \in Projects : after[p].stale]

ResyncArrives ==
  /\ conn.state = "answered"
  /\ \A p \in DOMAIN conn.answer : conn.answer[p].how # "checked"
  /\ eng' = ApplyAnswers(eng, conn.answer)
  /\ seen' = seen \cup UNION {{p} \X ((conn.answer[p].from + 1)..conn.answer[p].to) :
                                p \in {q \in DOMAIN conn.answer : conn.answer[q].how = "events"}}
  /\ AskNext(conn.known)
  /\ UNCHANGED <<server, cursor, catching, list, faults>>

\* A failed resync is given up: the periodic catch-up is left to repair it.
ResyncFails ==
  /\ conn.state \in {"asked", "answered"}
  /\ failures < MaxFailures
  /\ failures' = failures + 1
  /\ conn' = [conn EXCEPT !.state = "connected", !.answer = <<>>, !.known = <<>>]
  /\ UNCHANGED <<server, eng, seen, cursor, catching, list, drops>>

-----------------------------------------------------------------------------
Relay == \E p \in Projects : Number(p)
Recovery == \E p \in Projects : RecoveryRead(p) \/ RecoveryLoad(p) \/ RecoveryArrives(p)
CatchUp == CatchUpRead \/ CatchUpArrives
List == ListAsk \/ ListRead \/ ListArrives
Connect ==
  Hello \/ ResyncAsk \/ ResyncRead \/ (\E p \in Projects : ResyncLoad(p)) \/ ResyncArrives

Next ==
  \/ \E p \in Projects : Commit(p) \/ RecoveryFails(p)
  \/ \E p \in Projects : \E v \in 1..Len(Shown[p]) : Live(p, v)
  \/ Relay \/ Recovery \/ Poll \/ CatchUp \/ CatchUpFails \/ List \/ Browse
  \/ Connect \/ Drop \/ ResyncFails

Spec == Init /\ [][Next]_vars

\* The relay runs, requests are answered, the timer fires and a lost stream is reopened.
\* Nothing says that a live event arrives, that a project changes or that the user browses.
FairSpec ==
  Spec /\ WF_vars(Relay) /\ WF_vars(Recovery) /\ WF_vars(Poll) /\ WF_vars(CatchUp)
       /\ WF_vars(List) /\ WF_vars(Connect)

-----------------------------------------------------------------------------
(* Properties *)

Versions(p) == 1..Len(Shown[p])
Answer == [how : {"checked", "events", "snapshot", "gone", "same"}, from : Nat, to : Nat]

\* Every variable has its type; in particular the cursor stays within the feed.
TypeOK ==
  /\ \A p \in Projects : version[p] \in First[p]..Len(Shown[p])
  /\ \A n \in 1..Len(feed) : feed[n][1] \in Projects /\ feed[n][2] \in Versions(feed[n][1])
  /\ \A p \in Projects :
       /\ eng.copy[p] \subseteq Versions(p)
       /\ eng.parked[p] \subseteq Versions(p)
       /\ eng.recovery[p].pc \in {"none", "asked", "answered"}
       /\ eng.recovery[p].pc = "answered" => eng.recovery[p].answer \in Answer
  /\ eng.stale \in BOOLEAN
  /\ cursor \in {None} \cup 0..Len(feed)
  /\ catching.pc \in {"none", "asked", "read", "recovering"}
  /\ list.pc \in {"none", "head", "page"}
  /\ conn.state \in {"connected", "reconnecting", "catching", "asked", "answered"}
  /\ drops \in 0..MaxDrops /\ failures \in 0..MaxFailures

\* A copy at version v is the server's version v: it holds exactly the changes 1..v, whatever
\* was lost, late, parked, replayed or recovered, and v is a committed version
\* (projectSyncEngine.ts: "a gap is never bridged blindly").  It does not say that the project
\* was in view at v: see CopiesAreInView.
CopyIsExact ==
  \A p \in Projects :
    Holds(eng, p) => /\ eng.copy[p] = 1..VersionOf(eng, p)
                     /\ VersionOf(eng, p) <= version[p]

\* What docs/realtime.md says of a move out of view, on "every delivery path (live stream,
\* reconnect feed, aggregate sync)": "the row disappears".  A project that moves out between the
\* two reads of a sync arrives as a snapshot taken after the move, and stays.
CopiesAreInView ==
  \A p \in Projects : Holds(eng, p) => InView(p, VersionOf(eng, p))

\* No answer and no event moves a held copy back (seed: "Never moves a version backwards").
NeverBackwards ==
  [][\A p \in Projects :
       Holds(eng, p) /\ Holds(eng', p) => VersionOf(eng, p) <= VersionOf(eng', p)]_vars

\* The versions the browser held of p: now, and when it asked for an answer that has come.
HeldVersions(p) ==
  {VersionOf(eng, p)}
    \cup (IF eng.recovery[p].pc = "answered" THEN {eng.recovery[p].answer.from} ELSE {})
    \cup (IF conn.state = "answered" /\ p \in DOMAIN conn.answer THEN {conn.answer[p].from}
          ELSE {})

\* Was p out of view at version k, or has it been since?
LeftSince(p, k) == \E v \in k..version[p] : ~InView(p, v)

\* A row disappears from the screen only if the project was out of view at the version the
\* browser holds or has left the view since; or the same of the version it held when it asked
\* for an answer that has come.
RemovedOnlyIfGone ==
  [][\A p \in Projects :
       Holds(eng, p) /\ ~Holds(eng', p) => \E k \in HeldVersions(p) : LeftSince(p, k)]_vars

\* How much of the feed the catch-up is past: the cursor, and the part of its page that is walked.
Walked == IF catching.pc \in {"read", "recovering"} THEN catching.at - 1 ELSE cursor

\* An event of p that the copy lacks is past: this catch-up will not bring it, nor will a later one.
Behind(p) == \E n \in 1..Len(feed) : /\ n <= Walked
                                     /\ feed[n][1] = p /\ feed[n][2] > VersionOf(eng, p)

\* The catch-up never passes an event that a row already held still needs: once a copy is not
\* behind, the feed alone can bring it forward, though every live event may be lost, streams
\* drop and requests fail.  Only of a row held at a version out of view can the feed lack the
\* next event.
NoHeldRowFallsBehind ==
  [][\A p \in Projects :
       /\ Holds(eng, p) /\ InView(p, VersionOf(eng, p)) /\ ~Behind(p)
       /\ Holds(eng', p)
       => ~Behind(p)']_vars

\* Every project that is in view is in the end in the browser: creations and move-ins are never
\* missed between the list page, its cursor, the live stream and the feed.
EveryProjectAppears ==
  \A p \in Projects : InView(p, version[p]) ~> (Holds(eng, p) \/ ~InView(p, version[p]))

\* What docs/realtime.md says of rows nobody looks at: "Rows seeded in the cache but off screen
\* are refreshed by the 30 s feed catch-up."
OffScreenRowsRefresh ==
  \A p \in Projects :
    Holds(eng, p) /\ VersionOf(eng, p) < version[p]
      ~> ~Holds(eng, p) \/ VersionOf(eng, p) = version[p]

\* The n-th event of the feed brought its project into view, and it has been there ever since.
BroughtIn(n) ==
  LET p == feed[n][1]  v == feed[n][2] IN
  ~InView(p, v - 1) /\ \A w \in v..version[p] : InView(p, w)

\* What connection.ts says of the resync after a reconnect: it runs "BEFORE the state returns to
\* `connected`, so the UI never claims "Live" while stale", and brings "local state up to that
\* head".  So a project that came into view up to that head is on the screen by then, or the
\* list is being read again, or is known to be stale.
LiveMeansCaughtUp ==
  conn.state = "connected" =>
    \A n \in 1..conn.goal :
      BroughtIn(n) => Holds(eng, feed[n][1]) \/ eng.stale \/ list # NoList
=============================================================================
