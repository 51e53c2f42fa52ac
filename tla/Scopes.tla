-------------------------------- MODULE Scopes -------------------------------
(***************************************************************************)
(* The scopes of an open stream: RealtimeConnection in the browser and the *)
(* gateway on the server.  The page keeps changing the rows it wants; a    *)
(* stream starts with some of them and is brought in line with the rest by *)
(* POSTs, each answered twice: over HTTP, and by a frame on the stream     *)
(* once the new channels are confirmed.  Streams break, POSTs and answers  *)
(* get lost, and the next stream starts from what the page wants then.     *)
(*                                                                         *)
(* A scope is one project's row.  The collection scopes, which every page  *)
(* has and everyone may read, are left out, and so is how a channel gets   *)
(* confirmed (Hub).                                                        *)
(***************************************************************************)
EXTENDS Naturals, Sequences, FiniteSets

CONSTANTS
  Scopes,
  Wanted,        \* the sets of scopes the page may want
  Allowed,       \* the scopes its user may read
  InitialLimit,  \* scopes in the connect URL (40 in the code)
  Batch,         \* scopes added and removed by one POST (100)
  Cap,           \* scopes of one stream (400)
  MaxStreams, MaxChanges, MaxEvents, MaxFaults   \* bounds

ASSUME ScopesAssumption ==
  /\ IsFiniteSet(Scopes)
  /\ Wanted \subseteq SUBSET Scopes /\ Allowed \subseteq Scopes
  /\ InitialLimit \in Nat \ {0} /\ Batch \in Nat \ {0}
  /\ Cap \in Nat /\ InitialLimit <= Cap
  /\ {MaxStreams, MaxChanges, MaxEvents, MaxFaults} \subseteq Nat

VARIABLES
  want,    \* what the page wants
  conn,    \* the connection, see Init
  run,     \* the reconciliation that is under way
  server,  \* stream -> [open, channels]
  jobs,    \* the scope changes the server has accepted and not yet made
  wire,    \* the control frames on their way to the browser
  rows,    \* [stale, coming, owed], sets of scopes
  stray,   \* history: now, the scopes in conn.live that an answer for another stream put there;
           \* ever, whether this stream has seen one
  used     \* [changes, events, faults] so far

vars == <<want, conn, run, server, jobs, wire, rows, stray, used>>

StreamIds == 1..MaxStreams
NoAnswer == [kind |-> "none"]
NoStray == [now |-> {}, ever |-> FALSE]

Idle == [pc |-> "none", stream |-> 0, add |-> {}, remove |-> {},
         laterAdd |-> {}, laterRemove |-> {}, again |-> FALSE,
         waits |-> FALSE, http |-> "out", got |-> NoAnswer]

\* pc "backoff", "fetch" (until the hello), "sync" (the hello's onSync is awaited) or "open";
\* at: the stream it reads; id: this.streamId; had: this.hadConnection; re: what had was at
\* the start of this attempt.  A run waits while its request is in `acks`.  Requests have no
\* ids here: one is under way at a time, and one that is given up takes its stream along.
Init ==
  /\ want \in Wanted
  /\ conn = [pc |-> "backoff", at |-> 0, id |-> 0, asked |-> {}, live |-> {}, denied |-> {},
             aborted |-> FALSE, had |-> FALSE, re |-> FALSE]
  /\ run = Idle
  /\ server = [s \in StreamIds |-> [open |-> FALSE, channels |-> {}]]
  /\ jobs = {}
  /\ wire = <<>>
  \* stale: rows that changed since the browser read them; coming: rows with an event on the
  \* stream; owed: rows that an onSync nobody waits for, or the periodic one, will read
  /\ rows = [stale |-> {}, coming |-> {}, owed |-> {}]
  /\ stray = NoStray
  /\ used = [changes |-> 0, events |-> 0, faults |-> 0]

\* Some n members of S, always the same.
First(S, n) == IF Cardinality(S) <= n THEN S ELSE CHOOSE T \in SUBSET S : Cardinality(T) = n

Fault == used.faults < MaxFaults /\ used' = [used EXCEPT !.faults = @ + 1]

\* abort() of the current attempt: it has none while it backs off.
Aborting(c) == [c EXCEPT !.aborted = c.pc # "backoff"]

-----------------------------------------------------------------------------
(* reconcile *)

Request(s, add, remove, again) ==
  IF add \cup remove = {} THEN Idle
  ELSE [Idle EXCEPT
          !.pc = "post", !.stream = s, !.waits = TRUE, !.again = again,
          !.add = First(add, Batch), !.laterAdd = add \ First(add, Batch),
          !.remove = First(remove, Batch), !.laterRemove = remove \ First(remove, Batch)]

\* One turn of the loop: what is wanted and neither live nor denied, and what is live and not
\* wanted.  Without a stream there is nothing to do.
Turn(w, c) ==
  IF c.id = 0 THEN Idle
  ELSE Request(c.id, w \ (c.live \cup c.denied), c.live \ w, FALSE)

Forgets(w, c) == run   \* (mutant)

\* Only one at a time: a change while it is under way makes it look again.
Again(w, c) == [run EXCEPT !.again = TRUE]
Reconcile(w, c) == IF run.pc # "none" THEN Again(w, c) ELSE Turn(w, c)

\* After an answer: the next batch, another turn, or the end.
Proceed(c) ==
  IF run.laterAdd \cup run.laterRemove # {}
  THEN Request(run.stream, run.laterAdd, run.laterRemove, run.again)
  ELSE IF run.again THEN Turn(want, c) ELSE Idle

GivesUp ==
  /\ run' = Idle
  /\ conn' = Aborting(conn)

KeepsRemoved(live, f) == live \cup f.accepted   \* (mutant)

Confirmed(live, f) == (live \cup f.accepted) \ f.removed

Strays(f) == IF run.stream = conn.id THEN {} ELSE f.accepted

\* An awaited answer is added to what is live, whichever stream is open by now; then
\* onScopesLive reads the rows that have become live.
TakeAnswer(f) ==
  IF f.kind # "scopes" THEN GivesUp /\ UNCHANGED stray
  ELSE LET c == [conn EXCEPT !.live = Confirmed(@, f),
                             !.denied = @ \cup f.denied]
       IN  /\ conn' = c
           /\ run' = IF f.accepted = {} THEN Proceed(c)
                     ELSE [run EXCEPT !.pc = "rows", !.waits = FALSE, !.got = f]
           /\ stray' = [now |-> (stray.now \cup Strays(f)) \ f.removed,
                        ever |-> stray.ever \/ Strays(f) # {}]

\* The answer on the stream, or null.  It may come before the HTTP answer, and then waits.
Resolve(f) ==
  \/ run.pc = "ack" /\ TakeAnswer(f)
  \/ /\ run.pc = "post"
     /\ run' = [run EXCEPT !.waits = FALSE, !.got = f]
     /\ UNCHANGED <<conn, stray>>

\* The HTTP answer, whenever it comes.
PostAnswered ==
  /\ run.pc = "post" /\ run.http # "out"
  /\ \/ run.http = "ok" /\ run.got # NoAnswer /\ TakeAnswer(run.got)
     \/ /\ run.http = "ok" /\ run.got = NoAnswer
        /\ run' = [run EXCEPT !.pc = "ack"]
        /\ UNCHANGED <<conn, stray>>
     \/ run.http = "no" /\ GivesUp /\ UNCHANGED stray
  /\ UNCHANGED <<want, server, jobs, wire, rows, used>>

PostLost ==
  /\ run.pc = "post" /\ Fault
  /\ GivesUp
  /\ UNCHANGED <<want, server, jobs, wire, rows, stray>>

AnswerOnItsWay == \/ run.pc = "post"
                  \/ \E j \in jobs : j.stream = run.stream
                  \/ wire # <<>>

\* After 6 s, if the request still is in `acks`.  An answer that is slower counts as a fault.
Timeout ==
  /\ run.waits
  /\ IF AnswerOnItsWay THEN Fault ELSE UNCHANGED used
  /\ Resolve([kind |-> "late"])
  /\ UNCHANGED <<want, server, jobs, wire, rows>>

SkipsRows(r) == r   \* (mutant)

Reread(r) == [r EXCEPT !.stale = @ \ run.got.accepted]

\* syncRows; when it fails, the catch-up has to.
RowsRead ==
  /\ run.pc = "rows"
  /\ \/ /\ rows' = Reread(rows)
        /\ UNCHANGED used
     \/ /\ Fault
        /\ rows' = [rows EXCEPT !.owed = @ \cup run.got.accepted]
  /\ run' = Proceed(conn)
  /\ UNCHANGED <<want, conn, server, jobs, wire, stray>>

\* setScopes: in place on a live stream; an attempt that is under way starts over; one that is
\* yet to come carries the whole set.
SetScopes ==
  /\ used.changes < MaxChanges
  /\ used' = [used EXCEPT !.changes = @ + 1]
  /\ \E w \in Wanted \ {want} :
       /\ want' = w
       /\ IF conn.pc \in {"sync", "open"}
          THEN /\ run' = Reconcile(w, conn)
               /\ UNCHANGED conn
          ELSE /\ conn' = IF conn.id = 0 THEN [Aborting(conn) EXCEPT !.had = TRUE] ELSE conn
               /\ UNCHANGED run
  /\ UNCHANGED <<server, jobs, wire, rows, stray>>

-----------------------------------------------------------------------------
(* The connection's loop *)

\* The top of the loop: nothing is known of the next stream, and no answer is awaited any more.
Connect ==
  /\ conn.pc = "backoff"
  /\ conn' = [conn EXCEPT !.pc = "fetch", !.id = 0, !.live = {}, !.denied = {},
                          !.aborted = FALSE, !.re = conn.had, !.asked = First(want, InitialLimit)]
  /\ run' = IF run.pc = "none" THEN Idle ELSE [run EXCEPT !.waits = FALSE]
  /\ stray' = NoStray
  /\ UNCHANGED <<want, server, jobs, wire, rows, used>>

ConnectFails ==
  /\ conn.pc = "fetch" /\ conn.at = 0 /\ Fault
  /\ conn' = [conn EXCEPT !.pc = "backoff", !.had = TRUE]
  /\ UNCHANGED <<want, run, server, jobs, wire, rows, stray>>

\* A stream that is over: what was on it is lost, and changes of its scopes find it gone.
Over(s) ==
  /\ server' = [server EXCEPT ![s] = [open |-> FALSE, channels |-> {}]]
  /\ jobs' = {j \in jobs : j.stream # s}
  /\ wire' = <<>>
  /\ rows' = [rows EXCEPT !.coming = {}]

\* An attempt ends when it was aborted or its stream is over.  (Frames that arrived together
\* with the last one handled would still be.)
Leave ==
  /\ conn.pc \in {"fetch", "open"}
  /\ conn.aborted \/ (conn.at # 0 /\ ~server[conn.at].open)
  /\ conn' = [conn EXCEPT !.pc = "backoff", !.at = 0, !.had = TRUE]
  /\ IF conn.at = 0 THEN UNCHANGED <<server, jobs, wire, rows>> ELSE Over(conn.at)
  /\ UNCHANGED <<want, run, stray, used>>

\* After a reconnect onSync is awaited, and no frame is handled meanwhile.  That a request of
\* the stream before is still out by now counts as a fault.
Hello ==
  LET f == Head(wire)
      c == [conn EXCEPT !.pc = IF conn.re THEN "sync" ELSE "open", !.id = conn.at,
                        !.live = f.accepted, !.denied = f.denied, !.had = TRUE]
  IN
  /\ conn.pc = "fetch" /\ wire # <<>> /\ ~conn.aborted
  /\ IF run.pc \in {"post", "rows"} THEN Fault ELSE UNCHANGED used
  /\ conn' = c
  /\ run' = Reconcile(want, c)
  /\ wire' = Tail(wire)
  /\ rows' = [rows EXCEPT !.owed = IF conn.re THEN @ ELSE Scopes]
  /\ stray' = NoStray
  /\ UNCHANGED <<want, server, jobs>>

\* Every row is brought up to date: also one that a list page seeds behind the feed's cursor,
\* which the feed alone leaves as it is (SyncEngine, OffScreenRowsRefresh).
ReadAll == [rows EXCEPT !.stale = {}, !.owed = {}]

\* The durable feed was read; or that failed, and the periodic catch-up retries.
SyncEnds ==
  /\ conn.pc = "sync"
  /\ conn' = [conn EXCEPT !.pc = "open"]
  /\ \/ /\ rows' = ReadAll
        /\ UNCHANGED used
     \/ /\ Fault
        /\ rows' = [rows EXCEPT !.owed = Scopes]
  /\ UNCHANGED <<want, run, server, jobs, wire, stray>>

CatchUp ==
  /\ rows.owed # {}
  /\ rows' = ReadAll
  /\ UNCHANGED <<want, conn, run, server, jobs, wire, stray, used>>

AnswerHandled ==
  /\ conn.pc = "open" /\ wire # <<>> /\ ~conn.aborted
  /\ wire' = Tail(wire)
  /\ IF run.waits THEN Resolve(Head(wire))
     ELSE UNCHANGED <<conn, run, stray>>
  /\ UNCHANGED <<want, server, jobs, rows, used>>

EventHandled(x) ==
  /\ conn.pc = "open" /\ x \in rows.coming /\ ~conn.aborted
  /\ rows' = [rows EXCEPT !.coming = @ \ {x}, !.stale = @ \ {x}]
  /\ UNCHANGED <<want, conn, run, server, jobs, wire, stray, used>>

-----------------------------------------------------------------------------
(* The server *)

Frame(kind, accepted, denied, removed) ==
  [kind |-> kind, accepted |-> accepted, denied |-> denied, removed |-> removed]

\* An id nothing refers to, so that a few are enough.
Unused(s) == s # run.stream

Anything(asked) == asked   \* (mutant)

\* canSubscribe and canViewProject.
Authorized(asked) == asked \cap Allowed

\* handle: the stream is subscribed to what its user may read before the hello.
Accept ==
  /\ conn.pc = "fetch" /\ conn.at = 0 /\ ~conn.aborted
  /\ \E s \in StreamIds :
       /\ Unused(s) /\ \A t \in StreamIds : Unused(t) => s <= t
       /\ server' = [server EXCEPT ![s] = [open |-> TRUE, channels |-> Authorized(conn.asked)]]
       /\ conn' = [conn EXCEPT !.at = s]
  /\ wire' = <<Frame("hello", Authorized(conn.asked), conn.asked \ Authorized(conn.asked), {})>>
  /\ UNCHANGED <<want, run, jobs, rows, stray, used>>

\* The stream breaks or is ended (drain, overflow, age).
Break ==
  /\ conn.at # 0 /\ server[conn.at].open /\ Fault
  /\ Over(conn.at)
  /\ UNCHANGED <<want, conn, run, stray>>

\* POST /api/realtime/scopes.  The change of a stream on another instance is only handed over,
\* and the answer is the same when that stream is gone.
PostArrives ==
  /\ run.pc = "post" /\ run.http = "out"
  /\ \/ /\ server[run.stream].open
        /\ run' = [run EXCEPT !.http = "ok"]
        /\ jobs' = jobs \cup {[stream |-> run.stream, add |-> run.add, remove |-> run.remove]}
     \/ /\ ~server[run.stream].open
        /\ \E answer \in {"ok", "no"} : run' = [run EXCEPT !.http = answer]
        /\ UNCHANGED jobs
  /\ UNCHANGED <<want, conn, server, wire, rows, stray, used>>

OneMore(j) == Cap + 1 + Cardinality(j.remove)   \* (mutant)

\* The removed ones make room.
Limit(j) == Cap + Cardinality(j.remove)

Room(held, j) ==
  LET taken == Cardinality(held) + Cardinality(Authorized(j.add) \cap held)
  IN  IF taken < Limit(j) THEN Limit(j) - taken ELSE 0

\* applyScopes: authorise, check the cap, change the channels, and only then answer.
Apply(j) ==
  LET s == j.stream
      held == server[s].channels
      may == Authorized(j.add)
      accepted == (may \cap held) \cup First(may \ held, Room(held, j))
  IN
  /\ j \in jobs
  /\ jobs' = jobs \ {j}
  /\ server' = [server EXCEPT ![s].channels = (@ \ j.remove) \cup accepted]
  /\ wire' = Append(wire, Frame("scopes", accepted, j.add \ accepted, j.remove))
  /\ UNCHANGED <<want, conn, run, rows, stray, used>>

\* More than 20 changes in a second, or a SUBSCRIBE that fails.
Decline(j) ==
  /\ j \in jobs /\ Fault
  /\ jobs' = jobs \ {j}
  /\ \E kind \in {"scopes", "failed"} : wire' = Append(wire, Frame(kind, {}, j.add, {}))
  /\ UNCHANGED <<want, conn, run, server, rows, stray>>

\* Somebody changes a project: whoever is subscribed gets the event.
Change(x) ==
  /\ used.events < MaxEvents
  /\ used' = [used EXCEPT !.events = @ + 1]
  /\ rows' = [rows EXCEPT !.stale = @ \cup {x},
                          !.coming = IF conn.at # 0 /\ server[conn.at].open
                                        /\ x \in server[conn.at].channels
                                     THEN @ \cup {x} ELSE @]
  /\ UNCHANGED <<want, conn, run, server, jobs, wire, stray>>

-----------------------------------------------------------------------------

Work ==
  \/ Connect \/ Leave \/ Accept \/ Hello \/ SyncEnds \/ AnswerHandled
  \/ PostArrives \/ PostAnswered \/ Timeout \/ RowsRead
  \/ \E j \in jobs : Apply(j)

Next ==
  \/ Work
  \/ SetScopes \/ PostLost \/ ConnectFails \/ CatchUp \/ Break
  \/ \E j \in jobs : Decline(j)
  \/ \E x \in Scopes : EventHandled(x) \/ Change(x)

Spec == Init /\ [][Next]_vars

\* The browser and the server go on working: timers fire, requests and frames arrive, the
\* loop tries again.  Nothing is assumed of faults and of the user.
FairSpec == Spec /\ WF_vars(Work)

-----------------------------------------------------------------------------
(* Properties *)

\* Every variable has its type; in particular a stream that has not been given up holds no more
\* than the cap, whatever is added and removed together.  (A change makes room for all it
\* removes, held or not: see CeilingHolds.)
TypeOK ==
  /\ want \in Wanted
  /\ conn.pc \in {"backoff", "fetch", "sync", "open"}
  /\ {conn.at, conn.id, run.stream} \subseteq StreamIds \cup {0}
  /\ run.pc \in {"none", "post", "ack", "rows"}
  /\ run.pc = "none" => run = Idle
  /\ run.got.kind \in {"none", "late", "scopes", "failed"}
  /\ run.waits => run.got.kind = "none"
  /\ Len(wire) > 0 => conn.at # 0 /\ server[conn.at].open
  /\ \A s \in StreamIds :
       /\ server[s].channels \subseteq Allowed
       /\ server[s].open /\ ~conn.aborted /\ ~stray.ever => Cardinality(server[s].channels) <= Cap

\* "ceiling on scopes a live stream may hold after dynamic updates" (maxStreamScopes,
\* gateway.ts): not when a scope is removed that the stream does not hold, because a change
\* that was given up had removed it before, or another stream's answer counted.
CeilingHolds ==
  \A s \in StreamIds : server[s].open => Cardinality(server[s].channels) <= Cap

\* The connection stands and has not been given up.
Streaming == conn.pc \in {"sync", "open"} /\ ~conn.aborted /\ server[conn.at].open

\* "what the SERVER currently holds for this stream (confirmed)": a scope the browser counts
\* as live is one the server sends it, unless it has just asked to drop it, however changes,
\* breaks and late answers fall (RealtimeConnection.live).
LiveIsHeld ==
  Streaming => conn.live \ (stray.now \cup run.remove) \subseteq server[conn.at].channels

\* Nothing that happens to a live row is missed: what the browser has of it is current, or an
\* event is on its way, or it is about to be read again (onScopesLive, onSync).
LiveRowsAreCurrent ==
  Streaming =>
    conn.live \cap rows.stale \subseteq
      rows.coming \cup rows.owed \cup stray.now \cup run.remove
      \cup (IF run.pc = "rows" THEN run.got.accepted ELSE {})
      \cup (IF conn.pc = "sync" THEN Scopes ELSE {})

\* An answer nobody waits for any more, and without it no end.
Forgotten == run.pc \in {"post", "ack"} /\ ~run.waits /\ run.got = NoAnswer

\* When the page stops changing what it wants and the faults stop, the server ends up sending
\* everything that was not denied, unless an awaited answer was forgotten (the run
\* scopes_stuck) or counted for another stream.
ScopesSettle ==
  <>[](Forgotten \/ stray.now # {}
       \/ (Streaming /\ want \ conn.denied \subseteq server[conn.at].channels))

\* "Serialized; falls back to a reconnect on any failure": every reconciliation comes to an
\* end, in an answer or in a reconnect (connection.ts, reconcile).
ReconcileEnds == []<>(run.pc = "none")
=============================================================================
