------------------------------ MODULE ScopesProofs -----------------------------
(***************************************************************************)
(* The safety properties of Scopes, for any rows, limits and numbers of    *)
(* streams, changes and faults.                                            *)
(*                                                                         *)
(* Of a stream that has not been given up the invariant says what a change *)
(* of its scopes has come to: asked for, accepted by the server, answered  *)
(* by a frame on the wire, taken by the browser while the HTTP answer is   *)
(* out, or given up.  One change is under way at a time, so each answer    *)
(* still describes the channels when it is counted.                        *)
(***************************************************************************)
EXTENDS Scopes, FiniteSetTheorems, TLAPS

Ids == StreamIds \cup {0}
Some == SUBSET Scopes
Late == [kind |-> "late"]
Frames == [kind : {"hello", "scopes", "failed"}, accepted : Some, denied : Some, removed : Some]

Connections ==
  [pc : {"backoff", "fetch", "sync", "open"}, at : Ids, id : Ids, asked : Some, live : Some,
   denied : Some, aborted : BOOLEAN, had : BOOLEAN, re : BOOLEAN]

Runs ==
  [pc : {"none", "post", "ack", "rows"}, stream : Ids, add : Some, remove : Some,
   laterAdd : Some, laterRemove : Some, again : BOOLEAN, waits : BOOLEAN,
   http : {"out", "ok", "no"}, got : {NoAnswer, Late} \cup Frames]

Streams == [StreamIds -> [open : BOOLEAN, channels : SUBSET Allowed]]
Changes == [stream : StreamIds, add : Some, remove : Some]

\* A reconciliation waits only without an answer, and never asks for a scope both ways.
GoodRun(r) ==
  /\ r \in Runs
  /\ r.pc = "none" => r = Idle
  /\ r.pc # "none" => r.stream # 0
  /\ r.pc = "ack" => r.http = "ok"
  /\ r.pc = "rows" => r.got.kind = "scopes"
  /\ r.waits => r.got = NoAnswer
  /\ r.got.kind # "hello"
  /\ (r.add \cup r.laterAdd) \cap (r.remove \cup r.laterRemove) = {}
  /\ r.remove \cap r.laterRemove = {}

Typed ==
  /\ want \in Wanted
  /\ conn \in Connections
  /\ GoodRun(run)
  /\ server \in Streams
  /\ jobs \subseteq Changes
  /\ wire \in Seq(Frames)
  /\ rows \in [stale : Some, coming : Some, owed : Some]
  /\ stray \in [now : Some, ever : BOOLEAN]
  /\ used \in [changes : Nat, events : Nat, faults : Nat]

\* Only the stream that is read is open, with its changes and frames.
OneStream ==
  /\ \A s \in StreamIds : server[s].open => s = conn.at
  /\ \A s \in StreamIds : ~server[s].open => server[s].channels = {}
  /\ \A j \in jobs : j.stream = conn.at /\ server[conn.at].open
  /\ wire # <<>> => conn.at # 0 /\ server[conn.at].open

\* An attempt reads a hello first, of a stream that no reconciliation knows yet.
Attempt ==
  /\ conn.pc = "backoff" => conn.at = 0
  /\ conn.pc = "fetch" =>
       /\ conn.id = 0
       /\ jobs = {}
       /\ Cardinality(conn.asked) <= Cap
       /\ conn.at # 0 => run.stream # conn.at
       /\ conn.at # 0 /\ server[conn.at].open =>
            /\ Cardinality(server[conn.at].channels) <= Cap
            /\ \E d \in Some : wire = <<Frame("hello", server[conn.at].channels, d, {})>>
  /\ conn.pc \in {"sync", "open"} =>
       /\ conn.at # 0 /\ conn.id = conn.at
       /\ \A i \in 1..Len(wire) : wire[i].kind # "hello"

Held == server[conn.at].channels

\* What is live is held and is current, but for the scopes D.
CurrentBut(D) ==
  /\ conn.live \ (stray.now \cup D) \subseteq Held
  /\ conn.live \cap rows.stale \subseteq
       rows.coming \cup rows.owed \cup stray.now \cup D
       \cup (IF run.pc = "rows" THEN run.got.accepted ELSE {})
       \cup (IF conn.pc = "sync" THEN Scopes ELSE {})

IsAnswer(f) == f \in Frames /\ f.accepted \subseteq Held /\ f.removed \subseteq run.remove
Unanswered == run.got = Late \/ (run.got = NoAnswer /\ run.waits)

Quiet == jobs = {} /\ wire = <<>> /\ CurrentBut({})
Taken ==
  /\ jobs = {[stream |-> conn.at, add |-> run.add, remove |-> run.remove]}
  /\ wire = <<>> /\ Unanswered /\ CurrentBut({})
Answered ==
  /\ jobs = {} /\ Unanswered
  /\ \E f \in Frames : wire = <<f>> /\ IsAnswer(f) /\ CurrentBut(f.removed)
Told == jobs = {} /\ wire = <<>> /\ IsAnswer(run.got) /\ CurrentBut(run.got.removed)
TooLate == jobs = {} /\ wire = <<>> /\ run.got = Late /\ CurrentBut(run.remove)

\* The change under way is one of the stream that is read.
Ours == run.stream = conn.at /\ run.pc \in {"post", "ack"}

\* The steps of a change, and nothing besides.
Step ==
  IF Ours /\ run.http = "ok"
  THEN Taken \/ Answered \/ Told \/ TooLate
  ELSE Quiet /\ (Ours /\ run.http = "out" => Unanswered)

\* What is to be dropped is live.
Removing ==
  run.stream = conn.at =>
    /\ run.laterRemove \subseteq conn.live
    /\ run.pc \in {"post", "ack"} => run.remove \subseteq conn.live

\* Without another stream's answers the channels stay below the cap.
WithinCap ==
  ~stray.ever => stray.now = {} /\ Cardinality(Held) <= Cap

StreamSound == Streaming => Step /\ Removing /\ WithinCap

IInv == Typed /\ OneStream /\ Attempt /\ StreamSound

-----------------------------------------------------------------------------
(* Choosing scopes *)

LEMMA ScopesFinite ==
  \A S \in SUBSET Scopes : IsFiniteSet(S) /\ Cardinality(S) \in Nat
  BY ScopesAssumption, FS_Subset, FS_CardinalityType

\* A finite set has a subset of every smaller size.
LEMMA SubsetOfSize ==
  ASSUME NEW S, IsFiniteSet(S), NEW n \in Nat, n <= Cardinality(S)
  PROVE  \E T \in SUBSET S : Cardinality(T) = n
<1>1. Cardinality(S) \in Nat /\ ExistsBijection(1..Cardinality(S), S)
  BY FS_CardinalityType
<1>2. PICK f : f \in Bijection(1..Cardinality(S), S)
  BY <1>1 DEF ExistsBijection
<1> DEFINE T == {f[i] : i \in 1..n}
           g == [i \in 1..n |-> f[i]]
<1>3. f \in [1..Cardinality(S) -> S] /\ \A i, j \in 1..Cardinality(S) : f[i] = f[j] => i = j
  BY <1>2 DEF Bijection, Injection, IsInjective
<1>4. 1..n \subseteq 1..Cardinality(S)
  BY <1>1
<1>5. T \in SUBSET S
  BY <1>3, <1>4
<1>6. g \in Bijection(1..n, T)
  <2>1. g \in [1..n -> T]
    OBVIOUS
  <2>2. \A i, j \in 1..n : g[i] = g[j] => i = j
    BY <1>3, <1>4
  <2>3. \A t \in T : \E i \in 1..n : g[i] = t
    OBVIOUS
  <2> HIDE DEF g, T
  <2> QED
    BY <2>1, <2>2, <2>3 DEF Bijection, Injection, Surjection, IsInjective
<1> HIDE DEF g, T
<1>7. IsFiniteSet(1..n) /\ Cardinality(1..n) = n
  BY FS_Interval
<1>8. ExistsBijection(1..n, T)
  BY <1>6 DEF ExistsBijection
<1>9. Cardinality(T) = n
  BY <1>7, <1>8, FS_Bijection
<1> QED
  BY <1>5, <1>9

\* First takes some of a set, and no more than it is told.
LEMMA FirstTakesSome ==
  ASSUME NEW S \in SUBSET Scopes, NEW n \in Nat
  PROVE  First(S, n) \in SUBSET S /\ Cardinality(First(S, n)) <= n
<1>1. IsFiniteSet(S) /\ Cardinality(S) \in Nat
  BY ScopesFinite
<1>2. CASE Cardinality(S) <= n
  BY <1>2 DEF First
<1>3. CASE ~(Cardinality(S) <= n)
  <2>1. \E T \in SUBSET S : Cardinality(T) = n
    BY <1>1, <1>3, SubsetOfSize
  <2> QED
    BY <2>1, <1>3 DEF First
<1> QED
  BY <1>2, <1>3

-----------------------------------------------------------------------------
(* What reconcile makes of its run *)

\* A run that has ended, or that is about to ask stream s to drop some of R.
Starts(r, s, R) ==
  /\ GoodRun(r)
  /\ \/ r = Idle
     \/ /\ r.pc = "post" /\ r.stream = s /\ r.http = "out" /\ r.got = NoAnswer /\ r.waits
        /\ r.remove \cup r.laterRemove \subseteq R

LEMMA IdleIsGood ==
  /\ GoodRun(Idle) /\ Idle.pc = "none" /\ Idle.stream = 0 /\ ~Idle.waits
  /\ Idle.http = "out" /\ Idle.got = NoAnswer /\ Idle.remove = {} /\ Idle.laterRemove = {}
  BY DEF GoodRun, Runs, Idle, Ids, Some, NoAnswer

LEMMA RequestStarts ==
  ASSUME NEW s \in StreamIds, NEW add \in Some, NEW remove \in Some, add \cap remove = {},
         NEW again \in BOOLEAN
  PROVE  Starts(Request(s, add, remove, again), s, remove)
<1> DEFINE a == First(add, Batch)
           d == First(remove, Batch)
           r == [pc |-> "post", stream |-> s, add |-> a, remove |-> d,
                 laterAdd |-> add \ a, laterRemove |-> remove \ d, again |-> again,
                 waits |-> TRUE, http |-> "out", got |-> NoAnswer]
<1>1. a \in SUBSET add /\ d \in SUBSET remove
  BY FirstTakesSome, ScopesAssumption DEF Some
<1>2. Request(s, add, remove, again) \in {Idle, r}
  BY DEF Request, Idle
<1>3. GoodRun(r)
  BY <1>1 DEF GoodRun, Runs, Ids, Some, StreamIds, NoAnswer
<1>4. r.pc = "post" /\ r.stream = s /\ r.http = "out" /\ r.got = NoAnswer /\ r.waits
      /\ r.remove = d /\ r.laterRemove = remove \ d
  OBVIOUS
<1> HIDE DEF r, a, d
<1> QED
  BY <1>1, <1>2, <1>3, <1>4, IdleIsGood DEF Starts

LEMMA TurnStarts ==
  ASSUME NEW w \in Some, NEW c \in Connections
  PROVE  Turn(w, c) = Idle \/ (c.id # 0 /\ Starts(Turn(w, c), c.id, c.live))
<1>1. c.id \in Ids /\ c.live \in Some /\ c.denied \in Some
  BY DEF Connections
<1>2. CASE c.id = 0
  BY <1>2 DEF Turn
<1>3. CASE c.id # 0
  <2>1. c.id \in StreamIds
    BY <1>1, <1>3 DEF Ids
  <2>2. /\ w \ (c.live \cup c.denied) \in Some /\ c.live \ w \in Some
        /\ (w \ (c.live \cup c.denied)) \cap (c.live \ w) = {}
    BY <1>1 DEF Some
  <2>3. Starts(Turn(w, c), c.id, c.live \ w)
    BY <2>1, <2>2, <1>3, RequestStarts DEF Turn
  <2> QED
    BY <2>3, <1>3 DEF Starts
<1> QED
  BY <1>2, <1>3

LEMMA WantIsSome ==
  \A w \in Wanted : w \in Some
  BY ScopesAssumption DEF Some

LEMMA ProceedStarts ==
  ASSUME Typed, run.pc # "none", NEW c \in Connections
  PROVE  \/ Proceed(c) = Idle
         \/ Starts(Proceed(c), run.stream, run.laterRemove)
         \/ c.id # 0 /\ Starts(Proceed(c), c.id, c.live)
<1>1. /\ run.stream \in StreamIds /\ run.laterAdd \in Some /\ run.laterRemove \in Some
      /\ run.again \in BOOLEAN /\ run.laterAdd \cap run.laterRemove = {}
  BY DEF Typed, GoodRun, Runs, Ids
<1>2. want \in Some
  BY WantIsSome DEF Typed
<1> QED
  BY <1>1, <1>2, RequestStarts, TurnStarts DEF Proceed

\* A run is told to look again, or starts.
LEMMA ReconcileStarts ==
  ASSUME Typed, NEW w \in Some, NEW c \in Connections
  PROVE  \/ /\ run.pc # "none"
            /\ GoodRun(Reconcile(w, c))
            /\ Reconcile(w, c) = [run EXCEPT !.again = TRUE]
         \/ /\ run.pc = "none"
            /\ Reconcile(w, c) = Idle \/ (c.id # 0 /\ Starts(Reconcile(w, c), c.id, c.live))
<1>1. CASE run.pc = "none"
  BY <1>1, TurnStarts DEF Reconcile
<1>2. CASE run.pc # "none"
  <2>1. GoodRun([run EXCEPT !.again = TRUE])
    BY <1>2 DEF Typed, GoodRun, Runs
  <2> QED
    BY <1>2, <2>1 DEF Reconcile, Again
<1> QED
  BY <1>1, <1>2

LEMMA AgainFields ==
  ASSUME GoodRun(run), NEW r, r = [run EXCEPT !.again = TRUE]
  PROVE  /\ r.pc = run.pc /\ r.stream = run.stream /\ r.add = run.add /\ r.remove = run.remove
         /\ r.waits = run.waits
         /\ r.laterRemove = run.laterRemove /\ r.http = run.http /\ r.got = run.got
  BY DEF GoodRun, Runs

-----------------------------------------------------------------------------
(* What does not change *)

SameAttempt ==
  /\ conn'.pc = conn.pc /\ conn'.at = conn.at /\ conn'.id = conn.id /\ conn'.asked = conn.asked

LEMMA ServerKept ==
  ASSUME OneStream, Attempt, SameAttempt, UNCHANGED <<server, jobs, wire>>,
         conn.pc = "fetch" => run'.stream \in {0, run.stream}
  PROVE  OneStream' /\ Attempt'
<1>1. OneStream'
  BY DEF OneStream, SameAttempt
<1>2. Attempt'
  BY DEF Attempt, SameAttempt, Frame
<1> QED
  BY <1>1, <1>2

\* A run that starts finds the stream quiet.
LEMMA FreshRun ==
  ASSUME NEW s, NEW R, Starts(run', s, R), s = conn'.at => R \subseteq conn'.live, conn'.at # 0,
         jobs' = {}, wire' = <<>>, CurrentBut({})'
  PROVE  Step' /\ Removing'
<1>1. run'.http = "out" /\ run'.got = NoAnswer
      /\ (run'.pc = "post" => run'.waits) /\ run'.pc # "ack"
      /\ (run'.stream = conn'.at => run'.laterRemove \subseteq conn'.live
                                    /\ run'.remove \subseteq conn'.live)
  BY IdleIsGood DEF Starts
<1> QED
  BY <1>1 DEF Step, Removing, Ours, Quiet, Unanswered

LEMMA EndedRun ==
  ASSUME run' = Idle, conn'.at # 0, jobs' = {}, wire' = <<>>, CurrentBut({})'
  PROVE  Step' /\ Removing'
<1>1. Starts(run', 0, {})
  BY IdleIsGood DEF Starts
<1> QED
  BY <1>1, FreshRun

LEMMA CountersAreNumbers ==
  ASSUME Typed
  PROVE  /\ Fault => used' \in [changes : Nat, events : Nat, faults : Nat]
         /\ UNCHANGED used => used' \in [changes : Nat, events : Nat, faults : Nat]
<1>1. used \in [changes : Nat, events : Nat, faults : Nat]
  BY DEF Typed
<1>2. [used EXCEPT !.faults = @ + 1] \in [changes : Nat, events : Nat, faults : Nat]
  BY <1>1
<1> QED
  BY <1>1, <1>2 DEF Fault

-----------------------------------------------------------------------------
(* Giving up, and taking an answer *)

LEMMA GivesUpEffect ==
  ASSUME Typed, GivesUp
  PROVE  /\ run' = Idle /\ GoodRun(run') /\ run'.stream = 0
         /\ conn' \in Connections /\ SameAttempt /\ ~Streaming'
<1>1. conn' = [conn EXCEPT !.aborted = conn.pc # "backoff"]
  BY DEF GivesUp, Aborting
<1>2. /\ conn' \in Connections /\ SameAttempt
      /\ conn'.aborted = (conn.pc # "backoff")
  BY <1>1 DEF Typed, Connections, SameAttempt
<1> QED
  BY <1>2, IdleIsGood DEF GivesUp, Streaming, SameAttempt

\* The browser counts an answer that describes its stream, or one of another stream.
LEMMA AnswerCounted ==
  ASSUME IInv, NEW f \in Frames, f.kind = "scopes", run.pc \in {"post", "ack"}, TakeAnswer(f),
         UNCHANGED <<want, server, jobs, rows>>,
         Streaming => /\ jobs = {} /\ wire' = <<>>
                      /\ IF run.stream = conn.at THEN IsAnswer(f) /\ CurrentBut(f.removed)
                                                 ELSE CurrentBut({})
  PROVE  /\ GoodRun(run') /\ conn' \in Connections /\ stray' \in [now : Some, ever : BOOLEAN]
         /\ SameAttempt /\ StreamSound'
         /\ conn.pc = "fetch" => run'.stream \in {0, run.stream}
<1> DEFINE c == [conn EXCEPT !.live = Confirmed(@, f), !.denied = @ \cup f.denied]
<1>1. /\ c \in Connections /\ c.pc = conn.pc /\ c.at = conn.at /\ c.id = conn.id
      /\ c.asked = conn.asked /\ c.aborted = conn.aborted
      /\ c.live = (conn.live \cup f.accepted) \ f.removed
  BY DEF IInv, Typed, Connections, Frames, Some, Confirmed
<1>2. /\ conn' = c
      /\ run' = IF f.accepted = {} THEN Proceed(c)
                ELSE [run EXCEPT !.pc = "rows", !.waits = FALSE, !.got = f]
      /\ stray' = [now |-> (stray.now \cup Strays(f)) \ f.removed,
                   ever |-> stray.ever \/ Strays(f) # {}]
  BY DEF TakeAnswer
<1> HIDE DEF c
<1>3. SameAttempt
  BY <1>1, <1>2 DEF SameAttempt
<1>4. /\ stray' \in [now : Some, ever : BOOLEAN]
      /\ stray'.now = (stray.now \cup Strays(f)) \ f.removed
      /\ stray'.ever = (stray.ever \/ Strays(f) # {})
  BY <1>2 DEF IInv, Typed, Strays, Frames, Some
<1>5. \/ /\ f.accepted # {} /\ GoodRun(run')
         /\ run'.pc = "rows" /\ run'.stream = run.stream /\ run'.got = f
         /\ run'.laterRemove = run.laterRemove
      \/ f.accepted = {} /\ run' = Idle
      \/ f.accepted = {} /\ Starts(run', run.stream, run.laterRemove)
      \/ f.accepted = {} /\ conn.id # 0 /\ Starts(run', conn.id, conn'.live)
  <2>1. CASE f.accepted = {}
    BY <2>1, <1>1, <1>2, ProceedStarts DEF IInv
  <2>2. CASE f.accepted # {}
    <3>1. run' = [run EXCEPT !.pc = "rows", !.waits = FALSE, !.got = f]
      BY <2>2, <1>2
    <3>2. /\ GoodRun(run')
          /\ run'.pc = "rows" /\ run'.stream = run.stream /\ run'.got = f
          /\ run'.laterRemove = run.laterRemove
      BY <3>1 DEF IInv, Typed, GoodRun, Runs, Idle, NoAnswer
    <3> QED
      BY <2>2, <3>2
  <2> QED
    BY <2>1, <2>2
<1>6. GoodRun(run') /\ (conn.pc = "fetch" => run'.stream \in {0, run.stream})
  BY <1>5, IdleIsGood DEF Starts, IInv, Attempt
<1>7. StreamSound'
  <2> SUFFICES ASSUME Streaming' PROVE Step' /\ Removing' /\ WithinCap'
    BY DEF StreamSound
  <2>1. Streaming
    BY <1>1, <1>2 DEF Streaming
  <2>2. Step /\ Removing /\ WithinCap /\ conn.at # 0 /\ conn.id = conn.at
    BY <2>1 DEF IInv, StreamSound, Attempt, Streaming
  <2>3. CurrentBut({})'
    <3>1. conn'.live \ stray'.now \subseteq Held'
      BY <1>1, <1>2, <1>4, <2>1, <2>2 DEF CurrentBut, IsAnswer, Held, Strays
    <3>2. conn'.live \cap rows'.stale \subseteq
            rows'.coming \cup rows'.owed \cup stray'.now
            \cup (IF run'.pc = "rows" THEN run'.got.accepted ELSE {})
            \cup (IF conn'.pc = "sync" THEN Scopes ELSE {})
      BY <1>1, <1>2, <1>4, <1>5, <2>1, <2>2 DEF CurrentBut, IsAnswer, Held, Strays
    <3> QED
      BY <3>1, <3>2 DEF CurrentBut
  <2>4. run.stream = conn.at => run.laterRemove \subseteq conn'.live
    BY <1>1, <1>2, <2>1, <2>2 DEF IInv, Typed, GoodRun, Removing, IsAnswer
  <2>5. Step' /\ Removing'
    <3>1. CASE run' = Idle
      BY <3>1, <1>1, <1>2, <2>1, <2>2, <2>3, EndedRun
    <3>2. CASE Starts(run', run.stream, run.laterRemove)
      BY <3>2, <1>1, <1>2, <2>1, <2>2, <2>3, <2>4, FreshRun
    <3>3. CASE Starts(run', conn.id, conn'.live)
      BY <3>3, <1>1, <1>2, <2>1, <2>2, <2>3, FreshRun
    <3>4. CASE run'.pc = "rows" /\ run'.stream = run.stream /\ run'.laterRemove = run.laterRemove
      BY <3>4, <1>1, <1>2, <2>1, <2>2, <2>3, <2>4 DEF Step, Removing, Ours, Quiet
    <3> QED
      BY <1>5, <3>1, <3>2, <3>3, <3>4
  <2>6. WithinCap'
    BY <1>1, <1>2, <1>4, <2>2 DEF WithinCap, Held
  <2> QED
    BY <2>5, <2>6
<1> QED
  BY <1>1, <1>2, <1>3, <1>4, <1>6, <1>7

LEMMA LatePlain ==
  /\ Late # NoAnswer /\ Late \notin Frames /\ NoAnswer \notin Frames
  /\ Late.kind = "late" /\ NoAnswer.kind = "none"
  /\ \A g \in {NoAnswer, Late} \cup Frames : g.kind = "scopes" => g \in Frames
<1>1. Late.kind = "late" /\ NoAnswer.kind = "none"
  BY DEF Late, NoAnswer
<1>2. \A f \in Frames : f.kind \in {"hello", "scopes", "failed"}
  BY DEF Frames
<1> QED
  BY <1>1, <1>2

LEMMA FrameRead ==
  ASSUME Typed, OneStream, Attempt, SameAttempt, UNCHANGED <<server, jobs>>,
         conn.pc = "open", wire # <<>>, wire' = Tail(wire)
  PROVE  OneStream' /\ Attempt'
<1>1. Len(wire') = Len(wire) - 1 /\ \A i \in 1..Len(wire') : wire'[i] = wire[i + 1]
  BY DEF Typed
<1>2. Len(wire) \in Nat
  BY DEF Typed
<1>3. OneStream'
  BY DEF OneStream, SameAttempt
<1>4. conn'.pc = "open" /\ conn'.at = conn.at /\ conn'.id = conn.id
  BY DEF SameAttempt
<1>5. conn.at # 0 /\ conn.id = conn.at /\ \A i \in 1..Len(wire) : wire[i].kind # "hello"
  BY DEF Attempt
<1>6. \A i \in 1..Len(wire') : wire'[i].kind # "hello"
  BY <1>1, <1>2, <1>5
<1>7. Attempt'
  BY <1>4, <1>5, <1>6 DEF Attempt
<1> QED
  BY <1>3, <1>7

LEMMA TailOfWire ==
  ASSUME Typed
  PROVE  wire \in Seq(Frames) /\ (wire # <<>> => Head(wire) \in Frames /\ Tail(wire) \in Seq(Frames))
<1>1. wire \in Seq(Frames)
  BY DEF Typed
<1> QED
  BY <1>1

LEMMA GaveUp ==
  ASSUME IInv, GivesUp, UNCHANGED <<want, server, jobs, rows, stray>>,
         wire' = wire \/ (conn.pc = "open" /\ wire' = Tail(wire) /\ wire # <<>>),
         used' \in [changes : Nat, events : Nat, faults : Nat]
  PROVE  IInv'
<1>1. /\ run' = Idle /\ GoodRun(run') /\ run'.stream = 0
      /\ conn' \in Connections /\ SameAttempt /\ ~Streaming'
  BY GivesUpEffect DEF IInv
<1>2. wire' \in Seq(Frames)
  BY TailOfWire DEF IInv
<1>3. Typed'
  BY <1>1, <1>2 DEF IInv, Typed
<1>4. OneStream' /\ Attempt'
  BY <1>1, ServerKept, FrameRead DEF IInv
<1> QED
  BY <1>1, <1>3, <1>4 DEF IInv, StreamSound

\* A step that changes nothing of the run but how far its answer has come.
LEMMA RunGoesOn ==
  ASSUME IInv, want' \in Wanted, UNCHANGED <<conn, server, jobs, wire, rows, stray>>,
         used' \in [changes : Nat, events : Nat, faults : Nat],
         GoodRun(run'), run'.stream = run.stream, Streaming => Step' /\ Removing'
  PROVE  IInv'
<1>1. Typed'
  BY DEF IInv, Typed
<1>2. OneStream' /\ Attempt'
  BY ServerKept DEF IInv, SameAttempt
<1>3. StreamSound'
  BY DEF IInv, StreamSound, Streaming, WithinCap, Held
<1> QED
  BY <1>1, <1>2, <1>3 DEF IInv

LEMMA PostAnsweredKeeps ==
  ASSUME IInv, PostAnswered
  PROVE  IInv'
<1>1. UNCHANGED <<want, server, jobs, wire, rows, used>> /\ run.pc = "post"
  BY DEF PostAnswered
<1>2. used' \in [changes : Nat, events : Nat, faults : Nat] /\ GoodRun(run)
  BY <1>1 DEF IInv, Typed
<1>3. CASE GivesUp /\ UNCHANGED stray
  BY <1>1, <1>2, <1>3, GaveUp
<1>4. CASE run.http = "ok" /\ run.got # NoAnswer /\ TakeAnswer(run.got) /\ run.got.kind = "scopes"
  <2>1. run.got \in Frames
    BY <1>2, <1>4, LatePlain DEF GoodRun, Runs
  <2>2. Streaming => /\ jobs = {} /\ wire' = <<>>
                     /\ IF run.stream = conn.at THEN IsAnswer(run.got) /\ CurrentBut(run.got.removed)
                                                ELSE CurrentBut({})
    BY <1>1, <1>4, <2>1, LatePlain
    DEF IInv, StreamSound, Step, Ours, Quiet, Taken, Answered, Told, TooLate, Unanswered
  <2>3. /\ GoodRun(run') /\ conn' \in Connections /\ stray' \in [now : Some, ever : BOOLEAN]
        /\ SameAttempt /\ StreamSound'
        /\ conn.pc = "fetch" => run'.stream \in {0, run.stream}
    BY <1>1, <1>4, <2>1, <2>2, AnswerCounted
  <2>4. OneStream' /\ Attempt'
    BY <1>1, <2>3, ServerKept DEF IInv
  <2>5. Typed'
    BY <1>1, <2>3 DEF IInv, Typed
  <2> QED
    BY <2>3, <2>4, <2>5 DEF IInv
<1>5. CASE /\ run.http = "ok" /\ run.got = NoAnswer /\ run' = [run EXCEPT !.pc = "ack"]
           /\ UNCHANGED <<conn, stray>>
  <2>1. /\ GoodRun(run') /\ run'.stream = run.stream /\ run'.pc = "ack" /\ run'.http = run.http
        /\ run'.got = run.got /\ run'.add = run.add /\ run'.remove = run.remove
        /\ run'.waits = run.waits
        /\ run'.laterRemove = run.laterRemove
    BY <1>1, <1>2, <1>5 DEF GoodRun, Runs
  <2>2. \A D : CurrentBut(D) => CurrentBut(D)'
    BY <1>1, <1>5, <2>1 DEF CurrentBut, Held
  <2>3. Streaming => Step' /\ Removing'
    <3> SUFFICES ASSUME Streaming PROVE Step' /\ Removing'
      OBVIOUS
    <3>1. Step /\ Removing
      BY DEF IInv, StreamSound
    <3>2. Removing'
      BY <3>1, <1>1, <1>5, <2>1 DEF Removing
    <3>3. Step'
      <4>1. CASE ~Ours
        BY <4>1, <3>1, <1>1, <1>5, <2>1, <2>2 DEF Step, Ours, Quiet, CurrentBut, Held
      <4>2. CASE Ours
        <5>1. Taken \/ Answered
          BY <4>2, <3>1, <1>5, LatePlain DEF Step, Told, TooLate, IsAnswer
        <5>2. CASE Taken
          BY <5>2, <4>2, <1>1, <1>5, <2>1, <2>2 DEF Step, Ours, Taken, Unanswered, CurrentBut, Held
        <5>3. CASE Answered
          BY <5>3, <4>2, <1>1, <1>5, <2>1, <2>2
          DEF Step, Ours, Answered, Unanswered, IsAnswer, Held, CurrentBut
        <5> QED
          BY <5>1, <5>2, <5>3
      <4> QED
        BY <4>1, <4>2
    <3> QED
      BY <3>2, <3>3
  <2> QED
    BY <1>1, <1>2, <1>5, <2>1, <2>3, RunGoesOn DEF IInv, Typed
<1>6. TakeAnswer(run.got) /\ run.got.kind # "scopes" => GivesUp /\ UNCHANGED stray
  BY DEF TakeAnswer
<1> QED
  BY <1>3, <1>4, <1>5, <1>6 DEF PostAnswered

LEMMA PostLostKeeps ==
  ASSUME IInv, PostLost
  PROVE  IInv'
<1>1. used' \in [changes : Nat, events : Nat, faults : Nat]
  BY DEF PostLost, Fault, IInv, Typed
<1> QED
  BY <1>1, GaveUp DEF PostLost

LEMMA TimeoutKeeps ==
  ASSUME IInv, Timeout
  PROVE  IInv'
<1>1. UNCHANGED <<want, server, jobs, wire, rows>> /\ run.waits /\ Resolve(Late)
  BY DEF Timeout, Late
<1>2. used' \in [changes : Nat, events : Nat, faults : Nat]
  BY DEF Timeout, Fault, IInv, Typed
<1>3. GoodRun(run) /\ run.got = NoAnswer
  BY <1>1 DEF IInv, Typed, GoodRun
<1>4. CASE run.pc = "ack" /\ TakeAnswer(Late)
  BY <1>1, <1>2, <1>4, LatePlain, GaveUp DEF TakeAnswer
<1>5. CASE /\ run.pc = "post" /\ run' = [run EXCEPT !.waits = FALSE, !.got = Late]
           /\ UNCHANGED <<conn, stray>>
  <2>1. /\ GoodRun(run') /\ run'.stream = run.stream /\ run'.pc = "post" /\ run'.http = run.http
        /\ run'.got = Late /\ run'.add = run.add /\ run'.remove = run.remove
        /\ run'.laterRemove = run.laterRemove
    BY <1>3, <1>5, LatePlain DEF GoodRun, Runs, Idle
  <2>2. conn' = conn /\ stray' = stray /\ run.pc = "post"
    BY <1>5
  <2>3. UNCHANGED <<server, jobs, wire, rows>>
    BY <1>1
  <2>4. \A D : CurrentBut(D) => CurrentBut(D)'
    BY <2>3, <2>2, <2>1 DEF CurrentBut, Held
  <2>5. Unanswered'
    BY <2>1 DEF Unanswered
  <2>6. ASSUME Streaming PROVE Step' /\ Removing'
    <3>1. Step /\ Removing
      BY <2>6 DEF IInv, StreamSound
    <3>2. Removing'
      BY <3>1, <2>3, <2>2, <2>1 DEF Removing
    <3>3. Step'
      <4>1. CASE ~(Ours /\ run.http = "ok")
        BY <4>1, <3>1, <2>3, <2>2, <2>1, <2>4, <2>5 DEF Step, Ours, Quiet, CurrentBut, Held
      <4>2. CASE Ours /\ run.http = "ok"
        <5>1. Taken \/ Answered
          BY <4>2, <3>1, <1>3, LatePlain DEF Step, Told, TooLate, IsAnswer
        <5>2. CASE Taken
          BY <5>2, <4>2, <2>3, <2>2, <2>1, <2>4, <2>5 DEF Step, Ours, Taken, CurrentBut, Held
        <5>3. CASE Answered
          BY <5>3, <4>2, <2>3, <2>2, <2>1, <2>4, <2>5
          DEF Step, Ours, Answered, IsAnswer, Held, CurrentBut
        <5> QED
          BY <5>1, <5>2, <5>3
      <4> QED
        BY <4>1, <4>2
    <3> QED
      BY <3>2, <3>3
  <2>7. want' \in Wanted
    BY <1>1 DEF IInv, Typed
  <2> QED
    BY <1>1, <1>2, <1>5, <2>1, <2>6, <2>7, RunGoesOn
<1> QED
  BY <1>1, <1>4, <1>5 DEF Resolve

LEMMA AnswerHandledKeeps ==
  ASSUME IInv, AnswerHandled
  PROVE  IInv'
<1>1. /\ UNCHANGED <<want, server, jobs, rows, used>>
      /\ conn.pc = "open" /\ wire # <<>> /\ ~conn.aborted /\ wire' = Tail(wire)
  BY DEF AnswerHandled
<1>2. GoodRun(run) /\ used' \in [changes : Nat, events : Nat, faults : Nat]
  BY <1>1 DEF IInv, Typed
<1>3. Streaming
  BY <1>1 DEF IInv, OneStream, Streaming
<1>4. Step /\ Removing /\ WithinCap /\ conn.at # 0
  BY <1>1, <1>3 DEF IInv, StreamSound, Attempt
<1>5. Ours /\ run.http = "ok" /\ Answered
  BY <1>1, <1>4 DEF Step, Quiet, Taken, Told, TooLate
<1>6. PICK f \in Frames : wire = <<f>> /\ IsAnswer(f) /\ CurrentBut(f.removed)
  BY <1>5 DEF Answered
<1>7. Head(wire) = f /\ wire' = <<>> /\ jobs = {} /\ f.kind # "hello"
  BY <1>1, <1>5, <1>6 DEF Answered, IInv, Attempt
<1>8. wire' \in Seq(Frames)
  BY <1>7
<1>9. CASE run.waits /\ run.pc = "ack" /\ TakeAnswer(f) /\ f.kind = "scopes"
  <2>1. run.stream = conn.at
    BY <1>5 DEF Ours
  <2>2. /\ GoodRun(run') /\ conn' \in Connections /\ stray' \in [now : Some, ever : BOOLEAN]
        /\ SameAttempt /\ StreamSound'
    BY <1>1, <1>6, <1>7, <1>9, <2>1, AnswerCounted
  <2>3. OneStream' /\ Attempt'
    BY <1>1, <2>2, FrameRead DEF IInv
  <2>4. Typed'
    BY <1>1, <1>8, <2>2 DEF IInv, Typed
  <2> QED
    BY <2>2, <2>3, <2>4 DEF IInv
<1>10. CASE run.waits /\ run.pc = "ack" /\ TakeAnswer(f) /\ f.kind # "scopes"
  <2>1. GivesUp /\ UNCHANGED stray
    BY <1>10 DEF TakeAnswer
  <2> QED
    BY <1>1, <1>2, <2>1, GaveUp
<1>11. CASE \/ /\ run.waits /\ run.pc = "post" /\ run' = [run EXCEPT !.waits = FALSE, !.got = f]
               /\ UNCHANGED <<conn, stray>>
            \/ ~run.waits /\ UNCHANGED <<conn, run, stray>>
  <2>1. /\ GoodRun(run') /\ run'.stream = run.stream /\ run'.pc \in {"post", "ack"}
        /\ run'.http = run.http /\ run'.remove = run.remove /\ run'.laterRemove = run.laterRemove
        /\ run'.got = f \/ (run'.got = Late /\ run' = run)
    <3>1. CASE run.waits /\ run' = [run EXCEPT !.waits = FALSE, !.got = f] /\ run.pc = "post"
      BY <1>2, <1>7, <3>1 DEF GoodRun, Runs, Idle, NoAnswer
    <3>2. CASE ~run.waits /\ run' = run
      BY <1>2, <1>5, <3>2 DEF Answered, Unanswered, Ours
    <3> QED
      BY <1>11, <3>1, <3>2
  <2>2. SameAttempt /\ conn' = conn /\ stray' = stray
    BY <1>11 DEF SameAttempt
  <2>3. OneStream' /\ Attempt'
    BY <1>1, <2>2, FrameRead DEF IInv
  <2>4. Typed'
    BY <1>1, <1>8, <2>1, <2>2 DEF IInv, Typed
  <2>5. CurrentBut(f.removed)'
    BY <1>1, <1>5, <1>6, <2>1, <2>2 DEF CurrentBut, Held, Ours
  <2>6. Told' \/ TooLate'
    BY <1>1, <1>6, <1>7, <2>1, <2>2, <2>5 DEF Told, TooLate, IsAnswer, CurrentBut, Held
  <2>7. Step' /\ Removing' /\ WithinCap'
    BY <1>1, <1>4, <1>5, <2>1, <2>2, <2>6 DEF Step, Ours, Removing, WithinCap, Held
  <2> QED
    BY <2>3, <2>4, <2>7 DEF IInv, StreamSound
<1> QED
  BY <1>7, <1>9, <1>10, <1>11 DEF AnswerHandled, Resolve

LEMMA RowsReadKeeps ==
  ASSUME IInv, RowsRead
  PROVE  IInv'
<1>1. UNCHANGED <<want, conn, server, jobs, wire, stray>> /\ run.pc = "rows" /\ run' = Proceed(conn)
  BY DEF RowsRead
<1>2. /\ used' \in [changes : Nat, events : Nat, faults : Nat]
      /\ rows' \in [stale : Some, coming : Some, owed : Some]
      /\ rows'.coming = rows.coming
      /\ \/ rows'.stale = rows.stale \ run.got.accepted /\ rows'.owed = rows.owed
         \/ rows'.stale = rows.stale /\ rows'.owed = rows.owed \cup run.got.accepted
  <2>1. run.got.accepted \in Some
    BY <1>1, LatePlain DEF IInv, Typed, GoodRun, Runs, Frames
  <2> QED
    BY <2>1 DEF RowsRead, Reread, Fault, IInv, Typed, Some
<1>3. conn \in Connections /\ conn' = conn
  BY <1>1 DEF IInv, Typed
<1>4. \/ run' = Idle
      \/ Starts(run', run.stream, run.laterRemove)
      \/ conn.id # 0 /\ Starts(run', conn.id, conn.live)
  BY <1>1, <1>3, ProceedStarts DEF IInv
<1>5. GoodRun(run') /\ (conn.pc = "fetch" => run'.stream \in {0, run.stream})
  BY <1>4, IdleIsGood DEF Starts, IInv, Attempt
<1>6. Typed'
  BY <1>1, <1>2, <1>5 DEF IInv, Typed
<1>7. OneStream' /\ Attempt'
  BY <1>1, <1>5, ServerKept DEF IInv, SameAttempt
<1>8. ASSUME Streaming PROVE Step' /\ Removing' /\ WithinCap'
  <2>1. Step /\ Removing /\ WithinCap /\ conn.at # 0 /\ conn.id = conn.at
    BY <1>8 DEF IInv, StreamSound, Attempt, Streaming
  <2>2. jobs' = {} /\ wire' = <<>> /\ CurrentBut({})
    BY <1>1, <2>1 DEF Step, Quiet, Ours
  <2>3. run'.pc # "rows"
    BY <1>4, IdleIsGood DEF Starts
  <2>4. CurrentBut({})'
    BY <1>1, <1>2, <2>2, <2>3 DEF CurrentBut, Held
  <2>5. run.stream = conn.at => run.laterRemove \subseteq conn.live
    BY <2>1 DEF Removing
  <2>6. Step' /\ Removing'
    <3>1. CASE run' = Idle
      BY <3>1, <1>3, <2>1, <2>2, <2>4, EndedRun
    <3>2. CASE Starts(run', run.stream, run.laterRemove)
      BY <3>2, <1>3, <2>1, <2>2, <2>4, <2>5, FreshRun
    <3>3. CASE Starts(run', conn.id, conn.live)
      BY <3>3, <1>3, <2>1, <2>2, <2>4, FreshRun
    <3> QED
      BY <1>4, <3>1, <3>2, <3>3
  <2> QED
    BY <1>1, <2>1, <2>6 DEF WithinCap, Held
<1>9. StreamSound'
  BY <1>1, <1>8 DEF StreamSound, Streaming
<1> QED
  BY <1>6, <1>7, <1>9 DEF IInv

-----------------------------------------------------------------------------
(* The page changes what it wants *)

LEMMA SetScopesKeeps ==
  ASSUME IInv, SetScopes
  PROVE  IInv'
<1>1. UNCHANGED <<server, jobs, wire, rows, stray>> /\ want' \in Wanted
  BY DEF SetScopes
<1>2. used' \in [changes : Nat, events : Nat, faults : Nat]
  BY DEF SetScopes, IInv, Typed
<1>3. conn \in Connections /\ want' \in Some /\ GoodRun(run)
  BY <1>1, WantIsSome DEF IInv, Typed
<1>4. CASE conn.pc \in {"sync", "open"}
  <2>1. run' = Reconcile(want', conn) /\ conn' = conn
    BY <1>4 DEF SetScopes
  <2>2. conn.at # 0 /\ conn.id = conn.at
    BY <1>4 DEF IInv, Attempt
  <2>3. CASE /\ run.pc # "none" /\ GoodRun(Reconcile(want', conn))
             /\ Reconcile(want', conn) = [run EXCEPT !.again = TRUE]
    <3>1. /\ GoodRun(run') /\ run'.pc = run.pc /\ run'.stream = run.stream /\ run'.add = run.add
          /\ run'.remove = run.remove /\ run'.waits = run.waits
          /\ run'.laterRemove = run.laterRemove /\ run'.http = run.http /\ run'.got = run.got
      BY <1>3, <2>1, <2>3, AgainFields
    <3>2. CurrentBut({}) => CurrentBut({})'
      BY <1>1, <2>1, <3>1 DEF CurrentBut, Held
    <3>3. ASSUME Step, Removing PROVE Step' /\ Removing'
      <4>1. Removing'
        BY <1>1, <2>1, <3>1, <3>3 DEF Removing
      <4>2. Step'
        BY <1>1, <2>1, <3>1, <3>3
        DEF Step, Ours, Quiet, Taken, Answered, Told, TooLate, Unanswered, IsAnswer, CurrentBut, Held
      <4> QED
        BY <4>1, <4>2
    <3> QED
      BY <1>1, <1>2, <2>1, <3>1, <3>3, RunGoesOn DEF IInv, StreamSound
  <2>4. CASE run.pc = "none" /\ (run' = Idle \/ Starts(run', conn.id, conn.live))
    <3>1. GoodRun(run')
      BY <2>4, IdleIsGood DEF Starts
    <3>2. Typed'
      BY <1>1, <1>2, <2>1, <3>1 DEF IInv, Typed
    <3>3. OneStream' /\ Attempt'
      BY <1>1, <1>4, <2>1, ServerKept DEF IInv, SameAttempt
    <3>4. ASSUME Streaming PROVE Step' /\ Removing' /\ WithinCap'
      <4>1. Step /\ WithinCap
        BY <3>4 DEF IInv, StreamSound
      <4>2. jobs' = {} /\ wire' = <<>> /\ CurrentBut({})
        BY <1>1, <2>4, <4>1 DEF Step, Quiet, Ours
      <4>3. CurrentBut({})'
        BY <1>1, <2>1, <2>4, <4>2 DEF CurrentBut, Held
      <4>4. Step' /\ Removing'
        BY <2>1, <2>2, <2>4, <4>2, <4>3, EndedRun, FreshRun
      <4> QED
        BY <1>1, <2>1, <4>1, <4>4 DEF WithinCap, Held
    <3>5. StreamSound'
      BY <1>1, <2>1, <3>4 DEF StreamSound, Streaming
    <3> QED
      BY <3>2, <3>3, <3>5 DEF IInv
  <2> QED
    BY <1>3, <2>1, <2>3, <2>4, ReconcileStarts DEF IInv
<1>5. CASE conn.pc \notin {"sync", "open"}
  <2>1. run' = run /\ conn' = IF conn.id = 0 THEN [Aborting(conn) EXCEPT !.had = TRUE] ELSE conn
    BY <1>5 DEF SetScopes
  <2>2. conn' \in Connections /\ SameAttempt
    BY <1>3, <2>1 DEF Connections, SameAttempt, Aborting
  <2>3. Typed'
    BY <1>1, <1>2, <2>1, <2>2 DEF IInv, Typed
  <2>4. OneStream' /\ Attempt'
    BY <1>1, <2>1, <2>2, ServerKept DEF IInv
  <2>5. ~Streaming'
    BY <1>5, <2>2 DEF Streaming, SameAttempt
  <2> QED
    BY <2>3, <2>4, <2>5 DEF IInv, StreamSound
<1> QED
  BY <1>4, <1>5

-----------------------------------------------------------------------------
(* The connection's loop *)

LEMMA NoStreamNothing ==
  ASSUME Typed, OneStream, conn.at = 0
  PROVE  /\ jobs = {} /\ wire = <<>>
         /\ \A t \in StreamIds : ~server[t].open /\ server[t].channels = {}
<1>1. \A t \in StreamIds : t # 0
  BY DEF StreamIds
<1>2. \A j \in jobs : j.stream \in StreamIds
  BY DEF Typed, Changes
<1> QED
  BY <1>1, <1>2 DEF OneStream

LEMMA ConnectKeeps ==
  ASSUME IInv, Connect
  PROVE  IInv'
<1>1. UNCHANGED <<want, server, jobs, wire, rows, used>> /\ conn.pc = "backoff" /\ stray' = NoStray
  BY DEF Connect
<1>2. want \in Some /\ conn \in Connections /\ GoodRun(run)
  BY WantIsSome DEF IInv, Typed
<1>3. First(want, InitialLimit) \in Some /\ Cardinality(First(want, InitialLimit)) <= Cap
  <2>1. InitialLimit \in Nat /\ Cap \in Nat /\ InitialLimit <= Cap
    BY ScopesAssumption
  <2>2. First(want, InitialLimit) \in SUBSET want
        /\ Cardinality(First(want, InitialLimit)) <= InitialLimit
    BY <1>2, <2>1, FirstTakesSome DEF Some
  <2>3. First(want, InitialLimit) \in Some /\ Cardinality(First(want, InitialLimit)) \in Nat
    BY <1>2, <2>2, ScopesFinite DEF Some
  <2> QED
    BY <2>1, <2>2, <2>3
<1>4. /\ conn' \in Connections /\ conn'.pc = "fetch" /\ conn'.id = 0 /\ conn'.at = conn.at
      /\ conn'.asked = First(want, InitialLimit)
  BY <1>2, <1>3 DEF Connect, Connections, Some, Ids
<1>5. GoodRun(run')
  <2>1. CASE run.pc = "none"
    BY <2>1, IdleIsGood DEF Connect
  <2>2. CASE run.pc # "none"
    <3>1. run' = [run EXCEPT !.waits = FALSE]
      BY <2>2 DEF Connect
    <3> QED
      BY <1>2, <2>2, <3>1 DEF GoodRun, Runs
  <2> QED
    BY <2>1, <2>2
<1>6. conn.at = 0 /\ jobs = {} /\ wire = <<>>
  BY <1>1, NoStreamNothing DEF IInv, Attempt
<1>7. Typed'
  BY <1>1, <1>4, <1>5 DEF IInv, Typed, NoStray, Some
<1>8. OneStream'
  BY <1>1, <1>4, <1>6 DEF IInv, OneStream
<1>9. Attempt' /\ ~Streaming'
  BY <1>1, <1>3, <1>4, <1>6 DEF Attempt, Streaming
<1> QED
  BY <1>7, <1>8, <1>9 DEF IInv, StreamSound

LEMMA ConnectFailsKeeps ==
  ASSUME IInv, ConnectFails
  PROVE  IInv'
<1>1. UNCHANGED <<want, run, server, jobs, wire, rows, stray>> /\ conn.at = 0
  BY DEF ConnectFails
<1>2. used' \in [changes : Nat, events : Nat, faults : Nat] /\ conn \in Connections
  BY DEF ConnectFails, Fault, IInv, Typed
<1>3. conn' \in Connections /\ conn'.pc = "backoff" /\ conn'.at = conn.at
  BY <1>2 DEF ConnectFails, Connections
<1>4. Typed'
  BY <1>1, <1>2, <1>3 DEF IInv, Typed
<1>5. OneStream' /\ Attempt' /\ ~Streaming'
  BY <1>1, <1>3 DEF IInv, OneStream, Attempt, Streaming
<1> QED
  BY <1>4, <1>5 DEF IInv, StreamSound

LEMMA OverEffect ==
  ASSUME Typed, OneStream, NEW s \in StreamIds, Over(s), s = conn.at
  PROVE  /\ server' \in Streams /\ jobs' = {} /\ wire' = <<>>
         /\ rows' \in [stale : Some, coming : Some, owed : Some]
         /\ \A t \in StreamIds : ~server'[t].open /\ server'[t].channels = {}
<1>1. /\ server' \in Streams /\ ~server'[s].open /\ server'[s].channels = {}
      /\ \A t \in StreamIds : t # s => server'[t] = server[t]
  BY DEF Over, Typed, Streams
<1>2. jobs' = {} /\ wire' = <<>>
  BY DEF Over, OneStream
<1>3. rows' \in [stale : Some, coming : Some, owed : Some]
  BY DEF Over, Typed, Some
<1> QED
  BY <1>1, <1>2, <1>3 DEF OneStream

LEMMA BreakKeeps ==
  ASSUME IInv, Break
  PROVE  IInv'
<1>1. UNCHANGED <<want, conn, run, stray>> /\ conn.at # 0 /\ Over(conn.at)
  BY DEF Break
<1>2. used' \in [changes : Nat, events : Nat, faults : Nat] /\ conn.at \in StreamIds
  BY <1>1 DEF Break, Fault, IInv, Typed, Connections, Ids
<1>3. /\ server' \in Streams /\ jobs' = {} /\ wire' = <<>>
      /\ rows' \in [stale : Some, coming : Some, owed : Some]
      /\ \A t \in StreamIds : ~server'[t].open /\ server'[t].channels = {}
  BY <1>1, <1>2, OverEffect DEF IInv
<1>4. wire' \in Seq(Frames)
  BY <1>3
<1>5. Typed'
  BY <1>1, <1>2, <1>3, <1>4 DEF IInv, Typed
<1>6. OneStream'
  BY <1>1, <1>2, <1>3 DEF OneStream
<1>7. Attempt' /\ ~Streaming'
  BY <1>1, <1>2, <1>3 DEF IInv, Attempt, Streaming
<1> QED
  BY <1>5, <1>6, <1>7 DEF IInv, StreamSound

LEMMA LeaveKeeps ==
  ASSUME IInv, Leave
  PROVE  IInv'
<1>1. UNCHANGED <<want, run, stray, used>>
  BY DEF Leave
<1>2. conn \in Connections
  BY DEF IInv, Typed
<1>3. conn' \in Connections /\ conn'.pc = "backoff" /\ conn'.at = 0
  BY <1>2 DEF Leave, Connections, Ids
<1>4. /\ server' \in Streams /\ jobs' = {} /\ wire' = <<>> /\ wire' \in Seq(Frames)
      /\ rows' \in [stale : Some, coming : Some, owed : Some]
      /\ \A t \in StreamIds : ~server'[t].open /\ server'[t].channels = {}
  <2>1. CASE conn.at = 0
    <3>1. UNCHANGED <<server, jobs, wire, rows>>
      BY <2>1 DEF Leave
    <3> QED
      BY <2>1, <3>1, NoStreamNothing DEF IInv, Typed
  <2>2. CASE conn.at # 0
    <3>1. conn.at \in StreamIds /\ Over(conn.at)
      BY <1>2, <2>2 DEF Leave, Connections, Ids
    <3>2. <<>> \in Seq(Frames)
      OBVIOUS
    <3> QED
      BY <3>1, <3>2, OverEffect DEF IInv
  <2> QED
    BY <2>1, <2>2
<1>5. Typed'
  BY <1>1, <1>3, <1>4 DEF IInv, Typed
<1>6. OneStream' /\ Attempt' /\ ~Streaming'
  BY <1>3, <1>4 DEF OneStream, Attempt, Streaming
<1> QED
  BY <1>5, <1>6 DEF IInv, StreamSound

LEMMA HelloKeeps ==
  ASSUME IInv, Hello
  PROVE  IInv'
<1> DEFINE f == Head(wire)
           c == [conn EXCEPT !.pc = IF conn.re THEN "sync" ELSE "open", !.id = conn.at,
                             !.live = f.accepted, !.denied = f.denied, !.had = TRUE]
<1>1. /\ UNCHANGED <<want, server, jobs>> /\ conn.pc = "fetch" /\ wire # <<>> /\ ~conn.aborted
      /\ conn' = c /\ run' = Reconcile(want, c) /\ wire' = Tail(wire) /\ stray' = NoStray
      /\ rows' = [rows EXCEPT !.owed = IF conn.re THEN @ ELSE Scopes]
  BY DEF Hello
<1>2. used' \in [changes : Nat, events : Nat, faults : Nat]
  BY CountersAreNumbers DEF Hello, IInv
<1>3. conn.at # 0 /\ server[conn.at].open /\ jobs = {} /\ run.stream # conn.at
      /\ Cardinality(Held) <= Cap
  BY <1>1 DEF IInv, OneStream, Attempt, Held
<1>4. PICK d \in Some : wire = <<Frame("hello", Held, d, {})>>
  BY <1>1, <1>3 DEF IInv, Attempt, Held
<1>5. f.accepted = Held /\ f.denied = d /\ wire' = <<>>
  BY <1>1, <1>4 DEF Frame
<1>6. conn \in Connections /\ conn.at \in StreamIds /\ Held \in Some
  BY <1>3, ScopesAssumption DEF IInv, Typed, Connections, Ids, Held, Streams, Some
<1>7. /\ c \in Connections /\ c.pc = (IF conn.re THEN "sync" ELSE "open") /\ c.at = conn.at
      /\ c.id = conn.at /\ c.live = Held
  BY <1>5, <1>6 DEF Connections
<1> HIDE DEF c, f
<1>8. \/ /\ run.pc # "none" /\ GoodRun(run') /\ run'.stream = run.stream
      \/ run' = Idle
      \/ Starts(run', conn.at, Held)
  <2>1. want \in Some /\ GoodRun(run)
    BY WantIsSome DEF IInv, Typed
  <2> QED
    BY <1>1, <1>7, <2>1, ReconcileStarts, AgainFields DEF IInv
<1>9. GoodRun(run')
  BY <1>8, IdleIsGood DEF Starts
<1>10. /\ rows' \in [stale : Some, coming : Some, owed : Some]
       /\ ~conn.re => rows'.owed = Scopes
  BY <1>1 DEF IInv, Typed, Some
<1>11. Typed'
  <2>1. wire' \in Seq(Frames)
    BY <1>5
  <2> QED
    BY <1>1, <1>2, <1>7, <1>9, <1>10, <2>1 DEF IInv, Typed, NoStray, Some
<1>12. OneStream'
  BY <1>1, <1>5, <1>7 DEF IInv, OneStream
<1>13. Attempt'
  BY <1>1, <1>3, <1>5, <1>7 DEF Attempt
<1>14. CurrentBut({})'
  <2>1. rows'.stale \in Some /\ conn.re \in BOOLEAN
    BY <1>6, <1>10 DEF Connections
  <2> QED
    BY <1>1, <1>6, <1>7, <1>10, <2>1 DEF CurrentBut, Held, Some
<1>15. Step' /\ Removing'
  <2>1. CASE run'.stream = run.stream
    BY <2>1, <1>1, <1>3, <1>5, <1>7, <1>14 DEF Step, Removing, Ours, Quiet
  <2>2. CASE run' = Idle
    BY <2>2, <1>1, <1>3, <1>5, <1>7, <1>14, EndedRun
  <2>3. CASE Starts(run', conn.at, Held)
    BY <2>3, <1>1, <1>3, <1>5, <1>7, <1>14, FreshRun
  <2> QED
    BY <1>8, <2>1, <2>2, <2>3
<1>16. WithinCap'
  BY <1>1, <1>3, <1>7 DEF WithinCap, NoStray, Held
<1> QED
  BY <1>11, <1>12, <1>13, <1>15, <1>16 DEF IInv, StreamSound

LEMMA AcceptKeeps ==
  ASSUME IInv, Accept
  PROVE  IInv'
<1>1. /\ UNCHANGED <<want, run, jobs, rows, stray, used>>
      /\ conn.pc = "fetch" /\ conn.at = 0
      /\ wire' = <<Frame("hello", Authorized(conn.asked), conn.asked \ Authorized(conn.asked), {})>>
  BY DEF Accept
<1>2. PICK s \in StreamIds :
        /\ s # run.stream
        /\ server' = [server EXCEPT ![s] = [open |-> TRUE, channels |-> Authorized(conn.asked)]]
        /\ conn' = [conn EXCEPT !.at = s]
  BY DEF Accept, Unused
<1>3. conn \in Connections /\ conn.asked \in Some
  BY DEF IInv, Typed, Connections
<1>4. /\ Authorized(conn.asked) \in SUBSET Allowed
      /\ Authorized(conn.asked) \in SUBSET conn.asked
      /\ Authorized(conn.asked) \in Some /\ conn.asked \ Authorized(conn.asked) \in Some
  BY <1>3, ScopesAssumption DEF Authorized, Some
<1>5. Cardinality(Authorized(conn.asked)) <= Cap
  <2>1. IsFiniteSet(conn.asked) /\ Cardinality(conn.asked) \in Nat
        /\ Cardinality(Authorized(conn.asked)) \in Nat
    BY <1>3, <1>4, ScopesFinite DEF Some
  <2>2. Cardinality(Authorized(conn.asked)) <= Cardinality(conn.asked)
    BY <1>4, <2>1, FS_Subset
  <2>3. Cardinality(conn.asked) <= Cap /\ Cap \in Nat
    BY <1>1, ScopesAssumption DEF IInv, Attempt
  <2> QED
    BY <2>1, <2>2, <2>3
<1>6. /\ jobs = {} /\ wire = <<>>
      /\ \A t \in StreamIds : ~server[t].open /\ server[t].channels = {}
  BY <1>1, NoStreamNothing DEF IInv
<1>7. /\ conn' \in Connections /\ conn'.at = s /\ conn'.pc = "fetch" /\ conn'.id = conn.id
      /\ conn'.asked = conn.asked
  BY <1>1, <1>2, <1>3 DEF Connections, Ids
<1>8. /\ server' \in Streams /\ server'[s].open /\ server'[s].channels = Authorized(conn.asked)
      /\ \A t \in StreamIds : t # s => server'[t] = server[t]
  BY <1>2, <1>4 DEF IInv, Typed, Streams
<1>9. wire' \in Seq(Frames)
  BY <1>1, <1>4 DEF Frame, Frames, Some
<1>10. Typed'
  BY <1>1, <1>7, <1>8, <1>9 DEF IInv, Typed
<1>11. OneStream'
  <2>1. s # 0
    BY DEF StreamIds
  <2> QED
    BY <1>1, <1>6, <1>7, <1>8, <2>1 DEF OneStream
<1>12. Attempt'
  BY <1>1, <1>2, <1>4, <1>5, <1>6, <1>7, <1>8 DEF IInv, Attempt
<1>13. ~Streaming'
  BY <1>7 DEF Streaming
<1> QED
  BY <1>10, <1>11, <1>12, <1>13 DEF IInv, StreamSound

-----------------------------------------------------------------------------
(* Rows change and are read *)

CurrentStays == \A D : CurrentBut(D) => CurrentBut(D)'

LEMMA RowsMove ==
  ASSUME IInv, UNCHANGED <<want, run, server, jobs, wire, stray>>,
         conn' \in Connections, conn'.at = conn.at, conn'.id = conn.id, conn'.asked = conn.asked,
         conn'.live = conn.live, conn'.aborted = conn.aborted,
         conn'.pc = conn.pc \/ (conn.pc = "sync" /\ conn'.pc = "open"),
         rows' \in [stale : Some, coming : Some, owed : Some],
         used' \in [changes : Nat, events : Nat, faults : Nat],
         Streaming => CurrentStays
  PROVE  IInv'
<1>1. Typed'
  BY DEF IInv, Typed
<1>2. OneStream'
  BY DEF IInv, OneStream
<1>3. Attempt'
  <2>1. CASE conn'.pc = conn.pc
    BY <2>1, ServerKept DEF IInv, SameAttempt
  <2>2. CASE conn.pc = "sync" /\ conn'.pc = "open"
    BY <2>2 DEF IInv, Attempt
  <2> QED
    BY <2>1, <2>2
<1>4. StreamSound'
  <2> SUFFICES ASSUME Streaming' PROVE Step' /\ Removing' /\ WithinCap'
    BY DEF StreamSound
  <2>1. Streaming
    BY DEF Streaming
  <2>2. Step /\ Removing /\ WithinCap /\ CurrentStays
    BY <2>1 DEF IInv, StreamSound
  <2>3. Removing' /\ WithinCap'
    BY <2>2 DEF Removing, WithinCap, Held
  <2>4. \A D : CurrentBut(D) => CurrentBut(D)'
    BY <2>2 DEF CurrentStays
  <2>5. (Ours <=> Ours') /\ (Unanswered <=> Unanswered')
    BY DEF Ours, Unanswered
  <2>6. \A f : IsAnswer(f) => IsAnswer(f)'
    BY DEF IsAnswer, Held
  <2>7. Quiet => Quiet'
    BY <2>4 DEF Quiet
  <2>8. Taken => Taken'
    BY <2>4, <2>5 DEF Taken
  <2>9. Answered => Answered'
    <3>1. ASSUME Answered PROVE Answered'
      <4>1. PICK f \in Frames : wire = <<f>> /\ IsAnswer(f) /\ CurrentBut(f.removed)
        BY <3>1 DEF Answered
      <4>2. CurrentBut(f.removed)' /\ IsAnswer(f)'
        BY <4>1, <2>4, <2>6
      <4> QED
        BY <3>1, <4>1, <4>2, <2>5 DEF Answered
    <3> QED
      BY <3>1
  <2>10. Told => Told'
    <3>1. ASSUME Told PROVE Told'
      <4>1. CurrentBut(run.got.removed)' /\ IsAnswer(run.got)'
        BY <3>1, <2>4, <2>6 DEF Told
      <4> QED
        BY <3>1, <4>1 DEF Told
    <3> QED
      BY <3>1
  <2>11. TooLate => TooLate'
    BY <2>4 DEF TooLate
  <2>12. Step'
    BY <2>2, <2>5, <2>7, <2>8, <2>9, <2>10, <2>11 DEF Step
  <2> QED
    BY <2>3, <2>12
<1> QED
  BY <1>1, <1>2, <1>3, <1>4 DEF IInv

LEMMA SyncEndsKeeps ==
  ASSUME IInv, SyncEnds
  PROVE  IInv'
<1>1. UNCHANGED <<want, run, server, jobs, wire, stray>> /\ conn.pc = "sync"
      /\ conn' = [conn EXCEPT !.pc = "open"]
  BY DEF SyncEnds
<1>2. /\ conn' \in Connections /\ conn'.at = conn.at /\ conn'.id = conn.id
      /\ conn'.asked = conn.asked /\ conn'.live = conn.live /\ conn'.aborted = conn.aborted
      /\ conn'.pc = "open"
  BY <1>1 DEF IInv, Typed, Connections
<1>3. /\ rows' \in [stale : Some, coming : Some, owed : Some]
      /\ rows'.stale = {} \/ rows'.owed = Scopes
      /\ used' \in [changes : Nat, events : Nat, faults : Nat]
  <2>1. rows \in [stale : Some, coming : Some, owed : Some] /\ {} \in Some /\ Scopes \in Some
    BY DEF IInv, Typed, Some
  <2>2. rows' = [rows EXCEPT !.stale = {}, !.owed = {}] \/ rows' = [rows EXCEPT !.owed = Scopes]
    BY DEF SyncEnds, ReadAll
  <2>3. used' \in [changes : Nat, events : Nat, faults : Nat]
    BY CountersAreNumbers DEF SyncEnds, IInv
  <2> QED
    BY <2>1, <2>2, <2>3
<1>4. conn.live \in Some
  BY DEF IInv, Typed, Connections
<1>5. CurrentStays
  BY <1>1, <1>2, <1>3, <1>4 DEF CurrentStays, CurrentBut, Held, Some
<1> QED
  BY <1>1, <1>2, <1>3, <1>5, RowsMove

LEMMA CatchUpKeeps ==
  ASSUME IInv, CatchUp
  PROVE  IInv'
<1>1. UNCHANGED <<want, conn, run, server, jobs, wire, stray, used>>
  BY DEF CatchUp
<1>2. rows' \in [stale : Some, coming : Some, owed : Some] /\ rows'.stale = {}
  BY DEF CatchUp, ReadAll, IInv, Typed, Some
<1>3. CurrentStays
  BY <1>1, <1>2 DEF CurrentStays, CurrentBut, Held
<1> QED
  BY <1>1, <1>2, <1>3, RowsMove DEF IInv, Typed

LEMMA EventHandledKeeps ==
  ASSUME IInv, NEW x \in Scopes, EventHandled(x)
  PROVE  IInv'
<1>1. UNCHANGED <<want, conn, run, server, jobs, wire, stray, used>>
  BY DEF EventHandled
<1>2. /\ rows' \in [stale : Some, coming : Some, owed : Some]
      /\ rows'.stale = rows.stale \ {x} /\ rows'.coming = rows.coming \ {x}
      /\ rows'.owed = rows.owed
  BY DEF EventHandled, IInv, Typed, Some
<1>3. CurrentStays
  BY <1>1, <1>2 DEF CurrentStays, CurrentBut, Held
<1> QED
  BY <1>1, <1>2, <1>3, RowsMove DEF IInv, Typed

LEMMA ChangeKeeps ==
  ASSUME IInv, NEW x \in Scopes, Change(x)
  PROVE  IInv'
<1>1. UNCHANGED <<want, conn, run, server, jobs, wire, stray>>
  BY DEF Change
<1>2. /\ rows' \in [stale : Some, coming : Some, owed : Some]
      /\ rows'.stale = rows.stale \cup {x} /\ rows'.owed = rows.owed
      /\ rows'.coming = IF conn.at # 0 /\ server[conn.at].open /\ x \in server[conn.at].channels
                        THEN rows.coming \cup {x} ELSE rows.coming
      /\ used' \in [changes : Nat, events : Nat, faults : Nat]
  <2>1. /\ rows \in [stale : Some, coming : Some, owed : Some]
        /\ \A R \in Some : R \cup {x} \in Some
    BY DEF IInv, Typed, Some
  <2>2. used \in [changes : Nat, events : Nat, faults : Nat]
        /\ used' = [used EXCEPT !.events = @ + 1]
    BY DEF Change, IInv, Typed
  <2>3. rows' = [rows EXCEPT !.stale = @ \cup {x},
                             !.coming = IF conn.at # 0 /\ server[conn.at].open
                                           /\ x \in server[conn.at].channels
                                        THEN @ \cup {x} ELSE @]
    BY DEF Change
  <2>4. rows.stale \cup {x} \in Some /\ rows.coming \cup {x} \in Some /\ rows.coming \in Some
    BY <2>1
  <2>5. used' \in [changes : Nat, events : Nat, faults : Nat]
    BY <2>2
  <2> QED
    BY <2>1, <2>3, <2>4, <2>5
<1>3. Streaming => CurrentStays
  <2>1. Streaming => conn.at # 0 /\ server[conn.at].open
    BY DEF Streaming, IInv, Attempt
  <2> QED
    BY <1>1, <1>2, <2>1 DEF CurrentStays, CurrentBut, Held
<1> QED
  BY <1>1, <1>2, <1>3, RowsMove DEF IInv, Typed

-----------------------------------------------------------------------------
(* The server *)

LEMMA PostArrivesKeeps ==
  ASSUME IInv, PostArrives
  PROVE  IInv'
<1>1. UNCHANGED <<want, conn, server, wire, rows, stray, used>>
      /\ run.pc = "post" /\ run.http = "out"
  BY DEF PostArrives
<1>2. GoodRun(run) /\ run.stream \in StreamIds /\ run.add \in Some /\ run.remove \in Some
  BY <1>1 DEF IInv, Typed, GoodRun, Runs, Ids
<1>3. PICK answer \in {"ok", "no"} :
        /\ run' = [run EXCEPT !.http = answer]
        /\ server[run.stream].open => answer = "ok"
        /\ jobs' = IF server[run.stream].open
                   THEN jobs \cup {[stream |-> run.stream, add |-> run.add, remove |-> run.remove]}
                   ELSE jobs
  BY DEF PostArrives
<1>4. /\ GoodRun(run') /\ run'.pc = "post" /\ run'.stream = run.stream /\ run'.http = answer
      /\ run'.add = run.add /\ run'.remove = run.remove /\ run'.laterRemove = run.laterRemove
      /\ run'.got = run.got /\ run'.waits = run.waits
  BY <1>1, <1>2, <1>3 DEF GoodRun, Runs
<1>5. CASE ~server[run.stream].open
  <2>1. jobs' = jobs
    BY <1>3, <1>5
  <2>2. ASSUME Streaming PROVE Step' /\ Removing'
    <3>1. Step /\ Removing /\ ~Ours
      BY <1>5, <2>2 DEF IInv, StreamSound, Ours, Streaming
    <3>2. run.stream # conn.at
      BY <1>1, <3>1 DEF Ours
    <3>3. CurrentBut({})'
      BY <1>1, <1>4, <3>1 DEF Step, Quiet, CurrentBut, Held
    <3> QED
      BY <1>1, <1>4, <2>1, <3>1, <3>2, <3>3 DEF Step, Removing, Ours, Quiet
  <2> QED
    BY <1>1, <1>4, <2>1, <2>2, RunGoesOn DEF IInv, Typed
<1>6. CASE server[run.stream].open
  <2>1. run.stream = conn.at /\ conn.at # 0 /\ conn.pc \notin {"fetch", "backoff"}
    BY <1>2, <1>6 DEF IInv, OneStream, Attempt, StreamIds
  <2>2. jobs' = jobs \cup {[stream |-> conn.at, add |-> run.add, remove |-> run.remove]}
    BY <1>3, <1>6, <2>1
  <2>3. Typed'
    <3>1. jobs' \subseteq Changes
      BY <1>2, <2>1, <2>2 DEF IInv, Typed, Changes
    <3> QED
      BY <1>1, <1>4, <3>1 DEF IInv, Typed
  <2>4. OneStream'
    BY <1>1, <1>6, <2>1, <2>2 DEF IInv, OneStream
  <2>5. Attempt'
    BY <1>1, <2>1 DEF IInv, Attempt
  <2>6. ASSUME Streaming PROVE Step' /\ Removing' /\ WithinCap'
    <3>1. Quiet /\ Unanswered /\ Removing /\ WithinCap
      BY <1>1, <2>1, <2>6 DEF IInv, StreamSound, Step, Ours
    <3>2. jobs' = {[stream |-> conn'.at, add |-> run'.add, remove |-> run'.remove]} /\ wire' = <<>>
      BY <1>1, <1>4, <2>2, <3>1 DEF Quiet
    <3>3. CurrentBut({})' /\ Unanswered'
      BY <1>1, <1>4, <3>1 DEF Quiet, CurrentBut, Held, Unanswered
    <3>4. Taken' /\ Ours' /\ run'.http = "ok"
      BY <1>1, <1>3, <1>4, <1>6, <2>1, <3>2, <3>3 DEF Taken, Ours
    <3>5. Removing' /\ WithinCap'
      BY <1>1, <1>4, <2>1, <3>1 DEF Removing, WithinCap, Held
    <3> QED
      BY <3>4, <3>5 DEF Step
  <2>7. StreamSound'
    BY <1>1, <2>6 DEF StreamSound, Streaming
  <2> QED
    BY <2>3, <2>4, <2>5, <2>7 DEF IInv
<1> QED
  BY <1>5, <1>6

\* The answer to a change, as a frame.
LEMMA AnswerSent ==
  ASSUME IInv, NEW j \in jobs, NEW f \in Frames, f.kind # "hello",
         jobs' = jobs \ {j}, wire' = Append(wire, f), UNCHANGED <<want, conn, run, rows, stray>>,
         used' \in [changes : Nat, events : Nat, faults : Nat],
         server' \in Streams, server'[conn.at].open,
         \A t \in StreamIds : t # conn.at => server'[t] = server[t],
         f.accepted \subseteq Held', f.removed \subseteq j.remove,
         Held \ f.removed \subseteq Held',
         Streaming /\ ~stray.ever => Cardinality(Held') <= Cap
  PROVE  IInv'
<1>1. /\ j.stream = conn.at /\ conn.at \in StreamIds /\ server[conn.at].open
      /\ conn.pc \in {"sync", "open"}
  <2>1. j.stream \in StreamIds /\ conn.pc \in {"backoff", "fetch", "sync", "open"}
    BY DEF IInv, Typed, Changes, Connections
  <2>2. j.stream = conn.at /\ server[conn.at].open
    BY DEF IInv, OneStream
  <2>3. conn.pc # "backoff" /\ conn.pc # "fetch"
    BY <2>1, <2>2 DEF IInv, Attempt, StreamIds
  <2> QED
    BY <2>1, <2>2, <2>3
<1>2. wire \in Seq(Frames) /\ wire' \in Seq(Frames) /\ wire' # <<>>
      /\ Len(wire') = Len(wire) + 1
      /\ \A i \in 1..Len(wire') : wire'[i] = IF i = Len(wire) + 1 THEN f ELSE wire[i]
  BY DEF IInv, Typed
<1>3. Typed'
  BY <1>2 DEF IInv, Typed
<1>4. OneStream'
  <2>1. OneStream
    BY DEF IInv
  <2>2. \A s \in StreamIds : server'[s].open => s = conn.at
    BY <1>1, <2>1 DEF OneStream
  <2>3. \A s \in StreamIds : ~server'[s].open => server'[s].channels = {}
    BY <1>1, <2>1 DEF OneStream
  <2>4. \A i \in jobs' : i.stream = conn'.at /\ server'[conn'.at].open
    BY <1>1, <2>1 DEF OneStream
  <2>5. conn'.at # 0 /\ server'[conn'.at].open
    BY <1>1 DEF StreamIds
  <2> QED
    BY <2>2, <2>3, <2>4, <2>5 DEF OneStream
<1>5. Attempt'
  <2>1. conn.at # 0 /\ conn.id = conn.at /\ \A i \in 1..Len(wire) : wire[i].kind # "hello"
    BY <1>1 DEF IInv, Attempt
  <2>2. Len(wire) \in Nat
    BY <1>2
  <2>3. \A i \in 1..Len(wire') : wire'[i].kind # "hello"
    BY <1>2, <2>1, <2>2
  <2> QED
    BY <1>1, <2>1, <2>3 DEF Attempt
<1>6. ASSUME Streaming PROVE Step' /\ Removing' /\ WithinCap'
  <2>1. Step /\ Removing /\ WithinCap
    BY <1>6 DEF IInv, StreamSound
  <2>2. Ours /\ run.http = "ok" /\ Taken
    BY <2>1 DEF Step, Quiet, Answered, Told, TooLate
  <2>3. j.remove = run.remove /\ jobs' = {} /\ wire' = <<f>>
    BY <2>2 DEF Taken
  <2>4. CurrentBut(f.removed)'
    <3>1. CurrentBut({})
      BY <2>2 DEF Taken
    <3>2. conn'.live \ (stray'.now \cup f.removed) \subseteq Held'
      BY <3>1 DEF CurrentBut
    <3> QED
      BY <3>1, <3>2 DEF CurrentBut
  <2>5. IsAnswer(f)' /\ Unanswered'
    BY <2>2, <2>3 DEF IsAnswer, Taken, Unanswered
  <2>6. Answered'
    BY <2>3, <2>4, <2>5 DEF Answered
  <2>7. Step'
    BY <2>2, <2>6 DEF Step, Ours
  <2>8. Removing' /\ WithinCap'
    BY <1>6, <2>1 DEF Removing, WithinCap
  <2> QED
    BY <2>7, <2>8
<1>7. StreamSound'
  BY <1>1, <1>6 DEF StreamSound, Streaming
<1> QED
  BY <1>3, <1>4, <1>5, <1>7 DEF IInv

LEMMA DeclineKeeps ==
  ASSUME IInv, NEW j \in jobs, Decline(j)
  PROVE  IInv'
<1>1. UNCHANGED <<want, conn, run, server, rows, stray>> /\ jobs' = jobs \ {j}
  BY DEF Decline
<1>2. PICK kind \in {"scopes", "failed"} : wire' = Append(wire, Frame(kind, {}, j.add, {}))
  BY DEF Decline
<1>3. used' \in [changes : Nat, events : Nat, faults : Nat]
  BY CountersAreNumbers DEF Decline, IInv
<1> DEFINE f == Frame(kind, {}, j.add, {})
<1>4. j.add \in Some
  BY DEF IInv, Typed, Changes
<1>5. f \in Frames /\ f.kind # "hello" /\ f.accepted = {} /\ f.removed = {}
  BY <1>4 DEF Frame, Frames, Some
<1>6. server' \in Streams /\ server'[conn.at].open /\ Held' = Held
      /\ \A t \in StreamIds : t # conn.at => server'[t] = server[t]
  BY <1>1 DEF IInv, Typed, OneStream, Held
<1>7. Streaming /\ ~stray.ever => Cardinality(Held') <= Cap
  BY <1>6 DEF IInv, StreamSound, WithinCap
<1> HIDE DEF f
<1> QED
  BY <1>1, <1>2, <1>3, <1>5, <1>6, <1>7, AnswerSent DEF f

\* What is removed makes room for as much.
LEMMA RoomIsKept ==
  ASSUME NEW held \in SUBSET Scopes, NEW j \in Changes, j.remove \subseteq held,
         j.add \cap j.remove = {}, Cardinality(held) <= Cap
  PROVE  Cardinality((held \ j.remove) \cup (Authorized(j.add) \cap held)
                     \cup First(Authorized(j.add) \ held, Room(held, j))) <= Cap
<1> DEFINE keep == held \ j.remove
           may == Authorized(j.add)
           new == First(may \ held, Room(held, j))
           n == Cardinality(held)
           m == Cardinality(j.remove)
           k == Cardinality(may \cap held)
<1>1. Cap \in Nat /\ j.remove \in SUBSET Scopes /\ may \in SUBSET Scopes
      /\ may \subseteq j.add
  BY ScopesAssumption DEF Changes, Some, Authorized
<1>2. n \in Nat /\ m \in Nat /\ k \in Nat /\ IsFiniteSet(held)
  <2>1. may \cap held \in SUBSET Scopes
    BY <1>1
  <2> HIDE DEF may
  <2> QED
    BY <1>1, <2>1, ScopesFinite
<1>3. Cardinality(keep) = n - m /\ IsFiniteSet(keep)
  <2>1. held \cap j.remove = j.remove
    OBVIOUS
  <2> QED
    BY <1>2, <2>1, FS_Difference
<1>4. Room(held, j) = IF n + k < Cap + m THEN Cap + m - (n + k) ELSE 0
  <2>1. Limit(j) = Cap + m
    BY DEF Limit
  <2>2. CASE n + k < Limit(j)
    BY <2>1, <2>2, <1>1, <1>2 DEF Room
  <2>3. CASE ~(n + k < Limit(j))
    BY <2>1, <2>3, <1>1, <1>2 DEF Room
  <2> QED
    BY <2>2, <2>3
<1>5. Room(held, j) \in Nat
  BY <1>1, <1>2, <1>4
<1>6. new \in SUBSET Scopes /\ Cardinality(new) <= Room(held, j)
  <2>1. may \ held \in SUBSET Scopes
    BY <1>1
  <2> HIDE DEF may
  <2> QED
    BY <1>5, <2>1, FirstTakesSome
<1>7. keep \cup (may \cap held) \cup new = keep \cup new
  BY <1>1
<1> HIDE DEF keep, new, may
<1>8. IsFiniteSet(new) /\ Cardinality(new) \in Nat
  BY <1>6, ScopesFinite
<1>9. Cardinality(keep \cap new) \in Nat
  BY <1>3, FS_Intersection, FS_CardinalityType
<1>10. Cardinality(keep \cup new) = Cardinality(keep) + Cardinality(new) - Cardinality(keep \cap new)
  BY <1>3, <1>8, FS_Union
<1>11. n - m + Cardinality(new) <= Cap
  <2>1. CASE n + k < Cap + m
    BY <2>1, <1>1, <1>2, <1>4, <1>6, <1>8
  <2>2. CASE ~(n + k < Cap + m)
    BY <2>2, <1>1, <1>2, <1>4, <1>6, <1>8
  <2> QED
    BY <2>1, <2>2
<1>12. Cardinality(keep \cup new) <= Cap
  <2> HIDE DEF n, m, k
  <2> QED
    BY <1>1, <1>2, <1>3, <1>8, <1>9, <1>10, <1>11
<1> QED
  BY <1>7, <1>12 DEF keep, new, may

LEMMA ApplyKeeps ==
  ASSUME IInv, NEW j \in jobs, Apply(j)
  PROVE  IInv'
<1> DEFINE s == j.stream
           may == Authorized(j.add)
           accepted == (may \cap Held) \cup First(may \ Held, Room(Held, j))
           f == Frame("scopes", accepted, j.add \ accepted, j.remove)
<1>1. j \in Changes /\ s = conn.at /\ conn.at \in StreamIds /\ server[conn.at].open
  BY DEF IInv, Typed, Changes, OneStream
<1>2. /\ UNCHANGED <<want, conn, run, rows, stray, used>>
      /\ jobs' = jobs \ {j} /\ wire' = Append(wire, f)
      /\ server' = [server EXCEPT ![conn.at].channels = (@ \ j.remove) \cup accepted]
  BY <1>1 DEF Apply, Held
<1>3. server \in Streams /\ Held \in SUBSET Allowed /\ Held \in SUBSET Scopes
  BY <1>1, ScopesAssumption DEF IInv, Typed, Streams, Held
<1>4. j.add \in SUBSET Scopes /\ j.remove \in SUBSET Scopes /\ may \in SUBSET Scopes
      /\ may \in SUBSET Allowed
  BY <1>1, ScopesAssumption DEF Changes, Some, Authorized
<1>5. Room(Held, j) \in Nat
  <2>1. /\ Cardinality(Held) \in Nat /\ Cardinality(j.remove) \in Nat
        /\ Cardinality(Authorized(j.add) \cap Held) \in Nat
    BY <1>3, <1>4, ScopesFinite
  <2> QED
    BY <2>1, ScopesAssumption DEF Room, Limit
<1>6. accepted \in SUBSET Allowed
  <2>1. may \ Held \in SUBSET Scopes
    BY <1>4
  <2>2. First(may \ Held, Room(Held, j)) \in SUBSET (may \ Held)
    BY <1>5, <2>1, FirstTakesSome
  <2> QED
    BY <1>4, <2>2
<1>7. f \in Frames /\ f.kind # "hello" /\ f.accepted = accepted /\ f.removed = j.remove
  BY <1>4, <1>6, ScopesAssumption DEF Frame, Frames, Some
<1> HIDE DEF f
<1>8. /\ server' \in Streams /\ server'[conn.at].open
      /\ server'[conn.at].channels = (Held \ j.remove) \cup accepted
      /\ \A t \in StreamIds : t # conn.at => server'[t] = server[t]
  <2> HIDE DEF accepted
  <2> QED
    BY <1>1, <1>2, <1>3, <1>6 DEF Streams, Held
<1>9. Held' = (Held \ j.remove) \cup accepted
  BY <1>2, <1>8 DEF Held
<1>10. Streaming /\ ~stray.ever => Cardinality(Held') <= Cap
  <2> SUFFICES ASSUME Streaming, ~stray.ever PROVE Cardinality(Held') <= Cap
    OBVIOUS
  <2>1. Step /\ Removing /\ WithinCap
    BY DEF IInv, StreamSound
  <2>2. Ours /\ Taken
    BY <2>1 DEF Step, Quiet, Answered, Told, TooLate
  <2>3. j.remove = run.remove /\ j.add = run.add
    BY <2>2 DEF Taken
  <2>4. j.remove \subseteq Held
    BY <2>1, <2>2, <2>3 DEF Removing, Ours, Taken, CurrentBut, WithinCap
  <2>5. j.add \cap j.remove = {}
    BY <2>3 DEF IInv, Typed, GoodRun
  <2>6. Cardinality(Held) <= Cap
    BY <2>1 DEF WithinCap
  <2>7. Held' = (Held \ j.remove) \cup (Authorized(j.add) \cap Held)
                \cup First(Authorized(j.add) \ Held, Room(Held, j))
    BY <1>9
  <2> QED
    BY <1>1, <1>3, <2>4, <2>5, <2>6, <2>7, RoomIsKept
<1>11. used' \in [changes : Nat, events : Nat, faults : Nat]
  BY <1>2 DEF IInv, Typed
<1> HIDE DEF accepted, may
<1>12. f.accepted \subseteq Held' /\ f.removed \subseteq j.remove /\ Held \ f.removed \subseteq Held'
  BY <1>7, <1>9
<1> QED
  BY <1>2, <1>7, <1>8, <1>10, <1>11, <1>12, AnswerSent

-----------------------------------------------------------------------------
(* The invariant *)

LEMMA InitHolds ==
  ASSUME Init
  PROVE  IInv
<1>1. /\ conn \in Connections /\ conn.pc = "backoff" /\ conn.at = 0
  BY DEF Init, Connections, Ids, Some
<1>2. GoodRun(run)
  BY IdleIsGood DEF Init
<1>3. server \in Streams /\ \A s \in StreamIds : ~server[s].open /\ server[s].channels = {}
  BY DEF Init, Streams
<1>4. wire = <<>> /\ wire \in Seq(Frames) /\ jobs = {}
  BY DEF Init
<1>5. Typed
  BY <1>1, <1>2, <1>3, <1>4 DEF Init, Typed, NoStray, Some
<1> QED
  BY <1>1, <1>3, <1>4, <1>5 DEF IInv, OneStream, Attempt, StreamSound, Streaming

LEMMA StepKeeps ==
  IInv /\ [Next]_vars => IInv'
<1> SUFFICES ASSUME IInv, [Next]_vars PROVE IInv'
  OBVIOUS
<1>1. CASE Work
  BY <1>1, ConnectKeeps, LeaveKeeps, AcceptKeeps, HelloKeeps, SyncEndsKeeps, AnswerHandledKeeps,
     PostArrivesKeeps, PostAnsweredKeeps, TimeoutKeeps, RowsReadKeeps, ApplyKeeps DEF Work
<1>2. CASE SetScopes \/ PostLost \/ ConnectFails \/ CatchUp \/ Break
  BY <1>2, SetScopesKeeps, PostLostKeeps, ConnectFailsKeeps, CatchUpKeeps, BreakKeeps
<1>3. CASE \E j \in jobs : Decline(j)
  BY <1>3, DeclineKeeps
<1>4. CASE \E x \in Scopes : EventHandled(x) \/ Change(x)
  BY <1>4, EventHandledKeeps, ChangeKeeps
<1>5. CASE UNCHANGED vars
  <2>1. /\ want' = want /\ conn' = conn /\ run' = run /\ server' = server /\ jobs' = jobs
        /\ wire' = wire /\ rows' = rows /\ stray' = stray /\ used' = used
    BY <1>5 DEF vars
  <2>2. Typed'
    BY <2>1 DEF IInv, Typed
  <2>3. CurrentStays
    BY <2>1 DEF CurrentStays, CurrentBut, Held
  <2> QED
    BY <2>1, <2>2, <2>3, RowsMove DEF Typed
<1> QED
  BY <1>1, <1>2, <1>3, <1>4, <1>5 DEF Next

THEOREM Invariance == Spec => []IInv
<1>1. Init => IInv
  BY InitHolds
<1> QED
  BY <1>1, StepKeeps, PTL DEF Spec

-----------------------------------------------------------------------------
(* The properties *)

\* Every variable keeps its type, and a stream that has not been given up stays below the cap,
\* as long as no other stream's answer is counted for it (applyScopes, maxStreamScopes).
THEOREM TypesAndCap == Spec => []TypeOK
<1>1. IInv => TypeOK
  <2> SUFFICES ASSUME IInv PROVE TypeOK
    OBVIOUS
  <2>1. /\ want \in Wanted /\ conn.pc \in {"backoff", "fetch", "sync", "open"}
        /\ {conn.at, conn.id, run.stream} \subseteq StreamIds \cup {0}
        /\ run.pc \in {"none", "post", "ack", "rows"} /\ (run.pc = "none" => run = Idle)
    BY DEF IInv, Typed, Connections, GoodRun, Runs, Ids
  <2>2. run.got.kind \in {"none", "late", "scopes", "failed"}
    <3>1. run.got \in {NoAnswer, Late} \cup Frames /\ run.got.kind # "hello"
      BY DEF IInv, Typed, GoodRun, Runs
    <3>2. \A f \in Frames : f.kind \in {"hello", "scopes", "failed"}
      BY DEF Frames
    <3> QED
      BY <3>1, <3>2, LatePlain
  <2>3. run.waits => run.got.kind = "none"
    BY LatePlain DEF IInv, Typed, GoodRun
  <2>4. Len(wire) > 0 => conn.at # 0 /\ server[conn.at].open
    <3>1. wire = <<>> => Len(wire) = 0
      OBVIOUS
    <3> QED
      BY <3>1 DEF IInv, OneStream
  <2>5. ASSUME NEW s \in StreamIds
        PROVE  server[s].channels \subseteq Allowed
    BY DEF IInv, Typed, Streams
  <2>6. ASSUME NEW s \in StreamIds, server[s].open, ~conn.aborted, ~stray.ever
        PROVE  Cardinality(server[s].channels) <= Cap
    <3>1. s = conn.at /\ s # 0
      BY <2>6 DEF IInv, OneStream, StreamIds
    <3>2. CASE conn.pc = "fetch"
      BY <2>6, <3>1, <3>2 DEF IInv, Attempt
    <3>3. CASE conn.pc \in {"sync", "open"}
      BY <2>6, <3>1, <3>3 DEF IInv, StreamSound, Streaming, WithinCap, Held
    <3> QED
      BY <2>1, <3>1, <3>2, <3>3 DEF IInv, Attempt
  <2> QED
    BY <2>1, <2>2, <2>3, <2>4, <2>5, <2>6 DEF TypeOK
<1> QED
  BY <1>1, Invariance, PTL

LEMMA DropsOnlyRemoved ==
  ASSUME IInv, Streaming
  PROVE  \E D \in SUBSET run.remove : CurrentBut(D)
<1>1. Step
  BY DEF IInv, StreamSound
<1>2. CASE Quiet \/ Taken
  BY <1>2 DEF Quiet, Taken
<1>3. CASE Answered
  BY <1>3 DEF Answered, IsAnswer
<1>4. CASE Told
  BY <1>4 DEF Told, IsAnswer
<1>5. CASE TooLate
  BY <1>5 DEF TooLate
<1> QED
  BY <1>1, <1>2, <1>3, <1>4, <1>5 DEF Step

\* What the browser counts as live the server sends on this stream, but for what it has just
\* asked to drop and for what an answer of an earlier stream put there
\* (RealtimeConnection.live, "confirmed").
THEOREM LiveIsConfirmed == Spec => []LiveIsHeld
<1>1. IInv => LiveIsHeld
  BY DropsOnlyRemoved DEF LiveIsHeld, CurrentBut, Held
<1> QED
  BY <1>1, Invariance, PTL

\* No change of a live row is missed: the browser's row is current, or an event or a read is on
\* its way (onScopesLive, onSync).
THEOREM NothingMissedWhileLive == Spec => []LiveRowsAreCurrent
<1>1. IInv => LiveRowsAreCurrent
  BY DropsOnlyRemoved DEF LiveRowsAreCurrent, CurrentBut
<1> QED
  BY <1>1, Invariance, PTL

=============================================================================
