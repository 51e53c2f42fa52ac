------------------------------- MODULE SyncProofs ------------------------------
(***************************************************************************)
(* The safety properties of SyncEngine, for any projects, histories, page  *)
(* sizes, limits and faults.                                               *)
(*                                                                         *)
(* What the browser holds of a project fits the versions the server has    *)
(* committed: a copy is 1..v for a committed version v, what is parked or  *)
(* on its way was committed.  Applying events keeps that, one              *)
(* event at a time; a sequence of them does by induction, which is done on *)
(* sets of naturals (`Counting`).                                          *)
(***************************************************************************)
EXTENDS SyncEngine, FiniteSetTheorems, WellFoundedInduction, TLAPS

-----------------------------------------------------------------------------
(* Part 1: the invariant *)

\* Version v of p is one the browser may hold: committed, and not before it started.
MayHold(vs, p, v) == v \in 1..vs[p] /\ First[p] <= v

LeftIn(vs, p, k) == \E v \in k..vs[p] : ~InView(p, v)

AnswerFits(vs, p, a) ==
  /\ a \in Answer
  /\ MayHold(vs, p, a.from) /\ a.to <= vs[p]
  /\ a.how = "snapshot" => MayHold(vs, p, a.to)
  /\ a.how = "gone" => LeftIn(vs, p, a.from)

Recoveries ==
  {NoRecovery} \cup [pc : {"asked"}, from : Nat] \cup [pc : {"answered"}, answer : Answer]

RecoveryFits(vs, p, r) ==
  /\ r \in Recoveries
  /\ r.pc = "asked" => MayHold(vs, p, r.from)
  /\ r.pc = "answered" => AnswerFits(vs, p, r.answer)

Engines ==
  [copy : [Projects -> SUBSET Nat], parked : [Projects -> SUBSET Nat],
   recovery : [Projects -> Recoveries], stale : BOOLEAN]

CopyFits(vs, s, p) == s.copy[p] = {} \/ \E v \in 1..vs[p] : MayHold(vs, p, v) /\ s.copy[p] = 1..v

\* What the engine has of each project fits the committed versions vs.
Fits(vs, s) ==
  /\ s \in Engines
  /\ \A p \in Projects : /\ CopyFits(vs, s, p)
                         /\ s.parked[p] \subseteq 1..vs[p]
                         /\ RecoveryFits(vs, p, s.recovery[p])

ServerFits ==
  /\ version \in [Projects -> Nat]
  /\ \A p \in Projects : First[p] <= version[p] /\ version[p] <= Len(Shown[p])

\* The feed holds the versions of a project after its first one, without a gap and in order.
FeedFits ==
  /\ feed \in Seq(Projects \X Nat)
  /\ \A n \in 1..Len(feed) :
       LET p == feed[n][1]  v == feed[n][2] IN
       /\ First[p] < v /\ v <= version[p]
       /\ First[p] < v - 1 => \E m \in 1..(n - 1) : feed[m] = <<p, v - 1>>
  /\ \A p \in Projects : \A v \in 1..Fed(p) :
       First[p] < v => \E n \in 1..Len(feed) : feed[n] = <<p, v>>

UpToFits(upTo, n) == upTo = None \/ (upTo \in Nat /\ n <= upTo)

PageFits ==
  /\ catching.at \in Nat /\ catching.to \in Nat /\ catching.more \in BOOLEAN
  /\ cursor < catching.at /\ catching.at <= catching.to + 1
  /\ cursor <= catching.to /\ catching.to <= Len(feed)
  /\ UpToFits(catching.upTo, catching.to)

CatchUpFits ==
  /\ cursor \in {None} \cup 0..Len(feed)
  /\ catching.pc \in {"none", "asked", "read", "recovering"}
  /\ catching.pc = "none" => catching = NoCatchUp
  /\ catching.pc # "none" => cursor # None
  /\ catching.pc = "asked" => UpToFits(catching.upTo, cursor)
  /\ catching.pc \in {"read", "recovering"} => PageFits

ListFits ==
  /\ list.pc \in {"none", "head", "page"}
  /\ list.pc \in {"head", "page"} => list.head \in 0..Len(feed)
  /\ list.pc = "page" => \A p \in Projects : list.rows[p] = 0 \/ MayHold(version, p, list.rows[p])

ConnFits ==
  /\ conn = [state |-> conn.state, goal |-> conn.goal, answer |-> conn.answer,
             known |-> conn.known]
  /\ conn.state \in {"connected", "reconnecting", "catching", "asked", "answered"}
  /\ conn.state \in {"asked", "answered"} => DOMAIN conn.answer \subseteq Projects
  /\ conn.state = "asked" => \A p \in DOMAIN conn.answer : MayHold(version, p, conn.answer[p])
  /\ conn.state = "answered" =>
       \A p \in DOMAIN conn.answer : AnswerFits(version, p, conn.answer[p])
  /\ conn.state \in {"asked", "answered"} =>
       /\ DOMAIN conn.known \subseteq Projects
       /\ \A p \in DOMAIN conn.known : MayHold(version, p, conn.known[p])

\* Before the first list page there is nothing to recover, to catch up with or to compare.
Blank ==
  cursor = None => /\ \A p \in Projects : ~Holds(eng, p) /\ eng.recovery[p] = NoRecovery
                   /\ conn.state \notin {"asked", "answered"}

FaultsFit == drops \in 0..MaxDrops /\ failures \in 0..MaxFailures

Inv ==
  /\ ServerFits /\ FeedFits /\ Fits(version, eng) /\ CatchUpFits /\ ListFits /\ ConnFits
  /\ Blank /\ FaultsFit

-----------------------------------------------------------------------------
(* Part 2: sequences of events *)

\* A set that holds a, and with each number below b its successor, holds a..b.
LEMMA Counting ==
  ASSUME NEW a \in Nat, NEW b \in Nat, NEW T, a \in T,
         \A n \in a..(b - 1) : n \in T => n + 1 \in T
  PROVE  \A n \in a..b : n \in T
<1> DEFINE Rest == (a..b) \ T
<1> SUFFICES ASSUME Rest # {} PROVE FALSE
  OBVIOUS
<1>1. IsWellFoundedOn(OpToRel(<, Nat), Nat)
  BY NatLessThanWellFounded
<1>2. Rest \subseteq Nat
  OBVIOUS
<1> HIDE DEF Rest
<1>3. \E x \in Rest : \A y \in Rest : ~ (<<y, x>> \in OpToRel(<, Nat))
  BY <1>1, <1>2, WFMin
<1>4. PICK x \in Rest : \A y \in Rest : ~ (y < x)
  BY <1>2, <1>3 DEF OpToRel
<1>5. x \in a..b /\ x \notin T /\ x # a
  BY DEF Rest
<1>6. x - 1 \in a..(b - 1) /\ x - 1 < x
  BY <1>5
<1>7. x - 1 \in T
  BY <1>4, <1>6 DEF Rest
<1>8. (x - 1) + 1 \in T
  BY <1>6, <1>7
<1> QED
  BY <1>5, <1>8

\* ReplayAll goes through the versions one by one.
LEMMA ReplayAllSteps ==
  ASSUME NEW s, NEW p, NEW S, Len(Shown[p]) \in Nat
  PROVE  \E f : /\ f[0] = s
                /\ \A v \in 1..Len(Shown[p]) :
                     f[v] = IF v \in S THEN Replay(f[v - 1], p, v) ELSE f[v - 1]
                /\ ReplayAll(s, p, S) = f[Len(Shown[p])]
<1> DEFINE N == Len(Shown[p])
           Step(g, v) == IF v \in S THEN Replay(g[v - 1], p, v) ELSE g[v - 1]
           Fits0(g, n) == g = [v \in 0..n |-> IF v = 0 THEN s ELSE Step(g, v)]
           T == {n \in 0..N : \E g : Fits0(g, n)}
<1>1. 0 \in T
  <2>1. Fits0([v \in 0..0 |-> s], 0)
    OBVIOUS
  <2> HIDE DEF Fits0
  <2> QED
    BY <2>1
<1>2. ASSUME NEW n \in 0..(N - 1), n \in T PROVE n + 1 \in T
  <2>1. PICK g : Fits0(g, n)
    BY <1>2
  <2> DEFINE h == [v \in 0..(n + 1) |-> IF v <= n THEN g[v] ELSE Step(g, v)]
  <2>2. \A v \in 0..n : h[v] = g[v] /\ g[v] = IF v = 0 THEN s ELSE Step(g, v)
    BY <2>1
  <2>3. \A v \in 1..(n + 1) : Step(h, v) = Step(g, v)
    BY <2>2
  <2>4. n \in Nat /\ h[n + 1] = Step(g, n + 1)
    OBVIOUS
  <2>5. h = [v \in 0..(n + 1) |-> h[v]]
    OBVIOUS
  <2> HIDE DEF h, Step
  <2>6. \A v \in 0..(n + 1) : h[v] = IF v = 0 THEN s ELSE Step(h, v)
    BY <2>2, <2>3, <2>4
  <2>7. Fits0(h, n + 1)
    BY <2>5, <2>6
  <2> HIDE DEF Fits0
  <2> QED
    BY <2>7
<1>3. N \in T
  <2>1. N \in Nat /\ 0 \in Nat
    OBVIOUS
  <2> HIDE DEF T, N
  <2>2. \A n \in 0..(N - 1) : n \in T => n + 1 \in T
    BY <1>2
  <2>3. \A n \in 0..N : n \in T
    BY <1>1, <2>1, <2>2, Counting
  <2> QED
    BY <2>1, <2>3
<1>4. PICK g : Fits0(g, N)
  BY <1>3
<1> DEFINE f == CHOOSE g1 : Fits0(g1, N)
<1>5. Fits0(f, N)
  BY <1>4
<1>6. ReplayAll(s, p, S) = f[N]
  BY DEF ReplayAll
<1> HIDE DEF f
<1>7. f[0] = s /\ \A v \in 1..N : f[v] = Step(f, v)
  BY <1>5
<1> QED
  BY <1>6, <1>7

-----------------------------------------------------------------------------
(* Part 3: one event, one answer *)

\* A copy 1..v is held, at v.
LEMMA CopyTop ==
  ASSUME NEW s, NEW p, NEW v \in Nat \ {0}, s.copy[p] = 1..v
  PROVE  Holds(s, p) /\ VersionOf(s, p) = v
<1>1. v \in 1..v /\ \A w \in 1..v : w <= v
  OBVIOUS
<1>2. Holds(s, p)
  BY <1>1 DEF Holds
<1> DEFINE top == CHOOSE x \in 1..v : \A w \in 1..v : w <= x
<1>3. top \in 1..v /\ \A w \in 1..v : w <= top
  BY <1>1
<1>4. top = v
  <2> HIDE DEF top
  <2> QED
    BY <1>1, <1>3
<1> QED
  BY <1>2, <1>4 DEF VersionOf

\* A held copy is the changes of a version the browser may hold.
LEMMA HeldFits ==
  ASSUME NEW vs \in [Projects -> Nat], NEW s, Fits(vs, s), NEW p \in Projects, Holds(s, p)
  PROVE  /\ VersionOf(s, p) \in Nat \ {0}
         /\ MayHold(vs, p, VersionOf(s, p))
         /\ s.copy[p] = 1..VersionOf(s, p)
<1>1. PICK v \in 1..vs[p] : MayHold(vs, p, v) /\ s.copy[p] = 1..v
  BY DEF Fits, CopyFits, Holds
<1>2. v \in Nat \ {0}
  OBVIOUS
<1> QED
  BY <1>1, <1>2, CopyTop

\* t follows s: nothing is added, no copy is older, and what is gone has left the view.
Later(vs, s, t) ==
  \A p \in Projects :
    /\ Holds(t, p) => Holds(s, p) /\ VersionOf(s, p) <= VersionOf(t, p)
    /\ Holds(s, p) /\ ~Holds(t, p) => LeftIn(vs, p, VersionOf(s, p))

\* Only p's copy differs.
Only(p, s, t) == \A q \in Projects : q # p => t.copy[q] = s.copy[q]

LEMMA SameCopies ==
  ASSUME NEW vs \in [Projects -> Nat], NEW s, Fits(vs, s), NEW t, t.copy = s.copy
  PROVE  Later(vs, s, t)
<1>1. \A p \in Projects : (Holds(t, p) <=> Holds(s, p)) /\ VersionOf(t, p) = VersionOf(s, p)
  BY DEF Holds, VersionOf
<1>2. \A p \in Projects : Holds(s, p) => VersionOf(s, p) <= VersionOf(s, p)
  BY HeldFits
<1> QED
  BY <1>1, <1>2 DEF Later

LEMMA LaterThanLater ==
  ASSUME NEW vs \in [Projects -> Nat], NEW s, NEW t, NEW u,
         Fits(vs, s), Fits(vs, t), Fits(vs, u), Later(vs, s, t), Later(vs, t, u)
  PROVE  Later(vs, s, u)
<1> SUFFICES ASSUME NEW p \in Projects
             PROVE  /\ Holds(u, p) => Holds(s, p) /\ VersionOf(s, p) <= VersionOf(u, p)
                    /\ Holds(s, p) /\ ~Holds(u, p) => LeftIn(vs, p, VersionOf(s, p))
  BY DEF Later
<1>1. /\ Holds(s, p) => VersionOf(s, p) \in Nat
      /\ Holds(t, p) => VersionOf(t, p) \in Nat
      /\ Holds(u, p) => VersionOf(u, p) \in Nat
  BY HeldFits
<1>2. ASSUME Holds(s, p), Holds(t, p), LeftIn(vs, p, VersionOf(t, p))
      PROVE  LeftIn(vs, p, VersionOf(s, p))
  <2>1. VersionOf(s, p) <= VersionOf(t, p)
    BY <1>2 DEF Later
  <2>2. PICK v \in VersionOf(t, p)..vs[p] : ~InView(p, v)
    BY <1>2 DEF LeftIn
  <2>3. v \in VersionOf(s, p)..vs[p]
    BY <1>1, <1>2, <2>1
  <2> QED
    BY <2>2, <2>3 DEF LeftIn
<1> QED
  BY <1>1, <1>2 DEF Later

\* What is not held is not fabricated.
LEMMA UnseenFits ==
  ASSUME NEW vs \in [Projects -> Nat], NEW s, Fits(vs, s), NEW p, NEW v
  PROVE  LET t == ApplyUnseen(s, p, v) IN
         /\ Fits(vs, t) /\ t.copy = s.copy /\ t.recovery = s.recovery
<1>1. s \in Engines
  BY DEF Fits
<1> DEFINE t == [s EXCEPT !.stale = TRUE]
<1>2. t \in Engines /\ t.copy = s.copy /\ t.parked = s.parked /\ t.recovery = s.recovery
  BY <1>1 DEF Engines
<1>3. Fits(vs, t)
  <2> HIDE DEF t
  <2> QED
    BY <1>2 DEF Fits, CopyFits
<1> QED
  BY <1>2, <1>3 DEF ApplyUnseen

\* The next version joins the copy, or ends it.
LEMMA MergeFits ==
  ASSUME NEW vs \in [Projects -> Nat], NEW s, Fits(vs, s), NEW p \in Projects, Holds(s, p),
         NEW v \in 1..vs[p], Applies(s, p, v)
  PROVE  LET t == Merge(s, p, v) IN
         /\ Fits(vs, t) /\ Later(vs, s, t) /\ Only(p, s, t)
         /\ Holds(t, p) => InView(p, v) /\ VersionOf(t, p) = v
<1> DEFINE k == VersionOf(s, p)
           c == IF InView(p, v) THEN s.copy[p] \cup {v} ELSE {}
           t == Merge(s, p, v)
<1>1. k \in Nat \ {0} /\ MayHold(vs, p, k) /\ s.copy[p] = 1..k /\ v = k + 1
  BY HeldFits DEF Applies
<1>2. s \in Engines /\ First[p] \in Nat /\ v \in Nat
  BY SyncAssumption DEF Fits
<1>3. 1..k \cup {v} = 1..v
  BY <1>1
<1>4. c \in SUBSET Nat
  BY <1>1, <1>2, <1>3
<1>5. /\ t \in Engines /\ t.parked = s.parked /\ t.recovery = s.recovery
      /\ t.copy[p] = c /\ Only(p, s, t)
  <2>1. t = [s EXCEPT !.copy[p] = c]
    BY DEF Merge
  <2> HIDE DEF c, t
  <2> QED
    BY <1>2, <1>4, <2>1 DEF Engines, Only
<1> HIDE DEF t
<1>6. InView(p, v) => MayHold(vs, p, v) /\ c = 1..v
  BY <1>1, <1>2, <1>3 DEF MayHold
<1>7. CopyFits(vs, t, p)
  BY <1>5, <1>6 DEF CopyFits
<1>8. Fits(vs, t)
  <2>1. \A q \in Projects : CopyFits(vs, t, q)
    BY <1>5, <1>7 DEF CopyFits, Only, Fits
  <2> QED
    BY <1>5, <2>1 DEF Fits
<1>9. Holds(t, p) => InView(p, v) /\ VersionOf(t, p) = v
  <2>1. Holds(t, p) => InView(p, v)
    BY <1>5 DEF Holds
  <2>2. InView(p, v) => t.copy[p] = 1..v /\ v \in Nat \ {0}
    BY <1>5, <1>6
  <2> QED
    BY <2>1, <2>2, CopyTop
<1>10. Later(vs, s, t)
  <2>1. ASSUME NEW q \in Projects, q # p
        PROVE  (Holds(t, q) <=> Holds(s, q)) /\ VersionOf(t, q) = VersionOf(s, q)
    BY <1>5, <2>1 DEF Only, Holds, VersionOf
  <2>2. \A q \in Projects : Holds(s, q) => VersionOf(s, q) <= VersionOf(s, q)
    BY HeldFits
  <2>3. Holds(t, p) => Holds(s, p) /\ VersionOf(s, p) <= VersionOf(t, p)
    BY <1>1, <1>9
  <2>4. ~Holds(t, p) => LeftIn(vs, p, k)
    <3>1. ~Holds(t, p) => ~InView(p, v)
      BY <1>2, <1>5, <1>6, CopyTop
    <3>2. v \in k..vs[p]
      BY <1>1
    <3> QED
      BY <3>1, <3>2 DEF LeftIn
  <2> QED
    BY <2>1, <2>2, <2>3, <2>4 DEF Later
<1> QED
  BY <1>5, <1>8, <1>9, <1>10 DEF t

LEMMA ParkFits ==
  ASSUME NEW vs \in [Projects -> Nat], NEW s, Fits(vs, s), NEW p \in Projects,
         NEW v \in 1..vs[p]
  PROVE  LET t == Park(s, p, v) IN Fits(vs, t) /\ t.copy = s.copy /\ t.recovery = s.recovery
<1> DEFINE t == Park(s, p, v)
<1>1. s \in Engines /\ v \in Nat
  BY DEF Fits
<1>2. t \in Engines /\ t.copy = s.copy /\ t.recovery = s.recovery
      /\ t.parked[p] = s.parked[p] \cup {v} /\ \A q \in Projects \ {p} : t.parked[q] = s.parked[q]
  <2>1. t = [s EXCEPT !.parked[p] = s.parked[p] \cup {v}]
    BY DEF Park
  <2>2. s.parked[p] \cup {v} \in SUBSET Nat
    BY <1>1 DEF Engines
  <2> HIDE DEF t
  <2> QED
    BY <1>1, <2>1, <2>2 DEF Engines
<1> HIDE DEF t
<1>3. Fits(vs, t)
  <2>1. \A q \in Projects : t.parked[q] \subseteq 1..vs[q]
    BY <1>2 DEF Fits
  <2> QED
    BY <1>2, <2>1 DEF Fits, CopyFits
<1> QED
  BY <1>2, <1>3 DEF t

\* A gap: the event is parked, and what is held is recovered, once at a time.
LEMMA GapFits ==
  ASSUME NEW vs \in [Projects -> Nat], NEW s, Fits(vs, s), NEW p \in Projects, Holds(s, p),
         NEW v \in 1..vs[p]
  PROVE  LET t == Recover(Park(s, p, v), p) IN Fits(vs, t) /\ t.copy = s.copy
<1> DEFINE u == Park(s, p, v)
           t == Recover(u, p)
           r == [pc |-> "asked", from |-> VersionOf(u, p)]
<1>2. Fits(vs, u) /\ u.copy = s.copy
  BY ParkFits
<1> HIDE DEF u
<1>3. Fits(vs, u) /\ u \in Engines
  BY <1>2 DEF Fits
<1>4. Holds(u, p)
  BY <1>2 DEF Holds
<1>5. RecoveryFits(vs, p, r)
  BY <1>3, <1>4, HeldFits DEF RecoveryFits, Recoveries
<1>6. CASE u.recovery[p] = NoRecovery
  <2>1. t = [u EXCEPT !.recovery[p] = r]
    BY <1>6 DEF Recover
  <2> HIDE DEF t, r
  <2>2. r \in Recoveries
    BY <1>5 DEF RecoveryFits
  <2>3. /\ t \in Engines /\ t.copy = u.copy /\ t.parked = u.parked
        /\ t.recovery[p] = r /\ \A q \in Projects \ {p} : t.recovery[q] = u.recovery[q]
    BY <1>3, <2>1, <2>2 DEF Engines
  <2>4. \A q \in Projects : RecoveryFits(vs, q, t.recovery[q])
    BY <1>3, <1>5, <2>3 DEF Fits
  <2>5. Fits(vs, t)
    BY <1>3, <2>3, <2>4 DEF Fits, CopyFits
  <2> QED
    BY <1>2, <2>3, <2>5 DEF t, u
<1>7. CASE u.recovery[p] # NoRecovery
  <2>1. t = u
    BY <1>7 DEF Recover
  <2> QED
    BY <1>2, <1>3, <2>1 DEF u
<1> QED
  BY <1>6, <1>7

\* What replaying one event does to the copy of its project.
Moves(s, t, p, v) ==
  /\ Only(p, s, t)
  /\ Holds(t, p) => Holds(s, p)
  /\ Holds(t, p) => VersionOf(t, p) = IF Applies(s, p, v) THEN v ELSE VersionOf(s, p)
  /\ Holds(t, p) /\ InView(p, VersionOf(s, p)) => InView(p, VersionOf(t, p))

\* decideEvent keeps what the browser has within what was committed.
LEMMA ReplayFits ==
  ASSUME NEW vs \in [Projects -> Nat], NEW s, Fits(vs, s), NEW p \in Projects,
         NEW v \in 1..vs[p]
  PROVE  LET t == Replay(s, p, v) IN Fits(vs, t) /\ Later(vs, s, t) /\ Moves(s, t, p, v)
<1> DEFINE t == Replay(s, p, v)
<1>0. ASSUME NEW u, u.copy = s.copy, Holds(s, p) => ~Applies(s, p, v)
      PROVE  Moves(s, u, p, v)
  BY <1>0 DEF Moves, Only, Holds, VersionOf
<1>1. CASE ~Holds(s, p)
  <2>1. t = ApplyUnseen(s, p, v)
    BY <1>1 DEF Replay
  <2>2. Fits(vs, t) /\ t.copy = s.copy
    BY <2>1, UnseenFits
  <2> HIDE DEF t
  <2>3. Later(vs, s, t) /\ Moves(s, t, p, v)
    BY <1>0, <1>1, <2>2, SameCopies
  <2> QED
    BY <2>2, <2>3 DEF t
<1>2. CASE Holds(s, p) /\ Applies(s, p, v)
  <2>1. t = Merge(s, p, v)
    BY <1>2 DEF Replay
  <2>2. /\ Fits(vs, t) /\ Later(vs, s, t) /\ Only(p, s, t)
        /\ Holds(t, p) => InView(p, v) /\ VersionOf(t, p) = v
    BY <1>2, <2>1, MergeFits
  <2> HIDE DEF t
  <2>3. Moves(s, t, p, v)
    BY <1>2, <2>2 DEF Moves
  <2> QED
    BY <2>2, <2>3 DEF t
<1>3. CASE Holds(s, p) /\ Gap(s, p, v)
  <2>1. ~Applies(s, p, v)
    BY <1>3 DEF Gap
  <2>2. t = Recover(Park(s, p, v), p)
    BY <1>3, <2>1 DEF Replay
  <2>3. Fits(vs, t) /\ t.copy = s.copy
    BY <1>3, <2>2, GapFits
  <2> HIDE DEF t
  <2>4. Later(vs, s, t) /\ Moves(s, t, p, v)
    BY <1>0, <2>1, <2>3, SameCopies
  <2> QED
    BY <2>3, <2>4 DEF t
<1>4. CASE Holds(s, p) /\ ~Applies(s, p, v) /\ ~Gap(s, p, v)
  <2>1. t = s
    BY <1>4 DEF Replay
  <2>2. Later(vs, s, s) /\ Moves(s, s, p, v)
    BY <1>0, <1>4, SameCopies
  <2> QED
    BY <2>1, <2>2
<1> QED
  BY <1>1, <1>2, <1>3, <1>4

\* A row of the server replaces an older copy, and makes one where there was none.
LEMMA AdoptFits ==
  ASSUME NEW vs \in [Projects -> Nat], NEW s, Fits(vs, s), NEW p \in Projects,
         NEW v, MayHold(vs, p, v)
  PROVE  LET t == Adopt(s, p, v) IN
         /\ Fits(vs, t) /\ Only(p, s, t) /\ Holds(t, p)
         /\ t.recovery = s.recovery /\ t.parked = s.parked
         /\ Holds(s, p) => VersionOf(s, p) <= VersionOf(t, p)
<1> DEFINE t == Adopt(s, p, v)
           u == [s EXCEPT !.copy[p] = 1..v]
<1>1. s \in Engines /\ v \in Nat \ {0} /\ v \in 1..vs[p]
  BY DEF Fits, MayHold
<1>2. Holds(s, p) => VersionOf(s, p) \in Nat
  BY HeldFits
<1>3. CASE Holds(s, p) /\ v <= VersionOf(s, p)
  <2>1. t = s
    BY <1>3 DEF Adopt
  <2> QED
    BY <1>2, <1>3, <2>1 DEF Only
<1>4. CASE ~(Holds(s, p) /\ v <= VersionOf(s, p))
  <2>1. t = u
    BY <1>4 DEF Adopt
  <2>2. /\ u \in Engines /\ u.parked = s.parked /\ u.recovery = s.recovery
        /\ u.copy[p] = 1..v /\ Only(p, s, u)
    <3>1. 1..v \in SUBSET Nat
      OBVIOUS
    <3> QED
      BY <1>1, <3>1 DEF Engines, Only
  <2> HIDE DEF t, u
  <2>3. Holds(u, p) /\ VersionOf(u, p) = v
    BY <1>1, <2>2, CopyTop
  <2>4. \A q \in Projects : CopyFits(vs, u, q)
    BY <1>1, <2>2 DEF CopyFits, Only, Fits
  <2>5. Fits(vs, u)
    BY <2>2, <2>4 DEF Fits
  <2> QED
    BY <1>1, <1>2, <1>4, <2>1, <2>2, <2>3, <2>5 DEF t
<1> QED
  BY <1>3, <1>4

\* Replaying any committed versions in order keeps it as well.
LEMMA ReplayAllFits ==
  ASSUME NEW vs \in [Projects -> Nat], NEW s, Fits(vs, s), NEW p \in Projects,
         NEW S, S \subseteq 1..vs[p]
  PROVE  LET t == ReplayAll(s, p, S) IN Fits(vs, t) /\ Later(vs, s, t)
<1> DEFINE N == Len(Shown[p])
           Good(u) == Fits(vs, u) /\ Later(vs, s, u)
<1>1. N \in Nat
  BY SyncAssumption
<1>2. PICK f : /\ f[0] = s
               /\ \A v \in 1..N : f[v] = IF v \in S THEN Replay(f[v - 1], p, v) ELSE f[v - 1]
               /\ ReplayAll(s, p, S) = f[N]
  BY <1>1, ReplayAllSteps
<1> DEFINE T == {n \in 0..N : Good(f[n])}
<1>3. Good(s)
  BY SameCopies
<1>4. ASSUME NEW n \in 0..(N - 1), Good(f[n]) PROVE Good(f[n + 1])
  <2>1. n + 1 \in 1..N /\ (n + 1) - 1 = n
    BY <1>1
  <2>2. f[n + 1] = IF n + 1 \in S THEN Replay(f[n], p, n + 1) ELSE f[n]
    BY <1>2, <2>1
  <2>3. ASSUME n + 1 \in S PROVE Good(Replay(f[n], p, n + 1))
    <3>1. n + 1 \in 1..vs[p]
      BY <2>3
    <3>2. Fits(vs, Replay(f[n], p, n + 1)) /\ Later(vs, f[n], Replay(f[n], p, n + 1))
      BY <1>4, <3>1, ReplayFits
    <3> QED
      BY <1>4, <3>2, LaterThanLater
  <2> HIDE DEF Good
  <2> QED
    BY <1>4, <2>2, <2>3
<1>5. 0 \in T /\ \A n \in 0..(N - 1) : n \in T => n + 1 \in T
  <2> HIDE DEF Good
  <2> QED
    BY <1>1, <1>2, <1>3, <1>4
<1>6. N \in T
  <2>1. 0 \in Nat
    OBVIOUS
  <2> HIDE DEF T, N
  <2>2. \A n \in 0..N : n \in T
    BY <1>1, <1>5, <2>1, Counting
  <2> QED
    BY <1>1, <2>2
<1>7. Good(f[N])
  <2> HIDE DEF Good
  <2> QED
    BY <1>6
<1> QED
  BY <1>2, <1>7

\* t comes after s as far as p goes: not older, and gone only if p has left the view after the
\* version s held or one of K.
Onward(vs, s, t, p, K) ==
  /\ Holds(s, p) /\ Holds(t, p) => VersionOf(s, p) <= VersionOf(t, p)
  /\ Holds(s, p) /\ ~Holds(t, p) => \E k \in {VersionOf(s, p)} \cup K : LeftIn(vs, p, k)

LEMMA OnwardLater ==
  ASSUME NEW vs \in [Projects -> Nat], NEW s, NEW t, NEW u, NEW p \in Projects, NEW K,
         Fits(vs, s), Fits(vs, t), Fits(vs, u), Onward(vs, s, t, p, K), Later(vs, t, u)
  PROVE  Onward(vs, s, u, p, K)
<1>1. /\ Holds(s, p) => VersionOf(s, p) \in Nat
      /\ Holds(t, p) => VersionOf(t, p) \in Nat
      /\ Holds(u, p) => VersionOf(u, p) \in Nat
  BY HeldFits
<1>2. /\ Holds(u, p) => Holds(t, p) /\ VersionOf(t, p) <= VersionOf(u, p)
      /\ Holds(t, p) /\ ~Holds(u, p) => LeftIn(vs, p, VersionOf(t, p))
  BY DEF Later
<1>3. ASSUME Holds(s, p), Holds(t, p), LeftIn(vs, p, VersionOf(t, p))
      PROVE  LeftIn(vs, p, VersionOf(s, p))
  <2>1. VersionOf(s, p) <= VersionOf(t, p)
    BY <1>3 DEF Onward
  <2>2. PICK v \in VersionOf(t, p)..vs[p] : ~InView(p, v)
    BY <1>3 DEF LeftIn
  <2>3. v \in VersionOf(s, p)..vs[p]
    BY <1>1, <1>3, <2>1
  <2> QED
    BY <2>2, <2>3 DEF LeftIn
<1> QED
  BY <1>1, <1>2, <1>3 DEF Onward

\* An answer of the server is taken over.
LEMMA ApplyAnswerFits ==
  ASSUME NEW vs \in [Projects -> Nat], NEW s, Fits(vs, s), NEW p \in Projects,
         NEW a, AnswerFits(vs, p, a), a.how # "checked"
  PROVE  LET t == ApplyAnswer(s, p, a) IN
         /\ Fits(vs, t) /\ Onward(vs, s, t, p, {a.from})
         /\ \A q \in Projects \ {p} : Onward(vs, s, t, q, {})
<1> DEFINE t == ApplyAnswer(s, p, a)
           All(u) == /\ Fits(vs, u) /\ Onward(vs, s, u, p, {a.from})
                     /\ \A q \in Projects \ {p} : Onward(vs, s, u, q, {})
<1>0. /\ \A q \in Projects : Holds(s, q) => VersionOf(s, q) \in Nat
      /\ a.from \in Nat /\ a.to \in Nat /\ a.how \in {"events", "snapshot", "gone", "same"}
  BY HeldFits DEF AnswerFits, Answer
<1>1. ASSUME NEW u, Only(p, s, u), NEW q \in Projects \ {p} PROVE Onward(vs, s, u, q, {})
  <2>1. (Holds(u, q) <=> Holds(s, q)) /\ VersionOf(u, q) = VersionOf(s, q)
    BY <1>1 DEF Only, Holds, VersionOf
  <2> QED
    BY <1>0, <2>1 DEF Onward
<1>2. ASSUME NEW u, Later(vs, s, u), NEW q \in Projects, NEW K PROVE Onward(vs, s, u, q, K)
  BY <1>2 DEF Later, Onward
<1>3. CASE a.how = "snapshot"
  <2>1. t = Adopt(s, p, a.to) /\ MayHold(vs, p, a.to)
    BY <1>3 DEF ApplyAnswer, AnswerFits
  <2> HIDE DEF t
  <2>2. Fits(vs, t) /\ Only(p, s, t) /\ Holds(t, p)
        /\ (Holds(s, p) => VersionOf(s, p) <= VersionOf(t, p))
    BY <2>1, AdoptFits
  <2>3. Onward(vs, s, t, p, {a.from})
    BY <2>2 DEF Onward
  <2> QED
    BY <1>1, <2>2, <2>3 DEF t
<1>4. CASE a.how = "events"
  <2> DEFINE S == {v \in (a.from + 1)..a.to : Sent(p, v)}
  <2>1. t = ReplayAll(s, p, S)
    BY <1>4 DEF ApplyAnswer
  <2>2. S \subseteq 1..vs[p]
    BY <1>0 DEF AnswerFits
  <2> HIDE DEF t, S
  <2>3. Fits(vs, t) /\ Later(vs, s, t)
    BY <2>1, <2>2, ReplayAllFits
  <2> QED
    BY <1>2, <2>3 DEF t
<1>5. CASE a.how = "gone"
  <2>1. t = [s EXCEPT !.copy[p] = {}]
    BY <1>5 DEF ApplyAnswer
  <2>2. s \in Engines
    BY DEF Fits
  <2> HIDE DEF t
  <2>3. /\ t \in Engines /\ t.parked = s.parked /\ t.recovery = s.recovery
        /\ t.copy[p] = {} /\ Only(p, s, t)
    BY <2>1, <2>2 DEF Engines, Only
  <2>4. \A q \in Projects : CopyFits(vs, t, q)
    BY <2>3 DEF CopyFits, Only, Fits
  <2>5. Fits(vs, t)
    BY <2>3, <2>4 DEF Fits
  <2>6. Onward(vs, s, t, p, {a.from})
    BY <1>5, <2>3 DEF Onward, AnswerFits, Holds
  <2> QED
    BY <1>1, <2>3, <2>5, <2>6 DEF t
<1>6. CASE a.how = "same"
  <2>1. t = s
    BY <1>6 DEF ApplyAnswer
  <2>2. Later(vs, s, s)
    BY SameCopies
  <2> QED
    BY <1>2, <2>1, <2>2
<1> QED
  BY <1>0, <1>3, <1>4, <1>5, <1>6

\* A recovery that arrives: its answer, then what was parked.
LEMMA ReplayParkedFits ==
  ASSUME NEW vs \in [Projects -> Nat], NEW s, Fits(vs, s), NEW p \in Projects,
         NEW a, AnswerFits(vs, p, a), a.how # "checked"
  PROVE  LET u == ReplayParked(ApplyAnswer(s, p, a), p) IN
         /\ Fits(vs, u) /\ Onward(vs, s, u, p, {a.from})
         /\ \A q \in Projects \ {p} : Onward(vs, s, u, q, {})
<1> DEFINE t == ApplyAnswer(s, p, a)
           r == [t EXCEPT !.recovery[p] = NoRecovery, !.parked[p] = {}]
           u == ReplayParked(t, p)
<1>1. /\ Fits(vs, t) /\ Onward(vs, s, t, p, {a.from})
      /\ \A q \in Projects \ {p} : Onward(vs, s, t, q, {})
  BY ApplyAnswerFits
<1>2. u = ReplayAll(r, p, t.parked[p])
  BY DEF ReplayParked
<1> HIDE DEF t
<1>3. /\ r \in Engines /\ r.copy = t.copy
      /\ r.recovery[p] = NoRecovery /\ \A q \in Projects \ {p} : r.recovery[q] = t.recovery[q]
      /\ r.parked[p] = {} /\ \A q \in Projects \ {p} : r.parked[q] = t.parked[q]
  BY <1>1 DEF Fits, Engines, Recoveries
<1> HIDE DEF r
<1>4. RecoveryFits(vs, p, NoRecovery)
  BY DEF RecoveryFits, Recoveries, NoRecovery
<1>5. Fits(vs, r)
  BY <1>1, <1>3, <1>4 DEF Fits, CopyFits
<1>6. t.parked[p] \subseteq 1..vs[p]
  BY <1>1 DEF Fits
<1> HIDE DEF u
<1>7. Fits(vs, u) /\ Later(vs, r, u)
  BY <1>2, <1>5, <1>6, ReplayAllFits
<1>8. Later(vs, t, u)
  BY <1>1, <1>3, <1>5, <1>7, SameCopies, LaterThanLater
<1>9. Onward(vs, s, u, p, {a.from}) /\ \A q \in Projects \ {p} : Onward(vs, s, u, q, {})
  BY <1>1, <1>7, <1>8, OnwardLater
<1> QED
  BY <1>7, <1>9 DEF u, t

\* A resync's answers are about different projects.
LEMMA ApplyAnswersFits ==
  ASSUME NEW vs \in [Projects -> Nat], NEW s, Fits(vs, s), NEW answer,
         \A p \in DOMAIN answer : AnswerFits(vs, p, answer[p]) /\ answer[p].how # "checked"
  PROVE  LET t == ApplyAnswers(s, answer) IN
         /\ Fits(vs, t)
         /\ \A p \in Projects :
              Onward(vs, s, t, p, IF p \in DOMAIN answer THEN {answer[p].from} ELSE {})
<1> DEFINE after == [p \in Projects |-> IF p \in DOMAIN answer THEN ApplyAnswer(s, p, answer[p])
                                                               ELSE s]
           t == ApplyAnswers(s, answer)
           K(p) == IF p \in DOMAIN answer THEN {answer[p].from} ELSE {}
<1>1. ASSUME NEW p \in Projects
      PROVE  Fits(vs, after[p]) /\ Onward(vs, s, after[p], p, K(p))
  <2>1. CASE p \in DOMAIN answer
    BY <2>1, ApplyAnswerFits
  <2>2. CASE p \notin DOMAIN answer
    <3>1. Onward(vs, s, s, p, {})
      BY HeldFits DEF Onward
    <3> QED
      BY <2>2, <3>1
  <2> QED
    BY <2>1, <2>2
<1>2. t = [copy     |-> [p \in Projects |-> after[p].copy[p]],
           parked   |-> [p \in Projects |-> after[p].parked[p]],
           recovery |-> [p \in Projects |-> after[p].recovery[p]],
           stale    |-> s.stale \/ \E p \in Projects : after[p].stale]
  BY DEF ApplyAnswers
<1> HIDE DEF after, t
<1>3. /\ \A p \in Projects : /\ t.copy[p] = after[p].copy[p]
                              /\ t.parked[p] = after[p].parked[p]
                              /\ t.recovery[p] = after[p].recovery[p]
      /\ \A p \in Projects : after[p] \in Engines
  BY <1>1, <1>2 DEF Fits
<1>4. t \in Engines
  <2>1. \A p \in Projects : /\ after[p].copy[p] \in SUBSET Nat
                            /\ after[p].parked[p] \in SUBSET Nat
                            /\ after[p].recovery[p] \in Recoveries
    BY <1>3 DEF Engines
  <2>2. (s.stale \/ \E p \in Projects : after[p].stale) \in BOOLEAN
    OBVIOUS
  <2> QED
    BY <1>2, <2>1, <2>2 DEF Engines
<1>5. Fits(vs, t)
  <2>1. ASSUME NEW p \in Projects
        PROVE  /\ CopyFits(vs, t, p) /\ t.parked[p] \subseteq 1..vs[p]
               /\ RecoveryFits(vs, p, t.recovery[p])
    <3>1. Fits(vs, after[p])
      BY <1>1
    <3> QED
      BY <1>3, <3>1 DEF Fits, CopyFits
  <2> QED
    BY <1>4, <2>1 DEF Fits
<1>6. ASSUME NEW p \in Projects PROVE Onward(vs, s, t, p, K(p))
  <2>1. (Holds(t, p) <=> Holds(after[p], p)) /\ VersionOf(t, p) = VersionOf(after[p], p)
    BY <1>3 DEF Holds, VersionOf
  <2> QED
    BY <1>1, <2>1 DEF Onward
<1> QED
  BY <1>5, <1>6 DEF t

\* A list page seeds its rows.
LEMMA RowsFit ==
  ASSUME NEW vs \in [Projects -> Nat], NEW s, Fits(vs, s), NEW rows,
         \A p \in Projects : rows[p] = 0 \/ MayHold(vs, p, rows[p])
  PROVE  LET t == RowsOf(s, rows) IN
         Fits(vs, t) /\ \A p \in Projects : Onward(vs, s, t, p, {})
<1> DEFINE c == [p \in Projects |-> IF rows[p] = 0 THEN s.copy[p]
                                   ELSE Adopt(s, p, rows[p]).copy[p]]
           t == RowsOf(s, rows)
<1>1. s \in Engines
  BY DEF Fits
<1>2. ASSUME NEW p \in Projects, rows[p] # 0
      PROVE  LET u == Adopt(s, p, rows[p]) IN
             Fits(vs, u) /\ Holds(u, p) /\ (Holds(s, p) => VersionOf(s, p) <= VersionOf(u, p))
  BY <1>2, AdoptFits
<1>3. \A p \in Projects : c[p] \in SUBSET Nat
  BY <1>1, <1>2 DEF Fits, Engines
<1>4. t = [s EXCEPT !.copy = c]
  BY DEF RowsOf
<1>5. t \in Engines /\ t.copy = c /\ t.parked = s.parked /\ t.recovery = s.recovery
  <2>1. c \in [Projects -> SUBSET Nat]
    BY <1>3
  <2> HIDE DEF c, t
  <2> QED
    BY <1>1, <1>4, <2>1 DEF Engines
<1> HIDE DEF t
<1>6. ASSUME NEW p \in Projects PROVE CopyFits(vs, t, p) /\ Onward(vs, s, t, p, {})
  <2>1. CASE rows[p] = 0
    <3>1. t.copy[p] = s.copy[p]
      BY <1>5, <2>1
    <3>2. (Holds(t, p) <=> Holds(s, p)) /\ VersionOf(t, p) = VersionOf(s, p)
      BY <3>1 DEF Holds, VersionOf
    <3>3. Holds(s, p) => VersionOf(s, p) \in Nat
      BY HeldFits
    <3> QED
      BY <3>1, <3>2, <3>3 DEF Onward, Fits, CopyFits
  <2>2. CASE rows[p] # 0
    <3> DEFINE u == Adopt(s, p, rows[p])
    <3>1. t.copy[p] = u.copy[p]
      BY <1>5, <2>2
    <3>2. Fits(vs, u) /\ Holds(u, p) /\ (Holds(s, p) => VersionOf(s, p) <= VersionOf(u, p))
      BY <1>2, <2>2
    <3> HIDE DEF u
    <3>3. (Holds(t, p) <=> Holds(u, p)) /\ VersionOf(t, p) = VersionOf(u, p)
      BY <3>1 DEF Holds, VersionOf
    <3> QED
      BY <3>1, <3>2, <3>3 DEF Onward, Fits, CopyFits
  <2> QED
    BY <2>1, <2>2
<1>7. Fits(vs, t)
  BY <1>5, <1>6 DEF Fits
<1> QED
  BY <1>6, <1>7 DEF t

-----------------------------------------------------------------------------
(* Part 4: a page of the feed *)

\* Walk goes through the events one by one.
LEMMA WalkSteps ==
  ASSUME NEW at \in Nat \ {0}, NEW to \in Nat, at <= to + 1
  PROVE  \E f : /\ f[at - 1] = [eng |-> eng, seen |-> seen, stop |-> 0]
                /\ \A n \in at..to : f[n] = FromFeed(f[n - 1], n)
                /\ Walk(at, to) = f[to]
<1> DEFINE s == [eng |-> eng, seen |-> seen, stop |-> 0]
           a == at - 1
           Step(g, v) == FromFeed(g[v - 1], v)
           Walks(g, n) == g = [v \in a..n |-> IF v < at THEN s ELSE Step(g, v)]
           T == {n \in a..to : \E g : Walks(g, n)}
<1>1. a \in T
  <2>1. Walks([v \in a..a |-> s], a)
    OBVIOUS
  <2> HIDE DEF Walks
  <2> QED
    BY <2>1
<1>2. ASSUME NEW n \in a..(to - 1), n \in T PROVE n + 1 \in T
  <2>1. PICK g : Walks(g, n)
    BY <1>2
  <2> DEFINE h == [v \in a..(n + 1) |-> IF v <= n THEN g[v] ELSE Step(g, v)]
  <2>2. \A v \in a..n : h[v] = g[v] /\ g[v] = IF v < at THEN s ELSE Step(g, v)
    BY <2>1
  <2>3. \A v \in at..(n + 1) : Step(h, v) = Step(g, v)
    BY <2>2
  <2>4. n \in Nat /\ h[n + 1] = Step(g, n + 1) /\ ~(n + 1 < at)
    OBVIOUS
  <2>5. h = [v \in a..(n + 1) |-> h[v]]
    OBVIOUS
  <2> HIDE DEF h, Step
  <2>6. \A v \in a..(n + 1) : h[v] = IF v < at THEN s ELSE Step(h, v)
    BY <2>2, <2>3, <2>4
  <2>7. Walks(h, n + 1)
    BY <2>5, <2>6
  <2> HIDE DEF Walks
  <2> QED
    BY <2>7
<1>3. to \in T
  <2>1. a \in Nat /\ to \in a..to
    OBVIOUS
  <2> HIDE DEF T, a
  <2>2. \A n \in a..(to - 1) : n \in T => n + 1 \in T
    BY <1>2
  <2>3. \A n \in a..to : n \in T
    BY <1>1, <2>1, <2>2, Counting
  <2> QED
    BY <2>1, <2>3
<1>4. PICK g : Walks(g, to)
  BY <1>3
<1> DEFINE f == CHOOSE g1 : Walks(g1, to)
<1>5. Walks(f, to)
  BY <1>4
<1>6. Walk(at, to) = f[to]
  BY DEF Walk
<1> HIDE DEF f
<1>7. f[a] = s /\ \A n \in at..to : f[n] = Step(f, n)
  BY <1>5
<1> QED
  BY <1>6, <1>7

\* The copy of p has every event of p among the first n of the feed.
Covers(s, p, n) == \A m \in 1..n : feed[m][1] = p => feed[m][2] <= VersionOf(s, p)

LEMMA FeedType ==
  ASSUME FeedFits, ServerFits, NEW n \in 1..Len(feed)
  PROVE  feed[n][1] \in Projects /\ feed[n][2] \in 1..version[feed[n][1]]
<1>1. feed[n] \in Projects \X Nat
  BY DEF FeedFits
<1>2. First[feed[n][1]] \in Nat
  BY <1>1, SyncAssumption
<1> QED
  BY <1>1, <1>2 DEF FeedFits, ServerFits

\* Events come in version order, so what is covered meets no gap, and no event that is not sent
\* brings a copy at a version in view anything.
LEMMA NextCovered ==
  ASSUME FeedFits, ServerFits, NEW s, Fits(version, s), NEW n \in 1..Len(feed), NEW p, NEW v,
         p = feed[n][1], v = feed[n][2], Holds(s, p), InView(p, VersionOf(s, p)),
         Covers(s, p, n - 1)
  PROVE  /\ v <= VersionOf(s, p) + 1
         /\ ~Sent(p, v) => v <= VersionOf(s, p)
<1> DEFINE k == VersionOf(s, p)
<1>1. p \in Projects /\ v \in Nat \ {0} /\ version \in [Projects -> Nat]
  BY FeedType DEF ServerFits
<1>2. k \in Nat \ {0} /\ MayHold(version, p, k) /\ First[p] \in Nat /\ InView(p, k)
  BY <1>1, HeldFits, SyncAssumption
<1> HIDE DEF k
<1>3. ASSUME v > k + 1 PROVE FALSE
  <2>1. First[p] < v - 1
    BY <1>1, <1>2, <1>3 DEF MayHold
  <2>2. PICK m \in 1..(n - 1) : feed[m] = <<p, v - 1>>
    BY <2>1 DEF FeedFits
  <2>3. v - 1 <= k
    BY <2>2 DEF Covers, k
  <2> QED
    BY <1>1, <1>2, <1>3, <2>3
<1>4. v = k + 1 => Sent(p, v)
  BY <1>1, <1>2 DEF Sent
<1> QED
  BY <1>1, <1>2, <1>3, <1>4 DEF k

\* q is held, at a version in view.
Holding(q) == Holds(eng, q) /\ InView(q, VersionOf(eng, q))

\* One event of a page: w is what the walk has come to after the first n events of the feed.
WalkedTo(w, at, n) ==
  /\ Fits(version, w.eng) /\ Later(version, eng, w.eng)
  /\ w.stop = 0 \/ w.stop \in at..n
  /\ \A q \in Projects :
       Holding(q) /\ Covers(eng, q, at - 1) /\ Holds(w.eng, q) =>
         /\ InView(q, VersionOf(w.eng, q))
         /\ Covers(w.eng, q, IF w.stop = 0 THEN n ELSE w.stop)

LEMMA WalkStep ==
  ASSUME FeedFits, ServerFits, Fits(version, eng), NEW at \in Nat \ {0},
         NEW n \in at..Len(feed), NEW w, WalkedTo(w, at, n - 1)
  PROVE  WalkedTo(FromFeed(w, n), at, n)
<1> DEFINE p == feed[n][1]
           v == feed[n][2]
           x == FromFeed(w, n)
<1>1. /\ n \in 1..Len(feed) /\ p \in Projects /\ v \in 1..version[p]
      /\ version \in [Projects -> Nat] /\ Len(feed) \in Nat
  <2>1. Len(feed) \in Nat /\ version \in [Projects -> Nat]
    BY DEF ServerFits, FeedFits
  <2>2. n \in 1..Len(feed)
    BY <2>1
  <2> QED
    BY <2>1, <2>2, FeedType
<1>2. CASE w.stop # 0
  <2>1. x = w
    BY <1>2 DEF FromFeed
  <2>2. WalkedTo(w, at, n)
    BY <1>2 DEF WalkedTo
  <2> QED
    BY <2>1, <2>2
<1>3. CASE w.stop = 0
  <2> DEFINE Held(q) == Holding(q) /\ Covers(eng, q, at - 1)
  <2>1. \A q \in Projects :
          Held(q) /\ Holds(w.eng, q) =>
            InView(q, VersionOf(w.eng, q)) /\ Covers(w.eng, q, n - 1)
    BY <1>3 DEF WalkedTo
  <2>2. Fits(version, w.eng) /\ Later(version, eng, w.eng)
    BY DEF WalkedTo
  \* It is enough to follow p's copy.
  <2>3. ASSUME NEW u, Fits(version, u), Later(version, w.eng, u), Only(p, w.eng, u),
               Holds(u, p) /\ InView(p, VersionOf(w.eng, p)) /\ Covers(w.eng, p, n - 1) =>
                 /\ v <= VersionOf(u, p) /\ VersionOf(w.eng, p) <= VersionOf(u, p)
                 /\ InView(p, VersionOf(u, p)),
               x.eng = u, x.stop = 0 \/ x.stop = n
        PROVE  WalkedTo(x, at, n)
    <3>1. Later(version, eng, u)
      BY <1>1, <2>2, <2>3, LaterThanLater
    <3>2. (IF x.stop = 0 THEN n ELSE x.stop) = n
      BY <2>3
    <3>3. ASSUME NEW q \in Projects, Held(q), Holds(u, q)
          PROVE  InView(q, VersionOf(u, q)) /\ Covers(u, q, n)
      <4>1. Holds(w.eng, q) /\ InView(q, VersionOf(w.eng, q)) /\ Covers(w.eng, q, n - 1)
        BY <2>1, <2>3, <3>3 DEF Later
      <4>2. CASE q # p
        <5>1. VersionOf(u, q) = VersionOf(w.eng, q)
          BY <2>3, <4>2 DEF Only, VersionOf
        <5> QED
          BY <4>1, <4>2, <5>1 DEF Covers
      <4>3. CASE q = p
        <5>1. /\ v <= VersionOf(u, p) /\ VersionOf(w.eng, p) <= VersionOf(u, p)
              /\ InView(p, VersionOf(u, p))
          BY <2>3, <3>3, <4>1, <4>3
        <5>2. VersionOf(u, p) \in Nat /\ VersionOf(w.eng, p) \in Nat
          BY <1>1, <2>2, <2>3, <3>3, <4>1, <4>3, HeldFits
        <5>3. ASSUME NEW m \in 1..n, feed[m][1] = p PROVE feed[m][2] <= VersionOf(u, p)
          <6>1. CASE m = n
            BY <5>1, <6>1
          <6>2. CASE m \in 1..(n - 1)
            <7>1. feed[m][2] <= VersionOf(w.eng, p)
              BY <4>1, <4>3, <5>3, <6>2 DEF Covers
            <7>2. m \in 1..Len(feed)
              BY <1>1
            <7>3. feed[m][2] \in Nat
              BY <1>1, <5>3, <7>2, FeedType
            <7> QED
              BY <5>1, <5>2, <7>1, <7>3
          <6> QED
            BY <1>1, <6>1, <6>2
        <5> QED
          BY <4>3, <5>1, <5>3 DEF Covers
      <4> QED
        BY <4>2, <4>3
    <3> QED
      BY <2>3, <3>1, <3>2, <3>3 DEF WalkedTo
  <2>4. Later(version, w.eng, w.eng)
    BY <1>1, <2>2, SameCopies
  <2>5. Holds(w.eng, p) => VersionOf(w.eng, p) \in Nat
    BY <1>1, <2>2, HeldFits
  <2>6. CASE ~Sent(p, v)
    <3>1. x = w
      BY <2>6 DEF FromFeed
    <3>2. Holds(w.eng, p) /\ InView(p, VersionOf(w.eng, p)) /\ Covers(w.eng, p, n - 1)
            => v <= VersionOf(w.eng, p)
      BY <1>1, <2>2, <2>6, NextCovered
    <3>3. Only(p, w.eng, w.eng)
      BY DEF Only
    <3> QED
      BY <1>3, <2>2, <2>3, <2>4, <2>5, <3>1, <3>2, <3>3
  <2>7. CASE Sent(p, v) /\ ~Holds(w.eng, p)
    <3> DEFINE u == IF feed[n] \in w.seen THEN w.eng ELSE ApplyUnseen(w.eng, p, v)
    <3>1. x = [eng |-> u, seen |-> w.seen \cup {feed[n]}, stop |-> 0]
      BY <1>3, <2>7 DEF FromFeed
    <3>2. Fits(version, u) /\ u.copy = w.eng.copy
      BY <1>1, <2>2, UnseenFits
    <3>3. x.eng = u /\ x.stop = 0
      BY <3>1
    <3> HIDE DEF u, x
    <3>4. Later(version, w.eng, u) /\ Only(p, w.eng, u) /\ ~Holds(u, p)
      BY <1>1, <2>2, <2>7, <3>2, SameCopies DEF Only, Holds
    <3> QED
      BY <2>3, <3>2, <3>3, <3>4 DEF x
  <2>8. CASE Sent(p, v) /\ Holds(w.eng, p)
    <3> DEFINE u == Replay(w.eng, p, v)
    <3>1. x.eng = u /\ (x.stop = 0 \/ x.stop = n)
      BY <1>3, <2>8 DEF FromFeed
    <3>2. Fits(version, u) /\ Later(version, w.eng, u) /\ Moves(w.eng, u, p, v)
      BY <1>1, <2>2, ReplayFits
    <3> HIDE DEF u, x
    <3>3. InView(p, VersionOf(w.eng, p)) /\ Covers(w.eng, p, n - 1)
            => v <= VersionOf(w.eng, p) + 1
      BY <1>1, <2>2, <2>8, NextCovered
    <3>4. Holds(u, p) /\ InView(p, VersionOf(w.eng, p)) /\ Covers(w.eng, p, n - 1) =>
            /\ v <= VersionOf(u, p) /\ VersionOf(w.eng, p) <= VersionOf(u, p)
            /\ InView(p, VersionOf(u, p))
      BY <1>1, <2>5, <2>8, <3>2, <3>3 DEF Moves, Applies
    <3> QED
      BY <2>3, <3>1, <3>2, <3>4 DEF x, Moves
  <2> QED
    BY <2>6, <2>7, <2>8
<1> QED
  BY <1>2, <1>3 DEF WalkedTo

\* A whole page.
LEMMA WalkFits ==
  ASSUME FeedFits, ServerFits, Fits(version, eng), NEW at \in Nat \ {0}, NEW to \in Nat,
         at <= to + 1, to <= Len(feed)
  PROVE  WalkedTo(Walk(at, to), at, to)
<1>1. PICK f : /\ f[at - 1] = [eng |-> eng, seen |-> seen, stop |-> 0]
               /\ \A n \in at..to : f[n] = FromFeed(f[n - 1], n)
               /\ Walk(at, to) = f[to]
  BY WalkSteps
<1> DEFINE a == at - 1
           T == {n \in a..to : WalkedTo(f[n], at, n)}
<1>2. a \in T
  <2>1. f[a].eng = eng /\ f[a].stop = 0 /\ a \in a..to
    BY <1>1
  <2>2. Later(version, eng, eng)
    BY SameCopies DEF ServerFits
  <2>3. WalkedTo(f[a], at, a)
    BY <2>1, <2>2 DEF WalkedTo, Holding
  <2> QED
    BY <2>1, <2>3
<1>3. ASSUME NEW n \in a..(to - 1), n \in T PROVE n + 1 \in T
  <2>1. n + 1 \in at..to /\ (n + 1) - 1 = n /\ n + 1 \in a..to
    OBVIOUS
  <2>2. n + 1 \in at..Len(feed)
    BY <2>1 DEF FeedFits
  <2>3. f[n + 1] = FromFeed(f[n], n + 1)
    BY <1>1, <2>1
  <2>4. WalkedTo(f[n], at, (n + 1) - 1)
    BY <1>3, <2>1
  <2>5. WalkedTo(f[n + 1], at, n + 1)
    BY <2>2, <2>3, <2>4, WalkStep, <2>1
  <2> QED
    BY <2>1, <2>5
<1>4. to \in T
  <2>1. a \in Nat /\ to \in a..to
    OBVIOUS
  <2> HIDE DEF T, a
  <2>2. \A n \in a..(to - 1) : n \in T => n + 1 \in T
    BY <1>3
  <2>3. \A n \in a..to : n \in T
    BY <1>2, <2>1, <2>2, Counting
  <2> QED
    BY <2>1, <2>3
<1> QED
  BY <1>1, <1>4

-----------------------------------------------------------------------------
(* Part 5: the steps *)

\* More is committed: what fitted still fits.
LEMMA MoreCommitted ==
  ASSUME NEW vs \in [Projects -> Nat], NEW ws \in [Projects -> Nat],
         \A p \in Projects : vs[p] <= ws[p]
  PROVE  /\ \A p \in Projects : \A v : MayHold(vs, p, v) => MayHold(ws, p, v)
         /\ \A p \in Projects : \A a : AnswerFits(vs, p, a) => AnswerFits(ws, p, a)
         /\ \A s : Fits(vs, s) => Fits(ws, s)
<1>1. ASSUME NEW p \in Projects, NEW v, MayHold(vs, p, v) PROVE MayHold(ws, p, v)
  BY <1>1 DEF MayHold
<1>2. ASSUME NEW p \in Projects, NEW k \in Nat, LeftIn(vs, p, k) PROVE LeftIn(ws, p, k)
  <2>1. PICK v \in k..vs[p] : ~InView(p, v)
    BY <1>2 DEF LeftIn
  <2>2. v \in k..ws[p]
    OBVIOUS
  <2> QED
    BY <2>1, <2>2 DEF LeftIn
<1>3. ASSUME NEW p \in Projects, NEW a, AnswerFits(vs, p, a) PROVE AnswerFits(ws, p, a)
  <2>1. a.from \in Nat /\ a.to \in Nat
    BY <1>3 DEF AnswerFits, Answer
  <2> QED
    BY <1>1, <1>2, <1>3, <2>1 DEF AnswerFits
<1>4. ASSUME NEW s, Fits(vs, s) PROVE Fits(ws, s)
  <2>1. ASSUME NEW p \in Projects
        PROVE  /\ CopyFits(ws, s, p) /\ s.parked[p] \subseteq 1..ws[p]
               /\ RecoveryFits(ws, p, s.recovery[p])
    <3>1. CopyFits(ws, s, p)
      BY <1>1, <1>4 DEF Fits, CopyFits, MayHold
    <3>2. 1..vs[p] \subseteq 1..ws[p]
      OBVIOUS
    <3>3. s.parked[p] \subseteq 1..ws[p]
      BY <1>4, <3>2 DEF Fits
    <3>4. RecoveryFits(ws, p, s.recovery[p])
      BY <1>1, <1>3, <1>4 DEF Fits, RecoveryFits
    <3> QED
      BY <3>1, <3>3, <3>4
  <2> QED
    BY <1>4, <2>1 DEF Fits
<1> QED
  BY <1>1, <1>3, <1>4

\* What a step does to the copies.
Forward ==
  \A p \in Projects : Onward(version, eng, eng', p, HeldVersions(p))

NoneLeftBehind ==
  \A p \in Projects : Holding(p) /\ ~Behind(p) /\ Holds(eng', p) => ~Behind(p)'

LEMMA EngineTypes ==
  ASSUME Inv
  PROVE  /\ version \in [Projects -> Nat] /\ eng \in Engines /\ Len(feed) \in Nat
         /\ \A p \in Projects : Holds(eng, p) => VersionOf(eng, p) \in Nat
<1>1. version \in [Projects -> Nat] /\ Fits(version, eng) /\ Len(feed) \in Nat
  BY DEF Inv, ServerFits, FeedFits
<1> QED
  BY <1>1, HeldFits DEF Fits

LEMMA CopiesStay ==
  ASSUME Inv, eng'.copy = eng.copy
  PROVE  Forward
<1>1. \A p \in Projects : /\ Holds(eng', p) <=> Holds(eng, p)
                          /\ VersionOf(eng', p) = VersionOf(eng, p)
  BY DEF Holds, VersionOf
<1> QED
  BY <1>1, EngineTypes DEF Forward, Onward

\* Walked is a place in the feed.
LEMMA WalkedType ==
  ASSUME Inv
  PROVE  Walked \in Int /\ Walked <= Len(feed)
<1>1. Len(feed) \in Nat
  BY EngineTypes
<1>2. CASE catching.pc \in {"read", "recovering"}
  <2>1. Walked = catching.at - 1 /\ PageFits
    BY <1>2 DEF Walked, Inv, CatchUpFits
  <2> QED
    BY <1>1, <2>1 DEF PageFits
<1>3. CASE catching.pc \notin {"read", "recovering"}
  BY <1>1, <1>3 DEF Walked, Inv, CatchUpFits, None
<1> QED
  BY <1>2, <1>3

\* As long as the catch-up does not move on, no copy can fall behind it.
LEMMA WalkedStays ==
  ASSUME Inv, Inv', Forward, Walked' = Walked, Len(feed) <= Len(feed'),
         \A n \in 1..Len(feed) : feed'[n] = feed[n]
  PROVE  NoneLeftBehind
<1> SUFFICES ASSUME NEW p \in Projects, Holds(eng, p), ~Behind(p), Holds(eng', p),
                    NEW n \in 1..Len(feed'), n <= Walked', feed'[n][1] = p,
                    feed'[n][2] > VersionOf(eng', p)
             PROVE  FALSE
  BY DEF NoneLeftBehind, Holding, Behind
<1>1. Len(feed) \in Nat /\ Len(feed') \in Nat
  BY EngineTypes DEF Inv, FeedFits
<1>2. n \in 1..Len(feed)
  BY <1>1, WalkedType
<1>3. feed[n][1] = p /\ feed[n][2] > VersionOf(eng', p)
  BY <1>2
<1>4. feed[n][2] <= VersionOf(eng, p) \/ ~(feed[n][2] <= VersionOf(eng, p))
  OBVIOUS
<1>5. feed[n][2] \in Nat
  BY <1>2, FeedType DEF Inv
<1>6. VersionOf(eng, p) \in Nat
  BY EngineTypes
<1>7. feed[n][2] <= VersionOf(eng, p)
  BY <1>2, <1>3, <1>5, <1>6 DEF Behind
<1>8. VersionOf(eng, p) <= VersionOf(eng', p)
  BY DEF Forward, Onward
<1>9. VersionOf(eng', p) \in Nat
  <2>1. version' \in [Projects -> Nat] /\ Fits(version', eng')
    BY DEF Inv, ServerFits
  <2> QED
    BY <2>1, HeldFits
<1> QED
  BY <1>3, <1>5, <1>6, <1>7, <1>8, <1>9

Sound == Inv' /\ Forward /\ NoneLeftBehind

\* A step that neither changes a copy nor moves the catch-up on.
LEMMA Quiet ==
  ASSUME Inv, Inv', eng'.copy = eng.copy, feed' = feed, Walked' = Walked
  PROVE  Sound
<1>1. Forward
  BY CopiesStay
<1>2. Len(feed) <= Len(feed') /\ \A n \in 1..Len(feed) : feed'[n] = feed[n]
  BY EngineTypes
<1> QED
  BY <1>1, <1>2, WalkedStays DEF Sound

LEMMA CommitSound ==
  ASSUME Inv, NEW p \in Projects, Commit(p)
  PROVE  Sound
<1> USE DEF Commit, faults
<1>1. version \in [Projects -> Nat] /\ version[p] < Len(Shown[p]) /\ Len(Shown[p]) \in Nat
  BY EngineTypes, SyncAssumption
<1>2. version' \in [Projects -> Nat] /\ \A q \in Projects : version[q] <= version'[q]
  BY <1>1
<1>3. ServerFits'
  <2>1. ASSUME NEW q \in Projects PROVE First[q] <= version'[q] /\ version'[q] <= Len(Shown[q])
    <3>1. First[q] <= version[q] /\ version[q] <= Len(Shown[q])
      BY DEF Inv, ServerFits
    <3>2. First[q] \in Nat /\ version[q] \in Nat /\ version'[q] \in Nat
      BY <1>1, <1>2, SyncAssumption
    <3> QED
      BY <1>1, <1>2, <3>1, <3>2
  <2> QED
    BY <1>2, <2>1 DEF ServerFits
<1>4. FeedFits'
  <2>1. ASSUME NEW n \in 1..Len(feed) PROVE feed[n][2] <= version'[feed[n][1]]
    <3>1. feed[n][1] \in Projects /\ feed[n][2] \in 1..version[feed[n][1]]
      BY FeedType DEF Inv
    <3> QED
      BY <1>1, <1>2, <3>1
  <2> QED
    BY <2>1 DEF Inv, FeedFits, Fed
<1>5. Fits(version', eng')
  BY <1>1, <1>2, MoreCommitted DEF Inv
<1>6. ListFits' /\ ConnFits'
  <2>1. \A q \in Projects : /\ \A k : MayHold(version, q, k) => MayHold(version', q, k)
                            /\ \A a : AnswerFits(version, q, a) => AnswerFits(version', q, a)
    BY <1>1, <1>2, MoreCommitted
  <2>2. ListFits /\ ConnFits
    BY DEF Inv
  <2>3. ListFits'
    BY <2>1, <2>2 DEF ListFits
  <2>4. ConnFits'
    BY <2>1, <2>2 DEF ConnFits
  <2> QED
    BY <2>3, <2>4
<1>7. CatchUpFits' /\ Blank' /\ FaultsFit'
  BY DEF Inv, CatchUpFits, PageFits, Blank, FaultsFit
<1>8. Inv'
  BY <1>3, <1>4, <1>5, <1>6, <1>7 DEF Inv
<1> QED
  BY <1>8, Quiet DEF Walked

\* One more event of p; the other projects have as many as before.
LEMMA FedAfter ==
  ASSUME feed \in Seq(Projects \X Nat), NEW p \in Projects, NEW v \in Nat, NEW q \in Projects,
         feed' = Append(feed, <<p, v>>), First[q] \in Nat
  PROVE  Fed(q) \in Nat /\ Fed(q)' = IF q = p THEN Fed(q) + 1 ELSE Fed(q)
<1> DEFINE N == Len(feed)
           I == {n \in 1..N : feed[n][1] = q}
           J == {n \in 1..Len(feed') : feed'[n][1] = q}
<1>1. N \in Nat /\ Len(feed') = N + 1 /\ feed'[N + 1] = <<p, v>>
      /\ \A n \in 1..N : feed'[n] = feed[n]
  OBVIOUS
<1>2. IsFiniteSet(I)
  <2>1. IsFiniteSet(1..N) /\ I \in SUBSET (1..N)
    BY <1>1, FS_Interval
  <2> HIDE DEF I, N
  <2> QED
    BY <2>1, FS_Subset
<1>3. N + 1 \notin I
  BY <1>1
<1>4. J = IF q = p THEN I \cup {N + 1} ELSE I
  <2>1. ASSUME NEW n \in 1..(N + 1) PROVE n = N + 1 \/ n \in 1..N
    BY <1>1
  <2>2. 1..N \subseteq 1..(N + 1) /\ N + 1 \in 1..(N + 1)
    BY <1>1
  <2> QED
    BY <1>1, <2>1, <2>2
<1>5. Fed(q) = First[q] + Cardinality(I) /\ Fed(q)' = First[q] + Cardinality(J)
  BY DEF Fed
<1> HIDE DEF I, J, N
<1>6. Cardinality(I) \in Nat
  BY <1>2, FS_CardinalityType
<1>7. Cardinality(I \cup {N + 1}) = Cardinality(I) + 1
  BY <1>2, <1>3, FS_AddElement
<1>8. Cardinality(J) = IF q = p THEN Cardinality(I) + 1 ELSE Cardinality(I)
  BY <1>4, <1>7
<1> QED
  BY <1>5, <1>6, <1>8

LEMMA NumberSound ==
  ASSUME Inv, NEW p \in Projects, Number(p)
  PROVE  Sound
<1> USE DEF Number, faults
<1> DEFINE N == Len(feed)
           v == Fed(p) + 1
<1>1. /\ feed \in Seq(Projects \X Nat) /\ version \in [Projects -> Nat] /\ N \in Nat
      /\ \A q \in Projects : First[q] \in Nat
  BY EngineTypes, SyncAssumption DEF Inv, FeedFits
<1>2. \A q \in Projects : Fed(q) \in Nat /\ First[q] <= Fed(q)
  <2>1. ASSUME NEW q \in Projects PROVE Fed(q) \in Nat /\ First[q] <= Fed(q)
    <3> DEFINE I == {n \in 1..N : feed[n][1] = q}
    <3>1. IsFiniteSet(1..N) /\ I \in SUBSET (1..N)
      BY <1>1, FS_Interval
    <3>2. Fed(q) = First[q] + Cardinality(I)
      BY DEF Fed
    <3> HIDE DEF I, N
    <3>3. Cardinality(I) \in Nat
      BY <3>1, FS_Subset, FS_CardinalityType
    <3> QED
      BY <1>1, <3>2, <3>3
  <2> QED
    BY <2>1
<1>3. v \in Nat /\ First[p] < v /\ v <= version[p]
  BY <1>1, <1>2
<1>4. /\ feed' = Append(feed, <<p, v>>) /\ feed' \in Seq(Projects \X Nat)
      /\ Len(feed') = N + 1 /\ feed'[N + 1] = <<p, v>>
      /\ \A n \in 1..N : feed'[n] = feed[n]
  BY <1>1, <1>3
<1>5. \A q \in Projects : Fed(q)' = IF q = p THEN v ELSE Fed(q)
  <2> HIDE DEF v
  <2>1. \A q \in Projects : Fed(q)' = IF q = p THEN Fed(q) + 1 ELSE Fed(q)
    BY <1>1, <1>3, <1>4, FedAfter
  <2> QED
    BY <2>1 DEF v
<1>6. /\ \A n \in 1..N :
           /\ First[feed[n][1]] < feed[n][2] /\ feed[n][2] <= version[feed[n][1]]
           /\ First[feed[n][1]] < feed[n][2] - 1 =>
                \E m \in 1..(n - 1) : feed[m] = <<feed[n][1], feed[n][2] - 1>>
      /\ \A q \in Projects : \A k \in 1..Fed(q) :
           First[q] < k => \E n \in 1..N : feed[n] = <<q, k>>
  BY DEF Inv, FeedFits
<1> HIDE DEF v, N
<1>7. ASSUME NEW n \in 1..(N + 1)
      PROVE  /\ First[feed'[n][1]] < feed'[n][2] /\ feed'[n][2] <= version[feed'[n][1]]
             /\ First[feed'[n][1]] < feed'[n][2] - 1 =>
                  \E m \in 1..(n - 1) : feed'[m] = <<feed'[n][1], feed'[n][2] - 1>>
  <2>1. CASE n \in 1..N
    <3>1. \A m \in 1..N : feed'[m] = feed[m]
      BY <1>4
    <3>2. 1..(n - 1) \subseteq 1..N
      <4>1. N \in Nat
        BY <1>1
      <4> QED
        BY <2>1, <4>1
    <3>3. \A m \in 1..(n - 1) : feed'[m] = feed[m]
      BY <3>1, <3>2, Zenon
    <3>4. feed'[n] = feed[n]
      BY <2>1, <3>1, Zenon
    <3>5. /\ First[feed[n][1]] < feed[n][2] /\ feed[n][2] <= version[feed[n][1]]
          /\ First[feed[n][1]] < feed[n][2] - 1 =>
               \E m \in 1..(n - 1) : feed[m] = <<feed[n][1], feed[n][2] - 1>>
      BY <1>6, <2>1
    <3> QED
      BY <3>3, <3>4, <3>5
  <2>2. CASE n = N + 1
    <3>1. feed'[n][1] = p /\ feed'[n][2] = v
      BY <1>4, <2>2
    <3>2. ASSUME First[p] < v - 1 PROVE \E m \in 1..(n - 1) : feed'[m] = <<p, v - 1>>
      <4>1. v - 1 = Fed(p) /\ Fed(p) \in 1..Fed(p) /\ First[p] < Fed(p)
        BY <1>1, <1>2, <3>2 DEF v
      <4>2. PICK m \in 1..N : feed[m] = <<p, Fed(p)>>
        BY <1>6, <4>1
      <4>3. m \in 1..(n - 1) /\ feed'[m] = feed[m]
        BY <1>1, <1>4, <2>2
      <4> QED
        BY <4>1, <4>2, <4>3
    <3> QED
      BY <1>3, <3>1, <3>2
  <2>3. n \in 1..N \/ n = N + 1
    BY <1>1
  <2> QED
    BY <2>1, <2>2, <2>3
<1>8. ASSUME NEW q \in Projects, NEW k \in 1..Fed(q)', First[q] < k
      PROVE  \E n \in 1..(N + 1) : feed'[n] = <<q, k>>
  <2>1. CASE k \in 1..Fed(q)
    <3>1. PICK n \in 1..N : feed[n] = <<q, k>>
      BY <1>6, <1>8, <2>1
    <3>2. n \in 1..(N + 1) /\ feed'[n] = feed[n]
      BY <1>1, <1>4
    <3> QED
      BY <3>1, <3>2
  <2>2. CASE k \notin 1..Fed(q)
    <3>1. q = p /\ k = v
      BY <1>2, <1>3, <1>5, <1>8, <2>2 DEF v
    <3>2. N + 1 \in 1..(N + 1)
      BY <1>1
    <3> QED
      BY <1>4, <3>1, <3>2
  <2> QED
    BY <2>1, <2>2
<1>9. FeedFits'
  BY <1>4, <1>7, <1>8 DEF FeedFits
<1>10. ServerFits' /\ Fits(version', eng') /\ ConnFits' /\ Blank' /\ FaultsFit'
  BY DEF Inv, ServerFits, ConnFits, Blank, FaultsFit
<1>11. CatchUpFits' /\ ListFits'
  <2>1. \A n \in Int : n <= N => n <= Len(feed')
    BY <1>1, <1>4
  <2>2. CatchUpFits'
    <3>1. cursor' \in {None} \cup 0..Len(feed')
      BY <1>1, <1>4 DEF Inv, CatchUpFits, None, N
    <3>2. catching.pc \in {"read", "recovering"} => PageFits'
      BY <2>1 DEF Inv, CatchUpFits, PageFits, N
    <3> QED
      BY <3>1, <3>2 DEF Inv, CatchUpFits
  <2>3. ListFits'
    BY <1>1, <1>4 DEF Inv, ListFits, N
  <2> QED
    BY <2>2, <2>3
<1>12. Inv'
  BY <1>9, <1>10, <1>11 DEF Inv
<1>13. Forward
  BY CopiesStay
<1>14. Walked' = Walked /\ Len(feed) <= Len(feed')
       /\ \A n \in 1..Len(feed) : feed'[n] = feed[n]
  BY <1>1, <1>4 DEF Walked, N
<1> QED
  BY <1>12, <1>13, <1>14, WalkedStays DEF Sound

\* A step of the browser that does not move the catch-up on.
LEMMA BrowserStep ==
  ASSUME Inv, UNCHANGED <<version, feed>>, Fits(version, eng'), Forward,
         CatchUpFits', ListFits', ConnFits', Blank', FaultsFit', Walked' = Walked
  PROVE  Sound
<1>1. ServerFits' /\ FeedFits'
  BY DEF Inv, ServerFits, FeedFits, Fed
<1>2. Inv'
  BY <1>1 DEF Inv
<1>3. Len(feed) <= Len(feed') /\ \A n \in 1..Len(feed) : feed'[n] = feed[n]
  BY EngineTypes
<1> QED
  BY <1>2, <1>3, WalkedStays DEF Sound

\* What a step leaves alone still fits.
LEMMA Frames ==
  ASSUME Inv, UNCHANGED <<version, feed>>
  PROVE  /\ UNCHANGED <<cursor, catching>> => CatchUpFits' /\ Walked' = Walked
         /\ UNCHANGED list => ListFits'
         /\ UNCHANGED conn => ConnFits'
         /\ UNCHANGED <<drops, failures>> => FaultsFit'
         /\ UNCHANGED <<eng, cursor, conn>> => Blank'
         /\ UNCHANGED eng => Fits(version, eng') /\ Forward
<1>1. UNCHANGED <<cursor, catching>> => CatchUpFits' /\ Walked' = Walked
  BY DEF Inv, CatchUpFits, PageFits, Walked
<1>2. UNCHANGED list => ListFits'
  BY DEF Inv, ListFits
<1>3. UNCHANGED conn => ConnFits'
  BY DEF Inv, ConnFits
<1>4. UNCHANGED <<drops, failures>> => FaultsFit'
  BY DEF Inv, FaultsFit
<1>5. UNCHANGED <<eng, cursor, conn>> => Blank'
  BY DEF Inv, Blank
<1>6. UNCHANGED eng => Fits(version, eng') /\ Forward
  BY CopiesStay DEF Inv
<1> QED
  BY <1>1, <1>2, <1>3, <1>4, <1>5, <1>6

LEMMA LaterIsForward ==
  ASSUME Inv, Later(version, eng, eng')
  PROVE  Forward
BY DEF Later, Forward, Onward, HeldVersions

LEMMA LiveSound ==
  ASSUME Inv, NEW p \in Projects, NEW v, Live(p, v)
  PROVE  Sound
<1>1. /\ UNCHANGED <<version, feed, cursor, catching, list, conn, drops, failures>>
      /\ eng' = IF eng.recovery[p] # NoRecovery THEN Park(eng, p, v) ELSE Replay(eng, p, v)
  BY DEF Live, server, faults
<1>2. version \in [Projects -> Nat] /\ Fits(version, eng) /\ Blank
  BY EngineTypes DEF Inv
<1>3. v \in 1..version[p]
  <2>1. PICK n \in 1..Len(feed) : feed[n] = <<p, v>>
    BY DEF Live
  <2> QED
    BY <2>1, FeedType DEF Inv
<1>4. Fits(version, eng') /\ Forward
  <2>1. CASE eng.recovery[p] # NoRecovery
    <3>1. Fits(version, eng') /\ eng'.copy = eng.copy
      BY <1>1, <1>2, <1>3, <2>1, ParkFits
    <3> QED
      BY <3>1, CopiesStay
  <2>2. CASE eng.recovery[p] = NoRecovery
    <3>1. Fits(version, eng') /\ Later(version, eng, eng')
      BY <1>1, <1>2, <1>3, <2>2, ReplayFits
    <3> QED
      BY <3>1, LaterIsForward
  <2> QED
    BY <2>1, <2>2
<1>5. Blank'
  <2>1. ASSUME cursor = None PROVE eng'.copy = eng.copy /\ eng'.recovery = eng.recovery
    <3>1. eng.recovery[p] = NoRecovery /\ ~Holds(eng, p)
      BY <1>2, <2>1 DEF Blank
    <3>2. eng' = ApplyUnseen(eng, p, v)
      BY <1>1, <3>1 DEF Replay
    <3> QED
      BY <1>2, <3>2, UnseenFits
  <2> QED
    BY <1>1, <1>2, <2>1 DEF Blank, Holds
<1> QED
  BY <1>1, <1>4, <1>5, Frames, BrowserStep

\* Whatever version k was held of p, what the server reads first about it fits.
LEMMA AnswersFit ==
  ASSUME Inv, NEW p \in Projects, NEW k, MayHold(version, p, k)
  PROVE  AnswerFits(version, p, Answers(p, k))
<1> DEFINE a == Answers(p, k)
<1>1. /\ version[p] \in Nat /\ First[p] \in Nat /\ First[p] <= version[p]
      /\ k \in 1..version[p]
  BY EngineTypes, SyncAssumption DEF Inv, ServerFits, MayHold
<1>2. CASE ~InView(p, version[p])
  <2>1. a = [how |-> "gone", from |-> k, to |-> k]
    BY <1>2 DEF Answers
  <2>2. version[p] \in k..version[p]
    BY <1>1, <1>2
  <2>3. LeftIn(version, p, k)
    BY <1>2, <2>2 DEF LeftIn
  <2> QED
    BY <1>1, <2>1, <2>3 DEF AnswerFits, Answer
<1>3. CASE InView(p, version[p]) /\ version[p] <= k
  <2>1. a = [how |-> "same", from |-> k, to |-> k]
    BY <1>3 DEF Answers
  <2> QED
    BY <1>1, <2>1 DEF AnswerFits, Answer
<1>4. CASE InView(p, version[p]) /\ ~(version[p] <= k)
  <2>1. a = [how |-> "checked", from |-> k, to |-> version[p]]
    BY <1>4 DEF Answers
  <2> QED
    BY <1>1, <2>1 DEF AnswerFits, Answer
<1> QED
  BY <1>2, <1>3, <1>4

\* And so does what it reads then, of a project that may have changed again.
LEMMA LoadedFits ==
  ASSUME Inv, NEW p \in Projects, NEW a, AnswerFits(version, p, a), NEW b \in Loaded(p, a)
  PROVE  AnswerFits(version, p, b) /\ b.how # "checked"
<1>1. /\ version[p] \in Nat /\ First[p] \in Nat /\ First[p] <= version[p]
      /\ a.from \in 1..version[p] /\ First[p] <= a.from /\ a.to \in Nat /\ a.to <= version[p]
  BY EngineTypes, SyncAssumption DEF Inv, ServerFits, AnswerFits, MayHold, Answer
<1>2. a = [how |-> a.how, from |-> a.from, to |-> a.to]
  BY DEF AnswerFits, Answer
<1>3. \/ b = [how |-> "events", from |-> a.from, to |-> a.to]
      \/ b = [how |-> "snapshot", from |-> a.from, to |-> version[p]]
      \/ b = [how |-> "same", from |-> a.from, to |-> a.from]
  <2>1. \/ b = [a EXCEPT !.how = "events"]
        \/ b = [a EXCEPT !.how = "snapshot", !.to = version[p]]
        \/ b = [a EXCEPT !.how = "same", !.to = a.from]
    BY DEF Loaded
  <2> QED
    BY <1>2, <2>1
<1> QED
  BY <1>1, <1>3 DEF AnswerFits, Answer, MayHold

\* A recovery that ends lets the catch-up go on from where it waits.
LEMMA ResumedFits ==
  ASSUME Inv, NEW p, UNCHANGED <<feed, cursor>>, catching' = Resumed(p)
  PROVE  CatchUpFits' /\ Walked' = Walked
<1>1. CASE catching.pc = "recovering" /\ catching.project = p
  <2>1. catching' = [pc |-> "read", upTo |-> catching.upTo, at |-> catching.at,
                     to |-> catching.to, more |-> catching.more]
    BY <1>1 DEF Resumed
  <2>2. PageFits'
    BY <1>1, <2>1 DEF Inv, CatchUpFits, PageFits
  <2> QED
    BY <1>1, <2>1, <2>2 DEF Inv, CatchUpFits, Walked
<1>2. CASE ~(catching.pc = "recovering" /\ catching.project = p)
  <2>1. catching' = catching
    BY <1>2 DEF Resumed
  <2> QED
    BY <2>1 DEF Inv, CatchUpFits, PageFits, Walked
<1> QED
  BY <1>1, <1>2

\* While a recovery runs, a list page has come.
LEMMA NotBlank ==
  ASSUME Inv, NEW p \in Projects, eng.recovery[p] # NoRecovery
  PROVE  cursor # None
BY DEF Inv, Blank

\* p's recovery becomes r, and nothing else of the engine changes.
LEMMA RecoverySet ==
  ASSUME Inv, NEW p \in Projects, NEW r, RecoveryFits(version, p, r),
         eng' = [eng EXCEPT !.recovery[p] = r]
  PROVE  Fits(version, eng') /\ Forward
<1>1. eng \in Engines /\ r \in Recoveries
  BY EngineTypes DEF RecoveryFits
<1>2. /\ eng' \in Engines /\ eng'.copy = eng.copy /\ eng'.parked = eng.parked
      /\ eng'.recovery[p] = r
      /\ \A q \in Projects \ {p} : eng'.recovery[q] = eng.recovery[q]
  BY <1>1 DEF Engines
<1>3. \A q \in Projects : RecoveryFits(version, q, eng'.recovery[q])
  BY <1>2 DEF Inv, Fits
<1>4. Fits(version, eng')
  BY <1>2, <1>3 DEF Inv, Fits, CopyFits
<1> QED
  BY <1>2, <1>4, CopiesStay

LEMMA RecoveryReadSound ==
  ASSUME Inv, NEW p \in Projects, RecoveryRead(p)
  PROVE  Sound
<1>1. /\ UNCHANGED <<version, feed, cursor, catching, list, conn, drops, failures>>
      /\ eng.recovery[p].pc = "asked"
  BY DEF RecoveryRead, server, faults
<1> DEFINE a == Answers(p, eng.recovery[p].from)
<1>2. eng' = [eng EXCEPT !.recovery[p] = [pc |-> "answered", answer |-> a]]
  BY DEF RecoveryRead
<1> HIDE DEF a
<1>3. RecoveryFits(version, p, [pc |-> "answered", answer |-> a])
  <2>1. MayHold(version, p, eng.recovery[p].from)
    BY <1>1 DEF Inv, Fits, RecoveryFits
  <2>2. AnswerFits(version, p, a)
    BY <2>1, AnswersFit DEF a
  <2> QED
    BY <2>2 DEF RecoveryFits, Recoveries, AnswerFits
<1>4. Fits(version, eng') /\ Forward
  BY <1>2, <1>3, RecoverySet
<1>5. Blank'
  <2>1. eng.recovery[p] # NoRecovery
    BY <1>1 DEF NoRecovery
  <2> QED
    BY <1>1, <2>1, NotBlank DEF Blank
<1> QED
  BY <1>1, <1>4, <1>5, Frames, BrowserStep

LEMMA RecoveryLoadSound ==
  ASSUME Inv, NEW p \in Projects, RecoveryLoad(p)
  PROVE  Sound
<1>1. /\ UNCHANGED <<version, feed, cursor, catching, list, conn, drops, failures>>
      /\ eng.recovery[p].pc = "answered"
  BY DEF RecoveryLoad, server, faults
<1>2. PICK a \in Loaded(p, eng.recovery[p].answer) :
        eng' = [eng EXCEPT !.recovery[p] = [pc |-> "answered", answer |-> a]]
  BY DEF RecoveryLoad
<1>3. RecoveryFits(version, p, [pc |-> "answered", answer |-> a])
  <2>1. AnswerFits(version, p, eng.recovery[p].answer)
    BY <1>1 DEF Inv, Fits, RecoveryFits
  <2>2. AnswerFits(version, p, a)
    BY <2>1, LoadedFits
  <2> QED
    BY <2>2 DEF RecoveryFits, Recoveries, AnswerFits
<1>4. Fits(version, eng') /\ Forward
  BY <1>2, <1>3, RecoverySet
<1>5. Blank'
  <2>1. eng.recovery[p] # NoRecovery
    BY <1>1 DEF NoRecovery
  <2> QED
    BY <1>1, <2>1, NotBlank DEF Blank
<1> QED
  BY <1>1, <1>4, <1>5, Frames, BrowserStep

LEMMA RecoveryArrivesSound ==
  ASSUME Inv, NEW p \in Projects, RecoveryArrives(p)
  PROVE  Sound
<1> DEFINE a == eng.recovery[p].answer
<1>1. /\ UNCHANGED <<version, feed, cursor, list, conn, drops, failures>>
      /\ eng.recovery[p].pc = "answered" /\ a.how # "checked"
      /\ eng' = ReplayParked(ApplyAnswer(eng, p, a), p)
      /\ catching' = Resumed(p)
  BY DEF RecoveryArrives, server, faults
<1>2. version \in [Projects -> Nat] /\ Fits(version, eng) /\ AnswerFits(version, p, a)
  BY <1>1, EngineTypes DEF Inv, Fits, RecoveryFits
<1>3. /\ Fits(version, eng') /\ Onward(version, eng, eng', p, {a.from})
      /\ \A q \in Projects \ {p} : Onward(version, eng, eng', q, {})
  BY <1>1, <1>2, ReplayParkedFits
<1>4. Forward
  <2>1. a.from \in HeldVersions(p)
    BY <1>1 DEF HeldVersions
  <2>2. \A q \in Projects : VersionOf(eng, q) \in HeldVersions(q)
    BY DEF HeldVersions
  <2> QED
    BY <1>3, <2>1, <2>2 DEF Forward, Onward
<1>5. CatchUpFits' /\ Walked' = Walked
  BY <1>1, ResumedFits
<1>6. Blank'
  <2>1. eng.recovery[p] # NoRecovery
    BY <1>1 DEF NoRecovery
  <2> QED
    BY <1>1, <2>1, NotBlank DEF Blank
<1> QED
  BY <1>1, <1>3, <1>4, <1>5, <1>6, Frames, BrowserStep

LEMMA RecoveryFailsSound ==
  ASSUME Inv, NEW p \in Projects, RecoveryFails(p)
  PROVE  Sound
<1>1. /\ UNCHANGED <<version, feed, cursor, list, conn, drops>>
      /\ eng.recovery[p] # NoRecovery
      /\ failures < MaxFailures /\ failures' = failures + 1
      /\ eng' = [eng EXCEPT !.recovery[p] = NoRecovery]
      /\ catching' = Resumed(p)
  BY DEF RecoveryFails, server
<1>2. RecoveryFits(version, p, NoRecovery)
  BY DEF RecoveryFits, Recoveries, NoRecovery
<1>3. Fits(version, eng') /\ Forward
  BY <1>1, <1>2, RecoverySet
<1>4. CatchUpFits' /\ Walked' = Walked
  BY <1>1, ResumedFits
<1>5. Blank'
  BY <1>1, NotBlank DEF Blank
<1>6. FaultsFit'
  BY <1>1, SyncAssumption DEF Inv, FaultsFit
<1> QED
  BY <1>1, <1>3, <1>4, <1>5, <1>6, Frames, BrowserStep

\* A catch-up that starts is where the cursor is.
LEMMA StartFits ==
  ASSUME Inv, NEW upTo, upTo \in {None, Len(feed)}, UNCHANGED <<feed, cursor>>,
         StartCatchUp(upTo)
  PROVE  CatchUpFits' /\ Walked' = Walked
<1>1. CASE cursor # None /\ catching = NoCatchUp
  <2>1. catching' = [pc |-> "asked", upTo |-> upTo]
    BY <1>1 DEF StartCatchUp
  <2>2. cursor \in 0..Len(feed) /\ Len(feed) \in Nat
    BY <1>1, EngineTypes DEF Inv, CatchUpFits
  <2>3. UpToFits(upTo, cursor)
    BY <2>2 DEF UpToFits
  <2> QED
    BY <1>1, <2>1, <2>2, <2>3 DEF CatchUpFits, Walked, NoCatchUp
<1>2. CASE ~(cursor # None /\ catching = NoCatchUp)
  <2>1. catching' = catching
    BY <1>2 DEF StartCatchUp
  <2> QED
    BY <2>1 DEF Inv, CatchUpFits, PageFits, Walked
<1> QED
  BY <1>1, <1>2

LEMMA PollSound ==
  ASSUME Inv, Poll
  PROVE  Sound
<1>1. UNCHANGED <<version, feed, eng, cursor, list, conn, drops, failures>> /\ StartCatchUp(None)
  BY DEF Poll, server, faults
<1>2. CatchUpFits' /\ Walked' = Walked
  BY <1>1, StartFits
<1> QED
  BY <1>1, <1>2, Frames, BrowserStep

LEMMA CatchUpReadSound ==
  ASSUME Inv, CatchUpRead
  PROVE  Sound
<1> DEFINE last == IF catching.upTo = None THEN Len(feed) ELSE SmallerOf(catching.upTo, Len(feed))
           to   == SmallerOf(cursor + PageSize, last)
<1>1. /\ UNCHANGED <<version, feed, eng, cursor, list, conn, drops, failures>>
      /\ catching.pc = "asked"
      /\ catching' = [pc |-> "read", upTo |-> catching.upTo, at |-> cursor + 1, to |-> to,
                      more |-> to = cursor + PageSize]
  BY DEF CatchUpRead, server, faults
<1>2. /\ cursor \in 0..Len(feed) /\ Len(feed) \in Nat /\ UpToFits(catching.upTo, cursor)
      /\ PageSize \in Nat \ {0}
  BY <1>1, EngineTypes, SyncAssumption DEF Inv, CatchUpFits
<1>3. last \in Nat /\ cursor <= last /\ last <= Len(feed) /\ UpToFits(catching.upTo, last)
  BY <1>2 DEF UpToFits, SmallerOf, None
<1>4. to \in Nat /\ cursor <= to /\ to <= last
  <2> HIDE DEF last
  <2> QED
    BY <1>2, <1>3 DEF SmallerOf
<1>5. to <= Len(feed) /\ UpToFits(catching.upTo, to)
  <2> HIDE DEF last, to
  <2> QED
    BY <1>2, <1>3, <1>4 DEF UpToFits
<1> HIDE DEF last, to
<1>6. PageFits'
  <2>1. (to = cursor + PageSize) \in BOOLEAN
    OBVIOUS
  <2> QED
    BY <1>1, <1>2, <1>4, <1>5, <2>1 DEF PageFits
<1>7. CatchUpFits' /\ Walked' = Walked
  BY <1>1, <1>2, <1>6 DEF CatchUpFits, Walked, None
<1> QED
  BY <1>1, <1>7, Frames, BrowserStep

LEMMA CatchUpFailsSound ==
  ASSUME Inv, CatchUpFails
  PROVE  Sound
<1>1. /\ UNCHANGED <<version, feed, eng, cursor, list, conn, drops>>
      /\ catching.pc = "asked" /\ catching' = NoCatchUp
      /\ failures < MaxFailures /\ failures' = failures + 1
  BY DEF CatchUpFails, server
<1>2. CatchUpFits' /\ Walked' = Walked
  BY <1>1 DEF Inv, CatchUpFits, Walked, NoCatchUp
<1>3. FaultsFit'
  BY <1>1, SyncAssumption DEF Inv, FaultsFit
<1> QED
  BY <1>1, <1>2, <1>3, Frames, BrowserStep

LEMMA CatchUpArrivesSound ==
  ASSUME Inv, CatchUpArrives
  PROVE  Sound
<1> DEFINE w == Walk(catching.at, catching.to)
<1>1. /\ UNCHANGED <<version, feed, list, conn, drops, failures>>
      /\ catching.pc = "read" /\ eng' = w.eng
      /\ \/ /\ w.stop # 0
            /\ catching' = [pc |-> "recovering", project |-> feed[w.stop][1],
                            upTo |-> catching.upTo, at |-> w.stop + 1, to |-> catching.to,
                            more |-> catching.more]
            /\ UNCHANGED cursor
         \/ /\ w.stop = 0
            /\ cursor' = Scanned
            /\ catching' = IF catching.more THEN [pc |-> "asked", upTo |-> catching.upTo]
                           ELSE NoCatchUp
  BY DEF CatchUpArrives, server, faults
<1>2. /\ PageFits /\ cursor \in 0..Len(feed) /\ Len(feed) \in Nat
      /\ Walked = catching.at - 1 /\ catching.at \in Nat \ {0}
  <2>1. PageFits /\ cursor \in 0..Len(feed) /\ Len(feed) \in Nat
    BY <1>1, EngineTypes DEF Inv, CatchUpFits
  <2> QED
    BY <1>1, <2>1 DEF PageFits, Walked
<1>3. WalkedTo(w, catching.at, catching.to)
  BY <1>2, WalkFits DEF Inv, PageFits
<1> HIDE DEF w
<1>4. Fits(version, eng') /\ Forward
  BY <1>1, <1>3, LaterIsForward DEF WalkedTo
<1>5. /\ CatchUpFits' /\ cursor' # None
      /\ Walked' = IF w.stop = 0 THEN catching.to ELSE w.stop
  <2>1. CASE w.stop # 0
    <3>1. w.stop \in catching.at..catching.to
      BY <1>3, <2>1 DEF WalkedTo
    <3>2. PageFits'
      BY <1>1, <1>2, <2>1, <3>1 DEF PageFits
    <3>3. Walked' = w.stop
      BY <1>1, <1>2, <2>1, <3>1 DEF PageFits, Walked
    <3> QED
      BY <1>1, <1>2, <2>1, <3>2, <3>3 DEF CatchUpFits, None
  <2>2. CASE w.stop = 0
    <3>1. cursor' = catching.to /\ catching.to \in 0..Len(feed)
      BY <1>1, <1>2, <2>2 DEF Scanned, PageFits
    <3>2. catching' \in {NoCatchUp, [pc |-> "asked", upTo |-> catching.upTo]}
      BY <1>1, <2>2
    <3>3. UpToFits(catching.upTo, catching.to)
      BY <1>2 DEF PageFits
    <3> QED
      BY <1>1, <2>2, <3>1, <3>2, <3>3 DEF CatchUpFits, Walked, NoCatchUp, None
  <2> QED
    BY <2>1, <2>2
<1>6. Inv'
  <2>1. ServerFits' /\ FeedFits' /\ ListFits' /\ ConnFits' /\ FaultsFit'
    BY <1>1 DEF Inv, ServerFits, FeedFits, Fed, ListFits, ConnFits, FaultsFit
  <2>2. Blank'
    BY <1>5 DEF Blank
  <2> QED
    BY <1>1, <1>4, <1>5, <2>1, <2>2 DEF Inv
<1>7. NoneLeftBehind
  <2> SUFFICES ASSUME NEW p \in Projects, Holding(p), ~Behind(p), Holds(eng', p),
                      NEW n \in 1..Len(feed'), n <= Walked', feed'[n][1] = p,
                      feed'[n][2] > VersionOf(eng', p)
               PROVE  FALSE
    BY DEF NoneLeftBehind, Behind
  <2>1. Covers(eng, p, catching.at - 1)
    <3> SUFFICES ASSUME NEW m \in 1..(catching.at - 1), feed[m][1] = p
                 PROVE  feed[m][2] <= VersionOf(eng, p)
      BY DEF Covers
    <3>1. m \in 1..Len(feed) /\ m <= Walked
      BY <1>2 DEF PageFits
    <3>2. feed[m][2] \in Nat /\ VersionOf(eng, p) \in Nat
      BY <3>1, FeedType, EngineTypes DEF Inv, Holding
    <3> QED
      BY <3>1, <3>2 DEF Behind
  <2>2. Covers(eng', p, Walked')
    BY <1>1, <1>3, <1>5, <2>1 DEF WalkedTo
  <2>3. n \in 1..Walked' /\ feed[n][1] = p /\ feed[n] = feed'[n] /\ n \in 1..Len(feed)
    <3>1. Walked' \in Int
      BY <1>6, <1>2, <1>3, <1>5 DEF WalkedTo, PageFits
    <3> QED
      BY <1>1, <3>1
  <2>4. feed[n][2] <= VersionOf(eng', p)
    BY <1>1, <2>2, <2>3 DEF Covers
  <2>5. feed[n][2] \in Nat /\ VersionOf(eng', p) \in Nat
    <3>1. version \in [Projects -> Nat]
      BY EngineTypes
    <3> QED
      BY <1>4, <2>3, <3>1, FeedType, HeldFits DEF Inv
  <2> QED
    BY <2>3, <2>4, <2>5
<1> QED
  BY <1>4, <1>6, <1>7 DEF Sound

\* Only `stale` changes.
LEMMA StaleSet ==
  ASSUME Inv, NEW b \in BOOLEAN, eng' = [eng EXCEPT !.stale = b], UNCHANGED <<cursor, conn>>
  PROVE  Fits(version, eng') /\ Forward /\ Blank'
<1>1. eng \in Engines
  BY EngineTypes
<1>2. /\ eng' \in Engines /\ eng'.copy = eng.copy /\ eng'.parked = eng.parked
      /\ eng'.recovery = eng.recovery
  BY <1>1 DEF Engines
<1>3. Fits(version, eng') /\ Blank'
  BY <1>2 DEF Inv, Fits, CopyFits, Blank, Holds
<1> QED
  BY <1>2, <1>3, CopiesStay

LEMMA ListAskSound ==
  ASSUME Inv, ListAsk
  PROVE  Sound
<1>1. /\ UNCHANGED <<version, feed, cursor, catching, conn, drops, failures>>
      /\ list' = [pc |-> "head", head |-> Len(feed)]
      /\ eng' = [eng EXCEPT !.stale = FALSE]
  BY DEF ListAsk, server, faults
<1>2. Fits(version, eng') /\ Forward /\ Blank'
  BY <1>1, StaleSet
<1>3. ListFits'
  BY <1>1, EngineTypes DEF ListFits
<1> QED
  BY <1>1, <1>2, <1>3, Frames, BrowserStep

LEMMA ListReadSound ==
  ASSUME Inv, ListRead
  PROVE  Sound
<1> DEFINE rows == [p \in Projects |-> IF InView(p, version[p]) THEN version[p] ELSE 0]
<1>1. /\ UNCHANGED <<version, feed, eng, cursor, catching, conn, drops, failures>>
      /\ list.pc = "head" /\ list' = [pc |-> "page", head |-> list.head, rows |-> rows]
  BY DEF ListRead, server, faults
<1>2. \A p \in Projects : rows[p] = 0 \/ MayHold(version, p, rows[p])
  <2>1. ASSUME NEW p \in Projects, InView(p, version[p]) PROVE MayHold(version, p, version[p])
    <3>1. version[p] \in Nat /\ First[p] <= version[p]
      BY EngineTypes DEF Inv, ServerFits
    <3> QED
      BY <2>1, <3>1 DEF MayHold, InView
  <2> QED
    BY <2>1
<1> HIDE DEF rows
<1>3. ListFits'
  BY <1>1, <1>2 DEF Inv, ListFits
<1> QED
  BY <1>1, <1>3, Frames, BrowserStep

LEMMA ListArrivesSound ==
  ASSUME Inv, ListArrives
  PROVE  Sound
<1>1. /\ UNCHANGED <<version, feed, catching, conn, drops, failures>>
      /\ list.pc = "page" /\ list' = NoList
      /\ cursor' = FirstCursor(list.head) /\ eng' = RowsOf(eng, list.rows)
  BY DEF ListArrives, server, faults
<1>2. /\ list.head \in 0..Len(feed) /\ version \in [Projects -> Nat] /\ Fits(version, eng)
      /\ \A p \in Projects : list.rows[p] = 0 \/ MayHold(version, p, list.rows[p])
  BY <1>1, EngineTypes DEF Inv, ListFits
<1>3. Fits(version, eng') /\ \A p \in Projects : Onward(version, eng, eng', p, {})
  BY <1>1, <1>2, RowsFit
<1>4. Forward
  BY <1>3 DEF Forward, Onward, HeldVersions
<1>5. ListFits' /\ cursor' # None /\ Blank'
  BY <1>1, <1>2 DEF ListFits, NoList, FirstCursor, Blank, None
<1>6. CASE cursor # None
  <2>1. cursor' = cursor
    BY <1>1, <1>6 DEF FirstCursor
  <2> QED
    BY <1>1, <1>3, <1>4, <1>5, <2>1, Frames, BrowserStep
<1>7. CASE cursor = None
  <2>1. catching = NoCatchUp /\ \A p \in Projects : ~Holds(eng, p)
    BY <1>7 DEF Inv, CatchUpFits, Blank
  <2>2. NoneLeftBehind
    BY <2>1 DEF NoneLeftBehind, Holding
  <2>3. cursor' = list.head
    BY <1>1, <1>7 DEF FirstCursor
  <2>4. CatchUpFits'
    BY <1>1, <1>2, <2>1, <2>3 DEF CatchUpFits, NoCatchUp
  <2>5. ServerFits' /\ FeedFits'
    BY <1>1 DEF Inv, ServerFits, FeedFits, Fed
  <2>6. ConnFits' /\ FaultsFit'
    BY <1>1, Frames
  <2>7. Inv'
    BY <1>1, <1>3, <1>5, <2>4, <2>5, <2>6 DEF Inv
  <2> QED
    BY <1>4, <2>2, <2>7 DEF Sound
<1> QED
  BY <1>6, <1>7

LEMMA BrowseSound ==
  ASSUME Inv, Browse
  PROVE  Sound
<1>1. /\ UNCHANGED <<version, feed, cursor, catching, list, conn, drops, failures>>
      /\ eng' = [eng EXCEPT !.stale = TRUE]
  BY DEF Browse, server, faults
<1>2. Fits(version, eng') /\ Forward /\ Blank'
  BY <1>1, StaleSet
<1> QED
  BY <1>1, <1>2, Frames, BrowserStep

ConnOf(s, g, a, k) == [state |-> s, goal |-> g, answer |-> a, known |-> k]

\* The connection keeps its four fields.
LEMMA ConnIs ==
  ASSUME Inv, NEW s, NEW x
  PROVE  /\ conn' = [conn EXCEPT !.state = s] =>
              conn' = ConnOf(s, conn.goal, conn.answer, conn.known)
         /\ conn' = [conn EXCEPT !.state = s, !.goal = x] =>
              conn' = ConnOf(s, x, conn.answer, conn.known)
         /\ conn' = [conn EXCEPT !.answer = x] =>
              conn' = ConnOf(conn.state, conn.goal, x, conn.known)
         /\ conn' = [conn EXCEPT !.state = s, !.answer = x] =>
              conn' = ConnOf(s, conn.goal, x, conn.known)
<1> DEFINE Fields(c) == c = ConnOf(c.state, c.goal, c.answer, c.known)
<1>1. Fields(conn)
  BY DEF Inv, ConnFits, ConnOf
<1>2. ASSUME conn' = [conn EXCEPT !.state = s]
      PROVE  /\ Fields(conn') /\ conn'.state = s /\ conn'.goal = conn.goal
             /\ conn'.answer = conn.answer /\ conn'.known = conn.known
  BY <1>1, <1>2 DEF ConnOf
<1>3. ASSUME conn' = [conn EXCEPT !.state = s, !.goal = x]
      PROVE  /\ Fields(conn') /\ conn'.state = s /\ conn'.goal = x
             /\ conn'.answer = conn.answer /\ conn'.known = conn.known
  BY <1>1, <1>3 DEF ConnOf
<1>4. ASSUME conn' = [conn EXCEPT !.answer = x]
      PROVE  /\ Fields(conn') /\ conn'.state = conn.state /\ conn'.goal = conn.goal
             /\ conn'.answer = x /\ conn'.known = conn.known
  BY <1>1, <1>4 DEF ConnOf
<1>5. ASSUME conn' = [conn EXCEPT !.state = s, !.answer = x]
      PROVE  /\ Fields(conn') /\ conn'.state = s /\ conn'.goal = conn.goal
             /\ conn'.answer = x /\ conn'.known = conn.known
  BY <1>1, <1>5 DEF ConnOf
<1>6. ASSUME Fields(conn'), NEW a, NEW b, NEW c, NEW d,
             conn'.state = a, conn'.goal = b, conn'.answer = c, conn'.known = d
      PROVE  conn' = ConnOf(a, b, c, d)
  BY <1>6
<1> HIDE DEF Fields
<1> QED
  BY <1>2, <1>3, <1>4, <1>5, <1>6

LEMMA ConnAsks ==
  ASSUME Inv, NEW s, NEW x, NEW y,
         conn' = [conn EXCEPT !.state = s, !.answer = x, !.known = y]
  PROVE  conn' = ConnOf(s, conn.goal, x, y)
<1>1. conn = ConnOf(conn.state, conn.goal, conn.answer, conn.known)
  BY DEF Inv, ConnFits, ConnOf
<1> QED
  BY <1>1 DEF ConnOf

\* The next rows are asked for, or none are left to ask for.
LEMMA AskNextFits ==
  ASSUME Inv, NEW known, AskNext(known), UNCHANGED version, DOMAIN known \subseteq Projects,
         \A p \in DOMAIN known : MayHold(version, p, known[p])
  PROVE  ConnFits' /\ (conn'.state \in {"asked", "answered"} => DOMAIN known # {})
<1>1. CASE conn' = [conn EXCEPT !.state = "connected", !.answer = <<>>, !.known = <<>>]
  <2>1. conn' = ConnOf("connected", conn.goal, <<>>, <<>>)
    BY <1>1, ConnAsks
  <2> QED
    BY <2>1 DEF ConnFits, ConnOf
<1>2. CASE \E chunk \in SUBSET DOMAIN known :
             /\ chunk # {}
             /\ conn' = [conn EXCEPT !.state = "asked",
                                     !.answer = [p \in chunk |-> known[p]],
                                     !.known = [p \in DOMAIN known \ chunk |-> known[p]]]
  <2>1. PICK chunk \in SUBSET DOMAIN known :
          /\ chunk # {}
          /\ conn' = [conn EXCEPT !.state = "asked",
                                  !.answer = [p \in chunk |-> known[p]],
                                  !.known = [p \in DOMAIN known \ chunk |-> known[p]]]
    BY <1>2
  <2> DEFINE asked == [p \in chunk |-> known[p]]
             left == [p \in DOMAIN known \ chunk |-> known[p]]
  <2>2. /\ DOMAIN asked \subseteq Projects
        /\ \A p \in DOMAIN asked : MayHold(version, p, asked[p])
        /\ DOMAIN left \subseteq Projects
        /\ \A p \in DOMAIN left : MayHold(version, p, left[p])
    OBVIOUS
  <2>3. conn' = [conn EXCEPT !.state = "asked", !.answer = asked, !.known = left]
    BY <2>1
  <2> HIDE DEF asked, left
  <2>4. conn' = ConnOf("asked", conn.goal, asked, left)
    BY <2>3, ConnAsks
  <2>5. DOMAIN known # {}
    BY <2>1
  <2>6. ConnFits'
    BY <2>2, <2>4 DEF ConnFits, ConnOf
  <2> QED
    BY <2>5, <2>6
<1> QED
  BY <1>1, <1>2 DEF AskNext

LEMMA DropSound ==
  ASSUME Inv, Drop
  PROVE  Sound
<1>1. /\ UNCHANGED <<version, feed, eng, cursor, catching, list, failures>>
      /\ drops < MaxDrops /\ drops' = drops + 1
      /\ conn' = [conn EXCEPT !.state = "reconnecting"]
  BY DEF Drop, server
<1>2. conn' = ConnOf("reconnecting", conn.goal, conn.answer, conn.known)
  BY <1>1, ConnIs
<1>3. ConnFits' /\ Blank'
  BY <1>1, <1>2 DEF Inv, ConnFits, Blank, ConnOf
<1>4. FaultsFit'
  BY <1>1, SyncAssumption DEF Inv, FaultsFit
<1> QED
  BY <1>1, <1>3, <1>4, Frames, BrowserStep

LEMMA HelloSound ==
  ASSUME Inv, Hello
  PROVE  Sound
<1> DEFINE goal == IF cursor = None THEN 0 ELSE Len(feed)
<1>1. /\ UNCHANGED <<version, feed, eng, cursor, list, drops, failures>>
      /\ conn' = [conn EXCEPT !.state = "catching", !.goal = goal]
      /\ StartCatchUp(Len(feed))
  BY DEF Hello, server, faults
<1> HIDE DEF goal
<1>2. conn' = ConnOf("catching", goal, conn.answer, conn.known)
  BY <1>1, ConnIs
<1>3. ConnFits' /\ Blank'
  BY <1>1, <1>2 DEF Inv, ConnFits, Blank, ConnOf
<1>4. CatchUpFits' /\ Walked' = Walked
  BY <1>1, StartFits
<1> QED
  BY <1>1, <1>3, <1>4, Frames, BrowserStep

LEMMA ResyncAskSound ==
  ASSUME Inv, ResyncAsk
  PROVE  Sound
<1> DEFINE held == {p \in Projects : Holds(eng, p)}
           known == [p \in held |-> VersionOf(eng, p)]
<1>1. /\ UNCHANGED <<version, feed, cursor, catching, list, drops, failures>>
      /\ AskNext(known)
      /\ eng' = IF held = {} THEN eng ELSE [eng EXCEPT !.parked = [p \in Projects |-> {}]]
  BY DEF ResyncAsk, server, faults
<1>2. /\ DOMAIN known = held /\ held \subseteq Projects
      /\ \A p \in held : MayHold(version, p, known[p])
  BY EngineTypes, HeldFits DEF Inv
<1>3. cursor = None => held = {}
  BY DEF Inv, Blank
<1> HIDE DEF held, known
<1>4. ConnFits' /\ (conn'.state \in {"asked", "answered"} => held # {})
  BY <1>1, <1>2, AskNextFits
<1>5. /\ eng' \in Engines /\ eng'.copy = eng.copy /\ eng'.recovery = eng.recovery
      /\ eng'.parked = eng.parked \/ eng'.parked = [p \in Projects |-> {}]
  BY <1>1, EngineTypes DEF Engines
<1>6. Fits(version, eng')
  BY <1>5 DEF Inv, Fits, CopyFits
<1>7. Blank'
  BY <1>1, <1>3, <1>4, <1>5 DEF Inv, Blank, Holds
<1>8. Forward
  BY <1>5, CopiesStay
<1> QED
  BY <1>1, <1>4, <1>6, <1>7, <1>8, Frames, BrowserStep

LEMMA ResyncReadSound ==
  ASSUME Inv, ResyncRead
  PROVE  Sound
<1> DEFINE held == DOMAIN conn.answer
           a == [p \in held |-> Answers(p, conn.answer[p])]
<1>1. /\ UNCHANGED <<version, feed, eng, cursor, catching, list, drops, failures>>
      /\ conn.state = "asked"
      /\ conn' = [conn EXCEPT !.state = "answered", !.answer = a]
  BY DEF ResyncRead, server, faults
<1>2. /\ held \subseteq Projects /\ \A p \in held : MayHold(version, p, conn.answer[p])
      /\ DOMAIN conn.known \subseteq Projects
      /\ \A p \in DOMAIN conn.known : MayHold(version, p, conn.known[p])
  BY <1>1 DEF Inv, ConnFits
<1>3. DOMAIN a = held /\ \A p \in held : AnswerFits(version, p, a[p])
  BY <1>2, AnswersFit
<1> HIDE DEF a, held
<1>4. conn' = ConnOf("answered", conn.goal, a, conn.known)
  BY <1>1, ConnIs
<1>5. ConnFits' /\ Blank'
  BY <1>1, <1>2, <1>3, <1>4 DEF Inv, ConnFits, Blank, ConnOf
<1> QED
  BY <1>1, <1>5, Frames, BrowserStep

LEMMA ResyncLoadSound ==
  ASSUME Inv, NEW p \in Projects, ResyncLoad(p)
  PROVE  Sound
<1>1. /\ UNCHANGED <<version, feed, eng, cursor, catching, list, drops, failures>>
      /\ conn.state = "answered" /\ p \in DOMAIN conn.answer
  BY DEF ResyncLoad, server, faults
<1>2. PICK b \in Loaded(p, conn.answer[p]) : conn' = [conn EXCEPT !.answer[p] = b]
  BY DEF ResyncLoad
<1> DEFINE a == [conn.answer EXCEPT ![p] = b]
<1>3. conn' = [conn EXCEPT !.answer = a]
  BY <1>2
<1>4. /\ DOMAIN conn.answer \subseteq Projects
      /\ \A q \in DOMAIN conn.answer : AnswerFits(version, q, conn.answer[q])
      /\ DOMAIN conn.known \subseteq Projects
      /\ \A q \in DOMAIN conn.known : MayHold(version, q, conn.known[q])
  BY <1>1 DEF Inv, ConnFits
<1>5. AnswerFits(version, p, b)
  BY <1>1, <1>4, LoadedFits
<1>6. DOMAIN a \subseteq Projects /\ \A q \in DOMAIN a : AnswerFits(version, q, a[q])
  BY <1>4, <1>5
<1> HIDE DEF a
<1>7. conn' = ConnOf(conn.state, conn.goal, a, conn.known)
  BY <1>3, ConnIs
<1>8. ConnFits' /\ Blank'
  BY <1>1, <1>4, <1>6, <1>7 DEF Inv, ConnFits, Blank, ConnOf
<1> QED
  BY <1>1, <1>8, Frames, BrowserStep

LEMMA ResyncArrivesSound ==
  ASSUME Inv, ResyncArrives
  PROVE  Sound
<1>1. /\ UNCHANGED <<version, feed, cursor, catching, list, drops, failures>>
      /\ conn.state = "answered"
      /\ \A p \in DOMAIN conn.answer : conn.answer[p].how # "checked"
      /\ eng' = ApplyAnswers(eng, conn.answer)
      /\ AskNext(conn.known)
  BY DEF ResyncArrives, server, faults
<1>2. /\ version \in [Projects -> Nat] /\ Fits(version, eng)
      /\ \A p \in DOMAIN conn.answer : AnswerFits(version, p, conn.answer[p])
      /\ DOMAIN conn.known \subseteq Projects
      /\ \A p \in DOMAIN conn.known : MayHold(version, p, conn.known[p])
  BY <1>1, EngineTypes DEF Inv, ConnFits
<1>3. /\ Fits(version, eng')
      /\ \A p \in Projects : Onward(version, eng, eng', p,
           IF p \in DOMAIN conn.answer THEN {conn.answer[p].from} ELSE {})
  BY <1>1, <1>2, ApplyAnswersFits
<1>4. Forward
  <2>1. ASSUME NEW p \in Projects
        PROVE  {VersionOf(eng, p)}
                 \cup (IF p \in DOMAIN conn.answer THEN {conn.answer[p].from} ELSE {})
               \subseteq HeldVersions(p)
    BY <1>1 DEF HeldVersions
  <2> QED
    BY <1>3, <2>1 DEF Forward, Onward
<1>5. ConnFits'
  BY <1>1, <1>2, AskNextFits
<1>6. Blank'
  BY <1>1 DEF Inv, Blank
<1> QED
  BY <1>1, <1>3, <1>4, <1>5, <1>6, Frames, BrowserStep

LEMMA ResyncFailsSound ==
  ASSUME Inv, ResyncFails
  PROVE  Sound
<1>1. /\ UNCHANGED <<version, feed, eng, cursor, catching, list, drops>>
      /\ failures < MaxFailures /\ failures' = failures + 1
      /\ conn' = [conn EXCEPT !.state = "connected", !.answer = <<>>, !.known = <<>>]
  BY DEF ResyncFails, server
<1>2. conn' = ConnOf("connected", conn.goal, <<>>, <<>>)
  BY <1>1, ConnAsks
<1>3. ConnFits' /\ Blank'
  BY <1>1, <1>2 DEF Inv, ConnFits, Blank, ConnOf
<1>4. FaultsFit'
  BY <1>1, SyncAssumption DEF Inv, FaultsFit
<1> QED
  BY <1>1, <1>3, <1>4, Frames, BrowserStep

LEMMA StutterSound ==
  ASSUME Inv, UNCHANGED vars
  PROVE  Sound
<1>1. UNCHANGED <<version, feed, eng, cursor, catching, list, conn, drops, failures>>
  BY DEF vars
<1> QED
  BY <1>1, Frames, BrowserStep

-----------------------------------------------------------------------------
(* Part 6: the theorems *)

LEMMA InitFits == Init => Inv
<1> SUFFICES ASSUME Init PROVE Inv
  OBVIOUS
<1>1. /\ version = First /\ feed = <<>> /\ cursor = None /\ catching = NoCatchUp /\ list = NoList
      /\ conn = [state |-> "connected", goal |-> 0, answer |-> <<>>, known |-> <<>>]
      /\ drops = 0 /\ failures = 0
  BY DEF Init
<1>2. /\ eng.copy = [p \in Projects |-> {}] /\ eng.parked = [p \in Projects |-> {}]
      /\ eng.recovery = [p \in Projects |-> NoRecovery] /\ eng \in Engines
  BY DEF Init, Engines, Recoveries
<1>3. ServerFits
  BY <1>1, SyncAssumption DEF ServerFits
<1>4. FeedFits
  <2>1. Len(feed) = 0 /\ feed \in Seq(Projects \X Nat)
    BY <1>1
  <2>2. \A p \in Projects : Fed(p) = First[p]
    <3> SUFFICES ASSUME NEW p \in Projects PROVE Fed(p) = First[p]
      OBVIOUS
    <3> DEFINE I == {n \in 1..Len(feed) : feed[n][1] = p}
    <3>1. I = {} /\ First[p] \in Nat
      BY <2>1, SyncAssumption
    <3>2. Fed(p) = First[p] + Cardinality(I)
      BY DEF Fed
    <3> HIDE DEF I
    <3> QED
      BY <3>1, <3>2, FS_EmptySet
  <2> QED
    BY <2>1, <2>2, SyncAssumption DEF FeedFits
<1>5. Fits(version, eng)
  BY <1>2 DEF Fits, CopyFits, RecoveryFits, Recoveries, NoRecovery
<1>6. CatchUpFits /\ ListFits /\ ConnFits /\ FaultsFit
  BY <1>1, SyncAssumption DEF CatchUpFits, ListFits, ConnFits, FaultsFit, NoCatchUp, NoList
<1>7. Blank
  BY <1>1, <1>2 DEF Blank, Holds
<1> QED
  BY <1>3, <1>4, <1>5, <1>6, <1>7 DEF Inv

\* One case per action.
LEMMA StepSound == Inv /\ [Next]_vars => Sound
<1> SUFFICES ASSUME Inv, [Next]_vars PROVE Sound
  OBVIOUS
<1>1. CASE \E p \in Projects : Commit(p) \/ RecoveryFails(p)
  BY <1>1, CommitSound, RecoveryFailsSound
<1>2. CASE \E p \in Projects : \E v \in 1..Len(Shown[p]) : Live(p, v)
  BY <1>2, LiveSound
<1>3. CASE Relay
  BY <1>3, NumberSound DEF Relay
<1>4. CASE Recovery
  BY <1>4, RecoveryReadSound, RecoveryLoadSound, RecoveryArrivesSound DEF Recovery
<1>5. CASE Poll
  BY <1>5, PollSound
<1>6. CASE CatchUp
  BY <1>6, CatchUpReadSound, CatchUpArrivesSound DEF CatchUp
<1>7. CASE CatchUpFails
  BY <1>7, CatchUpFailsSound
<1>8. CASE List
  BY <1>8, ListAskSound, ListReadSound, ListArrivesSound DEF List
<1>9. CASE Browse
  BY <1>9, BrowseSound
<1>10. CASE Connect
  BY <1>10, HelloSound, ResyncAskSound, ResyncReadSound, ResyncLoadSound, ResyncArrivesSound
  DEF Connect
<1>11. CASE Drop
  BY <1>11, DropSound
<1>12. CASE ResyncFails
  BY <1>12, ResyncFailsSound
<1>13. CASE UNCHANGED vars
  BY <1>13, StutterSound
<1> QED
  BY <1>1, <1>2, <1>3, <1>4, <1>5, <1>6, <1>7, <1>8, <1>9, <1>10, <1>11, <1>12, <1>13 DEF Next

\* The inductive invariant: what the browser holds, has parked or waits for fits the committed
\* versions and the feed (projectSyncEngine.ts as a whole).
THEOREM Invariant == Spec => []Inv
<1>1. Inv /\ [Next]_vars => Inv'
  BY StepSound DEF Sound
<1> QED
  BY <1>1, InitFits, PTL DEF Spec

\* Every variable has its type; the cursor stays within the feed (projectSyncEngine.ts:60-84).
THEOREM TypesAreKept == Spec => []TypeOK
<1>1. Inv => TypeOK
  <2> SUFFICES ASSUME Inv PROVE TypeOK
    OBVIOUS
  <2>1. /\ version \in [Projects -> Nat] /\ First \in [Projects -> Nat]
        /\ \A p \in Projects : /\ First[p] <= version[p] /\ version[p] <= Len(Shown[p])
                               /\ Len(Shown[p]) \in Nat
    BY SyncAssumption DEF Inv, ServerFits
  <2>2. \A n \in 1..Len(feed) : feed[n][1] \in Projects /\ feed[n][2] \in Versions(feed[n][1])
    <3>1. ASSUME NEW n \in 1..Len(feed)
          PROVE  feed[n][1] \in Projects /\ feed[n][2] \in 1..version[feed[n][1]]
      BY FeedType DEF Inv
    <3> QED
      BY <2>1, <3>1 DEF Versions
  <2>3. ASSUME NEW p \in Projects
        PROVE  /\ eng.copy[p] \subseteq Versions(p)
               /\ eng.parked[p] \subseteq Versions(p)
               /\ eng.recovery[p].pc \in {"none", "asked", "answered"}
               /\ eng.recovery[p].pc = "answered" => eng.recovery[p].answer \in Answer
    <3>1. CopyFits(version, eng, p) /\ eng.parked[p] \subseteq 1..version[p]
          /\ RecoveryFits(version, p, eng.recovery[p])
      BY DEF Inv, Fits
    <3>2. 1..version[p] \subseteq Versions(p)
      BY <2>1 DEF Versions
    <3>3. eng.copy[p] \subseteq Versions(p)
      BY <2>1, <3>1 DEF CopyFits, Versions
    <3>4. eng.recovery[p].pc \in {"none", "asked", "answered"}
      BY <3>1 DEF RecoveryFits, Recoveries, NoRecovery
    <3> QED
      BY <3>1, <3>2, <3>3, <3>4 DEF RecoveryFits, AnswerFits
  <2>4. eng.stale \in BOOLEAN
    BY DEF Inv, Fits, Engines
  <2>5. /\ cursor \in {None} \cup 0..Len(feed)
        /\ catching.pc \in {"none", "asked", "read", "recovering"}
        /\ list.pc \in {"none", "head", "page"}
        /\ conn.state \in {"connected", "reconnecting", "catching", "asked", "answered"}
        /\ drops \in 0..MaxDrops /\ failures \in 0..MaxFailures
    BY DEF Inv, CatchUpFits, ListFits, ConnFits, FaultsFit
  <2> QED
    BY <2>1, <2>2, <2>3, <2>4, <2>5 DEF TypeOK
<1> QED
  BY <1>1, Invariant, PTL

\* A copy is exactly the changes 1..v of a committed version v, whatever was lost, late, parked,
\* replayed or recovered (decideEvent, recover, applyRecovery, seed).
THEOREM ACopyIsItsVersion == Spec => []CopyIsExact
<1>1. Inv => CopyIsExact
  <2> SUFFICES ASSUME Inv, NEW p \in Projects, Holds(eng, p)
               PROVE  eng.copy[p] = 1..VersionOf(eng, p) /\ VersionOf(eng, p) <= version[p]
    BY DEF CopyIsExact
  <2>1. version \in [Projects -> Nat] /\ Fits(version, eng)
    BY DEF Inv, ServerFits
  <2> QED
    BY <2>1, HeldFits DEF MayHold
<1> QED
  BY <1>1, Invariant, PTL

\* No step moves a held copy back (seed, confirm, rollback, snapshots, replays).
THEOREM NoCopyGoesBack == Spec => NeverBackwards
<1>1. Inv /\ [Next]_vars =>
        [\A p \in Projects :
           Holds(eng, p) /\ Holds(eng', p) => VersionOf(eng, p) <= VersionOf(eng', p)]_vars
  BY StepSound DEF Sound, Forward, Onward
<1> QED
  BY <1>1, Invariant, PTL DEF Spec, NeverBackwards

\* A row disappears only if its project was out of view at the version the browser held, or has
\* left the view since.
THEOREM OnlyWhatLeftIsRemoved == Spec => RemovedOnlyIfGone
<1>1. Inv /\ [Next]_vars =>
        [\A p \in Projects :
           Holds(eng, p) /\ ~Holds(eng', p) => \E k \in HeldVersions(p) : LeftSince(p, k)]_vars
  <2> SUFFICES ASSUME Inv, [Next]_vars, NEW p \in Projects, Holds(eng, p), ~Holds(eng', p)
               PROVE  \E k \in HeldVersions(p) : LeftSince(p, k)
    OBVIOUS
  <2>1. PICK k \in {VersionOf(eng, p)} \cup HeldVersions(p) : LeftIn(version, p, k)
    BY StepSound DEF Sound, Forward, Onward
  <2>2. k \in HeldVersions(p)
    BY DEF HeldVersions
  <2> QED
    BY <2>1, <2>2 DEF LeftIn, LeftSince
<1> QED
  BY <1>1, Invariant, PTL DEF Spec, RemovedOnlyIfGone

\* The catch-up never passes an event that a row held at a version in view still needs (catchUp,
\* initCursor).
THEOREM NothingNeededIsPassed == Spec => NoHeldRowFallsBehind
<1>1. Inv /\ [Next]_vars =>
        [\A p \in Projects :
           /\ Holds(eng, p) /\ InView(p, VersionOf(eng, p)) /\ ~Behind(p)
           /\ Holds(eng', p)
           => ~Behind(p)']_vars
  BY StepSound DEF Sound, NoneLeftBehind, Holding
<1> QED
  BY <1>1, Invariant, PTL DEF Spec, NoHeldRowFallsBehind
=============================================================================
