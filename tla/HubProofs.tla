----------------------------- MODULE HubProofs -----------------------------
(***************************************************************************)
(* What a process promises its streams, for every number of streams,       *)
(* channels, events, outages, refusals and late hints.                     *)
(*                                                                         *)
(* The invariant follows a channel's interest along the connection.  What  *)
(* the hub wants (members) is what Redis will know of once it has executed *)
(* the commands on their way (Heard), and what ioredis would subscribe     *)
(* again, followed by the commands without a reply (Wired).  A stream that *)
(* waits for nothing therefore listens to channels that Redis knows of, or *)
(* a hint is owed; and whatever Redis sends stays on its way until it is   *)
(* in the stream's hands (Covered).                                        *)
(***************************************************************************)
EXTENDS Hub, FiniteSetTheorems, TLAPS

Order == [op : {"sub", "unsub", "again"}, channel : Channels]
Letter ==      [kind : {"ok", "error"}, channel : Channels, op : {"sub", "unsub", "again"}]
          \cup [kind : {"event"}, channel : Channels, event : Nat]

Phases == {"idle", "ready", "load", "next", "open", "closed"}

StreamStates == [pc : Phases, channels : SUBSET Channels, waits : SUBSET Channels,
                 live : SUBSET Channels, base : [Channels -> Nat]]
OutStates == [queue : Seq(Nat), over : BOOLEAN, got : Seq(Nat)]

Typed ==
  /\ feed \in Seq(SUBSET Channels)
  /\ published \in Nat /\ published <= Len(feed)
  /\ members \in [Channels -> SUBSET Streams]
  /\ confirmed \in [Channels -> {"no", "pending", "yes"}]
  /\ up \in BOOLEAN /\ sent \in Seq(Order) /\ done \in Nat /\ done <= Len(sent)
  /\ back \in Seq(Letter) /\ kept \subseteq Channels /\ at \subseteq Channels
  /\ hints \in 0..2
  /\ head \in [loading : BOOLEAN, value : Nat] /\ head.value <= Len(feed)
  /\ stream \in [Streams -> StreamStates]
  /\ out \in [Streams -> OutStates]

\* What a stream is told and what the hub holds of it fit its phase.
Phased(s) ==
  LET v == stream[s] IN
  /\ \A c \in Channels : s \in members[c] <=> c \in v.channels
  /\ v.waits \subseteq v.channels /\ v.live \subseteq v.channels /\ v.waits \cap v.live = {}
  /\ v.pc \in {"idle", "closed"} => v.channels = {}
  /\ v.pc # "open" => v.live = {}
  /\ v.pc \in {"load", "next"} => v.waits = {} /\ head.loading
  /\ Len(out[s].queue) <= MaxQueue

\* Each reply on its way is that of a command, in the commands' order, and each executed
\* command has one.
Answers(f, q, d, b) ==
  /\ f \in [1..d -> 1..Len(b)]
  /\ \A i, j \in 1..d : i < j => f[i] < f[j]
  /\ \A i \in 1..d : /\ b[f[i]].kind # "event"
                     /\ b[f[i]].channel = q[i].channel /\ b[f[i]].op = q[i].op
  /\ \A k \in 1..Len(b) : b[k].kind # "event" => \E i \in 1..d : f[i] = k

Paired ==
  /\ \E f : Answers(f, sent, done, back)
  /\ \A k \in 1..Len(back) :
       back[k].kind = "error" => back[k].op = "sub" /\ back[k].channel \in refused

\* The feed's order, on the connection and in a stream's hands.
Sorted(q) == \A i, j \in 1..Len(q) : i < j => q[i] < q[j]

Travels(b, p) ==
  /\ \A k \in 1..Len(b) : b[k].kind = "event" => b[k].event <= p
  /\ \A k, l \in 1..Len(b) :
       k < l /\ b[k].kind = "event" /\ b[l].kind = "event" => b[k].event <= b[l].event

Handed(o, b, p) ==
  /\ Sorted(o.got) /\ Sorted(o.queue)
  /\ \A i \in 1..Len(o.got) : \A j \in 1..Len(o.queue) : o.got[i] < o.queue[j]
  /\ \A n \in Nat : Ignores(o, n) =>
       n <= p /\ \A k \in 1..Len(b) : b[k].kind = "event" => n <= b[k].event

InOrder ==
  Travels(back, published) /\ \A s \in Streams : Handed(out[s], back, published)

\* Command i of q asks this of channel c.
Asks(q, i, op, c) == q[i].op = op /\ q[i].channel = c

\* What is subscribed again, and then the commands without a reply, lead to what is wanted.
WiredAt(wanted, q, again, c) ==
  IF wanted
  THEN /\ again \/ \E i \in 1..Len(q) : Asks(q, i, "sub", c)
       /\ \A i \in 1..Len(q) : Asks(q, i, "unsub", c) =>
            \E j \in 1..Len(q) : i < j /\ Asks(q, j, "sub", c)
  ELSE /\ again => \E i \in 1..Len(q) : Asks(q, i, "unsub", c)
       /\ \A i \in 1..Len(q) : q[i].channel = c /\ q[i].op # "unsub" =>
            \E j \in 1..Len(q) : i < j /\ Asks(q, j, "unsub", c)

Wired(M, q, K, R) == \A c \in Channels \ R : WiredAt(M[c] # {}, q, c \in K, c)

\* What Redis knows of, and then the commands it has not executed, lead there as well.
HeardAt(wanted, q, d, known, c) ==
  IF wanted
  THEN known \/ \E i \in 1..Len(q) : d < i /\ q[i].channel = c /\ q[i].op # "unsub"
  ELSE known => \E i \in 1..Len(q) : d < i /\ Asks(q, i, "unsub", c)

Heard(M, q, d, A, R) == \A c \in Channels \ R : HeardAt(M[c] # {}, q, d, c \in A, c)

\* Repeated subscriptions come before all other commands.
Repeated(q, K) ==
  /\ \E n \in 0..Len(q) : \A i \in 1..Len(q) : q[i].op = "again" <=> i <= n
  /\ \A i \in 1..Len(q) : q[i].op = "again" => q[i].channel \in K

\* Commands of q subscribe again; channel c is still missing when d of them are executed.
Again(q) == \E i \in 1..Len(q) : q[i].op = "again"
Missing(q, d, c) == \E i \in 1..Len(q) : d < i /\ Asks(q, i, "again", c)

Connected ==
  /\ Wired(members, sent, kept, refused)
  /\ up => Heard(members, sent, done, at, refused)
  /\ Repeated(sent, kept)
  /\ ~up => at = {} /\ done = 0 /\ back = <<>> /\ ~Again(sent)
  /\ up /\ hints = 0 => \A c \in Channels \ late : ~Missing(sent, done, c)

\* Whoever is attached to a channel that is being subscribed waits for it.
Subscribing(q, c) == \E i \in 1..Len(q) : Asks(q, i, "sub", c)

Awaited ==
  \A c \in Channels \ refused : Subscribing(sent, c) /\ members[c] # {} =>
    confirmed[c] = "pending" /\ \A s \in members[c] : c \in stream[s].waits

\* The channels a stream is promised, or will be when the head is read, and from where on.
Due(v) == IF v.pc = "load" THEN v.channels ELSE v.live
From(v, h, c) == IF v.pc = "load" THEN Later(v.base[c], h.value) ELSE v.base[c]

CoveredAt(s) ==
  ~out[s].over =>
    \A c \in Due(stream[s]) \ Excused : \A n \in (From(stream[s], head, c) + 1)..published :
      c \in feed[n] => Reaches(s, n)

Covered == ~Warned => \A s \in Streams : CoveredAt(s)

IInv ==
  /\ Typed /\ (\A s \in Streams : Phased(s)) /\ Paired /\ InOrder
  /\ Connected /\ Awaited /\ Covered
-----------------------------------------------------------------------------
(* Sequences of commands *)

\* SetToSeq lists the elements of a finite set.
LEMMA SetAsSeq ==
  ASSUME NEW S, IsFiniteSet(S)
  PROVE  /\ SetToSeq(S) \in Seq(S)
         /\ \A x \in S : \E i \in 1..Len(SetToSeq(S)) : SetToSeq(S)[i] = x
<1> DEFINE n == Cardinality(S)
           q == SetToSeq(S)
<1>1. n \in Nat /\ ExistsBijection(1..n, S)
  BY FS_CardinalityType
<1>2. PICK g \in [1..n -> S] : IsInjective(g)
  BY <1>1 DEF ExistsBijection, Bijection, Injection
<1>3. q \in [1..n -> S] /\ IsInjective(q)
  BY <1>2 DEF SetToSeq
<1>4. IsFiniteSet(1..n) /\ Cardinality(1..n) = n
  BY <1>1, FS_Interval
<1> HIDE DEF n, q
<1>5. q \in Surjection(1..n, S)
  BY <1>3, <1>4, FS_Injection DEF Injection, n
<1>6. Len(q) = n /\ q \in Seq(S)
  BY <1>1, <1>3
<1>7. \A x \in S : \E i \in 1..n : q[i] = x
  BY <1>5 DEF Surjection
<1> QED
  BY <1>6, <1>7 DEF q

\* A list of commands of one kind: one for each channel of a set, and none besides.
Asking(q, op, C) ==
  /\ q \in Seq(Order)
  /\ \A i \in 1..Len(q) : q[i].op = op /\ q[i].channel \in C
  /\ \A c \in C : \E i \in 1..Len(q) : q[i].channel = c

\* Commands makes such a list.
LEMMA CommandsAsk ==
  ASSUME NEW op \in {"sub", "unsub", "again"}, NEW C \in SUBSET Channels
  PROVE  Asking(Commands(op, C), op, C)
<1> DEFINE order == SetToSeq(C)
           q == [i \in 1..Len(order) |-> [op |-> op, channel |-> order[i]]]
<1>1. IsFiniteSet(C)
  BY HubAssumption, FS_Subset
<1>2. order \in Seq(C) /\ \A c \in C : \E i \in 1..Len(order) : order[i] = c
  BY <1>1, SetAsSeq
<1>3. Commands(op, C) = q
  BY DEF Commands
<1> HIDE DEF order
<1>4. Len(order) \in Nat /\ \A i \in 1..Len(order) : order[i] \in C
  BY <1>2
<1>5. /\ Len(q) = Len(order) /\ q \in Seq(Order)
      /\ \A i \in 1..Len(order) : q[i].op = op /\ q[i].channel = order[i]
  BY <1>4 DEF Order
<1> QED
  BY <1>2, <1>3, <1>4, <1>5 DEF Asking

\* p is q and then r.
Follows(p, q, r) ==
  /\ Len(q) \in Nat /\ Len(r) \in Nat /\ Len(p) = Len(q) + Len(r)
  /\ \A i \in 1..Len(q) : i \in 1..Len(p) /\ p[i] = q[i]
  /\ \A i \in 1..Len(r) :
       \E k \in 1..Len(p) : k = i + Len(q) /\ p[k] = r[i]
  /\ \A k \in 1..Len(p) :
       k \in 1..Len(q) \/ \E i \in 1..Len(r) : k = i + Len(q) /\ p[k] = r[i]

\* Where the elements of two sequences come to stand when they are joined.
LEMMA Joined ==
  ASSUME NEW S, NEW q \in Seq(S), NEW r \in Seq(S)
  PROVE  q \o r \in Seq(S) /\ Follows(q \o r, q, r)
<1> DEFINE p == q \o r
<1>1. p \in Seq(S) /\ Len(p) = Len(q) + Len(r) /\ Len(q) \in Nat /\ Len(r) \in Nat
  OBVIOUS
<1>2. \A i \in 1..Len(q) : i \in 1..Len(p) /\ p[i] = q[i]
  BY <1>1
<1>3. ASSUME NEW i \in 1..Len(r)
      PROVE  i + Len(q) \in 1..Len(p) /\ p[i + Len(q)] = r[i]
  BY <1>1
<1>4. ASSUME NEW k \in 1..Len(p), k \notin 1..Len(q)
      PROVE  \E i \in 1..Len(r) : k = i + Len(q) /\ p[k] = r[i]
  <2>1. k - Len(q) \in 1..Len(r) /\ k = (k - Len(q)) + Len(q)
    BY <1>1, <1>4
  <2> QED
    BY <1>3, <2>1
<1> HIDE DEF p
<1> QED
  BY <1>1, <1>2, <1>3, <1>4 DEF Follows, p

-----------------------------------------------------------------------------
(* The connection *)

\* Commands that do not name a channel change nothing for it.
LEMMA WiredKeeps ==
  ASSUME NEW p, NEW q, NEW r, Follows(p, q, r), NEW c, \A i \in 1..Len(r) : r[i].channel # c
  PROVE  /\ \A w, k : WiredAt(w, q, k, c) => WiredAt(w, p, k, c)
         /\ \A w, d, k : HeardAt(w, q, d, k, c) => HeardAt(w, p, d, k, c)
<1>1. \A i \in 1..Len(p) : p[i].channel = c => i \in 1..Len(q) /\ p[i] = q[i]
  <2> TAKE i \in 1..Len(p)
  <2>1. i \in 1..Len(q) \/ \E l \in 1..Len(r) : p[i] = r[l]
    BY DEF Follows
  <2>2. i \in 1..Len(q) => p[i] = q[i]
    BY DEF Follows
  <2> QED
    BY <2>1, <2>2
<1>2. \A i \in 1..Len(q) : i \in 1..Len(p) /\ p[i] = q[i]
  BY DEF Follows
<1>3. ASSUME NEW w, NEW k, WiredAt(w, q, k, c)
      PROVE  WiredAt(w, p, k, c)
  <2>1. CASE w
    BY <1>1, <1>2, <1>3, <2>1 DEF WiredAt, Asks
  <2>2. CASE ~w
    BY <1>1, <1>2, <1>3, <2>2 DEF WiredAt, Asks
  <2> QED
    BY <2>1, <2>2
<1>4. ASSUME NEW w, NEW d, NEW k, HeardAt(w, q, d, k, c)
      PROVE  HeardAt(w, p, d, k, c)
  <2>1. CASE w
    BY <1>2, <1>4, <2>1 DEF HeardAt, Asks
  <2>2. CASE ~w
    BY <1>2, <1>4, <2>2 DEF HeardAt, Asks
  <2> QED
    BY <2>1, <2>2
<1> QED
  BY <1>3, <1>4

\* A command that is sent last settles what becomes of a channel.
LEMMA WiredAdds ==
  ASSUME NEW p, NEW q, NEW r, Follows(p, q, r), NEW c, NEW op \in {"sub", "unsub"},
         \A i \in 1..Len(r) : r[i].op = op, \E i \in 1..Len(r) : r[i].channel = c
  PROVE  \A w, k : (w <=> (op = "sub")) =>
           WiredAt(w, p, k, c) /\ \A d \in 0..Len(q) : HeardAt(w, p, d, k, c)
<1>1. PICK n \in 1..Len(p) : n > Len(q) /\ p[n].op = op /\ p[n].channel = c
  <2>1. PICK i \in 1..Len(r) : r[i].channel = c
    OBVIOUS
  <2>2. PICK k \in 1..Len(p) : k = i + Len(q) /\ p[k] = r[i]
    BY DEF Follows
  <2>3. k > Len(q)
    BY <2>2 DEF Follows
  <2> QED
    BY <2>1, <2>2, <2>3
<1>2. \A i \in 1..Len(p) : p[i].op # op => i \in 1..Len(q)
  <2> TAKE i \in 1..Len(p)
  <2>1. i \in 1..Len(q) \/ \E l \in 1..Len(r) : p[i] = r[l]
    BY DEF Follows
  <2> QED
    BY <2>1
<1>3. Len(q) \in Nat /\ Len(p) \in Nat
  BY DEF Follows
<1>4. CASE op = "sub"
  <2>1. \A i \in 1..Len(p) : Asks(p, i, "unsub", c) => i < n
    BY <1>1, <1>2, <1>3, <1>4 DEF Asks
  <2> QED
    BY <1>1, <1>3, <1>4, <2>1 DEF WiredAt, HeardAt, Asks
<1>5. CASE op = "unsub"
  <2>1. \A i \in 1..Len(p) : p[i].op # "unsub" => i < n
    BY <1>1, <1>2, <1>3, <1>5
  <2> QED
    BY <1>1, <1>3, <1>5, <2>1 DEF WiredAt, HeardAt, Asks
<1> QED
  BY <1>4, <1>5

\* The first command is answered.
LEMMA WiredTakes ==
  ASSUME NEW p, NEW q, NEW h, Follows(q, h, p), Len(h) = 1, NEW c
  PROVE  /\ \A w, k, l : WiredAt(w, q, k, c)
                         /\ (l <=> IF q[1].channel = c THEN q[1].op # "unsub" ELSE k)
                         => WiredAt(w, p, l, c)
         /\ \A w, k : \A d \in Nat \ {0} : HeardAt(w, q, d, k, c) => HeardAt(w, p, d - 1, k, c)
<1>1. /\ Len(p) \in Nat /\ Len(q) = Len(p) + 1
      /\ \A i \in 1..Len(p) : i + 1 \in 1..Len(q) /\ p[i] = q[i + 1]
      /\ \A k \in 1..Len(q) : k > 1 => k - 1 \in 1..Len(p) /\ p[k - 1] = q[k]
  <2>1. \A i \in 1..Len(p) : i + 1 \in 1..Len(q) /\ p[i] = q[i + 1]
    BY DEF Follows
  <2>2. Len(p) \in Nat /\ Len(q) = Len(p) + 1
    BY DEF Follows
  <2>3. ASSUME NEW k \in 1..Len(q), k > 1
        PROVE  k - 1 \in 1..Len(p) /\ p[k - 1] = q[k]
    <3>1. k - 1 \in 1..Len(p) /\ (k - 1) + 1 = k
      BY <2>2, <2>3
    <3> QED
      BY <2>1, <3>1
  <2> QED
    BY <2>1, <2>2, <2>3
<1>2. ASSUME NEW w, NEW k, NEW l, WiredAt(w, q, k, c),
             l <=> IF q[1].channel = c THEN q[1].op # "unsub" ELSE k
      PROVE  WiredAt(w, p, l, c)
  <2>1. CASE w
    <3>1. l \/ \E i \in 1..Len(p) : Asks(p, i, "sub", c)
      <4>1. CASE k
        <5>1. CASE q[1].channel = c /\ q[1].op = "unsub"
          <6>1. PICK j \in 1..Len(q) : 1 < j /\ Asks(q, j, "sub", c)
            BY <1>1, <1>2, <2>1, <5>1 DEF WiredAt, Asks
          <6> QED
            BY <1>1, <6>1 DEF Asks
        <5> QED
          BY <1>2, <4>1, <5>1
      <4>2. CASE ~k
        <5>1. PICK i \in 1..Len(q) : Asks(q, i, "sub", c)
          BY <1>2, <2>1, <4>2 DEF WiredAt
        <5>2. CASE i = 1
          BY <1>2, <5>1, <5>2 DEF Asks
        <5>3. CASE i > 1
          BY <1>1, <5>1, <5>3 DEF Asks
        <5> QED
          BY <1>1, <5>2, <5>3
      <4> QED
        BY <4>1, <4>2
    <3>2. ASSUME NEW i \in 1..Len(p), Asks(p, i, "unsub", c)
          PROVE  \E j \in 1..Len(p) : i < j /\ Asks(p, j, "sub", c)
      <4>1. PICK j \in 1..Len(q) : i + 1 < j /\ Asks(q, j, "sub", c)
        BY <1>1, <1>2, <2>1, <3>2 DEF WiredAt, Asks
      <4> QED
        BY <1>1, <4>1 DEF Asks
    <3> QED
      BY <2>1, <3>1, <3>2 DEF WiredAt
  <2>2. CASE ~w
    <3>1. ASSUME l
          PROVE  \E i \in 1..Len(p) : Asks(p, i, "unsub", c)
      <4>1. PICK j \in 1..Len(q) : Asks(q, j, "unsub", c)
        BY <1>1, <1>2, <2>2, <3>1 DEF WiredAt
      <4>2. CASE j > 1
        BY <1>1, <4>1, <4>2 DEF Asks
      <4>3. CASE j = 1
        BY <1>2, <3>1, <4>1, <4>3 DEF Asks
      <4> QED
        BY <1>1, <4>2, <4>3
    <3>2. ASSUME NEW i \in 1..Len(p), p[i].channel = c, p[i].op # "unsub"
          PROVE  \E j \in 1..Len(p) : i < j /\ Asks(p, j, "unsub", c)
      <4>1. PICK j \in 1..Len(q) : i + 1 < j /\ Asks(q, j, "unsub", c)
        BY <1>1, <1>2, <2>2, <3>2 DEF WiredAt
      <4> QED
        BY <1>1, <4>1 DEF Asks
    <3> QED
      BY <2>2, <3>1, <3>2 DEF WiredAt
  <2> QED
    BY <2>1, <2>2
<1>3. ASSUME NEW w, NEW k, NEW d \in Nat \ {0}, HeardAt(w, q, d, k, c)
      PROVE  HeardAt(w, p, d - 1, k, c)
  <2>1. CASE w
    BY <1>1, <1>3, <2>1 DEF HeardAt
  <2>2. CASE ~w
    BY <1>1, <1>3, <2>2 DEF HeardAt, Asks
  <2> QED
    BY <2>1, <2>2
<1> QED
  BY <1>2, <1>3

\* Redis executes a command.
LEMMA HeardExecutes ==
  ASSUME NEW q, NEW d \in Nat, d < Len(q), Len(q) \in Nat, NEW c, NEW w, NEW k, NEW a, NEW b,
         WiredAt(w, q, k, c), HeardAt(w, q, d, a, c),
         b <=> IF q[d + 1].channel = c THEN q[d + 1].op # "unsub" ELSE a
  PROVE  HeardAt(w, q, d + 1, b, c)
<1>1. d + 1 \in 1..Len(q) /\ \A i \in 1..Len(q) : d < i /\ i # d + 1 => d + 1 < i
  OBVIOUS
<1>2. CASE w
  <2>1. CASE q[d + 1].channel = c /\ q[d + 1].op = "unsub"
    BY <1>1, <1>2, <2>1 DEF WiredAt, HeardAt, Asks
  <2>2. CASE ~(q[d + 1].channel = c /\ q[d + 1].op = "unsub")
    BY <1>1, <1>2, <2>2 DEF HeardAt
  <2> QED
    BY <2>1, <2>2
<1>3. CASE ~w
  <2>1. CASE q[d + 1].channel = c /\ q[d + 1].op # "unsub"
    BY <1>1, <1>3, <2>1 DEF WiredAt, HeardAt
  <2>2. CASE ~(q[d + 1].channel = c /\ q[d + 1].op # "unsub")
    BY <1>1, <1>3, <2>2 DEF HeardAt, Asks
  <2> QED
    BY <2>1, <2>2
<1> QED
  BY <1>2, <1>3

\* The repeated subscriptions at the head are dropped, or put there.
LEMMA WiredRepeats ==
  ASSUME NEW p, NEW q, NEW h, Follows(q, h, p), \A i \in 1..Len(h) : h[i].op = "again",
         NEW c, NEW w, NEW k
  PROVE  /\ WiredAt(w, q, k, c) => WiredAt(w, p, k, c)
         /\ (\A i \in 1..Len(h) : h[i].channel = c => k) /\ WiredAt(w, p, k, c)
              => WiredAt(w, q, k, c)
         /\ WiredAt(w, p, k, c) /\ (k => \E i \in 1..Len(h) : h[i].channel = c)
              => HeardAt(w, q, 0, FALSE, c)
<1> DEFINE l == Len(h)
<1>1. l \in Nat /\ Len(p) \in Nat /\ Len(q) = l + Len(p)
  BY DEF Follows
<1>2. \A i \in 1..Len(p) : i + l \in 1..Len(q) /\ q[i + l] = p[i]
  BY DEF Follows
<1>3. ASSUME NEW j \in 1..Len(q), j \notin 1..l
      PROVE  j - l \in 1..Len(p) /\ p[j - l] = q[j] /\ (j - l) + l = j
  <2>1. j - l \in 1..Len(p) /\ (j - l) + l = j
    BY <1>1, <1>3
  <2> QED
    BY <1>2, <2>1
<1>4. \A j \in 1..l : j \in 1..Len(q) /\ q[j] = h[j] /\ q[j].op = "again"
  BY DEF Follows
<1> HIDE DEF l
<1>5. ASSUME NEW i \in 1..Len(p), NEW op, NEW x,
             \E j \in 1..Len(q) : i + l < j /\ Asks(q, j, op, x), op # "again"
      PROVE  \E j \in 1..Len(p) : i < j /\ Asks(p, j, op, x)
  <2>1. PICK j \in 1..Len(q) : i + l < j /\ q[j].op = op /\ q[j].channel = x
    BY <1>5 DEF Asks
  <2>2. j - l \in 1..Len(p) /\ p[j - l] = q[j] /\ i < j - l
    BY <1>1, <1>3, <2>1
  <2> QED
    BY <2>1, <2>2 DEF Asks
<1>6. ASSUME NEW i \in 1..Len(p), NEW op, NEW x,
             \E j \in 1..Len(p) : i < j /\ Asks(p, j, op, x)
      PROVE  \E j \in 1..Len(q) : i + l < j /\ Asks(q, j, op, x)
  <2>1. PICK j \in 1..Len(p) : i < j /\ p[j].op = op /\ p[j].channel = x
    BY <1>6 DEF Asks
  <2>2. j + l \in 1..Len(q) /\ q[j + l] = p[j] /\ i + l < j + l
    BY <1>1, <1>2, <2>1
  <2> QED
    BY <2>1, <2>2 DEF Asks
<1>7. ASSUME NEW op, NEW x, op # "again"
      PROVE  (\E j \in 1..Len(q) : Asks(q, j, op, x)) <=> \E i \in 1..Len(p) : Asks(p, i, op, x)
  <2>1. ASSUME NEW j \in 1..Len(q), Asks(q, j, op, x)
        PROVE  \E i \in 1..Len(p) : Asks(p, i, op, x)
    <3>1. j - l \in 1..Len(p) /\ p[j - l] = q[j]
      BY <1>3, <1>4, <1>7, <2>1 DEF Asks
    <3> QED
      BY <2>1, <3>1 DEF Asks
  <2>2. ASSUME NEW i \in 1..Len(p), Asks(p, i, op, x)
        PROVE  \E j \in 1..Len(q) : Asks(q, j, op, x)
    BY <1>2, <2>2 DEF Asks
  <2> QED
    BY <2>1, <2>2
<1>8. ASSUME WiredAt(w, q, k, c)
      PROVE  WiredAt(w, p, k, c)
  <2>1. CASE w
    <3>1. ASSUME NEW i \in 1..Len(p), Asks(p, i, "unsub", c)
          PROVE  \E j \in 1..Len(p) : i < j /\ Asks(p, j, "sub", c)
      <4>1. i + l \in 1..Len(q) /\ Asks(q, i + l, "unsub", c)
        BY <1>2, <3>1 DEF Asks
      <4>2. \E j \in 1..Len(q) : i + l < j /\ Asks(q, j, "sub", c)
        BY <1>8, <2>1, <4>1 DEF WiredAt
      <4> QED
        BY <1>5, <4>2
    <3> QED
      BY <1>7, <1>8, <2>1, <3>1 DEF WiredAt
  <2>2. CASE ~w
    <3>1. ASSUME NEW i \in 1..Len(p), p[i].channel = c, p[i].op # "unsub"
          PROVE  \E j \in 1..Len(p) : i < j /\ Asks(p, j, "unsub", c)
      <4>1. i + l \in 1..Len(q) /\ q[i + l].channel = c /\ q[i + l].op # "unsub"
        BY <1>2, <3>1
      <4>2. \E j \in 1..Len(q) : i + l < j /\ Asks(q, j, "unsub", c)
        BY <1>8, <2>2, <4>1 DEF WiredAt
      <4> QED
        BY <1>5, <4>2
    <3> QED
      BY <1>7, <1>8, <2>2, <3>1 DEF WiredAt
  <2> QED
    BY <2>1, <2>2
<1>9. ASSUME \A i \in 1..l : h[i].channel = c => k, WiredAt(w, p, k, c)
      PROVE  WiredAt(w, q, k, c)
  <2>1. CASE w
    <3>1. ASSUME NEW j \in 1..Len(q), Asks(q, j, "unsub", c)
          PROVE  \E i \in 1..Len(q) : j < i /\ Asks(q, i, "sub", c)
      <4>1. j - l \in 1..Len(p) /\ Asks(p, j - l, "unsub", c) /\ (j - l) + l = j
        BY <1>3, <1>4, <3>1 DEF Asks
      <4>2. \E i \in 1..Len(p) : j - l < i /\ Asks(p, i, "sub", c)
        BY <1>9, <2>1, <4>1 DEF WiredAt
      <4> QED
        BY <1>6, <4>1, <4>2
    <3> QED
      BY <1>7, <1>9, <2>1, <3>1 DEF WiredAt
  <2>2. CASE ~w
    <3>1. ASSUME NEW j \in 1..Len(q), q[j].channel = c, q[j].op # "unsub"
          PROVE  \E i \in 1..Len(q) : j < i /\ Asks(q, i, "unsub", c)
      <4>1. CASE j \in 1..l
        <5>1. k
          BY <1>4, <1>9, <3>1, <4>1
        <5>2. PICK i \in 1..Len(p) : Asks(p, i, "unsub", c)
          BY <1>9, <2>2, <5>1 DEF WiredAt
        <5>3. i + l \in 1..Len(q) /\ j < i + l /\ Asks(q, i + l, "unsub", c)
          BY <1>1, <1>2, <4>1, <5>2 DEF Asks
        <5> QED
          BY <5>3
      <4>2. CASE j \notin 1..l
        <5>1. j - l \in 1..Len(p) /\ p[j - l] = q[j] /\ (j - l) + l = j
          BY <1>3, <4>2
        <5>2. \E i \in 1..Len(p) : j - l < i /\ Asks(p, i, "unsub", c)
          BY <1>9, <2>2, <3>1, <5>1 DEF WiredAt
        <5> QED
          BY <1>6, <5>1, <5>2
      <4> QED
        BY <4>1, <4>2
    <3> QED
      BY <1>7, <1>9, <2>2, <3>1 DEF WiredAt
  <2> QED
    BY <2>1, <2>2
<1>10. ASSUME WiredAt(w, p, k, c), k => \E i \in 1..l : h[i].channel = c
      PROVE  HeardAt(w, q, 0, FALSE, c)
  <2>1. CASE w
    <3>1. CASE k
      BY <1>1, <1>4, <1>10, <2>1, <3>1 DEF HeardAt
    <3>2. CASE ~k
      <4>1. \E j \in 1..Len(q) : Asks(q, j, "sub", c)
        BY <1>7, <1>10, <2>1, <3>2 DEF WiredAt
      <4> QED
        BY <1>1, <2>1, <4>1 DEF HeardAt, Asks
    <3> QED
      BY <3>1, <3>2
  <2>2. CASE ~w
    BY <2>2 DEF HeardAt
  <2> QED
    BY <2>1, <2>2
<1> QED
  BY <1>8, <1>9, <1>10 DEF l

-----------------------------------------------------------------------------
(* What the steps do *)

\* A stream goes: the gateway is done with it.
Leaves(s) ==
  /\ DetachAll(s)
  /\ End({s})
  /\ UNCHANGED <<source, hints, head, faults>>

\* The steps, one by one.
LEMMA EachStep ==
  ASSUME [Next]_vars
  PROVE  \/ UNCHANGED vars
         \/ Number \/ Publish \/ Execute \/ Acknowledge \/ Refuse \/ Message \/ Break \/ Mend
         \/ Hint \/ LoadEnds
         \/ \E s \in Streams : Connect(s)
         \/ \E s \in Streams : Ready(s)
         \/ \E s \in Streams : Write(s)
         \/ \E s \in Streams : Leaves(s)
         \/ \E s \in Streams : ScopesLive(s)
         \/ \E s \in Streams : \E c \in Channels : AddScope(s, c)
  BY DEF Next, Redis, Gateway, Leaves, Resync, Disconnect

\* A stream is attached to the channels of C, and those nobody had are subscribed.
LEMMA AttachEffect ==
  ASSUME Typed, NEW s \in Streams, NEW C \in SUBSET Channels, Attach(s, C)
  PROVE  /\ members' \in [Channels -> SUBSET Streams]
         /\ \A c \in Channels :
              members'[c] = IF c \in C THEN members[c] \cup {s} ELSE members[c]
         /\ confirmed' \in [Channels -> {"no", "pending", "yes"}]
         /\ \A c \in Channels : confirmed'[c] = IF c \in C /\ members[c] = {} THEN "pending"
                                                ELSE confirmed[c]
         /\ \E more : /\ Asking(more, "sub", {c \in C : members[c] = {}})
                      /\ sent' \in Seq(Order) /\ Follows(sent', sent, more)
         /\ UNCHANGED <<up, done, back, kept, at>>
<1> DEFINE opens == {c \in C : members[c] = {}}
<1>1. sent' = sent \o Commands("sub", opens) /\ UNCHANGED <<up, done, back, kept, at>>
  BY DEF Attach
<1>2. Asking(Commands("sub", opens), "sub", opens)
  BY CommandsAsk
<1>3. sent' \in Seq(Order) /\ Follows(sent', sent, Commands("sub", opens))
  BY <1>1, <1>2, Joined DEF Asking, Typed
<1>4. /\ members' \in [Channels -> SUBSET Streams]
      /\ \A c \in Channels :
           members'[c] = IF c \in C THEN members[c] \cup {s} ELSE members[c]
  BY DEF Attach, Typed
<1>5. /\ confirmed' \in [Channels -> {"no", "pending", "yes"}]
      /\ \A c \in Channels : confirmed'[c] = IF c \in C /\ members[c] = {} THEN "pending"
                                             ELSE confirmed[c]
  BY DEF Attach, Typed
<1> QED
  BY <1>1, <1>2, <1>3, <1>4, <1>5

\* The streams of D go; what only they were attached to is unsubscribed.
LEMMA LeftEffect ==
  ASSUME Typed, NEW D \in SUBSET Streams, NEW q \in Seq(Order)
  PROVE  \E more : /\ Asking(more, "unsub", LeftBy(D)) /\ more = Unsubscribe(LeftBy(D))
                   /\ q \o more \in Seq(Order) /\ Follows(q \o more, q, more)
<1>1. LeftBy(D) \in SUBSET Channels
  BY DEF LeftBy
<1>2. Asking(Unsubscribe(LeftBy(D)), "unsub", LeftBy(D))
  BY <1>1, CommandsAsk DEF Unsubscribe
<1> QED
  BY <1>2, Joined DEF Asking

\* What a stream that goes leaves behind.
LEMMA LeavesEffect ==
  ASSUME Typed, NEW s \in Streams, Leaves(s)
  PROVE  /\ members' = [c \in Channels |-> members[c] \ {s}]
         /\ confirmed' = [c \in Channels |-> IF c \in LeftBy({s}) THEN "no" ELSE confirmed[c]]
         /\ \E more : /\ Asking(more, "unsub", LeftBy({s}))
                      /\ sent' \in Seq(Order) /\ Follows(sent', sent, more)
         /\ stream' = [r \in Streams |-> IF r = s THEN Nobody("closed") ELSE stream[r]]
         /\ out' = [r \in Streams |-> IF r = s THEN Empty ELSE out[r]]
         /\ UNCHANGED <<up, done, back, kept, at, source, hints, head, faults>>
<1>1. /\ members' = [c \in Channels |-> members[c] \ {s}]
      /\ confirmed' = [c \in Channels |-> IF c \in LeftBy({s}) THEN "no" ELSE confirmed[c]]
      /\ sent' = sent \o Unsubscribe(LeftBy({s}))
      /\ UNCHANGED <<up, done, back, kept, at, source, hints, head, faults>>
  BY DEF Leaves, DetachAll
<1>2. /\ stream' = [r \in Streams |-> IF r = s THEN Nobody("closed") ELSE stream[r]]
      /\ out' = [r \in Streams |-> IF r = s THEN Empty ELSE out[r]]
  BY DEF Leaves, End
<1>3. {s} \in SUBSET Streams /\ sent \in Seq(Order)
  BY DEF Typed
<1> QED
  BY <1>1, <1>2, <1>3, LeftEffect

\* The first letter is a reply: it is that of the first command.
LEMMA FirstReply ==
  ASSUME Typed, Paired, back # <<>>, Head(back).kind # "event"
  PROVE  /\ done \in Nat \ {0} /\ sent # <<>>
         /\ Head(back).channel = sent[1].channel /\ Head(back).op = sent[1].op
         /\ Follows(sent, <<sent[1]>>, Tail(sent)) /\ Tail(sent) \in Seq(Order)
         /\ \E f : Answers(f, Tail(sent), done - 1, Tail(back))
<1>1. PICK f : Answers(f, sent, done, back)
  BY DEF Paired
<1>2. /\ Len(back) \in Nat \ {0} /\ Head(back) = back[1] /\ done \in Nat /\ done <= Len(sent)
      /\ Len(sent) \in Nat
  BY DEF Typed
<1>3. PICK m \in 1..done : f[m] = 1
  BY <1>1, <1>2 DEF Answers
<1>4. f \in [1..done -> 1..Len(back)] /\ \A i, j \in 1..done : i < j => f[i] < f[j]
  BY <1>1 DEF Answers
<1>5. m = 1 /\ 1 \in 1..done
  <2>1. 1 \in 1..done /\ f[1] >= 1
    BY <1>2, <1>3, <1>4
  <2> QED
    BY <1>2, <1>3, <1>4, <2>1
<1>6. /\ done \in Nat \ {0} /\ sent # <<>>
      /\ Head(back).channel = sent[1].channel /\ Head(back).op = sent[1].op
  BY <1>1, <1>2, <1>3, <1>5 DEF Answers
<1>7. /\ Tail(sent) \in Seq(Order) /\ Len(Tail(sent)) = Len(sent) - 1
      /\ \A i \in 1..(Len(sent) - 1) : Tail(sent)[i] = sent[i + 1]
  BY <1>6 DEF Typed
<1>8. Follows(sent, <<sent[1]>>, Tail(sent))
  <2>1. ASSUME NEW k \in 1..Len(sent), k # 1
        PROVE  k - 1 \in 1..Len(Tail(sent)) /\ k = (k - 1) + 1 /\ sent[k] = Tail(sent)[k - 1]
    BY <1>2, <1>7, <2>1
  <2>2. ASSUME NEW i \in 1..Len(Tail(sent))
        PROVE  i + 1 \in 1..Len(sent) /\ sent[i + 1] = Tail(sent)[i]
    BY <1>2, <1>7
  <2>3. Len(<<sent[1]>>) = 1 /\ <<sent[1]>>[1] = sent[1]
    OBVIOUS
  <2> QED
    BY <1>2, <1>6, <1>7, <2>1, <2>2, <2>3 DEF Follows
<1>9. /\ Len(Tail(back)) = Len(back) - 1
      /\ \A k \in 1..(Len(back) - 1) : Tail(back)[k] = back[k + 1]
  BY <1>2 DEF Typed
<1> DEFINE g == [i \in 1..(done - 1) |-> f[i + 1] - 1]
<1>10. \A i \in 1..(done - 1) : i + 1 \in 1..done /\ f[i + 1] \in 2..Len(back)
  BY <1>2, <1>3, <1>4, <1>5, <1>6
<1>11. \A i \in 1..(done - 1) : g[i] \in 1..Len(Tail(back)) /\ g[i] + 1 = f[i + 1]
  BY <1>2, <1>9, <1>10
<1>12. Answers(g, Tail(sent), done - 1, Tail(back))
  <2>1. g \in [1..(done - 1) -> 1..Len(Tail(back))]
    BY <1>11
  <2>2. \A i, j \in 1..(done - 1) : i < j => g[i] < g[j]
    BY <1>2, <1>4, <1>10, <1>11
  <2>3. ASSUME NEW i \in 1..(done - 1)
        PROVE  /\ Tail(back)[g[i]].kind # "event"
               /\ Tail(back)[g[i]].channel = Tail(sent)[i].channel
               /\ Tail(back)[g[i]].op = Tail(sent)[i].op
    <3>1. Tail(back)[g[i]] = back[f[i + 1]]
      BY <1>9, <1>11
    <3>2. Tail(sent)[i] = sent[i + 1]
      BY <1>2, <1>6, <1>7
    <3>3. i + 1 \in 1..done
      BY <1>10
    <3>4. /\ back[f[i + 1]].kind # "event"
          /\ back[f[i + 1]].channel = sent[i + 1].channel /\ back[f[i + 1]].op = sent[i + 1].op
      BY <1>1, <3>3 DEF Answers
    <3> QED
      BY <3>1, <3>2, <3>4
  <2>4. ASSUME NEW k \in 1..Len(Tail(back)), Tail(back)[k].kind # "event"
        PROVE  \E i \in 1..(done - 1) : g[i] = k
    <3>1. k + 1 \in 1..Len(back) /\ back[k + 1].kind # "event"
      BY <1>2, <1>9, <2>4
    <3>2. PICK j \in 1..done : f[j] = k + 1
      BY <1>1, <3>1 DEF Answers
    <3>3. j # 1 /\ j - 1 \in 1..(done - 1) /\ (j - 1) + 1 = j
      <4>1. f[1] = 1 /\ k + 1 # 1
        BY <1>2, <1>3, <1>5, <1>9, <2>4
      <4> QED
        BY <1>2, <3>2, <4>1
    <3> QED
      BY <1>11, <3>2, <3>3
  <2> HIDE DEF g
  <2> QED
    BY <2>1, <2>2, <2>3, <2>4 DEF Answers
<1> QED
  BY <1>6, <1>7, <1>8, <1>12

\* An acknowledgement is that of the first command.
LEMMA AcknowledgeEffect ==
  ASSUME Typed, Paired, Acknowledge
  PROVE  \E c \in Channels :
           /\ c = sent[1].channel /\ c = Head(back).channel /\ back # <<>>
           /\ done \in Nat \ {0} /\ Follows(sent, <<sent[1]>>, sent')
           /\ back' = Tail(back) /\ sent' = Tail(sent) /\ done' = done - 1
           /\ kept' = IF sent[1].op = "unsub" THEN kept \ {c} ELSE kept \cup {c}
           /\ \/ /\ sent[1].op = "sub" /\ ~Superseded(c)
                 /\ confirmed' = [confirmed EXCEPT ![c] = IF @ = "pending" THEN "yes" ELSE @]
                 /\ stream' = [s \in Streams |-> [stream[s] EXCEPT !.waits = @ \ {c}]]
              \/ /\ sent[1].op # "sub" \/ Superseded(c)
                 /\ UNCHANGED <<confirmed, stream>>
           /\ UNCHANGED <<source, members, up, at, hints, out, head, faults>>
           /\ sent' \in Seq(Order) /\ \E f : Answers(f, sent', done', back')
<1>1. back # <<>> /\ Head(back).kind = "ok"
  BY DEF Acknowledge
<1>2. /\ done \in Nat \ {0} /\ sent # <<>>
      /\ Head(back).channel = sent[1].channel /\ Head(back).op = sent[1].op
      /\ Follows(sent, <<sent[1]>>, Tail(sent)) /\ Tail(sent) \in Seq(Order)
      /\ \E f : Answers(f, Tail(sent), done - 1, Tail(back))
  BY <1>1, FirstReply
<1>3. Take(<<>>)
  BY DEF Acknowledge
<1>4. back' = Tail(back) /\ sent' = Tail(sent) /\ done' = done - 1 /\ UNCHANGED <<up, at>>
  BY <1>2, <1>3 DEF Take
<1> DEFINE c == Head(back).channel
<1>5. c \in Channels
  <2>1. sent[1] \in Order
    BY <1>2 DEF Typed
  <2> QED
    BY <1>2, <2>1 DEF Order
<1>6. /\ kept' = IF Head(back).op = "unsub" THEN kept \ {c} ELSE kept \cup {c}
      /\ \/ /\ Head(back).op = "sub" /\ ~Superseded(c)
            /\ confirmed' = [confirmed EXCEPT ![c] = IF @ = "pending" THEN "yes" ELSE @]
            /\ stream' = [s \in Streams |-> [stream[s] EXCEPT !.waits = @ \ {c}]]
         \/ /\ Head(back).op # "sub" \/ Superseded(c)
            /\ UNCHANGED <<confirmed, stream>>
      /\ UNCHANGED <<source, members, hints, out, head, faults>>
  BY DEF Acknowledge
<1>7. c = sent[1].channel /\ c = Head(back).channel
  BY <1>2
<1> HIDE DEF c
<1>8. /\ c = sent[1].channel /\ c = Head(back).channel /\ back # <<>>
      /\ done \in Nat \ {0} /\ Follows(sent, <<sent[1]>>, sent')
      /\ back' = Tail(back) /\ sent' = Tail(sent) /\ done' = done - 1
      /\ UNCHANGED <<up, at>>
      /\ sent' \in Seq(Order) /\ \E f : Answers(f, sent', done', back')
  BY <1>1, <1>2, <1>4, <1>7
<1> QED
  BY <1>2, <1>5, <1>6, <1>8

\* A refusal is that of the first command; the streams that waited for it go.
LEMMA RefuseEffect ==
  ASSUME Typed, Paired, Refuse
  PROVE  \E c \in Channels : \E D \in SUBSET Streams : \E more :
           /\ c = sent[1].channel /\ D \subseteq Waiting(c) /\ c \in refused /\ back # <<>>
           /\ Head(back).kind = "error"
           /\ done \in Nat \ {0} /\ Follows(sent, <<sent[1]>>, Tail(sent))
           /\ Tail(sent) \in Seq(Order)
           /\ members' = [d \in Channels |-> members[d] \ D]
           /\ confirmed' = [d \in Channels |-> IF d \in LeftBy(D) \cup {c} THEN "no"
                                                                          ELSE confirmed[d]]
           /\ Asking(more, "unsub", LeftBy(D))
           /\ sent' \in Seq(Order) /\ Follows(sent', Tail(sent), more)
           /\ back' = Tail(back) /\ done' = done - 1
           /\ stream' = [s \in Streams |-> IF s \in D THEN Nobody("closed") ELSE stream[s]]
           /\ out' = [s \in Streams |-> IF s \in D THEN Empty ELSE out[s]]
           /\ UNCHANGED <<source, up, at, kept, hints, head, faults>>
           /\ \E f : Answers(f, Tail(sent), done', back')
<1> DEFINE c == Head(back).channel
           D == IF Superseded(c) THEN {} ELSE Waiting(c)
<1>1. back # <<>> /\ Head(back).kind = "error"
  BY DEF Refuse
<1>2. /\ done \in Nat \ {0} /\ sent # <<>>
      /\ Head(back).channel = sent[1].channel /\ Head(back).op = sent[1].op
      /\ Follows(sent, <<sent[1]>>, Tail(sent)) /\ Tail(sent) \in Seq(Order)
      /\ \E f : Answers(f, Tail(sent), done - 1, Tail(back))
  BY <1>1, FirstReply
<1>3. Take(Unsubscribe(LeftBy(D)))
  BY DEF Refuse
<1>4. /\ back' = Tail(back) /\ sent' = Tail(sent) \o Unsubscribe(LeftBy(D)) /\ done' = done - 1
      /\ UNCHANGED <<up, at>>
  BY <1>3 DEF Take
<1>5. c \in Channels
  <2>1. sent[1] \in Order
    BY <1>2 DEF Typed
  <2> QED
    BY <1>2, <2>1 DEF Order
<1>6. D \in SUBSET Streams /\ D \subseteq Waiting(c)
  BY DEF Waiting
<1>7. c \in refused
  <2>1. 1 \in 1..Len(back) /\ Head(back) = back[1]
    BY <1>1 DEF Typed
  <2> QED
    BY <1>1, <2>1 DEF Paired
<1>8. /\ members' = [d \in Channels |-> members[d] \ D]
      /\ confirmed' = [d \in Channels |-> IF d \in LeftBy(D) \cup {c} THEN "no" ELSE confirmed[d]]
      /\ End(D)
      /\ UNCHANGED <<source, kept, hints, head, faults>>
  BY DEF Refuse
<1>9. PICK more : /\ Asking(more, "unsub", LeftBy(D)) /\ more = Unsubscribe(LeftBy(D))
                  /\ Tail(sent) \o more \in Seq(Order)
                  /\ Follows(Tail(sent) \o more, Tail(sent), more)
  BY <1>2, <1>6, LeftEffect
<1>10. /\ stream' = [s \in Streams |-> IF s \in D THEN Nobody("closed") ELSE stream[s]]
       /\ out' = [s \in Streams |-> IF s \in D THEN Empty ELSE out[s]]
  BY <1>8 DEF End
<1> HIDE DEF c, D
<1>11. /\ c = sent[1].channel /\ D \subseteq Waiting(c) /\ c \in refused /\ back # <<>>
       /\ Asking(more, "unsub", LeftBy(D))
       /\ sent' \in Seq(Order) /\ Follows(sent', Tail(sent), more)
  BY <1>1, <1>2, <1>4, <1>6, <1>7, <1>9 DEF c
<1> QED
  BY <1>1, <1>2, <1>4, <1>5, <1>6, <1>8, <1>10, <1>11

\* A published event travels to each channel it goes to that Redis knows of.
LEMMA PublishEffect ==
  ASSUME Typed, Publish
  PROVE  \E news \in Seq(Letter) :
           /\ back' \in Seq(Letter) /\ Follows(back', back, news)
           /\ \A i \in 1..Len(news) : /\ news[i].kind = "event" /\ news[i].event = published + 1
                                      /\ news[i].channel \in at
           /\ \A c \in feed[published + 1] \cap at : \E i \in 1..Len(news) : news[i].channel = c
           /\ published + 1 \in 1..Len(feed) /\ published' = published + 1
           /\ UNCHANGED <<feed, hub, up, sent, done, kept, at, hints, stream, out, head, faults>>
<1> DEFINE S == feed[published + 1] \cap at
           to == SetToSeq(S)
           n == published + 1
           news == [i \in 1..Len(to) |-> [kind |-> "event", channel |-> to[i], event |-> n]]
<1>1. IsFiniteSet(S) /\ S \subseteq Channels
  BY HubAssumption, FS_Subset DEF Typed
<1>2. to \in Seq(S) /\ \A c \in S : \E i \in 1..Len(to) : to[i] = c
  BY <1>1, SetAsSeq
<1>3. back' = back \o news
  BY DEF Publish, Messages
<1>4. n \in Nat /\ published + 1 \in 1..Len(feed)
  BY DEF Publish, Typed
<1> HIDE DEF S, to, n
<1>5. Len(to) \in Nat /\ \A i \in 1..Len(to) : to[i] \in Channels /\ to[i] \in S
  BY <1>1, <1>2
<1>6. \A i \in 1..Len(to) : [kind |-> "event", channel |-> to[i], event |-> n] \in Letter
  BY <1>4, <1>5 DEF Letter
<1>7. /\ news \in Seq(Letter) /\ Len(news) = Len(to)
      /\ \A i \in 1..Len(to) : /\ news[i].kind = "event" /\ news[i].event = n
                               /\ news[i].channel = to[i]
  BY <1>5, <1>6
<1> HIDE DEF news
<1>8. back' \in Seq(Letter) /\ Follows(back', back, news)
  BY <1>3, <1>7, Joined DEF Typed
<1>9. \A c \in S : \E i \in 1..Len(news) : news[i].channel = c
  BY <1>2, <1>7
<1>10. \A i \in 1..Len(news) : news[i].channel \in at
  BY <1>5, <1>7 DEF S
<1> QED
  BY <1>4, <1>7, <1>8, <1>9, <1>10 DEF Publish, S, n

-----------------------------------------------------------------------------
(* Types are kept. *)

\* A stream's parts have their types, and so does a stream made of such parts.
LEMMA StreamParts ==
  /\ \A v \in StreamStates : /\ v.pc \in Phases /\ v.channels \in SUBSET Channels
                             /\ v.waits \in SUBSET Channels /\ v.live \in SUBSET Channels
                             /\ v.base \in [Channels -> Nat]
  /\ \A pc \in Phases : \A C, W, L \in SUBSET Channels : \A b \in [Channels -> Nat] :
       /\ Stream(pc, C, W, L, b) \in StreamStates
       /\ Stream(pc, C, W, L, b).pc = pc /\ Stream(pc, C, W, L, b).channels = C
       /\ Stream(pc, C, W, L, b).waits = W /\ Stream(pc, C, W, L, b).live = L
       /\ Stream(pc, C, W, L, b).base = b
  BY DEF StreamStates, Stream

\* One part of a stream is replaced.
LEMMA StreamChanges ==
  ASSUME NEW v \in StreamStates
  PROVE  /\ \A pc \in Phases :
              [v EXCEPT !.pc = pc] = Stream(pc, v.channels, v.waits, v.live, v.base)
         /\ \A W : [v EXCEPT !.waits = W] = Stream(v.pc, v.channels, W, v.live, v.base)
         /\ \A b : [v EXCEPT !.base = b] = Stream(v.pc, v.channels, v.waits, v.live, b)
  BY DEF StreamStates, Stream

\* A stream that is not there is attached to nothing.
LEMMA NobodyParts ==
  ASSUME NEW pc \in Phases
  PROVE  /\ Nobody(pc) \in StreamStates /\ Nobody(pc).pc = pc /\ Nobody(pc).channels = {}
         /\ Nobody(pc).waits = {} /\ Nobody(pc).live = {}
         /\ Empty \in OutStates /\ Empty.queue = <<>> /\ Empty.got = <<>> /\ Empty.over = FALSE
  BY DEF Nobody, Stream, StreamStates, Empty, OutStates

\* What delivering an event does to a stream's queue.
LEMMA EnqueueParts ==
  ASSUME NEW o \in OutStates, NEW n \in Nat
  PROVE  /\ Enqueue(o, n) \in OutStates /\ Enqueue(o, n).got = o.got
         /\ \/ Enqueue(o, n) = o /\ (o.over \/ Ignores(o, n))
            \/ Enqueue(o, n).over /\ Enqueue(o, n).queue = <<>>
            \/ /\ ~o.over /\ ~Ignores(o, n) /\ Len(o.queue) < MaxQueue
               /\ Enqueue(o, n).queue = Append(o.queue, n) /\ ~Enqueue(o, n).over
<1>1. o.queue \in Seq(Nat) /\ o.got \in Seq(Nat) /\ o.over \in BOOLEAN
  BY DEF OutStates
<1>2. CASE o.over \/ Ignores(o, n)
  BY <1>1, <1>2 DEF Enqueue
<1>3. CASE ~(o.over \/ Ignores(o, n)) /\ Full(o)
  <2>1. Enqueue(o, n) = [queue |-> <<>>, over |-> TRUE, got |-> o.got]
    BY <1>3 DEF Enqueue
  <2> QED
    BY <1>1, <2>1 DEF OutStates
<1>4. CASE ~(o.over \/ Ignores(o, n)) /\ ~Full(o)
  <2>1. Enqueue(o, n) = [queue |-> Append(o.queue, n), over |-> FALSE, got |-> o.got]
    BY <1>4 DEF Enqueue
  <2>2. Append(o.queue, n) \in Seq(Nat)
    BY <1>1
  <2>3. Len(o.queue) < MaxQueue
    BY <1>1, <1>4, HubAssumption DEF Full
  <2> QED
    BY <1>1, <1>4, <2>1, <2>2, <2>3 DEF OutStates
<1> QED
  BY <1>2, <1>3, <1>4

\* An event on the connection is one that was numbered.
LEMMA FirstMessage ==
  ASSUME Typed, back # <<>>, Head(back).kind = "event"
  PROVE  Head(back).channel \in Channels /\ Head(back).event \in Nat
<1>1. Head(back) \in Letter
  BY DEF Typed
<1> QED
  BY <1>1 DEF Letter

\* A letter that is written has its type.
LEMMA ReplyType ==
  ASSUME NEW kind \in {"ok", "error"}, NEW order \in Order
  PROVE  /\ Reply(kind, order) \in Letter /\ Reply(kind, order).kind = kind
         /\ Reply(kind, order).channel = order.channel /\ Reply(kind, order).op = order.op
  BY DEF Reply, Letter, Order

\* What executing a command does.
LEMMA ExecuteEffect ==
  ASSUME Typed, Execute
  PROVE  LET order == sent[done + 1] IN
         /\ up /\ done' = done + 1 /\ done + 1 \in 1..Len(sent) /\ order \in Order
         /\ \E kind \in {"ok", "error"} :
              /\ back' = Append(back, Reply(kind, order)) /\ back' \in Seq(Letter)
              /\ kind = "ok" => /\ at' = IF order.op = "unsub" THEN at \ {order.channel}
                                                              ELSE at \cup {order.channel}
                                /\ refused' = refused
              /\ kind = "error" => /\ order.op = "sub" /\ at' = at
                                   /\ refused' = refused \cup {order.channel}
         /\ UNCHANGED <<source, hub, up, sent, kept, hints, stream, out, head, late>>
<1> DEFINE order == sent[done + 1]
<1>1. done + 1 \in 1..Len(sent) /\ done' = done + 1 /\ up
  BY DEF Execute, Typed
<1>2. order \in Order
  BY <1>1 DEF Typed
<1>3. UNCHANGED <<source, hub, up, sent, kept, hints, stream, out, head, late>>
  BY DEF Execute, faults
<1>4. \A kind \in {"ok", "error"} : Append(back, Reply(kind, order)) \in Seq(Letter)
  BY <1>2, ReplyType DEF Typed
<1>5. \/ /\ at' = IF order.op = "unsub" THEN at \ {order.channel} ELSE at \cup {order.channel}
         /\ back' = Append(back, Reply("ok", order)) /\ refused' = refused
      \/ /\ order.op = "sub" /\ at' = at
         /\ refused' = refused \cup {order.channel}
         /\ back' = Append(back, Reply("error", order))
  BY DEF Execute, faults
<1> HIDE DEF order
<1>6. CASE /\ at' = IF order.op = "unsub" THEN at \ {order.channel} ELSE at \cup {order.channel}
           /\ back' = Append(back, Reply("ok", order)) /\ refused' = refused
  BY <1>1, <1>2, <1>3, <1>4, <1>6 DEF order
<1>7. CASE /\ order.op = "sub" /\ at' = at
           /\ refused' = refused \cup {order.channel}
           /\ back' = Append(back, Reply("error", order))
  BY <1>1, <1>2, <1>3, <1>4, <1>7 DEF order
<1> QED
  BY <1>5, <1>6, <1>7

\* Every step keeps the types.
LEMMA TypedKept ==
  ASSUME Typed, Paired, [Next]_vars
  PROVE  Typed'
<1> USE HubAssumption
<1>1. CASE UNCHANGED vars
  BY <1>1 DEF Typed, vars, source, hub, link, faults
<1>2. CASE Number
  <2>1. PICK C \in Routes : feed' = Append(feed, C)
    BY <1>2 DEF Number
  <2>2. feed' \in Seq(SUBSET Channels) /\ Len(feed') = Len(feed) + 1 /\ Len(feed) \in Nat
    BY <2>1 DEF Typed
  <2>3. UNCHANGED <<published, members, confirmed, up, sent, done, back, kept, at, hints, stream,
                    out, head>>
    BY <1>2 DEF Number, hub, link
  <2> QED
    BY <2>2, <2>3 DEF Typed
<1>3. CASE Publish
  <2>1. /\ back' \in Seq(Letter) /\ published + 1 \in 1..Len(feed) /\ published' = published + 1
        /\ UNCHANGED <<feed, members, confirmed, up, sent, done, kept, at, hints, stream, out, head>>
    BY <1>3, PublishEffect DEF hub
  <2> QED
    BY <2>1 DEF Typed
<1>4. CASE Execute
  <2>1. /\ done' = done + 1 /\ done + 1 \in 1..Len(sent) /\ back' \in Seq(Letter)
        /\ at' \subseteq Channels
        /\ UNCHANGED <<feed, published, members, confirmed, up, sent, kept, hints, stream, out, head>>
    BY <1>4, ExecuteEffect DEF Typed, Order, source, hub
  <2> QED
    BY <2>1 DEF Typed
<1>5. CASE Acknowledge
  <2>1. PICK c \in Channels :
          /\ back # <<>> /\ done \in Nat \ {0} /\ Follows(sent, <<sent[1]>>, sent')
          /\ back' = Tail(back) /\ done' = done - 1
          /\ kept' = IF sent[1].op = "unsub" THEN kept \ {c} ELSE kept \cup {c}
          /\ \/ /\ confirmed' = [confirmed EXCEPT ![c] = IF @ = "pending" THEN "yes" ELSE @]
                /\ stream' = [s \in Streams |-> [stream[s] EXCEPT !.waits = @ \ {c}]]
             \/ UNCHANGED <<confirmed, stream>>
          /\ UNCHANGED <<feed, published, members, up, at, hints, out, head>>
          /\ sent' \in Seq(Order)
    BY <1>5, AcknowledgeEffect DEF source
  <2>2. confirmed' \in [Channels -> {"no", "pending", "yes"}]
    BY <2>1 DEF Typed
  <2>3. stream' \in [Streams -> StreamStates]
    <3>1. \A v \in StreamStates : [v EXCEPT !.waits = @ \ {c}] \in StreamStates
      <4> TAKE v \in StreamStates
      <4>1. [v EXCEPT !.waits = v.waits \ {c}] \in StreamStates
        BY StreamChanges, StreamParts
      <4> QED
        BY <4>1
    <3>2. \A s \in Streams : stream[s] \in StreamStates
      BY DEF Typed
    <3>3. CASE stream' = [s \in Streams |-> [stream[s] EXCEPT !.waits = @ \ {c}]]
      BY <3>1, <3>2, <3>3
    <3>4. CASE stream' = stream
      BY <3>4 DEF Typed
    <3> QED
      BY <2>1, <3>3, <3>4
  <2>4. back' \in Seq(Letter) /\ kept' \subseteq Channels
    BY <2>1 DEF Typed
  <2>5. done' \in Nat /\ done' <= Len(sent')
    <3>1. done <= Len(sent)
      BY DEF Typed
    <3>2. /\ done \in Nat \ {0} /\ done' = done - 1 /\ sent' \in Seq(Order)
          /\ Follows(sent, <<sent[1]>>, sent')
      BY <2>1
    <3>3. Len(sent) = Len(<<sent[1]>>) + Len(sent') /\ Len(sent') \in Nat
      BY <3>2 DEF Follows
    <3>4. Len(<<sent[1]>>) = 1
      OBVIOUS
    <3> QED
      BY <3>1, <3>2, <3>3, <3>4
  <2>6. UNCHANGED <<feed, published, members, up, at, hints, out, head>>
    BY <2>1
  <2> QED
    BY <2>2, <2>3, <2>4, <2>5, <2>6, <2>1 DEF Typed
<1>6. CASE Refuse
  <2>1. PICK c \in Channels, D \in SUBSET Streams :
          /\ back # <<>> /\ done \in Nat \ {0} /\ Follows(sent, <<sent[1]>>, Tail(sent))
          /\ members' = [d \in Channels |-> members[d] \ D]
          /\ confirmed' = [d \in Channels |-> IF d \in LeftBy(D) \cup {c} THEN "no"
                                                                          ELSE confirmed[d]]
          /\ sent' \in Seq(Order) /\ \E more : Follows(sent', Tail(sent), more)
          /\ back' = Tail(back) /\ done' = done - 1
          /\ stream' = [s \in Streams |-> IF s \in D THEN Nobody("closed") ELSE stream[s]]
          /\ out' = [s \in Streams |-> IF s \in D THEN Empty ELSE out[s]]
          /\ UNCHANGED <<feed, published, up, at, kept, hints, head>>
    BY <1>6, RefuseEffect DEF source
  <2>2. /\ members' \in [Channels -> SUBSET Streams]
        /\ confirmed' \in [Channels -> {"no", "pending", "yes"}]
    BY <2>1 DEF Typed
  <2>3. stream' \in [Streams -> StreamStates] /\ out' \in [Streams -> OutStates]
    BY <2>1, NobodyParts DEF Typed, Phases
  <2>4. back' \in Seq(Letter)
    BY <2>1 DEF Typed
  <2>5. done' \in Nat /\ done' <= Len(sent')
    BY <2>1 DEF Typed, Follows
  <2> QED
    BY <2>1, <2>2, <2>3, <2>4, <2>5 DEF Typed
<1>7. CASE Message
  <2>1. back # <<>> /\ Head(back).kind = "event" /\ back' = Tail(back)
        /\ Deliver(Head(back).channel, Head(back).event)
        /\ UNCHANGED <<feed, published, members, confirmed, up, sent, done, kept, at, hints, stream,
                       head>>
    BY <1>7 DEF Message, source, hub
  <2>2. Head(back).channel \in Channels /\ Head(back).event \in Nat
    BY <2>1, FirstMessage
  <2>3. out' \in [Streams -> OutStates]
    BY <2>1, <2>2, EnqueueParts DEF Deliver, Typed
  <2>4. back' \in Seq(Letter)
    BY <2>1 DEF Typed
  <2> QED
    BY <2>1, <2>3, <2>4 DEF Typed
<1>8. CASE Break
  <2>1. PICK n \in 0..Len(sent) : sent' = SubSeq(sent, n + 1, Len(sent))
    BY <1>8 DEF Break
  <2>2. sent' \in Seq(Order)
    BY <2>1 DEF Typed
  <2>3. /\ up' = FALSE /\ back' = <<>> /\ at' = {} /\ done' = 0
        /\ UNCHANGED <<feed, published, members, confirmed, kept, hints, stream, out, head>>
    BY <1>8 DEF Break, source, hub
  <2>4. 0 <= Len(sent') /\ <<>> \in Seq(Letter)
    BY <2>2
  <2> QED
    BY <2>2, <2>3, <2>4 DEF Typed
<1>9. CASE Mend
  <2>1. Resubscribe \in Seq(Order)
    BY CommandsAsk DEF Resubscribe, Asking, Typed
  <2>2. sent' \in Seq(Order) /\ Len(sent') >= Len(sent)
    BY <1>9, <2>1 DEF Mend, Typed
  <2>3. /\ up' = TRUE /\ hints' = 2
        /\ UNCHANGED <<feed, published, members, confirmed, done, back, kept, at, stream, out, head>>
    BY <1>9 DEF Mend, source, hub
  <2> QED
    BY <2>2, <2>3 DEF Typed
<1>10. CASE Hint
  <2>1. [c \in Channels |-> Len(feed)] \in [Channels -> Nat]
    BY DEF Typed
  <2>2. stream' \in [Streams -> StreamStates]
    <3> DEFINE b == [c \in Channels |-> Len(feed)]
    <3>0. b \in [Channels -> Nat]
      BY <2>1
    <3>2. \A s \in Streams : stream[s] \in StreamStates
      BY DEF Typed
    <3>3. stream' = [s \in Streams |->
                      IF stream[s].pc \in {"load", "next", "open"}
                      THEN [stream[s] EXCEPT !.base = b] ELSE stream[s]]
      BY <1>10 DEF Hint
    <3> HIDE DEF b
    <3>1. ASSUME NEW v \in StreamStates
          PROVE  [v EXCEPT !.base = b] \in StreamStates
      <4>1. [v EXCEPT !.base = b] = Stream(v.pc, v.channels, v.waits, v.live, b)
        BY StreamChanges
      <4> QED
        BY <3>0, <4>1, StreamParts
    <3> QED
      BY <3>1, <3>2, <3>3
  <2>3. hints' \in 0..2
        /\ UNCHANGED <<feed, published, members, confirmed, up, sent, done, back, kept, at, out, head>>
    BY <1>10 DEF Hint, source, hub, link, Typed
  <2> QED
    BY <2>2, <2>3 DEF Typed
<1>11. CASE LoadEnds
  <2>1. Load \in [loading : BOOLEAN, value : Nat] /\ Load.value = Len(feed)
        /\ NoLoad \in [loading : BOOLEAN, value : Nat] /\ NoLoad.value = 0 /\ Len(feed) \in Nat
    BY DEF Load, NoLoad, Typed
  <2>2. ASSUME NEW v \in StreamStates
        PROVE  Hello(v) \in StreamStates /\ [v EXCEPT !.pc = "load"] \in StreamStates
    <3>1. [c \in Channels |-> Later(v.base[c], head.value)] \in [Channels -> Nat]
      BY DEF Later, Typed, StreamStates
    <3>2. Hello(v) \in StreamStates
      BY <3>1, StreamParts DEF Hello, Phases
    <3> QED
      BY <3>2 DEF StreamStates, Phases
  <2>3. \A s \in Streams : stream[s] \in StreamStates
    BY DEF Typed
  <2>4. stream' \in [Streams -> StreamStates]
    BY <1>11, <2>2, <2>3 DEF LoadEnds
  <2>5. /\ head' \in [loading : BOOLEAN, value : Nat] /\ head'.value <= Len(feed)
        /\ UNCHANGED <<feed, published, members, confirmed, up, sent, done, back, kept, at, hints, out>>
    BY <1>11, <2>1 DEF LoadEnds, source, hub, link
  <2> QED
    BY <2>4, <2>5 DEF Typed
<1>12. ASSUME NEW s \in Streams, Connect(s)
       PROVE  Typed'
  <2>1. PICK C \in SUBSET Channels :
          /\ Attach(s, C)
          /\ stream' = [stream EXCEPT
                         ![s] = Stream("ready", C, Unconfirmed(C), {}, [c \in Channels |-> 0])]
    BY <1>12 DEF Connect
  <2>2. stream' \in [Streams -> StreamStates]
    BY <2>1, StreamParts DEF Unconfirmed, Typed, Phases
  <2>3. UNCHANGED <<feed, published, hints, out, head>>
    BY <1>12 DEF Connect, source
  <2>4. /\ members' \in [Channels -> SUBSET Streams]
        /\ confirmed' \in [Channels -> {"no", "pending", "yes"}]
        /\ sent' \in Seq(Order) /\ Len(sent') >= Len(sent)
        /\ UNCHANGED <<up, done, back, kept, at>>
    <3>1. PICK more : Follows(sent', sent, more)
      BY <2>1, AttachEffect
    <3>2. Len(sent') >= Len(sent)
      BY <3>1 DEF Follows
    <3> QED
      BY <2>1, <3>2, AttachEffect
  <2> QED
    BY <2>2, <2>3, <2>4 DEF Typed
<1>13. ASSUME NEW s \in Streams, Ready(s)
       PROVE  Typed'
  <2>1. stream' \in [Streams -> StreamStates]
    <3>0. LoadToWaitFor \in Phases
      BY DEF LoadToWaitFor, Phases
    <3>1. ASSUME NEW v \in StreamStates
          PROVE  [v EXCEPT !.pc = LoadToWaitFor] \in StreamStates
      <4>1. [v EXCEPT !.pc = LoadToWaitFor]
              = Stream(LoadToWaitFor, v.channels, v.waits, v.live, v.base)
        BY <3>0, StreamChanges
      <4> QED
        BY <3>0, <4>1, StreamParts
    <3> QED
      BY <1>13, <3>1 DEF Ready, Typed
  <2>2. head' \in [loading : BOOLEAN, value : Nat] /\ head'.value <= Len(feed)
    BY <1>13 DEF Ready, Load, Typed
  <2>3. UNCHANGED <<feed, published, members, confirmed, up, sent, done, back, kept, at, hints, out>>
    BY <1>13 DEF Ready, source, hub, link
  <2> QED
    BY <2>1, <2>2, <2>3 DEF Typed
<1>14. ASSUME NEW s \in Streams, Write(s)
       PROVE  Typed'
  <2>1. out[s].queue \in Seq(Nat) /\ out[s].queue # <<>> /\ out[s].got \in Seq(Nat)
        /\ out[s].over \in BOOLEAN
    BY <1>14 DEF Write, Typed, OutStates
  <2>2. Tail(out[s].queue) \in Seq(Nat) /\ Append(out[s].got, Head(out[s].queue)) \in Seq(Nat)
    BY <2>1
  <2>3. out' \in [Streams -> OutStates]
    BY <1>14, <2>1, <2>2 DEF Write, Typed, OutStates
  <2>4. UNCHANGED <<feed, published, members, confirmed, up, sent, done, back, kept, at, hints,
                    stream, head>>
    BY <1>14 DEF Write, source, hub, link
  <2> QED
    BY <2>3, <2>4 DEF Typed
<1>15. ASSUME NEW s \in Streams, Leaves(s)
       PROVE  Typed'
  <2>1. PICK more :
          /\ members' = [c \in Channels |-> members[c] \ {s}]
          /\ confirmed' = [c \in Channels |-> IF c \in LeftBy({s}) THEN "no" ELSE confirmed[c]]
          /\ sent' \in Seq(Order) /\ Follows(sent', sent, more)
          /\ stream' = [r \in Streams |-> IF r = s THEN Nobody("closed") ELSE stream[r]]
          /\ out' = [r \in Streams |-> IF r = s THEN Empty ELSE out[r]]
          /\ UNCHANGED <<up, done, back, kept, at, feed, published, hints, head>>
    BY <1>15, LeavesEffect DEF source
  <2>2. /\ members' \in [Channels -> SUBSET Streams]
        /\ confirmed' \in [Channels -> {"no", "pending", "yes"}]
    BY <2>1 DEF Typed
  <2>3. stream' \in [Streams -> StreamStates] /\ out' \in [Streams -> OutStates]
    BY <2>1, NobodyParts DEF Typed, Phases
  <2> QED
    BY <2>1, <2>2, <2>3 DEF Typed, Follows
<1>16. ASSUME NEW s \in Streams, ScopesLive(s)
       PROVE  Typed'
  <2> DEFINE new == stream[s].channels \ stream[s].live
             b == [c \in Channels |-> IF c \in new THEN published ELSE stream[s].base[c]]
  <2>1. stream[s] \in StreamStates
    BY DEF Typed
  <2>2. b \in [Channels -> Nat]
    BY <2>1, StreamParts DEF Typed
  <2>3. stream' = [stream EXCEPT ![s] =
                    Stream("open", stream[s].channels, {}, stream[s].channels, b)]
    BY <1>16 DEF ScopesLive
  <2> HIDE DEF b
  <2>4. stream' \in [Streams -> StreamStates]
    <3>1. Stream("open", stream[s].channels, {}, stream[s].channels, b) \in StreamStates
      BY <2>1, <2>2, StreamParts DEF Phases
    <3> QED
      BY <2>3, <3>1 DEF Typed
  <2>5. UNCHANGED <<feed, published, members, confirmed, up, sent, done, back, kept, at, hints, out,
                    head>>
    BY <1>16 DEF ScopesLive, source, hub, link
  <2> QED
    BY <2>4, <2>5 DEF Typed
<1>17. ASSUME NEW s \in Streams, NEW c \in Channels, AddScope(s, c)
       PROVE  Typed'
  <2>1. Attach(s, {c}) /\ UNCHANGED <<feed, published, hints, out, head>>
    BY <1>17 DEF AddScope, source
  <2>2. stream' = [stream EXCEPT ![s] =
          Stream("open", stream[s].channels \cup {c}, Unconfirmed({c}), stream[s].live,
                 stream[s].base)]
    BY <1>17 DEF AddScope
  <2>3. stream[s] \in StreamStates /\ Unconfirmed({c}) \in SUBSET Channels
    BY DEF Typed, Unconfirmed
  <2>4. stream' \in [Streams -> StreamStates]
    <3>1. Stream("open", stream[s].channels \cup {c}, Unconfirmed({c}), stream[s].live,
                 stream[s].base) \in StreamStates
      <4>1. /\ stream[s].channels \cup {c} \in SUBSET Channels
            /\ stream[s].live \in SUBSET Channels /\ stream[s].base \in [Channels -> Nat]
        BY <2>3, StreamParts
      <4> QED
        BY <2>3, <4>1, StreamParts DEF Phases
    <3> QED
      BY <2>2, <3>1 DEF Typed
  <2>5. /\ members' \in [Channels -> SUBSET Streams]
        /\ confirmed' \in [Channels -> {"no", "pending", "yes"}]
        /\ sent' \in Seq(Order) /\ Len(sent') >= Len(sent)
        /\ UNCHANGED <<up, done, back, kept, at>>
    <3>1. {c} \in SUBSET Channels
      OBVIOUS
    <3>2. PICK more : Follows(sent', sent, more)
      BY <2>1, <3>1, AttachEffect
    <3>3. Len(sent') >= Len(sent)
      BY <3>2 DEF Follows
    <3> QED
      BY <2>1, <3>1, <3>3, AttachEffect
  <2> QED
    BY <2>1, <2>4, <2>5 DEF Typed
<1> QED
  BY <1>1, <1>2, <1>3, <1>4, <1>5, <1>6, <1>7, <1>8, <1>9, <1>10, <1>11, <1>12, <1>13, <1>14,
     <1>15, <1>16, <1>17, EachStep

-----------------------------------------------------------------------------
(* A stream's phase *)

AllPhased == \A s \in Streams : Phased(s)

\* A stream whose parts, queue and membership stay as they are stays in its phase.
LEMMA PhasedStays ==
  ASSUME AllPhased, NEW s \in Streams, stream'[s] = stream[s], Len(out'[s].queue) <= MaxQueue,
         head.loading => head'.loading,
         \A c \in Channels : s \in members'[c] <=> s \in members[c]
  PROVE  Phased(s)'
  BY DEF AllPhased, Phased

\* A stream that has gone is in the last phase.
LEMMA PhasedLeaves ==
  ASSUME NEW s \in Streams, stream'[s] = Nobody("closed"), out'[s] = Empty,
         \A c \in Channels : s \notin members'[c]
  PROVE  Phased(s)'
<1>1. Len(out'[s].queue) <= MaxQueue
  BY HubAssumption, NobodyParts DEF Phases
<1>2. /\ stream'[s].pc = "closed" /\ stream'[s].channels = {} /\ stream'[s].waits = {}
      /\ stream'[s].live = {}
  BY NobodyParts DEF Phases
<1> QED
  BY <1>1, <1>2 DEF Phased

\* Every step keeps each stream's parts and its phase together.
LEMMA PhasedKept ==
  ASSUME Typed, AllPhased, Paired, [Next]_vars
  PROVE  AllPhased'
<1> SUFFICES ASSUME NEW r \in Streams
             PROVE  Phased(r)'
  BY DEF AllPhased
<1>a. /\ Phased(r) /\ stream[r] \in StreamStates /\ out[r] \in OutStates
      /\ Len(out[r].queue) <= MaxQueue
  BY DEF AllPhased, Phased, Typed
<1>1. CASE UNCHANGED vars \/ Number \/ Break \/ Mend
  <2>1. UNCHANGED <<members, stream, out, head>>
    BY <1>1 DEF vars, Number, Break, Mend, hub
  <2> QED
    BY <1>a, <2>1, PhasedStays
<1>2. CASE Publish
  <2>1. UNCHANGED <<members, stream, out, head>>
    BY <1>2, PublishEffect DEF hub
  <2> QED
    BY <1>a, <2>1, PhasedStays
<1>3. CASE Execute
  <2>1. UNCHANGED <<members, stream, out, head>>
    BY <1>3, ExecuteEffect DEF hub
  <2> QED
    BY <1>a, <2>1, PhasedStays
<1>4. CASE Acknowledge
  <2>1. PICK c \in Channels :
          /\ \/ stream' = [s \in Streams |-> [stream[s] EXCEPT !.waits = @ \ {c}]]
             \/ stream' = stream
          /\ UNCHANGED <<members, out, head>>
    BY <1>4, AcknowledgeEffect
  <2>2. CASE stream' = stream
    BY <1>a, <2>1, <2>2, PhasedStays
  <2>3. CASE stream' = [s \in Streams |-> [stream[s] EXCEPT !.waits = @ \ {c}]]
    <3>1. stream'[r] = [stream[r] EXCEPT !.waits = stream[r].waits \ {c}]
      BY <2>3
    <3>2. /\ stream'[r].pc = stream[r].pc /\ stream'[r].channels = stream[r].channels
          /\ stream'[r].waits = stream[r].waits \ {c} /\ stream'[r].live = stream[r].live
      BY <1>a, <3>1, StreamChanges, StreamParts
    <3> QED
      BY <1>a, <2>1, <3>2 DEF Phased
  <2> QED
    BY <2>1, <2>2, <2>3
<1>5. CASE Refuse
  <2>1. PICK D \in SUBSET Streams :
          /\ members' = [d \in Channels |-> members[d] \ D]
          /\ stream' = [s \in Streams |-> IF s \in D THEN Nobody("closed") ELSE stream[s]]
          /\ out' = [s \in Streams |-> IF s \in D THEN Empty ELSE out[s]]
          /\ UNCHANGED head
    BY <1>5, RefuseEffect
  <2>2. CASE r \in D
    BY <2>1, <2>2, PhasedLeaves
  <2>3. CASE r \notin D
    BY <1>a, <2>1, <2>3, PhasedStays
  <2> QED
    BY <2>2, <2>3
<1>6. CASE Message
  <2>1. back # <<>> /\ Head(back).kind = "event"
        /\ Deliver(Head(back).channel, Head(back).event)
        /\ UNCHANGED <<members, stream, head>>
    BY <1>6 DEF Message, hub
  <2>2. Head(back).event \in Nat
    BY <2>1, FirstMessage
  <2>3. Len(out'[r].queue) <= MaxQueue
    <3>1. CASE out'[r] = out[r]
      BY <1>a, <3>1
    <3>2. CASE out'[r] = Enqueue(out[r], Head(back).event)
      <4>1. out[r].queue \in Seq(Nat) /\ MaxQueue \in Nat
        BY <1>a, HubAssumption DEF OutStates
      <4>2. \/ out'[r] = out[r]
            \/ out'[r].queue = <<>>
            \/ Len(out[r].queue) < MaxQueue
               /\ out'[r].queue = Append(out[r].queue, Head(back).event)
        BY <1>a, <2>2, <3>2, EnqueueParts
      <4>3. CASE out'[r].queue = <<>>
        BY <4>1, <4>3
      <4>4. CASE Len(out[r].queue) < MaxQueue
                 /\ out'[r].queue = Append(out[r].queue, Head(back).event)
        BY <2>2, <4>1, <4>4
      <4> QED
        BY <1>a, <4>2, <4>3, <4>4
    <3> QED
      BY <2>1, <3>1, <3>2 DEF Deliver
  <2> QED
    BY <2>1, <2>3, PhasedStays
<1>7. CASE Hint
  <2>1. UNCHANGED <<members, out, head>>
    BY <1>7 DEF Hint, hub
  <2>2. \/ stream'[r] = stream[r]
        \/ stream'[r] = [stream[r] EXCEPT !.base = [c \in Channels |-> Len(feed)]]
    BY <1>7 DEF Hint
  <2>3. /\ stream'[r].pc = stream[r].pc /\ stream'[r].channels = stream[r].channels
        /\ stream'[r].waits = stream[r].waits /\ stream'[r].live = stream[r].live
    <3>1. CASE stream'[r] = [stream[r] EXCEPT !.base = [c \in Channels |-> Len(feed)]]
      <4>1. [c \in Channels |-> Len(feed)] \in [Channels -> Nat]
        BY DEF Typed
      <4> QED
        BY <1>a, <3>1, <4>1, StreamChanges, StreamParts
    <3> QED
      BY <2>2, <3>1
  <2> QED
    BY <1>a, <2>1, <2>3 DEF Phased
<1>8. CASE LoadEnds
  <2>1. UNCHANGED <<members, out>>
    BY <1>8 DEF LoadEnds, hub
  <2>2. CASE stream[r].pc = "load"
    <3>1. stream'[r] = Hello(stream[r])
      BY <1>8, <2>2 DEF LoadEnds
    <3>2. [c \in Channels |-> Later(stream[r].base[c], head.value)] \in [Channels -> Nat]
      BY <1>a DEF Later, Typed, StreamStates
    <3>3. /\ stream'[r].pc = "open" /\ stream'[r].channels = stream[r].channels
          /\ stream'[r].waits = stream[r].waits /\ stream'[r].live = stream[r].channels
      BY <1>a, <3>1, <3>2, StreamParts DEF Hello, Phases
    <3> QED
      BY <1>a, <2>1, <2>2, <3>3 DEF Phased
  <2>3. CASE stream[r].pc = "next"
    <3>1. stream'[r] = [stream[r] EXCEPT !.pc = "load"] /\ head' = Load
      BY <1>8, <2>3 DEF LoadEnds
    <3>2. /\ stream'[r].pc = "load" /\ stream'[r].channels = stream[r].channels
          /\ stream'[r].waits = stream[r].waits /\ stream'[r].live = stream[r].live
      BY <1>a, <3>1, StreamChanges, StreamParts DEF Phases
    <3>3. head'.loading
      BY <3>1 DEF Load
    <3> QED
      BY <1>a, <2>1, <2>3, <3>2, <3>3 DEF Phased
  <2>4. CASE stream[r].pc \notin {"load", "next"}
    <3>1. stream'[r] = stream[r]
      BY <1>8, <2>4 DEF LoadEnds
    <3> QED
      BY <1>a, <2>1, <2>4, <3>1 DEF Phased
  <2> QED
    BY <2>2, <2>3, <2>4
<1>9. ASSUME NEW s \in Streams, Connect(s)
      PROVE  Phased(r)'
  <2>1. PICK C \in SUBSET Channels :
          /\ Attach(s, C)
          /\ stream' = [stream EXCEPT
                         ![s] = Stream("ready", C, Unconfirmed(C), {}, [c \in Channels |-> 0])]
    BY <1>9 DEF Connect
  <2>2. /\ \A c \in Channels :
             members'[c] = IF c \in C THEN members[c] \cup {s} ELSE members[c]
        /\ UNCHANGED <<out, head>> /\ stream[s].pc = "idle"
    BY <1>9, <2>1, AttachEffect DEF Connect
  <2>3. CASE r # s
    BY <1>a, <2>1, <2>2, <2>3, PhasedStays DEF Typed
  <2>4. CASE r = s
    <3>1. Unconfirmed(C) \in SUBSET Channels /\ Unconfirmed(C) \subseteq C
      BY DEF Unconfirmed
    <3>2. stream'[r] = Stream("ready", C, Unconfirmed(C), {}, [c \in Channels |-> 0])
      BY <2>1, <2>4 DEF Typed
    <3>3. /\ stream'[r].pc = "ready" /\ stream'[r].channels = C
          /\ stream'[r].waits = Unconfirmed(C) /\ stream'[r].live = {}
      BY <3>1, <3>2, StreamParts DEF Phases
    <3>4. \A c \in Channels : r \in members'[c] <=> c \in C
      BY <1>a, <2>2, <2>4 DEF Phased
    <3>5. UNCHANGED out
      BY <2>2
    <3> QED
      BY <1>a, <2>4, <3>1, <3>3, <3>4, <3>5 DEF Phased
  <2> QED
    BY <2>3, <2>4
<1>10. ASSUME NEW s \in Streams, Ready(s)
       PROVE  Phased(r)'
  <2>1. /\ UNCHANGED <<members, out>>
        /\ stream' = [stream EXCEPT ![s].pc = LoadToWaitFor]
        /\ head' = (IF head.loading THEN head ELSE Load)
        /\ stream[s].pc = "ready" /\ stream[s].waits = {}
    BY <1>10 DEF Ready, hub
  <2>2. head'.loading
    BY <2>1 DEF Load
  <2>3. CASE r # s
    BY <1>a, <2>1, <2>2, <2>3, PhasedStays DEF Typed
  <2>4. CASE r = s
    <3>1. stream'[r] = [stream[r] EXCEPT !.pc = LoadToWaitFor]
      BY <2>1, <2>4 DEF Typed
    <3>2. LoadToWaitFor \in {"load", "next"}
      BY DEF LoadToWaitFor
    <3>3. /\ stream'[r].pc \in {"load", "next"} /\ stream'[r].channels = stream[r].channels
          /\ stream'[r].waits = stream[r].waits /\ stream'[r].live = stream[r].live
      BY <1>a, <3>1, <3>2, StreamChanges, StreamParts DEF Phases
    <3> QED
      BY <1>a, <2>1, <2>2, <2>4, <3>3 DEF Phased
  <2> QED
    BY <2>3, <2>4
<1>11. ASSUME NEW s \in Streams, Write(s)
       PROVE  Phased(r)'
  <2>1. /\ UNCHANGED <<members, stream, head>>
        /\ out' = [out EXCEPT ![s] = [queue |-> Tail(@.queue), over |-> @.over,
                                     got |-> Append(@.got, Head(@.queue))]]
        /\ out[s].queue # <<>>
    BY <1>11 DEF Write, hub
  <2>2. Len(out'[r].queue) <= MaxQueue
    <3>1. out[r].queue \in Seq(Nat)
      BY <1>a DEF OutStates
    <3>2. CASE r = s
      <4>1. out'[r].queue = Tail(out[r].queue)
        BY <2>1, <3>2 DEF Typed
      <4> QED
        BY <1>a, <2>1, <3>1, <3>2, <4>1, HubAssumption
    <3> QED
      BY <1>a, <2>1, <3>2 DEF Typed
  <2> QED
    BY <2>1, <2>2, PhasedStays
<1>12. ASSUME NEW s \in Streams, Leaves(s)
       PROVE  Phased(r)'
  <2>1. /\ members' = [c \in Channels |-> members[c] \ {s}]
        /\ stream' = [x \in Streams |-> IF x = s THEN Nobody("closed") ELSE stream[x]]
        /\ out' = [x \in Streams |-> IF x = s THEN Empty ELSE out[x]]
        /\ UNCHANGED head
    BY <1>12, LeavesEffect
  <2>2. CASE r = s
    BY <2>1, <2>2, PhasedLeaves
  <2>3. CASE r # s
    BY <1>a, <2>1, <2>3, PhasedStays
  <2> QED
    BY <2>2, <2>3
<1>13. ASSUME NEW s \in Streams, ScopesLive(s)
       PROVE  Phased(r)'
  <2> DEFINE new == stream[s].channels \ stream[s].live
             b == [c \in Channels |-> IF c \in new THEN published ELSE stream[s].base[c]]
  <2>1. /\ UNCHANGED <<members, out, head>>
        /\ stream' = [stream EXCEPT ![s] =
                       Stream("open", stream[s].channels, {}, stream[s].channels, b)]
        /\ stream[s].pc = "open"
    BY <1>13 DEF ScopesLive, hub
  <2>2. b \in [Channels -> Nat] /\ stream[s] \in StreamStates
    BY StreamParts DEF Typed
  <2> HIDE DEF b
  <2>3. CASE r # s
    BY <1>a, <2>1, <2>3, PhasedStays DEF Typed
  <2>4. CASE r = s
    <3>1. stream'[r] = Stream("open", stream[r].channels, {}, stream[r].channels, b)
      BY <2>1, <2>4 DEF Typed
    <3>2. /\ stream'[r].pc = "open" /\ stream'[r].channels = stream[r].channels
          /\ stream'[r].waits = {} /\ stream'[r].live = stream[r].channels
      BY <1>a, <2>2, <3>1, StreamParts DEF Phases
    <3> QED
      BY <1>a, <2>1, <2>4, <3>2 DEF Phased
  <2> QED
    BY <2>3, <2>4
<1>14. ASSUME NEW s \in Streams, NEW c \in Channels, AddScope(s, c)
       PROVE  Phased(r)'
  <2>a. stream' = [stream EXCEPT ![s] =
             Stream("open", stream[s].channels \cup {c}, Unconfirmed({c}), stream[s].live,
                    stream[s].base)]
    BY <1>14, Zenon DEF AddScope
  <2>b. Attach(s, {c}) /\ UNCHANGED <<out, head>>
    BY <1>14, Zenon DEF AddScope
  <2>1. /\ stream[s].pc = "open" /\ stream[s].live = stream[s].channels
        /\ c \notin stream[s].channels
    BY <1>14, Zenon DEF AddScope
  <2>2. {c} \in SUBSET Channels
    OBVIOUS
  <2>3. \A d \in Channels : members'[d] = IF d \in {c} THEN members[d] \cup {s} ELSE members[d]
    BY <2>b, <2>2, AttachEffect
  <2>4. CASE r # s
    BY <1>a, <2>a, <2>b, <2>3, <2>4, PhasedStays DEF Typed
  <2>5. CASE r = s
    <3> DEFINE C == stream[s].channels \cup {c}
               W == Unconfirmed({c})
               L == stream[s].live
               b == stream[s].base
    <3>1. W \in SUBSET Channels /\ W \subseteq {c}
      BY DEF Unconfirmed
    <3>2. stream'[r] = Stream("open", C, W, L, b)
      BY <2>a, <2>5 DEF Typed
    <3>3. C \in SUBSET Channels /\ L \in SUBSET Channels /\ b \in [Channels -> Nat]
      BY <1>a, <2>5, StreamParts
    <3>4. L \subseteq C /\ W \subseteq C /\ W \cap L = {}
      BY <1>a, <2>1, <2>5, <3>1 DEF Phased
    <3>5. \A d \in Channels : r \in members'[d] <=> d \in C
      BY <1>a, <2>3, <2>5 DEF Phased
    <3>6. UNCHANGED out
      BY <2>b
    <3> HIDE DEF C, W, L, b
    <3>7. /\ stream'[r].pc = "open" /\ stream'[r].channels = C
          /\ stream'[r].waits = W /\ stream'[r].live = L
      BY <3>1, <3>2, <3>3, StreamParts DEF Phases
    <3> QED
      BY <1>a, <3>4, <3>5, <3>6, <3>7 DEF Phased
  <2> QED
    BY <2>4, <2>5
<1> QED
  BY <1>1, <1>2, <1>3, <1>4, <1>5, <1>6, <1>7, <1>8, <1>9, <1>10, <1>11, <1>12, <1>13, <1>14,
     EachStep

-----------------------------------------------------------------------------
(* Replies and commands *)

\* More commands are sent: the answers on their way are still those of the first ones.
LEMMA AnswersLonger ==
  ASSUME NEW f, NEW p, NEW q, NEW r, NEW d \in Nat, NEW b, Answers(f, q, d, b), d <= Len(q),
         Follows(p, q, r)
  PROVE  Answers(f, p, d, b)
<1>1. \A i \in 1..d : i \in 1..Len(q) /\ p[i] = q[i]
  BY DEF Follows
<1> QED
  BY <1>1 DEF Answers

\* Without a reply on its way nothing has been executed.
LEMMA NothingAnswered ==
  ASSUME NEW q
  PROVE  \E f : Answers(f, q, 0, <<>>)
<1> DEFINE f == [i \in 1..0 |-> 0]
<1>1. f \in [1..0 -> 1..Len(<<>>)]
  OBVIOUS
<1>2. \A i \in 1..0 : FALSE
  OBVIOUS
<1>3. \A i \in 1..Len(<<>>) : FALSE
  OBVIOUS
<1> HIDE DEF f
<1>4. Answers(f, q, 0, <<>>)
  BY <1>1, <1>2, <1>3 DEF Answers
<1> QED
  BY <1>4

\* Events come behind the answers on their way.
LEMMA AnswersAndEvents ==
  ASSUME NEW f, NEW q, NEW d \in Nat, NEW b, NEW news, NEW c, Answers(f, q, d, b),
         Follows(c, b, news), \A i \in 1..Len(news) : news[i].kind = "event"
  PROVE  Answers(f, q, d, c)
<1>1. \A k \in 1..Len(b) : k \in 1..Len(c) /\ c[k] = b[k]
  BY DEF Follows
<1>2. \A k \in 1..Len(c) : c[k].kind # "event" => k \in 1..Len(b)
  <2> TAKE k \in 1..Len(c)
  <2>1. k \in 1..Len(b) \/ \E i \in 1..Len(news) : c[k] = news[i]
    BY DEF Follows
  <2> QED
    BY <2>1
<1>3. f \in [1..d -> 1..Len(c)]
  BY <1>1 DEF Answers
<1>4. \A i \in 1..d : f[i] \in 1..Len(b)
  BY DEF Answers
<1> QED
  BY <1>1, <1>2, <1>3, <1>4 DEF Answers

\* A reply is written behind all others: the one of the command just executed.
LEMMA AnswersOneMore ==
  ASSUME NEW q, NEW d \in Nat, NEW b \in Seq(Letter), NEW f, Answers(f, q, d, b),
         NEW l \in Letter, l.kind # "event", l.channel = q[d + 1].channel, l.op = q[d + 1].op
  PROVE  \E g : Answers(g, q, d + 1, Append(b, l))
<1> DEFINE m == Len(b) + 1
           c == Append(b, l)
           g == [i \in 1..(d + 1) |-> IF i = d + 1 THEN m ELSE f[i]]
<1>1. /\ Len(b) \in Nat /\ Len(c) = m /\ c[m] = l
      /\ \A k \in 1..Len(b) : k \in 1..m /\ k < m /\ c[k] = b[k]
      /\ \A k \in 1..m : k = m \/ k \in 1..Len(b)
  OBVIOUS
<1>2. \A i \in 1..d : f[i] \in 1..Len(b)
  BY DEF Answers
<1>3. /\ \A i \in 1..(d + 1) : i = d + 1 \/ i \in 1..d
      /\ \A i \in 1..d : i \in 1..(d + 1) /\ i # d + 1 /\ g[i] = f[i]
      /\ d + 1 \in 1..(d + 1) /\ g[d + 1] = m
  OBVIOUS
<1>4. g \in [1..(d + 1) -> 1..m]
  BY <1>1, <1>2, <1>3
<1> HIDE DEF c, g, m
<1>5. \A i, j \in 1..(d + 1) : i < j => g[i] < g[j]
  <2>1. \A i, j \in 1..d : i < j => f[i] < f[j]
    BY DEF Answers
  <2>2. ASSUME NEW i \in 1..(d + 1), NEW j \in 1..(d + 1), i < j
        PROVE  g[i] < g[j]
    <3>1. i \in 1..d
      BY <2>2
    <3> QED
      BY <1>1, <1>2, <1>3, <2>1, <2>2, <3>1
  <2> QED
    BY <2>2
<1>6. ASSUME NEW i \in 1..(d + 1)
      PROVE  /\ c[g[i]].kind # "event"
             /\ c[g[i]].channel = q[i].channel /\ c[g[i]].op = q[i].op
  <2>1. CASE i = d + 1
    BY <1>1, <1>3, <2>1
  <2>2. CASE i \in 1..d
    <3>1. c[g[i]] = b[f[i]]
      BY <1>1, <1>2, <1>3, <2>2
    <3> QED
      BY <2>2, <3>1 DEF Answers
  <2> QED
    BY <1>3, <2>1, <2>2
<1>7. ASSUME NEW k \in 1..m, c[k].kind # "event"
      PROVE  \E i \in 1..(d + 1) : g[i] = k
  <2>1. CASE k = m
    BY <1>3, <2>1
  <2>2. CASE k \in 1..Len(b)
    <3>1. PICK i \in 1..d : f[i] = k
      BY <1>1, <1>7, <2>2 DEF Answers
    <3> QED
      BY <1>3, <3>1
  <2> QED
    BY <1>1, <2>1, <2>2
<1>8. Answers(g, q, d + 1, c)
  BY <1>1, <1>4, <1>5, <1>6, <1>7 DEF Answers
<1> QED
  BY <1>8 DEF c

\* An event is taken off the connection.
LEMMA AnswersAfterEvent ==
  ASSUME NEW q, NEW d \in Nat, NEW b \in Seq(Letter), NEW f, Answers(f, q, d, b), b # <<>>,
         Head(b).kind = "event"
  PROVE  \E g : Answers(g, q, d, Tail(b))
<1> DEFINE c == Tail(b)
           g == [i \in 1..d |-> f[i] - 1]
<1>1. /\ Len(b) \in Nat \ {0} /\ Len(c) = Len(b) - 1 /\ b[1].kind = "event"
      /\ \A k \in 1..(Len(b) - 1) : k + 1 \in 1..Len(b) /\ c[k] = b[k + 1]
  OBVIOUS
<1>2. \A i \in 1..d : f[i] \in 1..Len(b) /\ f[i] # 1
  BY <1>1 DEF Answers
<1>3. \A i \in 1..d : g[i] = f[i] - 1 /\ g[i] + 1 = f[i] /\ g[i] \in 1..Len(c)
  BY <1>1, <1>2
<1>4. g \in [1..d -> 1..Len(c)]
  BY <1>3
<1> HIDE DEF c, g
<1>5. \A i, j \in 1..d : i < j => g[i] < g[j]
  <2>1. \A i, j \in 1..d : i < j => f[i] < f[j]
    BY DEF Answers
  <2> QED
    BY <1>2, <1>3, <2>1
<1>6. \A i \in 1..d : c[g[i]] = b[f[i]]
  BY <1>1, <1>3
<1>7. ASSUME NEW k \in 1..Len(c), c[k].kind # "event"
      PROVE  \E i \in 1..d : g[i] = k
  <2>1. k + 1 \in 1..Len(b) /\ b[k + 1].kind # "event"
    BY <1>1, <1>7
  <2>2. PICK i \in 1..d : f[i] = k + 1
    BY <2>1 DEF Answers
  <2>3. g[i] = k
    BY <1>1, <1>3, <2>2
  <2> QED
    BY <2>3
<1>8. \A i \in 1..d : /\ c[g[i]].kind # "event"
                      /\ c[g[i]].channel = q[i].channel /\ c[g[i]].op = q[i].op
  BY <1>6 DEF Answers
<1>9. Answers(g, q, d, c)
  BY <1>4, <1>5, <1>7, <1>8 DEF Answers
<1> QED
  BY <1>9 DEF c

\* The refusals on their way are told of.
Told(b, R) == \A k \in 1..Len(b) : b[k].kind = "error" => b[k].op = "sub" /\ b[k].channel \in R

\* Every step keeps replies and commands paired.
LEMMA PairedKept ==
  ASSUME Typed, Paired, Connected, [Next]_vars
  PROVE  Paired'
<1>a. PICK f : Answers(f, sent, done, back)
  BY DEF Paired
<1>b. /\ sent \in Seq(Order) /\ Len(sent) \in Nat /\ done \in Nat /\ done <= Len(sent)
      /\ back \in Seq(Letter) /\ Len(back) \in Nat
  BY DEF Typed
<1>c. Told(back, refused)
  BY DEF Told, Paired
<1>d. (\E g : Answers(g, sent, done, back))' /\ Told(back, refused)' => Paired'
  BY DEF Told, Paired
<1>e. Told(back, refused) /\ back # <<>> => Told(Tail(back), refused)
  <2> SUFFICES ASSUME back # <<>>, NEW k \in 1..Len(Tail(back)), Tail(back)[k].kind = "error"
               PROVE  Tail(back)[k].op = "sub" /\ Tail(back)[k].channel \in refused
    BY DEF Told
  <2>1. k + 1 \in 1..Len(back) /\ Tail(back)[k] = back[k + 1]
    BY <1>b
  <2> QED
    BY <1>c, <2>1 DEF Told
<1>1. CASE UNCHANGED <<sent, done, back, refused>>
  BY <1>1 DEF Paired
<1>2. CASE Publish
  <2>1. PICK news \in Seq(Letter) :
          /\ back' \in Seq(Letter) /\ Follows(back', back, news)
          /\ \A i \in 1..Len(news) : news[i].kind = "event" /\ news[i].event = published + 1
          /\ UNCHANGED <<sent, done, refused>>
    BY <1>2, PublishEffect DEF faults
  <2>2. Answers(f, sent, done, back')
    BY <1>a, <1>b, <2>1, AnswersAndEvents
  <2>3. ASSUME NEW k \in 1..Len(back'), back'[k].kind # "event"
        PROVE  k \in 1..Len(back) /\ back'[k] = back[k]
    <3>1. k \in 1..Len(back) \/ \E i \in 1..Len(news) : back'[k] = news[i]
      BY <2>1 DEF Follows
    <3>2. k \in 1..Len(back)
      BY <2>1, <2>3, <3>1
    <3> QED
      BY <2>1, <3>2 DEF Follows
  <2>4. Told(back', refused')
    BY <1>c, <2>1, <2>3 DEF Told
  <2> QED
    BY <1>d, <2>1, <2>2, <2>4
<1>3. CASE Execute
  <2> DEFINE order == sent[done + 1]
  <2>1. PICK kind \in {"ok", "error"} :
          /\ back' = Append(back, Reply(kind, order))
          /\ kind = "ok" => refused' = refused
          /\ kind = "error" => order.op = "sub" /\ refused' = refused \cup {order.channel}
          /\ done' = done + 1 /\ order \in Order /\ UNCHANGED sent
    BY <1>3, ExecuteEffect
  <2> HIDE DEF order
  <2>2. /\ Reply(kind, order) \in Letter /\ Reply(kind, order).kind = kind
        /\ Reply(kind, order).channel = order.channel /\ Reply(kind, order).op = order.op
    BY <2>1, ReplyType
  <2>3. \E g : Answers(g, sent, done + 1, Append(back, Reply(kind, order)))
    BY <1>a, <1>b, <2>1, <2>2, AnswersOneMore DEF order
  <2>4. Told(back', refused')
    <3>1. \A k \in 1..Len(back') : \/ k \in 1..Len(back) /\ back'[k] = back[k]
                                   \/ back'[k] = Reply(kind, order)
      BY <1>b, <2>1, <2>2
    <3>2. refused \subseteq refused'
      BY <2>1
    <3>3. kind = "error" => order.channel \in refused'
      BY <2>1
    <3> QED
      BY <1>c, <2>1, <2>2, <3>1, <3>2, <3>3 DEF Told
  <2> QED
    BY <1>d, <2>1, <2>3, <2>4
<1>4. CASE Acknowledge
  <2>1. /\ back # <<>> /\ back' = Tail(back) /\ refused' = refused
        /\ \E g : Answers(g, sent', done', back')
    BY <1>4, AcknowledgeEffect DEF faults
  <2> QED
    BY <1>c, <1>d, <1>e, <2>1
<1>5. CASE Refuse
  <2>1. PICK more :
          /\ back # <<>> /\ back' = Tail(back) /\ refused' = refused
          /\ done \in Nat \ {0} /\ done' = done - 1 /\ Follows(sent, <<sent[1]>>, Tail(sent))
          /\ Follows(sent', Tail(sent), more)
          /\ \E g : Answers(g, Tail(sent), done', back')
    BY <1>5, RefuseEffect DEF faults
  <2>2. PICK g : Answers(g, Tail(sent), done', back')
    BY <2>1
  <2>3. done' \in Nat /\ done' <= Len(Tail(sent))
    BY <1>b, <2>1 DEF Follows
  <2>4. Answers(g, sent', done', back')
    BY <2>1, <2>2, <2>3, AnswersLonger
  <2> QED
    BY <1>c, <1>d, <1>e, <2>1, <2>4
<1>6. CASE Message
  <2>1. /\ back # <<>> /\ Head(back).kind = "event" /\ back' = Tail(back)
        /\ UNCHANGED <<sent, done, refused>>
    BY <1>6 DEF Message, faults
  <2>2. \E g : Answers(g, sent, done, Tail(back))
    BY <1>a, <1>b, <2>1, AnswersAfterEvent
  <2> QED
    BY <1>c, <1>d, <1>e, <2>1, <2>2
<1>7. CASE Break
  <2>1. back' = <<>> /\ done' = 0
    BY <1>7 DEF Break
  <2>2. Told(<<>>, refused')
    BY DEF Told
  <2> QED
    BY <1>d, <2>1, <2>2, NothingAnswered
<1>8. CASE Mend
  <2>1. back' = back /\ done' = done /\ refused' = refused /\ ~up
    BY <1>8 DEF Mend, faults
  <2>2. done = 0 /\ back = <<>>
    BY <2>1 DEF Connected
  <2> QED
    BY <1>c, <1>d, <2>1, <2>2, NothingAnswered
<1>9. ASSUME NEW more, Follows(sent', sent, more), UNCHANGED <<done, back, refused>>
      PROVE  Paired'
  <2>1. Answers(f, sent', done, back)
    BY <1>a, <1>b, <1>9, AnswersLonger
  <2> QED
    BY <1>c, <1>d, <1>9, <2>1
<1>10. ASSUME NEW s \in Streams, Connect(s)
       PROVE  Paired'
  <2>1. PICK C \in SUBSET Channels : Attach(s, C)
    BY <1>10 DEF Connect
  <2>2. UNCHANGED refused
    BY <1>10 DEF Connect, faults
  <2>3. PICK more : Follows(sent', sent, more) /\ UNCHANGED <<done, back>>
    BY <2>1, AttachEffect
  <2> QED
    BY <1>9, <2>2, <2>3
<1>11. ASSUME NEW s \in Streams, Leaves(s)
       PROVE  Paired'
  <2>1. PICK more : Follows(sent', sent, more) /\ UNCHANGED <<done, back, refused>>
    BY <1>11, LeavesEffect DEF faults
  <2> QED
    BY <1>9, <2>1
<1>12. ASSUME NEW s \in Streams, NEW c \in Channels, AddScope(s, c)
       PROVE  Paired'
  <2>1. Attach(s, {c}) /\ {c} \in SUBSET Channels /\ UNCHANGED refused
    BY <1>12 DEF AddScope, faults
  <2>2. PICK more : Follows(sent', sent, more) /\ UNCHANGED <<done, back>>
    BY <2>1, AttachEffect
  <2> QED
    BY <1>9, <2>1, <2>2
<1>13. \/ UNCHANGED <<sent, done, back, refused>>
       \/ Publish \/ Execute \/ Acknowledge \/ Refuse \/ Message \/ Break \/ Mend
       \/ \E s \in Streams : Connect(s)
       \/ \E s \in Streams : Leaves(s)
       \/ \E s \in Streams : \E c \in Channels : AddScope(s, c)
  <2>1. CASE UNCHANGED vars \/ Number \/ Hint \/ LoadEnds
    BY <2>1 DEF vars, link, faults, Number, Hint, LoadEnds
  <2>2. ASSUME NEW s \in Streams, Ready(s) \/ Write(s) \/ ScopesLive(s)
        PROVE  UNCHANGED <<sent, done, back, refused>>
    BY <2>2 DEF link, faults, Ready, Write, ScopesLive
  <2> QED
    BY <2>1, <2>2, EachStep
<1> QED
  BY <1>1, <1>2, <1>3, <1>4, <1>5, <1>6, <1>7, <1>8, <1>10, <1>11, <1>12, <1>13

-----------------------------------------------------------------------------
(* The order of events *)

\* The first letter is taken off the connection.
LEMMA OrderTail ==
  ASSUME NEW b \in Seq(Letter), b # <<>>, NEW p \in Nat
  PROVE  /\ Travels(b, p) => Travels(Tail(b), p)
         /\ \A o : Handed(o, b, p) => Handed(o, Tail(b), p)
<1>1. \A k \in 1..Len(Tail(b)) : k + 1 \in 1..Len(b) /\ Tail(b)[k] = b[k + 1] /\ k \in Nat
  OBVIOUS
<1>2. Travels(b, p) => Travels(Tail(b), p)
  BY <1>1 DEF Travels
<1>3. \A o : Handed(o, b, p) => Handed(o, Tail(b), p)
  BY <1>1 DEF Handed
<1> QED
  BY <1>2, <1>3

\* A letter that is no event is written behind the others.
LEMMA OrderReply ==
  ASSUME NEW b \in Seq(Letter), NEW l \in Letter, l.kind # "event", NEW p \in Nat
  PROVE  /\ Travels(b, p) => Travels(Append(b, l), p)
         /\ \A o : Handed(o, b, p) => Handed(o, Append(b, l), p)
<1>1. \A k \in 1..Len(Append(b, l)) :
        Append(b, l)[k].kind = "event" => k \in 1..Len(b) /\ Append(b, l)[k] = b[k]
  OBVIOUS
<1>2. Travels(b, p) => Travels(Append(b, l), p)
  BY <1>1 DEF Travels
<1>3. \A o : Handed(o, b, p) => Handed(o, Append(b, l), p)
  BY <1>1 DEF Handed
<1> QED
  BY <1>2, <1>3

\* The next event is published: it is written behind the others.
LEMMA OrderPublish ==
  ASSUME NEW b, NEW c, NEW news, Follows(c, b, news), NEW p \in Nat,
         \A i \in 1..Len(news) : news[i].kind = "event" /\ news[i].event = p + 1,
         \A k \in 1..Len(b) : b[k].kind = "event" => b[k].event \in Nat
  PROVE  /\ Travels(b, p) => Travels(c, p + 1)
         /\ \A o : Handed(o, b, p) => Handed(o, c, p + 1)
<1>1. ASSUME NEW k \in 1..Len(c)
      PROVE  \/ k \in 1..Len(b) /\ c[k] = b[k]
             \/ k > Len(b) /\ c[k].kind = "event" /\ c[k].event = p + 1
  <2>1. CASE k \in 1..Len(b)
    BY <2>1 DEF Follows
  <2>2. CASE \E i \in 1..Len(news) : k = i + Len(b) /\ c[k] = news[i]
    BY <2>2 DEF Follows
  <2> QED
    BY <2>1, <2>2 DEF Follows
<1>2. Len(b) \in Nat /\ Len(c) \in Nat
  BY DEF Follows
<1>3. ASSUME Travels(b, p)
      PROVE  Travels(c, p + 1)
  <2>1. ASSUME NEW k \in 1..Len(c), c[k].kind = "event"
        PROVE  c[k].event <= p + 1
    <3>1. CASE k \in 1..Len(b) /\ c[k] = b[k]
      BY <1>3, <2>1, <3>1 DEF Travels
    <3> QED
      BY <1>1, <3>1
  <2>2. ASSUME NEW k \in 1..Len(c), NEW l \in 1..Len(c), k < l, c[k].kind = "event",
               c[l].kind = "event"
        PROVE  c[k].event <= c[l].event
    <3>1. CASE l \in 1..Len(b) /\ c[l] = b[l]
      <4>1. k \in 1..Len(b) /\ c[k] = b[k]
        BY <1>1, <1>2, <2>2, <3>1
      <4> QED
        BY <1>3, <2>2, <3>1, <4>1 DEF Travels
    <3>2. CASE c[l].event = p + 1
      BY <2>1, <2>2, <3>2
    <3> QED
      BY <1>1, <3>1, <3>2
  <2> QED
    BY <2>1, <2>2 DEF Travels
<1>4. ASSUME NEW o, Handed(o, b, p)
      PROVE  Handed(o, c, p + 1)
  <2>1. ASSUME NEW n \in Nat, Ignores(o, n)
        PROVE  n <= p + 1 /\ \A k \in 1..Len(c) : c[k].kind = "event" => n <= c[k].event
    <3>1. n <= p /\ \A k \in 1..Len(b) : b[k].kind = "event" => n <= b[k].event
      BY <1>4, <2>1 DEF Handed
    <3> QED
      BY <1>1, <3>1
  <2> QED
    BY <1>4, <2>1 DEF Handed
<1> QED
  BY <1>3, <1>4

\* A stream that has gone holds nothing.
LEMMA OrderEmpty ==
  ASSUME NEW b, NEW p
  PROVE  Handed(Empty, b, p)
<1>1. Empty.queue = <<>> /\ Empty.got = <<>>
  BY DEF Empty
<1> QED
  BY <1>1 DEF Handed, Sorted, Ignores, Seen, Queued

\* The first event on the connection is delivered.
LEMMA OrderDeliver ==
  ASSUME NEW b \in Seq(Letter), b # <<>>, b[1].kind = "event", b[1].event \in Nat, NEW p \in Nat,
         NEW o \in OutStates, Handed(o, b, p), Travels(b, p)
  PROVE  Handed(Enqueue(o, b[1].event), Tail(b), p)
<1> DEFINE n == b[1].event
           e == Enqueue(o, n)
<1>1. /\ o.queue \in Seq(Nat) /\ o.got \in Seq(Nat) /\ n \in Nat /\ 1 \in 1..Len(b)
      /\ e.queue \in Seq(Nat) /\ e.got = o.got
  <2>1. e \in OutStates /\ e.got = o.got
    BY EnqueueParts
  <2> HIDE DEF e
  <2> QED
    BY <2>1 DEF OutStates
<1>2. \/ e = o
      \/ e.queue = <<>>
      \/ ~Ignores(o, n) /\ e.queue = Append(o.queue, n)
  BY EnqueueParts
<1>3. n <= p /\ \A k \in 1..Len(b) : b[k].kind = "event" => n <= b[k].event
  <2>1. n <= p
    BY <1>1 DEF Travels
  <2>2. \A k \in 1..Len(b) : k # 1 => 1 < k
    BY <1>1
  <2>3. \A k \in 1..Len(b) : k # 1 /\ b[k].kind = "event" => n <= b[k].event
    BY <1>1, <2>2 DEF Travels
  <2> QED
    BY <1>1, <2>1, <2>3
<1>4. Handed(o, Tail(b), p)
  BY OrderTail
<1>5. \A k \in 1..Len(Tail(b)) : k + 1 \in 1..Len(b) /\ Tail(b)[k] = b[k + 1]
  OBVIOUS
<1> HIDE DEF n, e
<1>6. CASE e = o
  BY <1>4, <1>6 DEF e, n
<1>7. CASE e.queue = <<>>
  <2>1. \A x \in Nat : Ignores(e, x) => Ignores(o, x)
    BY <1>1, <1>7 DEF Ignores, Seen, Queued
  <2>2. Sorted(e.queue)
    BY <1>7 DEF Sorted
  <2>3. Handed(e, Tail(b), p)
    BY <1>1, <1>4, <1>7, <2>1, <2>2 DEF Handed
  <2> QED
    BY <2>3 DEF e, n
<1>8. CASE ~Ignores(o, n) /\ e.queue = Append(o.queue, n)
  <2>1. /\ \A i \in 1..Len(o.got) : o.got[i] \in Nat /\ o.got[i] < n
        /\ \A i \in 1..Len(o.queue) : o.queue[i] \in Nat /\ o.queue[i] < n
    <3>1. ASSUME NEW x \in Nat, Ignores(o, x)
          PROVE  x < n
      <4>1. x <= n
        BY <1>1, <3>1 DEF Handed, n
      <4> QED
        BY <1>1, <1>8, <3>1, <4>1
    <3>2. \A i \in 1..Len(o.got) : o.got[i] \in Nat /\ Ignores(o, o.got[i])
      BY <1>1 DEF Ignores, Seen
    <3>3. \A i \in 1..Len(o.queue) : o.queue[i] \in Nat /\ Ignores(o, o.queue[i])
      BY <1>1 DEF Ignores, Queued
    <3> QED
      BY <3>1, <3>2, <3>3
  <2>2. /\ Len(e.queue) = Len(o.queue) + 1 /\ Len(o.queue) \in Nat
        /\ \A j \in 1..Len(e.queue) :
             \/ j \in 1..Len(o.queue) /\ e.queue[j] = o.queue[j]
             \/ j = Len(o.queue) + 1 /\ e.queue[j] = n
    <3> DEFINE s == o.queue
    <3>1. s \in Seq(Nat) /\ n \in Nat /\ e.queue = Append(s, n)
      BY <1>1, <1>8
    <3> HIDE DEF s
    <3>2. Len(s) \in Nat /\ Len(e.queue) = Len(s) + 1
      BY <3>1
    <3>3. \A j \in 1..(Len(s) + 1) : j \in 1..Len(s) \/ j = Len(s) + 1
      BY <3>2
    <3>4. (\A j \in 1..Len(s) : e.queue[j] = s[j]) /\ e.queue[Len(s) + 1] = n
      BY <3>1
    <3> QED
      BY <3>2, <3>3, <3>4 DEF s
  <2>3. Sorted(e.queue)
    <3>1. ASSUME NEW i \in 1..Len(e.queue), NEW j \in 1..Len(e.queue), i < j
          PROVE  e.queue[i] < e.queue[j]
      <4>1. i \in 1..Len(o.queue) /\ e.queue[i] = o.queue[i]
        BY <2>2, <3>1
      <4>2. CASE j \in 1..Len(o.queue) /\ e.queue[j] = o.queue[j]
        BY <3>1, <4>1, <4>2 DEF Handed, Sorted
      <4>3. CASE e.queue[j] = n
        BY <2>1, <4>1, <4>3
      <4> QED
        BY <2>2, <4>2, <4>3
    <3> QED
      BY <3>1 DEF Sorted
  <2>4. \A i \in 1..Len(e.got) : \A j \in 1..Len(e.queue) : e.got[i] < e.queue[j]
    BY <1>1, <2>1, <2>2 DEF Handed
  <2>5. \A x \in Nat : Ignores(e, x) => Ignores(o, x) \/ x = n
    BY <1>1, <2>2 DEF Ignores, Seen, Queued
  <2>6. \A k \in 1..Len(Tail(b)) : Tail(b)[k].kind = "event" => n <= Tail(b)[k].event
    BY <1>3, <1>5
  <2>7. Handed(e, Tail(b), p)
    BY <1>1, <1>3, <1>4, <2>3, <2>4, <2>5, <2>6 DEF Handed
  <2> QED
    BY <2>7 DEF e, n
<1> QED
  BY <1>2, <1>6, <1>7, <1>8

\* Writing the first event of a queue only moves it.
LEMMA WriteKeeps ==
  ASSUME NEW o \in OutStates, o.queue # <<>>, NEW e, e.queue = Tail(o.queue),
         e.got = Append(o.got, Head(o.queue))
  PROVE  \A x \in Nat : Ignores(e, x) <=> Ignores(o, x)
<1>1. /\ o.queue \in Seq(Nat) /\ o.got \in Seq(Nat)
      /\ Len(o.queue) \in Nat \ {0} /\ Len(o.got) \in Nat
  BY DEF OutStates
<1>2. /\ Len(e.queue) = Len(o.queue) - 1
      /\ \A i \in 1..Len(e.queue) : i + 1 \in 1..Len(o.queue) /\ e.queue[i] = o.queue[i + 1]
  BY <1>1
<1>3. \A j \in 1..Len(o.queue) :
        j # 1 => j - 1 \in 1..Len(e.queue) /\ e.queue[j - 1] = o.queue[j]
  <2>1. \A j \in 1..Len(o.queue) : j # 1 => j - 1 \in 1..Len(e.queue) /\ (j - 1) + 1 = j
    BY <1>1, <1>2
  <2> QED
    BY <1>2, <2>1
<1>4. /\ Len(e.got) = Len(o.got) + 1 /\ Len(o.got) + 1 \in 1..Len(e.got)
      /\ e.got[Len(o.got) + 1] = o.queue[1] /\ 1 \in 1..Len(o.queue)
      /\ \A i \in 1..Len(o.got) : i \in 1..Len(e.got) /\ e.got[i] = o.got[i]
      /\ \A i \in 1..Len(e.got) : i \in 1..Len(o.got) \/ i = Len(o.got) + 1
  BY <1>1
<1>5. \A x \in Nat : Ignores(e, x) <=> Ignores(o, x)
  <2>1. ASSUME NEW x \in Nat, Ignores(e, x)
        PROVE  Ignores(o, x)
    BY <1>2, <1>4, <2>1 DEF Ignores, Seen, Queued
  <2>2. ASSUME NEW x \in Nat, Ignores(o, x)
        PROVE  Ignores(e, x)
    <3>1. CASE Seen(o, x)
      BY <1>4, <3>1 DEF Ignores, Seen
    <3>2. CASE Queued(o, x)
      <4>1. PICK j \in 1..Len(o.queue) : o.queue[j] = x
        BY <3>2 DEF Queued
      <4>2. CASE j = 1
        BY <1>4, <4>1, <4>2 DEF Ignores, Seen
      <4>3. CASE j # 1
        BY <1>3, <4>1, <4>3 DEF Ignores, Queued
      <4> QED
        BY <4>2, <4>3
    <3> QED
      BY <2>2, <3>1, <3>2 DEF Ignores
  <2> QED
    BY <2>1, <2>2
<1> QED
  BY <1>5

\* The first event of a queue is written.
LEMMA OrderWrite ==
  ASSUME NEW o \in OutStates, o.queue # <<>>, NEW e, e.queue = Tail(o.queue),
         e.got = Append(o.got, Head(o.queue)), NEW b, NEW p, Handed(o, b, p)
  PROVE  Handed(e, b, p)
<1>1. /\ o.queue \in Seq(Nat) /\ o.got \in Seq(Nat)
      /\ Len(o.queue) \in Nat \ {0} /\ Len(o.got) \in Nat
  BY DEF OutStates
<1>2. /\ Len(e.queue) = Len(o.queue) - 1
      /\ \A i \in 1..Len(e.queue) : i + 1 \in 1..Len(o.queue) /\ e.queue[i] = o.queue[i + 1]
  BY <1>1
<1>4. /\ Len(e.got) = Len(o.got) + 1 /\ Len(o.got) + 1 \in 1..Len(e.got)
      /\ e.got[Len(o.got) + 1] = o.queue[1] /\ 1 \in 1..Len(o.queue)
      /\ \A i \in 1..Len(o.got) : i \in 1..Len(e.got) /\ e.got[i] = o.got[i]
      /\ \A i \in 1..Len(e.got) : i \in 1..Len(o.got) \/ i = Len(o.got) + 1
  BY <1>1
<1>5. \A x \in Nat : Ignores(e, x) <=> Ignores(o, x)
  BY WriteKeeps
<1>6. Sorted(e.queue)
  BY <1>1, <1>2 DEF Handed, Sorted
<1>7. Sorted(e.got)
  <2>1. ASSUME NEW i \in 1..Len(e.got), NEW j \in 1..Len(e.got), i < j
        PROVE  e.got[i] < e.got[j]
    <3>1. i \in 1..Len(o.got) /\ e.got[i] = o.got[i]
      BY <1>1, <1>4, <2>1
    <3>2. CASE j \in 1..Len(o.got)
      BY <1>4, <2>1, <3>1, <3>2 DEF Handed, Sorted
    <3>3. CASE j = Len(o.got) + 1
      BY <1>4, <3>1, <3>3 DEF Handed
    <3> QED
      BY <1>4, <3>2, <3>3
  <2> QED
    BY <2>1 DEF Sorted
<1>8. \A i \in 1..Len(e.got) : \A j \in 1..Len(e.queue) : e.got[i] < e.queue[j]
  <2>1. ASSUME NEW i \in 1..Len(e.got), NEW j \in 1..Len(e.queue)
        PROVE  e.got[i] < e.queue[j]
    <3>1. j + 1 \in 1..Len(o.queue) /\ e.queue[j] = o.queue[j + 1] /\ 1 < j + 1
      BY <1>1, <1>2
    <3>2. CASE i \in 1..Len(o.got)
      BY <1>4, <3>1, <3>2 DEF Handed
    <3>3. CASE i = Len(o.got) + 1
      BY <1>4, <3>1, <3>3 DEF Handed, Sorted
    <3> QED
      BY <1>4, <3>2, <3>3
  <2> QED
    BY <2>1
<1> QED
  BY <1>5, <1>6, <1>7, <1>8 DEF Handed

\* The steps in which nothing moves between the feed, the connection and the queues.
LEMMA NothingMoves ==
  ASSUME UNCHANGED vars \/ Number \/ Mend \/ Hint \/ LoadEnds
         \/ \E s \in Streams : \/ Connect(s) \/ Ready(s) \/ ScopesLive(s)
                               \/ \E c \in Channels : AddScope(s, c)
  PROVE  UNCHANGED <<published, back, out>>
<1>1. CASE UNCHANGED vars \/ Number \/ Mend \/ Hint \/ LoadEnds
  BY <1>1 DEF vars, source, link, Number, Mend, Hint, LoadEnds
<1>2. ASSUME NEW s \in Streams, Ready(s) \/ ScopesLive(s)
      PROVE  UNCHANGED <<published, back, out>>
  BY <1>2 DEF Ready, ScopesLive, source, link
<1>3. ASSUME NEW s \in Streams, Connect(s) \/ \E c \in Channels : AddScope(s, c)
      PROVE  UNCHANGED <<published, back, out>>
  BY <1>3 DEF Connect, AddScope, Attach, source
<1> QED
  BY <1>1, <1>2, <1>3

\* Every step keeps the order of the feed.
LEMMA InOrderKept ==
  ASSUME Typed, Paired, InOrder, [Next]_vars
  PROVE  InOrder'
<1>a. /\ Travels(back, published) /\ \A s \in Streams : Handed(out[s], back, published)
      /\ back \in Seq(Letter) /\ published \in Nat
      /\ out \in [Streams -> OutStates]
  BY DEF InOrder, Typed
<1>b. Travels(back', published') /\ (\A s \in Streams : Handed(out'[s], back', published'))
      => InOrder'
  BY DEF InOrder
<1>1. CASE UNCHANGED <<published, back, out>>
  BY <1>1, <1>a, <1>b
<1>2. CASE Publish
  <2>1. PICK news \in Seq(Letter) :
          /\ Follows(back', back, news)
          /\ \A i \in 1..Len(news) : news[i].kind = "event" /\ news[i].event = published + 1
          /\ published' = published + 1 /\ UNCHANGED out
    BY <1>2, PublishEffect
  <2>2. \A k \in 1..Len(back) : back[k].kind = "event" => back[k].event \in Nat
    BY <1>a DEF Letter
  <2>3. /\ Travels(back', published + 1)
        /\ \A s \in Streams : Handed(out[s], back', published + 1)
    BY <1>a, <2>1, <2>2, OrderPublish
  <2> QED
    BY <1>b, <2>1, <2>3
<1>3. CASE Execute
  <2>1. PICK kind \in {"ok", "error"} :
          /\ back' = Append(back, Reply(kind, sent[done + 1])) /\ sent[done + 1] \in Order
          /\ UNCHANGED <<published, out>>
    BY <1>3, ExecuteEffect DEF source
  <2>2. Reply(kind, sent[done + 1]) \in Letter /\ Reply(kind, sent[done + 1]).kind # "event"
    BY <2>1, ReplyType
  <2> QED
    BY <1>a, <1>b, <2>1, <2>2, OrderReply
<1>4. CASE Acknowledge
  <2>1. back # <<>> /\ back' = Tail(back) /\ UNCHANGED <<published, out>>
    BY <1>4, AcknowledgeEffect DEF source
  <2> QED
    BY <1>a, <1>b, <2>1, OrderTail
<1>5. CASE Refuse
  <2>1. PICK D \in SUBSET Streams :
          /\ back # <<>> /\ back' = Tail(back) /\ UNCHANGED published
          /\ out' = [s \in Streams |-> IF s \in D THEN Empty ELSE out[s]]
    BY <1>5, RefuseEffect DEF source
  <2>2. \A s \in Streams : /\ Handed(out[s], Tail(back), published)
                           /\ Handed(Empty, Tail(back), published)
    BY <1>a, <2>1, OrderTail, OrderEmpty
  <2>3. Travels(Tail(back), published)
    BY <1>a, <2>1, OrderTail
  <2> QED
    BY <1>b, <2>1, <2>2, <2>3
<1>6. CASE Message
  <2>1. /\ back # <<>> /\ Head(back).kind = "event" /\ back' = Tail(back)
        /\ Deliver(Head(back).channel, Head(back).event) /\ UNCHANGED published
    BY <1>6 DEF Message, source
  <2>2. Head(back) = back[1] /\ back[1].event \in Nat
    BY <1>a, <2>1, FirstMessage
  <2>3. \A s \in Streams : \/ out'[s] = out[s]
                           \/ out'[s] = Enqueue(out[s], back[1].event)
    BY <2>1, <2>2 DEF Deliver
  <2>4. \A s \in Streams : /\ Handed(out[s], Tail(back), published)
                           /\ Handed(Enqueue(out[s], back[1].event), Tail(back), published)
    BY <1>a, <2>1, <2>2, OrderTail, OrderDeliver
  <2>5. Travels(Tail(back), published)
    BY <1>a, <2>1, OrderTail
  <2> QED
    BY <1>b, <2>1, <2>3, <2>4, <2>5
<1>7. CASE Break
  <2>1. back' = <<>> /\ UNCHANGED <<published, out>>
    BY <1>7 DEF Break, source
  <2>2. Travels(<<>>, published) /\ \A s \in Streams : Handed(out[s], <<>>, published)
    BY <1>a DEF Travels, Handed
  <2> QED
    BY <1>b, <2>1, <2>2
<1>8. ASSUME NEW s \in Streams, Write(s)
      PROVE  InOrder'
  <2>1. /\ out' = [out EXCEPT ![s] = [queue |-> Tail(@.queue), over |-> @.over,
                                     got |-> Append(@.got, Head(@.queue))]]
        /\ out[s].queue # <<>> /\ UNCHANGED <<published, back>>
    BY <1>8 DEF Write, source, link
  <2>2. /\ out'[s].queue = Tail(out[s].queue)
        /\ out'[s].got = Append(out[s].got, Head(out[s].queue))
    BY <1>a, <2>1
  <2>3. Handed(out'[s], back, published)
    BY <1>a, <2>1, <2>2, OrderWrite
  <2>4. \A r \in Streams : r # s => out'[r] = out[r]
    BY <1>a, <2>1
  <2> QED
    BY <1>a, <1>b, <2>1, <2>3, <2>4
<1>9. ASSUME NEW s \in Streams, Leaves(s)
      PROVE  InOrder'
  <2>1. /\ out' = [r \in Streams |-> IF r = s THEN Empty ELSE out[r]]
        /\ UNCHANGED <<published, back>>
    BY <1>9, LeavesEffect DEF source
  <2> QED
    BY <1>a, <1>b, <2>1, OrderEmpty
<1> QED
  BY <1>1, <1>2, <1>3, <1>4, <1>5, <1>6, <1>7, <1>8, <1>9, NothingMoves, EachStep

-----------------------------------------------------------------------------
(* What is wanted, what is kept and what is known *)

\* With the channels of S somebody has come, or nobody is left; the others are wanted as before.
Settles(op, S, M, N) ==
  \A x \in Channels :
    /\ x \in S => ((N[x] # {}) <=> (op = "sub"))
    /\ x \notin S => ((N[x] # {}) <=> (M[x] # {}))

\* Channels are subscribed or unsubscribed as the hub wants them.
LEMMA ConnectedAdds ==
  ASSUME NEW op \in {"sub", "unsub"}, NEW S \in SUBSET Channels, NEW more, Asking(more, op, S),
         NEW q, NEW p, Follows(p, q, more), NEW d \in 0..Len(q), NEW M, NEW N,
         Settles(op, S, M, N)
  PROVE  /\ \A K, R : Wired(M, q, K, R) => Wired(N, p, K, R)
         /\ \A A, R : Heard(M, q, d, A, R) => Heard(N, p, d, A, R)
         /\ \A K : Repeated(q, K) => Repeated(p, K)
         /\ Again(p) => Again(q)
         /\ \A c : Missing(p, d, c) => Missing(q, d, c)
<1>1. ASSUME NEW R, NEW K, NEW A, NEW x \in Channels \ R
      PROVE  /\ WiredAt(M[x] # {}, q, x \in K, x) => WiredAt(N[x] # {}, p, x \in K, x)
             /\ HeardAt(M[x] # {}, q, d, x \in A, x) => HeardAt(N[x] # {}, p, d, x \in A, x)
  <2>1. CASE x \in S
    <3>1. /\ \A i \in 1..Len(more) : more[i].op = op
          /\ \E i \in 1..Len(more) : more[i].channel = x
      BY <2>1 DEF Asking
    <3>2. (N[x] # {}) <=> (op = "sub")
      BY <2>1 DEF Settles
    <3> QED
      BY <3>1, <3>2, WiredAdds
  <2>2. CASE x \notin S
    <3>1. \A i \in 1..Len(more) : more[i].channel # x
      BY <2>2 DEF Asking
    <3>2. /\ WiredAt(M[x] # {}, q, x \in K, x) => WiredAt(M[x] # {}, p, x \in K, x)
          /\ HeardAt(M[x] # {}, q, d, x \in A, x) => HeardAt(M[x] # {}, p, d, x \in A, x)
      BY <3>1, WiredKeeps
    <3>3. (N[x] # {}) <=> (M[x] # {})
      BY <2>2 DEF Settles
    <3>4. WiredAt(M[x] # {}, p, x \in K, x) => WiredAt(N[x] # {}, p, x \in K, x)
      BY <3>3 DEF WiredAt
    <3>5. HeardAt(M[x] # {}, p, d, x \in A, x) => HeardAt(N[x] # {}, p, d, x \in A, x)
      BY <3>3 DEF HeardAt
    <3> QED
      BY <3>2, <3>4, <3>5
  <2> QED
    BY <2>1, <2>2
<1>2. \A i \in 1..Len(p) : p[i].op = "again" => i \in 1..Len(q)
  <2>1. \A i \in 1..Len(more) : more[i].op # "again"
    BY DEF Asking
  <2>2. \A i \in 1..Len(p) : i \in 1..Len(q) \/ \E j \in 1..Len(more) : p[i] = more[j]
    BY DEF Follows
  <2>3. \A i \in 1..Len(q) : p[i] = q[i]
    BY DEF Follows
  <2> QED
    BY <2>1, <2>2, <2>3
<1>3. \A i \in 1..Len(q) : i \in 1..Len(p) /\ p[i] = q[i]
  BY DEF Follows
<1>4. Len(q) \in Nat /\ Len(p) \in Nat /\ Len(q) <= Len(p)
  BY DEF Follows
<1>5. ASSUME NEW K, Repeated(q, K)
      PROVE  Repeated(p, K)
  <2>1. PICK n \in 0..Len(q) : \A i \in 1..Len(q) : q[i].op = "again" <=> i <= n
    BY <1>5 DEF Repeated
  <2>2. n \in 0..Len(p) /\ \A i \in 1..Len(p) : p[i].op = "again" <=> i <= n
    BY <1>2, <1>3, <1>4, <2>1
  <2>3. \A i \in 1..Len(p) : p[i].op = "again" => p[i].channel \in K
    BY <1>2, <1>3, <1>5 DEF Repeated
  <2> QED
    BY <2>2, <2>3 DEF Repeated
<1>6. Again(p) => Again(q)
  BY <1>2, <1>3 DEF Again
<1>9. \A c : Missing(p, d, c) => Missing(q, d, c)
  BY <1>2, <1>3 DEF Missing, Asks
<1>7. \A K, R : Wired(M, q, K, R) => Wired(N, p, K, R)
  BY <1>1 DEF Wired
<1>8. \A A, R : Heard(M, q, d, A, R) => Heard(N, p, d, A, R)
  BY <1>1 DEF Heard
<1> QED
  BY <1>5, <1>6, <1>7, <1>8, <1>9

\* The first command is answered: it was unless refused what is kept from then on.
LEMMA ConnectedTakes ==
  ASSUME NEW q, NEW p, NEW h, Follows(q, h, p), Len(h) = 1, NEW d \in Nat \ {0},
         NEW M, NEW K, NEW L, NEW A, NEW R,
         \A x \in Channels \ R :
           x \in L <=> IF q[1].channel = x THEN q[1].op # "unsub" ELSE x \in K
  PROVE  /\ Wired(M, q, K, R) => Wired(M, p, L, R)
         /\ Heard(M, q, d, A, R) => Heard(M, p, d - 1, A, R)
         /\ Again(p) => Again(q)
         /\ \A c : Missing(p, d - 1, c) => Missing(q, d, c)
<1>1. ASSUME NEW x \in Channels \ R
      PROVE  /\ WiredAt(M[x] # {}, q, x \in K, x) => WiredAt(M[x] # {}, p, x \in L, x)
             /\ HeardAt(M[x] # {}, q, d, x \in A, x) => HeardAt(M[x] # {}, p, d - 1, x \in A, x)
  BY <1>1, WiredTakes
<1>2. Again(p) => Again(q)
  BY DEF Follows, Again
<1>3. Wired(M, q, K, R) => Wired(M, p, L, R)
  BY <1>1 DEF Wired
<1>4. Heard(M, q, d, A, R) => Heard(M, p, d - 1, A, R)
  BY <1>1 DEF Heard
<1>5. \A i \in 1..Len(p) : i + 1 \in 1..Len(q) /\ p[i] = q[i + 1] /\ (d - 1 < i => d < i + 1)
  BY DEF Follows
<1>6. \A c : Missing(p, d - 1, c) => Missing(q, d, c)
  BY <1>5 DEF Missing, Asks
<1> QED
  BY <1>2, <1>3, <1>4, <1>6

\* The first command is answered: the repeated ones are still first.
LEMMA RepeatedTakes ==
  ASSUME NEW q, NEW p, NEW h, Follows(q, h, p), Len(h) = 1, NEW K, Repeated(q, K),
         NEW L, K \subseteq L \/ (q[1].op = "unsub" /\ L \subseteq K)
  PROVE  Repeated(p, L)
<1>1. /\ Len(p) \in Nat /\ Len(q) = Len(p) + 1
      /\ \A i \in 1..Len(p) : i + 1 \in 1..Len(q) /\ p[i] = q[i + 1]
  BY DEF Follows
<1>2. PICK n \in 0..Len(q) : \A i \in 1..Len(q) : q[i].op = "again" <=> i <= n
  BY DEF Repeated
<1>3. CASE n = 0
  <2>1. \A i \in 1..Len(p) : p[i].op # "again"
    BY <1>1, <1>2, <1>3
  <2>2. 0 \in 0..Len(p) /\ \A i \in 1..Len(p) : p[i].op = "again" <=> i <= 0
    BY <1>1, <2>1
  <2> QED
    BY <2>1, <2>2 DEF Repeated
<1>4. CASE n # 0
  <2>1. q[1].op = "again" /\ 1 \in 1..Len(q)
    BY <1>1, <1>2, <1>4
  <2>2. n - 1 \in 0..Len(p) /\ \A i \in 1..Len(p) : p[i].op = "again" <=> i <= n - 1
    BY <1>1, <1>2, <1>4
  <2>3. \A i \in 1..Len(p) : p[i].op = "again" => p[i].channel \in L
    BY <1>1, <2>1 DEF Repeated
  <2> QED
    BY <2>2, <2>3 DEF Repeated
<1> QED
  BY <1>3, <1>4

\* Which channels nobody is left on when the streams of D go.
LEMMA Lefts ==
  ASSUME Typed, NEW D \in SUBSET Streams
  PROVE  /\ LeftBy(D) \in SUBSET Channels
         /\ \A x \in Channels : IF x \in LeftBy(D) THEN members[x] \ D = {}
                                ELSE (members[x] \ D # {}) <=> (members[x] # {})
  BY DEF LeftBy

\* The steps that leave the connection as it is, but for what Redis has sent.
LEMMA NothingSent ==
  ASSUME UNCHANGED vars \/ Number \/ Publish \/ Message \/ LoadEnds
         \/ \E s \in Streams : Ready(s) \/ Write(s) \/ ScopesLive(s)
  PROVE  UNCHANGED <<members, sent, kept, refused, late, up, done, at, hints>>
<1>1. CASE UNCHANGED vars \/ Number \/ Publish \/ Message \/ LoadEnds
  BY <1>1 DEF vars, hub, link, faults, Number, Publish, Message, LoadEnds
<1>2. ASSUME NEW s \in Streams, Ready(s) \/ Write(s) \/ ScopesLive(s)
      PROVE  UNCHANGED <<members, sent, kept, refused, late, up, done, at, hints>>
  BY <1>2 DEF hub, link, faults, Ready, Write, ScopesLive
<1> QED
  BY <1>1, <1>2

\* ... and while the connection is down Redis sends nothing.
LEMMA NothingBack ==
  ASSUME Typed, Connected, ~up,
         UNCHANGED vars \/ Number \/ Publish \/ Message \/ LoadEnds
         \/ \E s \in Streams : Ready(s) \/ Write(s) \/ ScopesLive(s)
  PROVE  back' = <<>>
<1>1. back = <<>> /\ at = {}
  BY DEF Connected
<1>2. CASE Publish
  <2>1. PICK news \in Seq(Letter) :
          /\ back' \in Seq(Letter) /\ Follows(back', back, news)
          /\ \A i \in 1..Len(news) : news[i].channel \in at
    BY <1>2, PublishEffect
  <2>2. Len(news) = 0
    BY <1>1, <2>1
  <2>3. Len(back') = 0
    BY <1>1, <2>1, <2>2 DEF Follows
  <2> QED
    BY <2>1, <2>3
<1>3. ~Message
  BY <1>1 DEF Message
<1>4. CASE UNCHANGED vars \/ Number \/ LoadEnds
  BY <1>1, <1>4 DEF vars, link, Number, LoadEnds
<1>5. ASSUME NEW s \in Streams, Ready(s) \/ Write(s) \/ ScopesLive(s)
      PROVE  back' = <<>>
  BY <1>1, <1>5 DEF link, Ready, Write, ScopesLive
<1> QED
  BY <1>2, <1>3, <1>4, <1>5

\* Every step keeps the connection bound to the hub.
LEMMA ConnectedKept ==
  ASSUME Typed, Paired, Connected, [Next]_vars
  PROVE  Connected'
<1>a. /\ Wired(members, sent, kept, refused)
      /\ up => Heard(members, sent, done, at, refused)
      /\ Repeated(sent, kept)
      /\ ~up => at = {} /\ done = 0 /\ back = <<>> /\ ~Again(sent)
      /\ up /\ hints = 0 => \A c \in Channels \ late : ~Missing(sent, done, c)
  BY DEF Connected
<1>b. ASSUME Wired(members', sent', kept', refused'),
             up' => Heard(members', sent', done', at', refused'),
             Repeated(sent', kept'),
             ~up' => at' = {} /\ done' = 0 /\ back' = <<>> /\ ~Again(sent'),
             up' /\ hints' = 0 => \A c \in Channels \ late' : ~Missing(sent', done', c)
      PROVE  Connected'
  BY <1>b DEF Connected
<1>c. /\ sent \in Seq(Order) /\ Len(sent) \in Nat /\ done \in Nat /\ done <= Len(sent)
      /\ done \in 0..Len(sent) /\ hints \in 0..2 /\ up \in BOOLEAN
  BY DEF Typed
<1>1. CASE UNCHANGED vars \/ Number \/ Publish \/ Message \/ LoadEnds
           \/ \E s \in Streams : Ready(s) \/ Write(s) \/ ScopesLive(s)
  <2>1. UNCHANGED <<members, sent, kept, refused, late, up, done, at, hints>>
    BY <1>1, NothingSent
  <2>2. ~up => back' = <<>>
    BY <1>1, NothingBack
  <2> QED
    BY <1>a, <1>b, <2>1, <2>2
<1>2. CASE Execute
  <2> DEFINE order == sent[done + 1]
  <2>1. PICK kind \in {"ok", "error"} :
          /\ kind = "ok" => /\ at' = IF order.op = "unsub" THEN at \ {order.channel}
                                                          ELSE at \cup {order.channel}
                            /\ refused' = refused
          /\ kind = "error" => at' = at /\ refused' = refused \cup {order.channel}
          /\ up /\ done' = done + 1 /\ done + 1 \in 1..Len(sent)
          /\ UNCHANGED <<members, up, sent, kept, hints, late>>
    BY <1>2, ExecuteEffect DEF hub
  <2>2. ASSUME NEW x \in Channels \ refused'
        PROVE  HeardAt(members[x] # {}, sent, done + 1, x \in at', x)
    <3>1. x \in Channels \ refused
      BY <2>1
    <3>2. /\ WiredAt(members[x] # {}, sent, x \in kept, x)
          /\ HeardAt(members[x] # {}, sent, done, x \in at, x)
      BY <1>a, <2>1, <3>1 DEF Wired, Heard
    <3>3. x \in at' <=> IF sent[done + 1].channel = x THEN sent[done + 1].op # "unsub"
                                                      ELSE x \in at
      BY <2>1
    <3>4. done < Len(sent)
      BY <1>c, <2>1
    <3> QED
      BY <1>c, <3>2, <3>3, <3>4, HeardExecutes
  <2>3. refused \subseteq refused'
    BY <2>1
  <2> HIDE DEF order
  <2>4. Heard(members', sent', done', at', refused')
    BY <2>1, <2>2 DEF Heard
  <2>5. Wired(members', sent', kept', refused')
    BY <1>a, <2>1, <2>3 DEF Wired
  <2>6. \A c : Missing(sent', done', c) => Missing(sent, done, c)
    BY <1>c, <2>1 DEF Missing
  <2> QED
    BY <1>a, <1>b, <2>1, <2>4, <2>5, <2>6
<1>3. CASE Acknowledge
  <2>1. PICK c \in Channels :
          /\ c = sent[1].channel /\ back # <<>>
          /\ done \in Nat \ {0} /\ Follows(sent, <<sent[1]>>, sent')
          /\ done' = done - 1
          /\ kept' = IF sent[1].op = "unsub" THEN kept \ {c} ELSE kept \cup {c}
          /\ UNCHANGED <<members, up, at, hints, refused, late>>
    BY <1>3, AcknowledgeEffect DEF faults
  <2>2. up
    BY <1>a, <2>1
  <2>3. \A x \in Channels \ refused :
          x \in kept' <=> IF sent[1].channel = x THEN sent[1].op # "unsub" ELSE x \in kept
    BY <2>1
  <2>4. Len(<<sent[1]>>) = 1
    OBVIOUS
  <2>5. /\ Wired(members, sent', kept', refused) /\ Heard(members, sent', done', at, refused)
        /\ Again(sent') => Again(sent)
        /\ \A x : Missing(sent', done', x) => Missing(sent, done, x)
    <3> DEFINE q == sent'  K == kept'
    <3>1. /\ Follows(sent, <<sent[1]>>, q) /\ done \in Nat \ {0}
          /\ \A x \in Channels \ refused :
               x \in K <=> IF sent[1].channel = x THEN sent[1].op # "unsub" ELSE x \in kept
          /\ Wired(members, sent, kept, refused) /\ Heard(members, sent, done, at, refused)
      BY <1>a, <2>1, <2>2, <2>3
    <3> HIDE DEF q, K
    <3>2. /\ Wired(members, q, K, refused) /\ Heard(members, q, done - 1, at, refused)
          /\ Again(q) => Again(sent)
          /\ \A x : Missing(q, done - 1, x) => Missing(sent, done, x)
      BY <2>4, <3>1, ConnectedTakes
    <3> QED
      BY <2>1, <3>2 DEF q, K
  <2>6. kept \subseteq kept' \/ (sent[1].op = "unsub" /\ kept' \subseteq kept)
    BY <2>1
  <2>7. Repeated(sent', kept')
    BY <1>a, <2>1, <2>4, <2>6, RepeatedTakes
  <2> QED
    BY <1>a, <1>b, <2>1, <2>2, <2>5, <2>7
<1>4. CASE Refuse
  <2>1. PICK c \in Channels, D \in SUBSET Streams :
          /\ c = sent[1].channel /\ c \in refused /\ back # <<>>
          /\ done \in Nat \ {0} /\ Follows(sent, <<sent[1]>>, Tail(sent))
          /\ members' = [d \in Channels |-> members[d] \ D]
          /\ done' = done - 1
          /\ \E more : Asking(more, "unsub", LeftBy(D)) /\ Follows(sent', Tail(sent), more)
          /\ UNCHANGED <<up, at, kept, hints, refused, late>>
    BY <1>4, RefuseEffect DEF faults
  <2>2. PICK more : Asking(more, "unsub", LeftBy(D)) /\ Follows(sent', Tail(sent), more)
    BY <2>1
  <2>3. up
    BY <1>a, <2>1
  <2>4. \A x \in Channels \ refused :
          x \in kept <=> IF sent[1].channel = x THEN sent[1].op # "unsub" ELSE x \in kept
    BY <2>1
  <2>5. Len(<<sent[1]>>) = 1
    OBVIOUS
  <2>6. /\ Wired(members, Tail(sent), kept, refused)
        /\ Heard(members, Tail(sent), done - 1, at, refused)
        /\ Again(Tail(sent)) => Again(sent)
        /\ \A x : Missing(Tail(sent), done - 1, x) => Missing(sent, done, x)
    BY <1>a, <2>1, <2>3, <2>4, <2>5, ConnectedTakes
  <2>7. Repeated(Tail(sent), kept)
    BY <1>a, <2>1, <2>5, RepeatedTakes
  <2>8. /\ LeftBy(D) \in SUBSET Channels
        /\ \A x \in Channels : IF x \in LeftBy(D) THEN members[x] \ D = {}
                               ELSE (members[x] \ D # {}) <=> (members[x] # {})
    BY Lefts
  <2>9. Settles("unsub", LeftBy(D), members, members')
    BY <2>1, <2>8 DEF Settles
  <2>10. done - 1 \in 0..Len(Tail(sent))
    BY <1>c, <2>1 DEF Follows
  <2> DEFINE q == Tail(sent)
             d == done - 1
  <2>11. /\ Wired(members, q, kept, refused) /\ Heard(members, q, d, at, refused)
         /\ Repeated(q, kept) /\ (Again(q) => Again(sent))
         /\ \A x : Missing(q, d, x) => Missing(sent, done, x)
         /\ d \in 0..Len(q) /\ Follows(sent', q, more)
    BY <2>2, <2>6, <2>7, <2>10
  <2> HIDE DEF q, d
  <2>12. /\ Wired(members', sent', kept, refused) /\ Heard(members', sent', d, at, refused)
         /\ Repeated(sent', kept) /\ (Again(sent') => Again(q))
         /\ \A x : Missing(sent', d, x) => Missing(q, d, x)
    BY <2>2, <2>8, <2>9, <2>11, ConnectedAdds
  <2> QED
    BY <1>a, <1>b, <2>1, <2>3, <2>11, <2>12 DEF d
<1>5. CASE Hint
  <2>1. /\ UNCHANGED <<members, sent, kept, refused, up, done, at, back>>
        /\ hints' = hints - 1 /\ up
        /\ late' = IF hints = 1 THEN NotBack ELSE late
    BY <1>5 DEF Hint, hub, link
  <2>2. hints' = 0 => hints = 1
    BY <1>c, <2>1
  <2>3. ASSUME NEW c \in Channels, Missing(sent, done, c)
        PROVE  c \in NotBack
    <3>1. PICK i \in 1..Len(sent) : done < i /\ sent[i].op = "again" /\ sent[i].channel = c
      BY <2>3 DEF Missing, Asks
    <3>2. sent[i] \in Order
      BY <1>c
    <3>3. sent[i] = [op |-> "again", channel |-> c]
      BY <3>1, <3>2 DEF Order
    <3> QED
      BY <3>1, <3>3 DEF NotBack
  <2> QED
    BY <1>a, <1>b, <2>1, <2>2, <2>3
<1>6. CASE Break
  <2>1. PICK n \in 0..Len(sent) : Repeats(n) /\ sent' = SubSeq(sent, n + 1, Len(sent))
    BY <1>6 DEF Break
  <2>2. /\ ~up' /\ back' = <<>> /\ at' = {} /\ done' = 0
        /\ UNCHANGED <<members, kept, refused>>
    BY <1>6 DEF Break, hub
  <2> DEFINE h == SubSeq(sent, 1, n)
  <2>3. /\ Len(h) = n /\ Len(sent') = Len(sent) - n
        /\ \A i \in 1..n : h[i] = sent[i] /\ i \in 1..Len(sent)
        /\ \A i \in 1..(Len(sent) - n) : sent'[i] = sent[i + n] /\ i + n \in 1..Len(sent)
    <3>1. /\ n \in Nat /\ n <= Len(sent) /\ Len(h) = n
          /\ \A i \in 1..n : h[i] = sent[i] /\ i \in 1..Len(sent)
      BY <1>c
    <3>2. Len(sent') = Len(sent) - n
      BY <1>c, <2>1, <3>1
    <3>3. ASSUME NEW i \in 1..(Len(sent) - n)
          PROVE  sent'[i] = sent[i + n] /\ i + n \in 1..Len(sent)
      <4>1. sent'[i] = sent[(n + 1) + i - 1]
        BY <1>c, <2>1, <3>1
      <4>2. (n + 1) + i - 1 = i + n /\ i + n \in 1..Len(sent)
        BY <1>c, <3>1
      <4> QED
        BY <4>1, <4>2
    <3> QED
      BY <3>1, <3>2, <3>3
  <2>4. Follows(sent, h, sent')
    <3>1. ASSUME NEW k \in 1..Len(sent), k \notin 1..n
          PROVE  k - n \in 1..(Len(sent) - n) /\ k = (k - n) + n /\ sent[k] = sent'[k - n]
      <4>1. k - n \in 1..(Len(sent) - n) /\ k = (k - n) + n
        BY <1>c, <3>1
      <4> QED
        BY <2>3, <4>1
    <3> HIDE DEF h
    <3>2. Len(sent') \in Nat /\ Len(h) \in Nat /\ Len(sent) = Len(h) + Len(sent')
      BY <1>c, <2>3
    <3> QED
      BY <2>3, <3>1, <3>2 DEF Follows
  <2> HIDE DEF h
  <2>5. \A i \in 1..Len(h) : h[i].op = "again"
    BY <2>1, <2>3 DEF Repeats
  <2>6. Wired(members', sent', kept', refused')
    BY <1>a, <2>2, <2>4, <2>5, WiredRepeats DEF Wired
  <2>7. \A i \in 1..Len(sent') : sent'[i].op # "again"
    <3>1. \A i \in 1..Len(sent') : ~(i + n <= n)
      BY <1>c, <2>3
    <3> QED
      BY <2>1, <2>3, <3>1 DEF Repeats
  <2>8. Repeated(sent', kept')
    <3>1. 0 \in 0..Len(sent') /\ \A i \in 1..Len(sent') : sent'[i].op = "again" <=> i <= 0
      BY <1>c, <2>3, <2>7
    <3> QED
      BY <2>7, <3>1 DEF Repeated
  <2> QED
    BY <1>b, <2>2, <2>6, <2>7, <2>8 DEF Again
<1>7. CASE Mend
  <2> DEFINE h == Commands("again", kept)
  <2>1. /\ ~up /\ up' /\ sent' = h \o sent /\ hints' = 2
        /\ UNCHANGED <<members, kept, refused, done, at>>
    BY <1>7 DEF Mend, Resubscribe, hub, faults
  <2>2. Asking(h, "again", kept)
    BY CommandsAsk DEF Typed
  <2> HIDE DEF h
  <2>3. Follows(sent', h, sent)
    BY <1>c, <2>1, <2>2, Joined DEF Asking
  <2>4. at = {} /\ done = 0 /\ ~Again(sent)
    BY <1>a, <2>1
  <2>5. \A i \in 1..Len(h) : h[i].op = "again" /\ h[i].channel \in kept
    BY <2>2 DEF Asking
  <2>6. ASSUME NEW x \in Channels \ refused
        PROVE  /\ WiredAt(members[x] # {}, sent', x \in kept, x)
               /\ HeardAt(members[x] # {}, sent', 0, x \in at, x)
    <3>1. WiredAt(members[x] # {}, sent, x \in kept, x)
      BY <1>a DEF Wired
    <3>2. \A i \in 1..Len(h) : h[i].channel = x => x \in kept
      BY <2>5
    <3>3. x \in kept => \E i \in 1..Len(h) : h[i].channel = x
      BY <2>2 DEF Asking
    <3>4. WiredAt(members[x] # {}, sent', x \in kept, x)
      BY <2>3, <2>5, <3>1, <3>2, WiredRepeats
    <3>5. HeardAt(members[x] # {}, sent', 0, FALSE, x)
      BY <2>3, <2>5, <3>1, <3>3, WiredRepeats
    <3>6. x \notin at
      BY <2>4
    <3> QED
      BY <3>4, <3>5, <3>6 DEF HeardAt
  <2>7. Wired(members', sent', kept', refused') /\ Heard(members', sent', done', at', refused')
    BY <2>1, <2>4, <2>6 DEF Wired, Heard
  <2>8. \A i \in 1..Len(sent') : /\ i \in 1..Len(h) => sent'[i] = h[i]
                                 /\ i \notin 1..Len(h) => sent'[i].op # "again"
    BY <2>3, <2>4 DEF Follows, Again
  <2>9. Len(h) \in 0..Len(sent') /\ Len(sent') \in Nat
    BY <2>3 DEF Follows
  <2>10. Repeated(sent', kept')
    <3>1. \A i \in 1..Len(sent') : sent'[i].op = "again" <=> i \in 1..Len(h)
      BY <2>5, <2>8
    <3>2. \A i \in 1..Len(sent') : sent'[i].op = "again" <=> i <= Len(h)
      BY <2>9, <3>1
    <3>3. \A i \in 1..Len(sent') : sent'[i].op = "again" => sent'[i].channel \in kept'
      BY <2>1, <2>5, <2>8, <3>1
    <3> QED
      BY <2>9, <3>2, <3>3 DEF Repeated
  <2> QED
    BY <1>b, <2>1, <2>7, <2>10
<1>8. ASSUME NEW s \in Streams, NEW C \in SUBSET Channels, Attach(s, C),
             UNCHANGED <<hints, refused, late>>
      PROVE  Connected'
  <2> DEFINE opens == {c \in C : members[c] = {}}
  <2>1. PICK more : Asking(more, "sub", opens) /\ Follows(sent', sent, more)
    BY <1>8, AttachEffect
  <2>2. /\ \A c \in Channels :
             members'[c] = IF c \in C THEN members[c] \cup {s} ELSE members[c]
        /\ UNCHANGED <<up, done, back, kept, at>>
    BY <1>8, AttachEffect
  <2>3. opens \in SUBSET Channels
    OBVIOUS
  <2>4. Settles("sub", opens, members, members')
    BY <2>2 DEF Settles
  <2> HIDE DEF opens
  <2>5. /\ Wired(members', sent', kept, refused)
        /\ Heard(members, sent, done, at, refused) => Heard(members', sent', done, at, refused)
        /\ Repeated(sent', kept) /\ (Again(sent') => Again(sent))
        /\ \A x : Missing(sent', done, x) => Missing(sent, done, x)
    BY <1>a, <1>c, <2>1, <2>3, <2>4, ConnectedAdds
  <2> QED
    BY <1>8, <1>a, <1>b, <2>2, <2>5
<1>9. ASSUME NEW s \in Streams, Connect(s)
      PROVE  Connected'
  <2>1. PICK C \in SUBSET Channels : Attach(s, C)
    BY <1>9 DEF Connect
  <2> QED
    BY <1>8, <1>9, <2>1 DEF Connect, faults
<1>10. ASSUME NEW s \in Streams, NEW c \in Channels, AddScope(s, c)
       PROVE  Connected'
  <2>1. Attach(s, {c}) /\ {c} \in SUBSET Channels
    BY <1>10 DEF AddScope
  <2> QED
    BY <1>8, <1>10, <2>1 DEF AddScope, faults
<1>11. ASSUME NEW s \in Streams, Leaves(s)
       PROVE  Connected'
  <2>1. /\ members' = [c \in Channels |-> members[c] \ {s}]
        /\ \E more : Asking(more, "unsub", LeftBy({s})) /\ Follows(sent', sent, more)
        /\ UNCHANGED <<up, done, back, kept, at, hints, refused, late>>
    BY <1>11, LeavesEffect DEF faults
  <2>2. PICK more : Asking(more, "unsub", LeftBy({s})) /\ Follows(sent', sent, more)
    BY <2>1
  <2>3. /\ LeftBy({s}) \in SUBSET Channels
        /\ \A x \in Channels : IF x \in LeftBy({s}) THEN members[x] \ {s} = {}
                               ELSE (members[x] \ {s} # {}) <=> (members[x] # {})
    BY Lefts
  <2>4. Settles("unsub", LeftBy({s}), members, members')
    BY <2>1, <2>3 DEF Settles
  <2>5. /\ Wired(members', sent', kept, refused)
        /\ Heard(members, sent, done, at, refused) => Heard(members', sent', done, at, refused)
        /\ Repeated(sent', kept) /\ (Again(sent') => Again(sent))
        /\ \A x : Missing(sent', done, x) => Missing(sent, done, x)
    BY <1>a, <1>c, <2>2, <2>3, <2>4, ConnectedAdds
  <2> QED
    BY <1>a, <1>b, <2>1, <2>5
<1> QED
  BY <1>1, <1>2, <1>3, <1>4, <1>5, <1>6, <1>7, <1>9, <1>10, <1>11, EachStep

-----------------------------------------------------------------------------
(* Who waits for a subscription *)

\* What is subscribed after commands were answered or dropped, or others were sent.
LEMMA SubscribingFollows ==
  ASSUME NEW p, NEW q, NEW r, Follows(p, q, r), NEW c
  PROVE  /\ Subscribing(r, c) => Subscribing(p, c)
         /\ Subscribing(p, c) => \/ Subscribing(q, c)
                                 \/ Subscribing(r, c)
<1>1. \A i \in 1..Len(r) : \E k \in 1..Len(p) : p[k] = r[i]
  BY DEF Follows
<1>2. \A k \in 1..Len(p) : \/ k \in 1..Len(q) /\ p[k] = q[k]
                           \/ \E i \in 1..Len(r) : p[k] = r[i]
  BY DEF Follows
<1>3. Subscribing(r, c) => Subscribing(p, c)
  BY <1>1 DEF Subscribing, Asks
<1>4. Subscribing(p, c) => Subscribing(q, c) \/ Subscribing(r, c)
  BY <1>2 DEF Subscribing, Asks
<1> QED
  BY <1>3, <1>4

\* A list of other commands subscribes nothing.
LEMMA AskingOther ==
  ASSUME NEW q, NEW op, op # "sub", NEW C, Asking(q, op, C), NEW c
  PROVE  ~Subscribing(q, c)
  BY DEF Asking, Subscribing, Asks

\* Steps after which nobody waits less, and nothing more is subscribed.
AwaitedAs(c) ==
  Subscribing(sent', c) /\ members'[c] # {} =>
    /\ Subscribing(sent, c) /\ members'[c] \subseteq members[c] /\ confirmed'[c] = confirmed[c]
    /\ \A s \in members'[c] : c \in stream[s].waits => c \in stream'[s].waits

\* ... so whoever had to wait still does.
LEMMA AwaitedStays ==
  ASSUME Awaited, refused \subseteq refused', \A c \in Channels \ refused' : AwaitedAs(c)
  PROVE  Awaited'
<1>1. ASSUME NEW c \in Channels \ refused', Subscribing(sent', c), members'[c] # {}
      PROVE  confirmed'[c] = "pending" /\ \A s \in members'[c] : c \in stream'[s].waits
  <2>1. c \in Channels \ refused /\ AwaitedAs(c)
    BY <1>1
  <2> QED
    BY <1>1, <2>1 DEF Awaited, AwaitedAs
<1> QED
  BY <1>1 DEF Awaited

\* The steps that concern neither commands nor confirmations leave whom a stream waits for.
LEMMA WaitsStay ==
  ASSUME Typed, UNCHANGED vars \/ Number \/ Publish \/ Message \/ LoadEnds \/ Execute \/ Break
                \/ Mend \/ Hint \/ \E s \in Streams : Ready(s) \/ Write(s) \/ ScopesLive(s)
  PROVE  /\ \A r \in Streams : stream'[r].waits = stream[r].waits
         /\ UNCHANGED <<members, confirmed>> /\ refused \subseteq refused'
<1>1. CASE UNCHANGED vars \/ Number \/ Publish \/ Message \/ Break \/ Mend
  BY <1>1 DEF vars, hub, faults, Number, Publish, Message, Break, Mend
<1>2. CASE Execute
  <2>1. UNCHANGED <<members, confirmed, stream>>
    BY <1>2 DEF Execute, hub
  <2>2. refused \subseteq refused'
    BY <1>2, ExecuteEffect
  <2> QED
    BY <2>1, <2>2
<1>3. CASE Hint
  <2>1. UNCHANGED <<members, confirmed, refused>>
    BY <1>3 DEF Hint, hub, faults
  <2>2. ASSUME NEW r \in Streams
        PROVE  stream'[r].waits = stream[r].waits
    <3>1. stream[r] \in StreamStates
      BY DEF Typed
    <3>2. \/ stream'[r] = stream[r]
          \/ stream'[r] = [stream[r] EXCEPT !.base = [c \in Channels |-> Len(feed)]]
      BY <1>3 DEF Hint
    <3> DEFINE b == [c \in Channels |-> Len(feed)]
    <3>3. b \in [Channels -> Nat]
      BY DEF Typed
    <3> HIDE DEF b
    <3>4. [stream[r] EXCEPT !.base = b].waits = stream[r].waits
      BY <3>1, <3>3, StreamChanges, StreamParts
    <3> QED
      BY <3>2, <3>4 DEF b
  <2> QED
    BY <2>1, <2>2
<1>4. CASE LoadEnds
  <2>1. UNCHANGED <<members, confirmed, refused>>
    BY <1>4 DEF LoadEnds, hub, faults
  <2>2. ASSUME NEW r \in Streams
        PROVE  stream'[r].waits = stream[r].waits
    <3>1. stream[r] \in StreamStates
      BY DEF Typed
    <3>2. CASE stream[r].pc = "load"
      <4>1. stream'[r] = Hello(stream[r])
        BY <1>4, <3>2 DEF LoadEnds
      <4>2. [c \in Channels |-> Later(stream[r].base[c], head.value)] \in [Channels -> Nat]
        BY <3>1 DEF Later, Typed, StreamStates
      <4> QED
        BY <3>1, <4>1, <4>2, StreamParts DEF Hello, Phases
    <3>3. CASE stream[r].pc = "next"
      <4>1. stream'[r] = [stream[r] EXCEPT !.pc = "load"]
        BY <1>4, <3>3 DEF LoadEnds
      <4> QED
        BY <3>1, <4>1, StreamChanges, StreamParts DEF Phases
    <3>4. CASE stream[r].pc \notin {"load", "next"}
      BY <1>4, <3>4 DEF LoadEnds
    <3> QED
      BY <3>2, <3>3, <3>4
  <2> QED
    BY <2>1, <2>2
<1>5. ASSUME NEW s \in Streams, Ready(s)
      PROVE  /\ \A r \in Streams : stream'[r].waits = stream[r].waits
             /\ UNCHANGED <<members, confirmed, refused>>
  <2>1. UNCHANGED <<members, confirmed, refused>>
    BY <1>5 DEF Ready, hub, faults
  <2>2. stream[s] \in StreamStates /\ LoadToWaitFor \in Phases
    BY DEF Typed, LoadToWaitFor, Phases
  <2>3. stream' = [stream EXCEPT ![s] = [stream[s] EXCEPT !.pc = LoadToWaitFor]]
    BY <1>5 DEF Ready
  <2>4. [stream[s] EXCEPT !.pc = LoadToWaitFor].waits = stream[s].waits
    BY <2>2, StreamChanges, StreamParts
  <2> QED
    BY <2>1, <2>3, <2>4 DEF Typed
<1>6. ASSUME NEW s \in Streams, Write(s)
      PROVE  UNCHANGED <<stream, members, confirmed, refused>>
  BY <1>6 DEF Write, hub, faults
<1>7. ASSUME NEW s \in Streams, ScopesLive(s)
      PROVE  /\ \A r \in Streams : stream'[r].waits = stream[r].waits
             /\ UNCHANGED <<members, confirmed, refused>>
  <2> DEFINE new == stream[s].channels \ stream[s].live
             b == [c \in Channels |-> IF c \in new THEN published ELSE stream[s].base[c]]
  <2>1. /\ UNCHANGED <<members, confirmed, refused>>
        /\ stream' = [stream EXCEPT ![s] =
                       Stream("open", stream[s].channels, {}, stream[s].channels, b)]
        /\ stream[s].waits = {}
    BY <1>7 DEF ScopesLive, hub, faults
  <2>2. b \in [Channels -> Nat] /\ stream[s] \in StreamStates
    BY StreamParts DEF Typed
  <2> HIDE DEF b
  <2>3. Stream("open", stream[s].channels, {}, stream[s].channels, b).waits = {}
    BY <2>2, StreamParts DEF Phases
  <2> QED
    BY <2>1, <2>3 DEF Typed
<1> QED
  BY <1>1, <1>2, <1>3, <1>4, <1>5, <1>6, <1>7

\* Every step keeps those waiting who have to wait.
LEMMA AwaitedKept ==
  ASSUME Typed, AllPhased, Paired, Connected, Awaited, [Next]_vars
  PROVE  Awaited'
<1>1. CASE UNCHANGED vars \/ Number \/ Publish \/ Message \/ LoadEnds \/ Execute \/ Break
           \/ Mend \/ Hint \/ \E s \in Streams : Ready(s) \/ Write(s) \/ ScopesLive(s)
  <2>1. /\ \A r \in Streams : stream'[r].waits = stream[r].waits
        /\ UNCHANGED <<members, confirmed>> /\ refused \subseteq refused'
    BY <1>1, WaitsStay
  <2>2. \A c \in Channels : members[c] \subseteq Streams
    BY DEF Typed
  <2>3. ASSUME NEW c \in Channels \ refused', Subscribing(sent', c)
        PROVE  Subscribing(sent, c)
    <3>1. CASE UNCHANGED sent
      BY <2>3, <3>1
    <3>2. CASE Break
      <4>1. PICK n \in 0..Len(sent) : sent' = SubSeq(sent, n + 1, Len(sent))
        BY <3>2 DEF Break
      <4>2. \A i \in 1..Len(sent') : \E k \in 1..Len(sent) : sent'[i] = sent[k]
        <5>1. sent \in Seq(Order)
          BY DEF Typed
        <5>2. n \in Nat /\ n <= Len(sent) /\ Len(sent) \in Nat /\ Len(sent') = Len(sent) - n
          BY <4>1, <5>1
        <5>3. ASSUME NEW i \in 1..(Len(sent) - n)
              PROVE  sent'[i] = sent[i + n] /\ i + n \in 1..Len(sent)
          <6>1. sent'[i] = sent[(n + 1) + i - 1]
            BY <4>1, <5>1, <5>2
          <6>2. (n + 1) + i - 1 = i + n /\ i + n \in 1..Len(sent)
            BY <5>2
          <6> QED
            BY <6>1, <6>2
        <5> QED
          BY <5>2, <5>3
      <4> QED
        BY <2>3, <4>2 DEF Subscribing, Asks
    <3>3. CASE Mend
      <4>1. sent' = Commands("again", kept) \o sent
        BY <3>3 DEF Mend, Resubscribe
      <4>2. Asking(Commands("again", kept), "again", kept)
        BY CommandsAsk DEF Typed
      <4>3. Follows(sent', Commands("again", kept), sent)
        BY <4>1, <4>2, Joined DEF Asking, Typed
      <4>4. ~Subscribing(Commands("again", kept), c)
        BY <4>2, AskingOther
      <4> QED
        BY <2>3, <4>3, <4>4, SubscribingFollows
    <3>4. CASE UNCHANGED vars \/ Number \/ Publish \/ Message \/ LoadEnds \/ Execute \/ Hint
      BY <2>3, <3>4 DEF vars, link, Number, Publish, Message, LoadEnds, Execute, Hint
    <3>5. ASSUME NEW s \in Streams, Ready(s) \/ Write(s) \/ ScopesLive(s)
          PROVE  UNCHANGED sent
      BY <3>5 DEF link, Ready, Write, ScopesLive
    <3> QED
      BY <1>1, <3>1, <3>2, <3>3, <3>4, <3>5
  <2>4. \A c \in Channels \ refused' : AwaitedAs(c)
    BY <2>1, <2>2, <2>3 DEF AwaitedAs
  <2> QED
    BY <2>1, <2>4, AwaitedStays
<1>2. CASE Acknowledge
  <2>1. PICK c \in Channels :
          /\ c = sent[1].channel /\ Follows(sent, <<sent[1]>>, sent') /\ sent' = Tail(sent)
          /\ \/ /\ ~Superseded(c)
                /\ confirmed' = [confirmed EXCEPT ![c] = IF @ = "pending" THEN "yes" ELSE @]
                /\ stream' = [s \in Streams |-> [stream[s] EXCEPT !.waits = @ \ {c}]]
             \/ UNCHANGED <<confirmed, stream>>
          /\ UNCHANGED <<members, refused>>
    BY <1>2, AcknowledgeEffect DEF faults
  <2>2. \A x : Subscribing(sent', x) => Subscribing(sent, x)
    BY <2>1, SubscribingFollows
  <2>3. CASE UNCHANGED <<confirmed, stream>>
    <3>1. \A x \in Channels \ refused' : AwaitedAs(x)
      BY <2>1, <2>2, <2>3 DEF AwaitedAs
    <3> QED
      BY <2>1, <3>1, AwaitedStays
  <2>4. CASE /\ ~Superseded(c)
             /\ confirmed' = [confirmed EXCEPT ![c] = IF @ = "pending" THEN "yes" ELSE @]
             /\ stream' = [s \in Streams |-> [stream[s] EXCEPT !.waits = @ \ {c}]]
    <3>1. ~Subscribing(sent', c)
      <4>1. ASSUME NEW i \in 1..Len(sent'), Asks(sent', i, "sub", c)
            PROVE  FALSE
        <5>1. /\ sent \in Seq(Order) /\ Len(sent) \in Nat /\ Len(sent') = Len(sent) - 1
              /\ sent' \in Seq(Order) /\ i \in Nat
          <6>1. sent \in Seq(Order) /\ Len(sent) = 1 + Len(sent') /\ Len(sent') \in Nat
            BY <2>1 DEF Typed, Follows
          <6>2. sent # <<>>
            BY <6>1
          <6> QED
            BY <2>1, <6>1, <6>2
        <5>2. i + 1 \in 2..Len(sent) /\ sent'[i] = sent[i + 1]
          BY <2>1, <5>1
        <5>3. sent[i + 1] \in Order
          BY <5>1, <5>2
        <5>4. sent[i + 1] = [op |-> "sub", channel |-> c]
          BY <4>1, <5>2, <5>3 DEF Asks, Order
        <5> QED
          BY <2>4, <5>2, <5>4 DEF Superseded
      <4> QED
        BY <4>1 DEF Subscribing
    <3>2. \A x \in Channels : x # c => confirmed'[x] = confirmed[x]
      BY <2>4 DEF Typed
    <3>3. ASSUME NEW x \in Channels, x # c, NEW s \in Streams, x \in stream[s].waits
          PROVE  x \in stream'[s].waits
      <4>1. stream'[s] = [stream[s] EXCEPT !.waits = stream[s].waits \ {c}]
        BY <2>4
      <4>2. stream[s] \in StreamStates
        BY DEF Typed
      <4>3. stream'[s].waits = stream[s].waits \ {c}
        BY <4>1, <4>2, StreamChanges, StreamParts
      <4> QED
        BY <3>3, <4>3
    <3>4. \A x \in Channels : members[x] \subseteq Streams
      BY DEF Typed
    <3>5. \A x \in Channels \ refused' : AwaitedAs(x)
      BY <2>1, <2>2, <3>1, <3>2, <3>3, <3>4 DEF AwaitedAs
    <3> QED
      BY <2>1, <3>5, AwaitedStays
  <2> QED
    BY <2>1, <2>3, <2>4
<1>3. CASE Refuse
  <2>1. PICK c \in Channels, D \in SUBSET Streams :
          /\ c \in refused /\ Follows(sent, <<sent[1]>>, Tail(sent))
          /\ members' = [d \in Channels |-> members[d] \ D]
          /\ confirmed' = [d \in Channels |-> IF d \in LeftBy(D) \cup {c} THEN "no"
                                                                          ELSE confirmed[d]]
          /\ stream' = [s \in Streams |-> IF s \in D THEN Nobody("closed") ELSE stream[s]]
          /\ \E more : Asking(more, "unsub", LeftBy(D)) /\ Follows(sent', Tail(sent), more)
          /\ UNCHANGED refused
    BY <1>3, RefuseEffect DEF faults
  <2>2. PICK more : Asking(more, "unsub", LeftBy(D)) /\ Follows(sent', Tail(sent), more)
    BY <2>1
  <2>3. \A x : Subscribing(sent', x) => Subscribing(sent, x)
    BY <2>1, <2>2, SubscribingFollows, AskingOther
  <2>4. ASSUME NEW x \in Channels \ refused, members'[x] # {}
        PROVE  /\ members'[x] \subseteq members[x] /\ confirmed'[x] = confirmed[x]
               /\ \A s \in members'[x] : stream'[s] = stream[s]
    <3>1. members'[x] = members[x] \ D /\ members[x] \subseteq Streams
      BY <2>1 DEF Typed
    <3>2. x \notin LeftBy(D) /\ x # c
      BY <2>1, <2>4, <3>1 DEF LeftBy
    <3> QED
      BY <2>1, <3>1, <3>2
  <2>5. \A x \in Channels \ refused' : AwaitedAs(x)
    BY <2>1, <2>3, <2>4 DEF AwaitedAs
  <2> QED
    BY <2>1, <2>5, AwaitedStays
<1>4. ASSUME NEW s \in Streams, Leaves(s)
      PROVE  Awaited'
  <2>1. /\ members' = [c \in Channels |-> members[c] \ {s}]
        /\ confirmed' = [c \in Channels |-> IF c \in LeftBy({s}) THEN "no" ELSE confirmed[c]]
        /\ \E more : Asking(more, "unsub", LeftBy({s})) /\ Follows(sent', sent, more)
        /\ stream' = [r \in Streams |-> IF r = s THEN Nobody("closed") ELSE stream[r]]
        /\ UNCHANGED refused
    BY <1>4, LeavesEffect DEF faults
  <2>2. PICK more : Asking(more, "unsub", LeftBy({s})) /\ Follows(sent', sent, more)
    BY <2>1
  <2>3. \A x : Subscribing(sent', x) => Subscribing(sent, x)
    BY <2>2, SubscribingFollows, AskingOther
  <2>4. ASSUME NEW x \in Channels \ refused, members'[x] # {}
        PROVE  /\ members'[x] \subseteq members[x] /\ confirmed'[x] = confirmed[x]
               /\ \A r \in members'[x] : stream'[r] = stream[r]
    <3>1. members'[x] = members[x] \ {s} /\ members[x] \subseteq Streams
      BY <2>1 DEF Typed
    <3>2. x \notin LeftBy({s})
      BY <2>4, <3>1 DEF LeftBy
    <3> QED
      BY <2>1, <3>1, <3>2
  <2>5. ASSUME NEW x \in Channels \ refused' PROVE AwaitedAs(x)
    <3>1. x \in Channels \ refused
      BY <2>1
    <3> QED
      BY <2>3, <2>4, <3>1 DEF AwaitedAs
  <2> QED
    BY <2>1, <2>5, AwaitedStays
<1>5. ASSUME NEW s \in Streams, NEW C \in SUBSET Channels, Attach(s, C), UNCHANGED refused,
             stream'[s].waits = Unconfirmed(C),
             \A c \in Channels \ C : s \in members[c] => c \notin stream[s].waits,
             \A r \in Streams : r # s => stream'[r] = stream[r]
      PROVE  Awaited'
  <2> DEFINE opens == {c \in C : members[c] = {}}
  <2>1. /\ \A c \in Channels :
             members'[c] = IF c \in C THEN members[c] \cup {s} ELSE members[c]
        /\ \A c \in Channels : confirmed'[c] = IF c \in C /\ members[c] = {} THEN "pending"
                                               ELSE confirmed[c]
    BY <1>5, AttachEffect
  <2>2. PICK more : Asking(more, "sub", opens) /\ Follows(sent', sent, more)
    BY <1>5, AttachEffect
  <2>3. ASSUME NEW c \in Channels \ refused, Subscribing(sent', c), members'[c] # {}
        PROVE  confirmed'[c] = "pending" /\ \A r \in members'[c] : c \in stream'[r].waits
    <3>1. CASE c \in opens
      <4>1. members'[c] = {s} /\ confirmed'[c] = "pending" /\ c \in Unconfirmed(C)
        BY <2>1, <3>1 DEF Unconfirmed
      <4> QED
        BY <1>5, <4>1
    <3>2. CASE c \notin opens
      <4>1. ~Subscribing(more, c)
        BY <2>2, <3>2 DEF Asking, Subscribing, Asks
      <4>2. Subscribing(sent, c) /\ members[c] # {} /\ members[c] \subseteq Streams
        BY <2>1, <2>2, <2>3, <3>2, <4>1, SubscribingFollows DEF Typed
      <4>3. confirmed[c] = "pending" /\ \A r \in members[c] : c \in stream[r].waits
        BY <2>3, <4>2 DEF Awaited
      <4>4. confirmed'[c] = "pending"
        BY <2>1, <4>2, <4>3
      <4>5. CASE c \in C
        <5>1. c \in Unconfirmed(C) /\ members'[c] = members[c] \cup {s}
          BY <2>1, <4>3, <4>5 DEF Unconfirmed
        <5> QED
          BY <1>5, <4>2, <4>3, <4>4, <5>1
      <4>6. CASE c \notin C
        <5>1. members'[c] = members[c] /\ s \notin members[c]
          BY <1>5, <2>1, <2>3, <4>3, <4>6
        <5> QED
          BY <1>5, <4>2, <4>3, <4>4, <5>1
      <4> QED
        BY <4>5, <4>6
    <3> QED
      BY <3>1, <3>2
  <2> QED
    BY <1>5, <2>3 DEF Awaited
<1>6. ASSUME NEW s \in Streams, Connect(s)
      PROVE  Awaited'
  <2>1. PICK C \in SUBSET Channels :
          /\ Attach(s, C)
          /\ stream' = [stream EXCEPT
                         ![s] = Stream("ready", C, Unconfirmed(C), {}, [c \in Channels |-> 0])]
    BY <1>6 DEF Connect
  <2>2. UNCHANGED refused /\ stream[s].pc = "idle"
    BY <1>6 DEF Connect, faults
  <2>3. Unconfirmed(C) \in SUBSET Channels /\ [c \in Channels |-> 0] \in [Channels -> Nat]
    BY DEF Unconfirmed
  <2>4. stream'[s].waits = Unconfirmed(C)
    <3>1. stream'[s] = Stream("ready", C, Unconfirmed(C), {}, [c \in Channels |-> 0])
      BY <2>1 DEF Typed
    <3> QED
      BY <2>3, <3>1, StreamParts DEF Phases
  <2>5. \A c \in Channels : s \notin members[c]
    BY <2>2 DEF AllPhased, Phased
  <2>6. \A r \in Streams : r # s => stream'[r] = stream[r]
    BY <2>1 DEF Typed
  <2> QED
    BY <1>5, <2>1, <2>2, <2>4, <2>5, <2>6
<1>7. ASSUME NEW s \in Streams, NEW c \in Channels, AddScope(s, c)
      PROVE  Awaited'
  <2> DEFINE C == stream[s].channels \cup {c}
             W == Unconfirmed({c})
             L == stream[s].live
             b == stream[s].base
  <2>1. /\ Attach(s, {c}) /\ {c} \in SUBSET Channels /\ UNCHANGED refused
        /\ stream[s].live = stream[s].channels
        /\ stream' = [stream EXCEPT ![s] = Stream("open", C, W, L, b)]
    BY <1>7 DEF AddScope, faults
  <2>2. stream[s] \in StreamStates
    BY DEF Typed
  <2>3. C \in SUBSET Channels /\ L \in SUBSET Channels /\ b \in [Channels -> Nat]
    BY <2>2, StreamParts
  <2>4. W \in SUBSET Channels
    BY DEF Unconfirmed
  <2>5. \A x \in Channels : s \in members[x] => x \notin stream[s].waits
    BY <2>1 DEF AllPhased, Phased
  <2> HIDE DEF C, L, b, W
  <2>6. /\ stream'[s] = Stream("open", C, W, L, b)
        /\ \A r \in Streams : r # s => stream'[r] = stream[r]
    BY <2>1 DEF Typed
  <2>7. stream'[s].waits = W
    BY <2>3, <2>4, <2>6, StreamParts DEF Phases
  <2> QED
    BY <1>5, <2>1, <2>5, <2>6, <2>7 DEF W
<1> QED
  BY <1>1, <1>2, <1>3, <1>4, <1>6, <1>7, EachStep

-----------------------------------------------------------------------------
(* What a stream is due *)

\* A stream is due nothing but what it is attached to and does not wait for.
LEMMA DueParts ==
  ASSUME Typed, AllPhased, NEW s \in Streams, NEW c \in Due(stream[s])
  PROVE  /\ c \in Channels /\ s \in members[c] /\ c \notin stream[s].waits
         /\ From(stream[s], head, c) \in Nat
<1>1. Phased(s) /\ stream[s] \in StreamStates /\ head.value \in Nat
  BY DEF AllPhased, Typed
<1>2. c \in stream[s].channels /\ c \notin stream[s].waits
  BY <1>1 DEF Phased, Due
<1>3. c \in Channels /\ stream[s].base[c] \in Nat
  BY <1>1, <1>2 DEF StreamStates
<1>4. s \in members[c]
  BY <1>1, <1>2, <1>3 DEF Phased
<1> QED
  BY <1>1, <1>2, <1>3, <1>4 DEF From, Later

\* After a step a stream is due what it was due, or nothing of what was published so far.
DueAs(r) ==
  \A c \in Due(stream'[r]) \ Excused' :
    \/ From(stream'[r], head', c) >= published
    \/ c \in Due(stream[r]) /\ From(stream'[r], head', c) = From(stream[r], head, c)

\* A stream without live channels that does not read the head is due nothing.
LEMMA NothingDue ==
  ASSUME NEW r, stream'[r].pc # "load", stream'[r].live = {}
  PROVE  DueAs(r)
  BY DEF DueAs, Due

\* A stream that stays as it is, and the head as well, if it waits for it.
LEMMA DueStays ==
  ASSUME NEW r, stream'[r] = stream[r], stream[r].pc = "load" => UNCHANGED head
  PROVE  DueAs(r)
  BY DEF DueAs, Due, From

\* A stream that begins to wait for a head that is read now.
LEMMA DueFromNow ==
  ASSUME Typed, NEW r, stream'[r].pc = "load", stream'[r].base \in [Channels -> Nat],
         stream'[r].channels \subseteq Channels, head' = Load
  PROVE  DueAs(r)
<1>1. head'.value = Len(feed) /\ Len(feed) \in Nat /\ published \in Nat /\ published <= Len(feed)
  BY DEF Load, Typed
<1>2. ASSUME NEW c \in Due(stream'[r])
      PROVE  From(stream'[r], head', c) >= published
  <2>1. stream'[r].base[c] \in Nat
    BY <1>2 DEF Due
  <2> QED
    BY <1>1, <2>1 DEF From, Later
<1> QED
  BY <1>2 DEF DueAs

\* No step makes a stream due something from before the step that it was not due already.
LEMMA DueKept ==
  ASSUME Typed, AllPhased, Paired, [Next]_vars, NEW r \in Streams
  PROVE  DueAs(r)
<1>a. /\ stream[r] \in StreamStates /\ Phased(r) /\ published \in Nat /\ Len(feed) \in Nat
      /\ published <= Len(feed) /\ head.value \in Nat
  BY DEF Typed, AllPhased
<1>1. CASE UNCHANGED <<stream, head>>
  BY <1>1, DueStays
<1>2. CASE Acknowledge
  <2>1. PICK c \in Channels :
          /\ \/ stream' = [s \in Streams |-> [stream[s] EXCEPT !.waits = @ \ {c}]]
             \/ stream' = stream
          /\ UNCHANGED head
    BY <1>2, AcknowledgeEffect
  <2>2. CASE stream' = stream
    BY <2>1, <2>2, DueStays
  <2>3. CASE stream' = [s \in Streams |-> [stream[s] EXCEPT !.waits = @ \ {c}]]
    <3>1. stream'[r] = [stream[r] EXCEPT !.waits = stream[r].waits \ {c}]
      BY <2>3
    <3>2. /\ stream'[r].pc = stream[r].pc /\ stream'[r].channels = stream[r].channels
          /\ stream'[r].base = stream[r].base /\ stream'[r].live = stream[r].live
      BY <1>a, <3>1, StreamChanges, StreamParts
    <3> QED
      BY <2>1, <3>2 DEF DueAs, Due, From
  <2> QED
    BY <2>1, <2>2, <2>3
<1>3. CASE Refuse
  <2>1. PICK D \in SUBSET Streams :
          /\ stream' = [s \in Streams |-> IF s \in D THEN Nobody("closed") ELSE stream[s]]
          /\ UNCHANGED head
    BY <1>3, RefuseEffect
  <2>2. CASE r \in D
    <3>1. stream'[r].pc = "closed" /\ stream'[r].live = {}
      BY <2>1, <2>2, NobodyParts DEF Phases
    <3> QED
      BY <3>1, NothingDue
  <2>3. CASE r \notin D
    BY <2>1, <2>3, DueStays
  <2> QED
    BY <2>2, <2>3
<1>4. CASE Hint
  <2> DEFINE b == [c \in Channels |-> Len(feed)]
  <2>1. /\ UNCHANGED head
        /\ \/ stream'[r] = stream[r]
           \/ stream'[r] = [stream[r] EXCEPT !.base = b]
    BY <1>4 DEF Hint
  <2>2. b \in [Channels -> Nat] /\ \A c \in Channels : b[c] = Len(feed)
    BY <1>a
  <2> HIDE DEF b
  <2>3. CASE stream'[r] = stream[r]
    BY <2>1, <2>3, DueStays
  <2>4. CASE stream'[r] = [stream[r] EXCEPT !.base = b]
    <3>1. /\ stream'[r].pc = stream[r].pc /\ stream'[r].channels = stream[r].channels
          /\ stream'[r].base = b /\ stream'[r].live = stream[r].live
          /\ stream[r].channels \subseteq Channels /\ stream[r].live \subseteq Channels
      BY <1>a, <2>2, <2>4, StreamChanges, StreamParts
    <3>2. ASSUME NEW c \in Due(stream'[r])
          PROVE  From(stream'[r], head', c) >= published
      <4>1. stream'[r].base[c] = Len(feed)
        BY <2>2, <3>1, <3>2 DEF Due
      <4> QED
        BY <1>a, <2>1, <4>1 DEF From, Later
    <3> QED
      BY <3>2 DEF DueAs
  <2> QED
    BY <2>1, <2>3, <2>4
<1>5. CASE LoadEnds
  <2>1. CASE stream[r].pc = "load"
    <3> DEFINE b == [c \in Channels |-> Later(stream[r].base[c], head.value)]
    <3>1. stream'[r] = Hello(stream[r])
      BY <1>5, <2>1 DEF LoadEnds
    <3>2. b \in [Channels -> Nat] /\ \A c \in Channels : b[c] = Later(stream[r].base[c], head.value)
      BY <1>a DEF Later, StreamStates
    <3>3. Hello(stream[r]) = Stream("open", stream[r].channels, stream[r].waits,
                                    stream[r].channels, b)
      BY DEF Hello
    <3> HIDE DEF b
    <3>4. /\ stream'[r].pc = "open" /\ stream'[r].live = stream[r].channels
          /\ stream'[r].base = b /\ stream[r].channels \subseteq Channels
      BY <1>a, <3>1, <3>2, <3>3, StreamParts DEF Phases
    <3>5. Due(stream'[r]) = Due(stream[r]) /\ Due(stream[r]) \subseteq Channels
      BY <2>1, <3>4 DEF Due
    <3>6. \A c \in Channels : From(stream'[r], head', c) = From(stream[r], head, c)
      BY <2>1, <3>2, <3>4 DEF From
    <3> QED
      BY <3>5, <3>6 DEF DueAs
  <2>2. CASE stream[r].pc = "next"
    <3>1. stream'[r] = [stream[r] EXCEPT !.pc = "load"] /\ head' = Load
      BY <1>5, <2>2 DEF LoadEnds
    <3>2. /\ stream'[r].pc = "load" /\ stream'[r].channels = stream[r].channels
          /\ stream'[r].base = stream[r].base /\ stream[r].channels \subseteq Channels
          /\ stream[r].base \in [Channels -> Nat]
      BY <1>a, <3>1, StreamChanges, StreamParts DEF Phases
    <3> QED
      BY <3>1, <3>2, DueFromNow
  <2>3. CASE stream[r].pc \notin {"load", "next"}
    <3>1. stream'[r] = stream[r]
      BY <1>5, <2>3 DEF LoadEnds
    <3> QED
      BY <2>3, <3>1, DueStays
  <2> QED
    BY <2>1, <2>2, <2>3
<1>6. ASSUME NEW s \in Streams, Connect(s)
      PROVE  DueAs(r)
  <2>1. PICK C \in SUBSET Channels :
          stream' = [stream EXCEPT
                       ![s] = Stream("ready", C, Unconfirmed(C), {}, [c \in Channels |-> 0])]
    BY <1>6 DEF Connect
  <2>2. UNCHANGED head
    BY <1>6 DEF Connect
  <2>3. CASE r # s
    BY <2>1, <2>2, <2>3, DueStays DEF Typed
  <2>4. CASE r = s
    <3>1. stream'[r] = Stream("ready", C, Unconfirmed(C), {}, [c \in Channels |-> 0])
      BY <2>1, <2>4 DEF Typed
    <3>2. Unconfirmed(C) \in SUBSET Channels /\ [c \in Channels |-> 0] \in [Channels -> Nat]
      BY DEF Unconfirmed
    <3>3. stream'[r].pc = "ready" /\ stream'[r].live = {}
      BY <3>1, <3>2, StreamParts DEF Phases
    <3> QED
      BY <3>3, NothingDue
  <2> QED
    BY <2>3, <2>4
<1>7. ASSUME NEW s \in Streams, Ready(s)
      PROVE  DueAs(r)
  <2>1. /\ stream' = [stream EXCEPT ![s] = [stream[s] EXCEPT !.pc = LoadToWaitFor]]
        /\ head' = (IF head.loading THEN head ELSE Load)
        /\ stream[s].pc = "ready"
    BY <1>7 DEF Ready
  <2>2. CASE r # s
    <3>1. stream'[r] = stream[r]
      BY <2>1, <2>2 DEF Typed
    <3>2. stream[r].pc = "load" => head.loading
      BY <1>a DEF Phased
    <3> QED
      BY <2>1, <3>1, <3>2, DueStays
  <2>3. CASE r = s
    <3>1. stream'[r] = [stream[r] EXCEPT !.pc = LoadToWaitFor]
      BY <2>1, <2>3 DEF Typed
    <3>2. LoadToWaitFor = IF head.loading THEN "next" ELSE "load"
      BY DEF LoadToWaitFor
    <3>3. /\ stream'[r].pc = LoadToWaitFor /\ stream'[r].channels = stream[r].channels
          /\ stream'[r].base = stream[r].base /\ stream'[r].live = stream[r].live
          /\ stream[r].channels \subseteq Channels /\ stream[r].base \in [Channels -> Nat]
      BY <1>a, <3>1, <3>2, StreamChanges, StreamParts DEF Phases
    <3>4. CASE head.loading
      <4>1. stream'[r].pc # "load" /\ stream'[r].live = {}
        BY <1>a, <2>1, <2>3, <3>2, <3>3, <3>4 DEF Phased
      <4> QED
        BY <4>1, NothingDue
    <3>5. CASE ~head.loading
      BY <2>1, <3>2, <3>3, <3>5, DueFromNow
    <3> QED
      BY <3>4, <3>5
  <2> QED
    BY <2>2, <2>3
<1>8. ASSUME NEW s \in Streams, Leaves(s)
      PROVE  DueAs(r)
  <2>1. /\ stream' = [x \in Streams |-> IF x = s THEN Nobody("closed") ELSE stream[x]]
        /\ UNCHANGED head
    BY <1>8, LeavesEffect
  <2>2. CASE r = s
    <3>1. stream'[r].pc = "closed" /\ stream'[r].live = {}
      BY <2>1, <2>2, NobodyParts DEF Phases
    <3> QED
      BY <3>1, NothingDue
  <2>3. CASE r # s
    BY <2>1, <2>3, DueStays
  <2> QED
    BY <2>2, <2>3
<1>9. ASSUME NEW s \in Streams, ScopesLive(s)
      PROVE  DueAs(r)
  <2> DEFINE new == stream[s].channels \ stream[s].live
             b == [c \in Channels |-> IF c \in new THEN published ELSE stream[s].base[c]]
  <2>1. /\ UNCHANGED head /\ stream[s].pc = "open"
        /\ stream' = [stream EXCEPT ![s] =
                       Stream("open", stream[s].channels, {}, stream[s].channels, b)]
    BY <1>9 DEF ScopesLive
  <2>2. /\ b \in [Channels -> Nat] /\ stream[s] \in StreamStates
        /\ stream[s].channels \in SUBSET Channels
    BY StreamParts DEF Typed
  <2>3. \A c \in stream[s].channels : IF c \in stream[s].live THEN b[c] = stream[s].base[c]
                                                              ELSE b[c] = published
    BY <2>2
  <2> HIDE DEF b
  <2>4. CASE r # s
    BY <2>1, <2>4, DueStays DEF Typed
  <2>5. CASE r = s
    <3>1. stream'[r] = Stream("open", stream[r].channels, {}, stream[r].channels, b)
      BY <2>1, <2>5 DEF Typed
    <3>2. /\ stream'[r].pc = "open" /\ stream'[r].live = stream[r].channels
          /\ stream'[r].base = b
      BY <2>2, <2>5, <3>1, StreamParts DEF Phases
    <3> QED
      BY <1>a, <2>1, <2>3, <2>5, <3>2 DEF DueAs, Due, From
  <2> QED
    BY <2>4, <2>5
<1>10. ASSUME NEW s \in Streams, NEW c \in Channels, AddScope(s, c)
       PROVE  DueAs(r)
  <2> DEFINE C == stream[s].channels \cup {c}
             W == Unconfirmed({c})
             L == stream[s].live
             b == stream[s].base
  <2>1. /\ stream[s].pc = "open" /\ UNCHANGED head
        /\ stream' = [stream EXCEPT ![s] = Stream("open", C, W, L, b)]
    BY <1>10 DEF AddScope
  <2>2. stream[s] \in StreamStates
    BY DEF Typed
  <2>3. C \in SUBSET Channels /\ L \in SUBSET Channels /\ b \in [Channels -> Nat]
    BY <2>2, StreamParts
  <2>4. W \in SUBSET Channels
    BY DEF Unconfirmed
  <2> HIDE DEF C, L, b, W
  <2>5. /\ stream'[s] = Stream("open", C, W, L, b)
        /\ \A x \in Streams : x # s => stream'[x] = stream[x]
    BY <2>1 DEF Typed
  <2>6. stream'[s].pc = "open" /\ stream'[s].live = L /\ stream'[s].base = b
    BY <2>3, <2>4, <2>5, StreamParts DEF Phases
  <2>7. CASE r # s
    BY <2>1, <2>5, <2>7, DueStays
  <2>8. CASE r = s
    BY <2>1, <2>6, <2>8 DEF DueAs, Due, From, L, b
  <2> QED
    BY <2>7, <2>8
<1>11. CASE \/ UNCHANGED vars
            \/ Number \/ Publish \/ Execute \/ Message \/ Break \/ Mend
            \/ \E s \in Streams : Write(s)
  <2>1. UNCHANGED <<stream, head>>
    BY <1>11 DEF vars, Number, Publish, Execute, Message, Break, Mend, Write
  <2> QED
    BY <1>1, <2>1
<1> QED
  BY <1>2, <1>3, <1>4, <1>5, <1>6, <1>7, <1>8, <1>9, <1>10, <1>11, EachStep

\* What a stream has or is on its way stays so, unless the stream's queue overflows.
ReachesAs(r) ==
  ~out'[r].over =>
    ~out[r].over /\ \A n \in Nat : Reaches(r, n) => Reaches(r, n)'

\* The events of b are among those of d.
Carries(b, d) ==
  \A k \in 1..Len(b) : b[k].kind = "event" => \E l \in 1..Len(d) : d[l] = b[k]

\* A stream that keeps its queue and its channels while events stay on their way.
LEMMA ReachesStays ==
  ASSUME NEW r, out'[r] = out[r], Carries(back, back'),
         \A k \in 1..Len(back) : back[k].kind = "event" => back[k].channel \in Channels,
         \A c \in Channels : r \in members[c] => r \in members'[c]
  PROVE  ReachesAs(r)
<1>1. ASSUME NEW n, OnItsWay(r, n)
      PROVE  OnItsWay(r, n)'
  <2>1. PICK k \in 1..Len(back) :
          back[k].kind = "event" /\ back[k].event = n /\ r \in members[back[k].channel]
    BY <1>1 DEF OnItsWay
  <2>2. PICK l \in 1..Len(back') : back'[l] = back[k]
    BY <2>1 DEF Carries
  <2>3. r \in members'[back'[l].channel]
    BY <2>1, <2>2
  <2> QED
    BY <2>1, <2>2, <2>3 DEF OnItsWay
<1>2. \A n : (Seen(out[r], n) => Seen(out'[r], n)) /\ (Queued(out[r], n) => Queued(out'[r], n))
  OBVIOUS
<1> QED
  BY <1>1, <1>2 DEF ReachesAs, Reaches

\* A reply is taken off the connection: the events stay on it.
LEMMA CarriesTail ==
  ASSUME NEW b \in Seq(Letter), b # <<>>, Head(b).kind # "event"
  PROVE  Carries(b, Tail(b))
<1>1. \A k \in 1..Len(b) : k # 1 => k - 1 \in 1..Len(Tail(b)) /\ Tail(b)[k - 1] = b[k]
  <2>1. \A k \in 1..Len(b) : k # 1 => k - 1 \in 1..Len(Tail(b)) /\ (k - 1) + 1 = k
    OBVIOUS
  <2>2. \A l \in 1..Len(Tail(b)) : Tail(b)[l] = b[l + 1]
    OBVIOUS
  <2> QED
    BY <2>1, <2>2
<1>2. Head(b) = b[1]
  OBVIOUS
<1> QED
  BY <1>1, <1>2 DEF Carries

\* Whatever reaches a stream that is due something still does after a step.
LEMMA ReachesKept ==
  ASSUME Typed, AllPhased, Paired, [Next]_vars, ~Break, NEW r \in Streams
  PROVE  ReachesAs(r) \/ Due(stream'[r]) = {}
<1>a. \A k \in 1..Len(back) : back[k].kind = "event" => back[k].channel \in Channels
  BY DEF Typed, Letter
<1>b. Carries(back, back)
  BY DEF Carries
<1>c. back \in Seq(Letter) /\ \A c \in Channels : members[c] \subseteq Streams
  BY DEF Typed
<1>d. out[r] \in OutStates
  BY DEF Typed
<1>1. CASE \/ UNCHANGED vars
           \/ Number \/ Mend \/ Hint \/ LoadEnds
           \/ \E s \in Streams : Ready(s) \/ ScopesLive(s)
  <2>1. CASE UNCHANGED vars \/ Number \/ Mend \/ Hint \/ LoadEnds
    <3>1. UNCHANGED <<out, back, members>>
      BY <2>1 DEF vars, hub, link, Number, Mend, Hint, LoadEnds
    <3> QED
      BY <1>a, <1>b, <3>1, ReachesStays
  <2>2. ASSUME NEW s \in Streams, Ready(s) \/ ScopesLive(s)
        PROVE  ReachesAs(r)
    <3>1. UNCHANGED <<out, back, members>>
      BY <2>2 DEF hub, link, Ready, ScopesLive
    <3> QED
      BY <1>a, <1>b, <3>1, ReachesStays
  <2> QED
    BY <1>1, <2>1, <2>2
<1>2. CASE Publish
  <2>1. PICK news \in Seq(Letter) : Follows(back', back, news) /\ UNCHANGED <<out, members>>
    BY <1>2, PublishEffect DEF hub
  <2>2. Carries(back, back')
    BY <2>1 DEF Carries, Follows
  <2> QED
    BY <1>a, <2>1, <2>2, ReachesStays
<1>3. CASE Execute
  <2>1. PICK l \in Letter : back' = Append(back, l) /\ UNCHANGED <<out, members>>
    <3>1. PICK kind \in {"ok", "error"} :
            /\ back' = Append(back, Reply(kind, sent[done + 1])) /\ sent[done + 1] \in Order
            /\ UNCHANGED <<out, members>>
      BY <1>3, ExecuteEffect DEF hub
    <3> QED
      BY <3>1, ReplyType
  <2>2. \A k \in 1..Len(back) : k \in 1..Len(back') /\ back'[k] = back[k]
    BY <1>c, <2>1
  <2>3. Carries(back, back')
    BY <2>2 DEF Carries
  <2> QED
    BY <1>a, <2>1, <2>3, ReachesStays
<1>4. CASE Acknowledge
  <2>1. back # <<>> /\ back' = Tail(back) /\ UNCHANGED <<out, members>>
    BY <1>4, AcknowledgeEffect
  <2>2. Head(back).kind # "event"
    BY <1>4 DEF Acknowledge
  <2> QED
    BY <1>a, <1>c, <2>1, <2>2, CarriesTail, ReachesStays
<1>5. CASE Refuse
  <2>1. PICK D \in SUBSET Streams :
          /\ back # <<>> /\ back' = Tail(back) /\ Head(back).kind # "event"
          /\ members' = [d \in Channels |-> members[d] \ D]
          /\ stream' = [s \in Streams |-> IF s \in D THEN Nobody("closed") ELSE stream[s]]
          /\ out' = [s \in Streams |-> IF s \in D THEN Empty ELSE out[s]]
    BY <1>5, RefuseEffect
  <2>2. CASE r \in D
    <3>1. stream'[r].pc = "closed" /\ stream'[r].live = {}
      BY <2>1, <2>2, NobodyParts DEF Phases
    <3> QED
      BY <3>1 DEF Due
  <2>3. CASE r \notin D
    <3>1. Carries(back, back')
      BY <1>c, <2>1, CarriesTail
    <3>2. out'[r] = out[r] /\ \A c \in Channels : r \in members[c] => r \in members'[c]
      BY <2>1, <2>3
    <3> QED
      BY <1>a, <3>1, <3>2, ReachesStays
  <2> QED
    BY <2>2, <2>3
<1>6. CASE Message
  <2> DEFINE m == Head(back).event
             o == out[r]
             e == out'[r]
  <2>1. /\ back # <<>> /\ Head(back).kind = "event" /\ back' = Tail(back)
        /\ Deliver(Head(back).channel, m) /\ UNCHANGED members
    BY <1>6 DEF Message, hub
  <2>2. m \in Nat /\ Head(back).channel \in Channels /\ Head(back) = back[1]
    BY <1>c, <2>1, FirstMessage
  <2>3. e = IF r \in members[Head(back).channel] THEN Enqueue(o, m) ELSE o
    BY <2>1 DEF Deliver
  <2>4. \A k \in 1..Len(back) : k # 1 => \E l \in 1..Len(back') : back'[l] = back[k]
    <3>1. \A k \in 1..Len(back) : k # 1 => k - 1 \in 1..Len(Tail(back)) /\ (k - 1) + 1 = k
      BY <1>c, <2>1
    <3>2. \A l \in 1..Len(Tail(back)) : Tail(back)[l] = back[l + 1]
      BY <1>c, <2>1
    <3> QED
      BY <2>1, <3>1, <3>2
  <2> HIDE DEF m
  <2>5. ASSUME ~e.over
        PROVE  /\ ~o.over
               /\ \A n \in Nat : Ignores(o, n) => Ignores(e, n)
               /\ r \in members[Head(back).channel] => Ignores(e, m)
    <3>1. CASE r \notin members[Head(back).channel]
      BY <2>3, <2>5, <3>1
    <3>2. CASE r \in members[Head(back).channel]
      <4>1. CASE e = o /\ (o.over \/ Ignores(o, m))
        BY <2>5, <4>1
      <4>2. CASE /\ ~o.over /\ e.queue = Append(o.queue, m) /\ e.got = o.got
        <5>1. o.queue \in Seq(Nat)
          BY <1>d DEF OutStates
        <5>2. /\ Len(e.queue) = Len(o.queue) + 1
              /\ Len(e.queue) \in 1..Len(e.queue) /\ e.queue[Len(e.queue)] = m
              /\ \A i \in 1..Len(o.queue) : i \in 1..Len(e.queue) /\ e.queue[i] = o.queue[i]
          BY <2>2, <4>2, <5>1
        <5> QED
          BY <4>2, <5>2 DEF Ignores, Seen, Queued
      <4>3. \/ Enqueue(o, m) = o /\ (o.over \/ Ignores(o, m))
            \/ Enqueue(o, m).over
            \/ /\ ~o.over /\ Enqueue(o, m).queue = Append(o.queue, m)
               /\ Enqueue(o, m).got = o.got
        BY <1>d, <2>2, EnqueueParts
      <4>4. e = Enqueue(o, m)
        BY <2>3, <3>2
      <4> QED
        BY <2>5, <3>2, <4>1, <4>2, <4>3, <4>4
    <3> QED
      BY <3>1, <3>2
  <2>6. ASSUME ~e.over, NEW n \in Nat, Reaches(r, n)
        PROVE  Reaches(r, n)'
    <3>1. CASE Ignores(o, n)
      BY <2>5, <2>6, <3>1 DEF Ignores, Reaches
    <3>2. CASE OnItsWay(r, n)
      <4>1. PICK k \in 1..Len(back) :
              back[k].kind = "event" /\ back[k].event = n /\ r \in members[back[k].channel]
        BY <3>2 DEF OnItsWay
      <4>2. CASE k = 1
        BY <2>2, <2>5, <2>6, <4>1, <4>2 DEF Ignores, Reaches, m
      <4>3. CASE k # 1
        <5>1. PICK l \in 1..Len(back') : back'[l] = back[k]
          BY <2>4, <4>3
        <5>2. OnItsWay(r, n)'
          BY <2>1, <4>1, <5>1 DEF OnItsWay
        <5> QED
          BY <5>2 DEF Reaches
      <4> QED
        BY <4>2, <4>3
    <3> QED
      BY <2>6, <3>1, <3>2 DEF Reaches, Ignores
  <2> QED
    BY <2>5, <2>6 DEF ReachesAs
<1>7. ASSUME NEW s \in Streams, NEW C \in SUBSET Channels, Attach(s, C), UNCHANGED out
      PROVE  ReachesAs(r)
  <2>1. /\ \A c \in Channels :
             members'[c] = IF c \in C THEN members[c] \cup {s} ELSE members[c]
        /\ UNCHANGED back
    BY <1>7, AttachEffect
  <2> QED
    BY <1>7, <1>a, <1>b, <2>1, ReachesStays
<1>8. ASSUME NEW s \in Streams, Connect(s)
      PROVE  ReachesAs(r)
  BY <1>7, <1>8 DEF Connect
<1>9. ASSUME NEW s \in Streams, NEW c \in Channels, AddScope(s, c)
      PROVE  ReachesAs(r)
  <2>1. Attach(s, {c}) /\ {c} \in SUBSET Channels /\ UNCHANGED out
    BY <1>9 DEF AddScope
  <2> QED
    BY <1>7, <2>1
<1>10. ASSUME NEW s \in Streams, Write(s)
       PROVE  ReachesAs(r)
  <2>1. /\ out' = [out EXCEPT ![s] = [queue |-> Tail(@.queue), over |-> @.over,
                                     got |-> Append(@.got, Head(@.queue))]]
        /\ out[s].queue # <<>> /\ UNCHANGED <<back, members>>
    BY <1>10 DEF Write, link, hub
  <2>2. CASE r # s
    <3>1. out'[r] = out[r]
      BY <2>1, <2>2 DEF Typed
    <3> QED
      BY <1>a, <1>b, <2>1, <3>1, ReachesStays
  <2>3. CASE r = s
    <3>1. /\ out'[r].queue = Tail(out[r].queue) /\ out'[r].over = out[r].over
          /\ out'[r].got = Append(out[r].got, Head(out[r].queue))
      BY <2>1, <2>3 DEF Typed
    <3>2. \A x \in Nat : Ignores(out[r], x) => Ignores(out'[r], x)
      BY <1>d, <2>1, <2>3, <3>1, WriteKeeps
    <3>3. \A n : OnItsWay(r, n) => OnItsWay(r, n)'
      BY <2>1 DEF OnItsWay
    <3> QED
      BY <3>1, <3>2, <3>3 DEF ReachesAs, Reaches, Ignores
  <2> QED
    BY <2>2, <2>3
<1>11. ASSUME NEW s \in Streams, Leaves(s)
       PROVE  ReachesAs(r) \/ Due(stream'[r]) = {}
  <2>1. /\ members' = [c \in Channels |-> members[c] \ {s}]
        /\ stream' = [x \in Streams |-> IF x = s THEN Nobody("closed") ELSE stream[x]]
        /\ out' = [x \in Streams |-> IF x = s THEN Empty ELSE out[x]]
        /\ UNCHANGED back
    BY <1>11, LeavesEffect
  <2>2. CASE r = s
    <3>1. stream'[r].pc = "closed" /\ stream'[r].live = {}
      BY <2>1, <2>2, NobodyParts DEF Phases
    <3> QED
      BY <3>1 DEF Due
  <2>3. CASE r # s
    <3>1. out'[r] = out[r] /\ \A c \in Channels : r \in members[c] => r \in members'[c]
      BY <2>1, <2>3
    <3> QED
      BY <1>a, <1>b, <2>1, <3>1, ReachesStays
  <2> QED
    BY <2>2, <2>3
<1> QED
  BY <1>1, <1>2, <1>3, <1>4, <1>5, <1>6, <1>8, <1>9, <1>10, <1>11, EachStep

\* Redis knows of the channels a stream is due, unless a hint is owed.
LEMMA DueIsKnown ==
  ASSUME Typed, AllPhased, Connected, Awaited, ~Warned, NEW s \in Streams,
         NEW c \in Due(stream[s]) \ Excused
  PROVE  c \in Channels /\ s \in members[c] /\ c \in at
<1>1. /\ c \in Channels /\ s \in members[c] /\ c \notin stream[s].waits
      /\ c \notin refused /\ c \notin late
  BY DueParts DEF Excused
<1>2. up /\ hints = 0
  BY DEF Warned, Typed
<1>3. ~Subscribing(sent, c)
  BY <1>1 DEF Awaited
<1>4. WiredAt(members[c] # {}, sent, c \in kept, c)
      /\ HeardAt(members[c] # {}, sent, done, c \in at, c)
  BY <1>1, <1>2 DEF Connected, Wired, Heard
<1>5. \A i \in 1..Len(sent) : sent[i].op \in {"sub", "unsub", "again"}
  <2>1. ASSUME NEW i \in 1..Len(sent)
        PROVE  sent[i] \in Order
    BY DEF Typed
  <2> QED
    BY <2>1 DEF Order
<1>6. \A i \in 1..Len(sent) : ~Asks(sent, i, "unsub", c)
  BY <1>1, <1>3, <1>4 DEF WiredAt, Subscribing
<1>7. ~Missing(sent, done, c)
  BY <1>1, <1>2 DEF Connected
<1>8. \A i \in 1..Len(sent) : done < i => sent[i].channel # c
  BY <1>3, <1>5, <1>6, <1>7 DEF Subscribing, Missing, Asks
<1> QED
  BY <1>1, <1>4, <1>8 DEF HeardAt

\* Every step keeps what a stream is due on its way to it.
LEMMA CoveredKept ==
  ASSUME Typed, AllPhased, Paired, Connected, Awaited, Covered, [Next]_vars
  PROVE  Covered'
<1> SUFFICES ASSUME ~Warned', NEW r \in Streams, ~out'[r].over,
                    NEW c \in Due(stream'[r]) \ Excused',
                    NEW n \in (From(stream'[r], head', c) + 1)..published', c \in feed'[n]
             PROVE  Reaches(r, n)'
  BY DEF Covered, CoveredAt
<1>a. /\ published \in Nat /\ Len(feed) \in Nat /\ published <= Len(feed) /\ up \in BOOLEAN
      /\ feed \in Seq(SUBSET Channels) /\ hints \in Nat /\ refused \subseteq refused'
  <2>1. refused \subseteq refused'
    <3>1. CASE Execute
      BY <3>1, ExecuteEffect
    <3>2. CASE Acknowledge
      BY <3>2, AcknowledgeEffect DEF faults
    <3>3. CASE Refuse
      BY <3>3, RefuseEffect DEF faults
    <3>4. ASSUME NEW s \in Streams, Leaves(s)
          PROVE  UNCHANGED refused
      BY <3>4, LeavesEffect DEF faults
    <3>5. CASE UNCHANGED vars \/ Number \/ Publish \/ Message \/ Break \/ Mend \/ Hint \/ LoadEnds
      BY <3>5 DEF vars, faults, Number, Publish, Message, Break, Mend, Hint, LoadEnds
    <3>6. ASSUME NEW s \in Streams,
                 Connect(s) \/ Ready(s) \/ Write(s) \/ ScopesLive(s)
                 \/ \E d \in Channels : AddScope(s, d)
          PROVE  UNCHANGED refused
      BY <3>6 DEF faults, Connect, Ready, Write, ScopesLive, AddScope
    <3> QED
      BY <3>1, <3>2, <3>3, <3>4, <3>5, <3>6, EachStep
  <2> QED
    BY <2>1 DEF Typed
<1>b. ~Break /\ ~Mend
  <2>1. ASSUME Break
        PROVE  FALSE
    BY <2>1 DEF Break, Warned
  <2>2. ASSUME Mend
        PROVE  FALSE
    BY <2>2 DEF Mend, Warned
  <2> QED
    BY <2>1, <2>2
<1>c. Typed' /\ AllPhased'
  BY TypedKept, PhasedKept
<1>d. c \in Channels /\ From(stream'[r], head', c) \in Nat
  <2>1. Phased(r)' /\ stream'[r] \in StreamStates /\ head'.value \in Nat
    BY <1>c DEF AllPhased, Typed
  <2>2. c \in stream'[r].channels
    BY <2>1 DEF Phased, Due
  <2>3. c \in Channels /\ stream'[r].base[c] \in Nat
    BY <2>1, <2>2 DEF StreamStates
  <2> QED
    BY <2>1, <2>3 DEF From, Later
<1>e. n \in Nat /\ n > From(stream'[r], head', c) /\ n <= published' /\ n # 0
  <2> DEFINE lo == From(stream'[r], head', c)
  <2>1. published' \in Nat
    BY <1>c DEF Typed
  <2>2. lo \in Nat /\ n \in (lo + 1)..published'
    BY <1>d
  <2> HIDE DEF lo
  <2>3. n \in Nat /\ n > lo /\ n <= published' /\ n # 0
    BY <2>1, <2>2
  <2> QED
    BY <2>3 DEF lo
<1>f. DueAs(r) /\ ReachesAs(r)
  BY <1>b, DueKept, ReachesKept
<1>1. ASSUME ~Warned, n <= published, feed'[n] = feed[n], UNCHANGED late
      PROVE  Reaches(r, n)'
  <2>1. ~(From(stream'[r], head', c) >= published)
    BY <1>1, <1>a, <1>d, <1>e
  <2>2. c \in Due(stream[r]) /\ From(stream[r], head, c) = From(stream'[r], head', c)
    BY <1>f, <2>1 DEF DueAs
  <2>3. c \in Due(stream[r]) \ Excused
    BY <1>a, <1>1, <2>2 DEF Excused
  <2>4. n \in (From(stream[r], head, c) + 1)..published
    BY <1>1, <1>a, <1>d, <1>e, <2>2
  <2>5. ~out[r].over
    BY <1>f DEF ReachesAs
  <2>6. CoveredAt(r)
    BY <1>1 DEF Covered
  <2>7. c \in feed[n]
    BY <1>1
  <2>8. Reaches(r, n)
    BY <2>3, <2>4, <2>5, <2>6, <2>7 DEF CoveredAt
  <2> QED
    BY <1>e, <1>f, <2>8 DEF ReachesAs
<1>2. CASE Hint
  <2> DEFINE b == [d \in Channels |-> Len(feed)]
  <2>1. /\ UNCHANGED <<published, feed, head>>
        /\ stream'[r] = IF stream[r].pc \in {"load", "next", "open"}
                        THEN [stream[r] EXCEPT !.base = b] ELSE stream[r]
    BY <1>2 DEF Hint, source
  <2>2. b \in [Channels -> Nat] /\ b[c] = Len(feed) /\ stream[r] \in StreamStates /\ Phased(r)
    BY <1>a, <1>d DEF Typed, AllPhased
  <2> HIDE DEF b
  <2>3. CASE stream[r].pc \in {"load", "next", "open"}
    <3>1. stream'[r].base = b
      BY <2>1, <2>2, <2>3, StreamChanges, StreamParts
    <3>2. From(stream'[r], head', c) >= Len(feed)
      BY <1>a, <1>d, <2>2, <3>1 DEF From, Later
    <3> QED
      BY <1>a, <1>d, <1>e, <2>1, <3>2
  <2>4. CASE stream[r].pc \notin {"load", "next", "open"}
    <3>1. Due(stream'[r]) = {}
      BY <2>1, <2>2, <2>4 DEF Due, Phased
    <3> QED
      BY <3>1
  <2> QED
    BY <2>3, <2>4
<1>3. CASE Publish
  <2>1. PICK news \in Seq(Letter) :
          /\ back' \in Seq(Letter) /\ Follows(back', back, news)
          /\ \A i \in 1..Len(news) : news[i].kind = "event" /\ news[i].event = published + 1
          /\ \A d \in feed[published + 1] \cap at : \E i \in 1..Len(news) : news[i].channel = d
          /\ published' = published + 1
          /\ UNCHANGED <<feed, members, up, hints, stream, head, refused, late>>
    BY <1>3, PublishEffect DEF hub, faults
  <2>2. ~Warned
    BY <2>1 DEF Warned
  <2>3. CASE n <= published
    BY <1>1, <2>1, <2>2, <2>3
  <2>4. CASE n = published + 1
    <3>1. c \in at /\ r \in members[c]
      <4>1. c \in Due(stream[r]) \ Excused
        BY <2>1 DEF Excused
      <4> QED
        BY <2>2, <4>1, DueIsKnown
    <3>2. PICK i \in 1..Len(news) : news[i].channel = c
      BY <2>1, <2>4, <3>1
    <3>3. PICK k \in 1..Len(back') : back'[k] = news[i]
      BY <2>1 DEF Follows
    <3>4. back'[k].kind = "event" /\ back'[k].event = n /\ back'[k].channel = c
      BY <2>1, <2>4, <3>2, <3>3
    <3>5. r \in members'[c]
      BY <2>1, <3>1
    <3>6. OnItsWay(r, n)'
      BY <3>4, <3>5 DEF OnItsWay
    <3> QED
      BY <3>6 DEF Reaches
  <2> QED
    BY <1>a, <1>e, <2>1, <2>3, <2>4
<1>4. CASE Number
  <2>1. PICK C \in Routes : feed' = Append(feed, C)
    BY <1>4 DEF Number
  <2>2. UNCHANGED <<published, up, hints, late>>
    BY <1>4 DEF Number, link, faults
  <2>3. n \in 1..Len(feed) /\ n <= published
    BY <1>a, <1>e, <2>2
  <2>4. feed'[n] = feed[n]
    BY <1>a, <2>1, <2>3
  <2>5. ~Warned
    BY <2>2 DEF Warned
  <2> QED
    BY <1>1, <2>2, <2>3, <2>4, <2>5
<1>5. ASSUME UNCHANGED <<published, feed, up, hints, late>>
      PROVE  Reaches(r, n)'
  <2>1. ~Warned
    BY <1>5 DEF Warned
  <2> QED
    BY <1>1, <1>5, <1>e, <2>1
<1>6. CASE UNCHANGED vars \/ Execute \/ Acknowledge \/ Refuse \/ Message \/ LoadEnds
  <2>1. UNCHANGED <<published, feed, hints>>
    BY <1>6 DEF vars, source, Execute, Acknowledge, Refuse, Message, LoadEnds
  <2>2. UNCHANGED up
    BY <1>6 DEF vars, link, Execute, Acknowledge, Refuse, Message, LoadEnds, Take
  <2>3. UNCHANGED late
    BY <1>6 DEF vars, faults, Execute, Acknowledge, Refuse, Message, LoadEnds
  <2> QED
    BY <1>5, <2>1, <2>2, <2>3
<1>7. ASSUME NEW s \in Streams,
             Connect(s) \/ Ready(s) \/ Write(s) \/ Leaves(s) \/ ScopesLive(s)
             \/ \E d \in Channels : AddScope(s, d)
      PROVE  Reaches(r, n)'
  <2>1. UNCHANGED <<published, feed, hints>>
    BY <1>7 DEF source, Connect, Ready, Write, Leaves, ScopesLive, AddScope
  <2>2. UNCHANGED up
    BY <1>7 DEF link, Connect, Ready, Write, Leaves, ScopesLive, AddScope, Attach, DetachAll
  <2>3. UNCHANGED late
    <3>1. CASE Leaves(s)
      BY <3>1, LeavesEffect DEF faults
    <3>2. CASE Connect(s) \/ Ready(s) \/ Write(s) \/ ScopesLive(s)
               \/ \E d \in Channels : AddScope(s, d)
      BY <3>2 DEF faults, Connect, Ready, Write, ScopesLive, AddScope
    <3> QED
      BY <1>7, <3>1, <3>2
  <2> QED
    BY <1>5, <2>1, <2>2, <2>3
<1> QED
  BY <1>b, <1>2, <1>3, <1>4, <1>6, <1>7, EachStep

-----------------------------------------------------------------------------
(* The invariant *)

\* It holds at the start.
LEMMA InvariantStarts ==
  ASSUME Init
  PROVE  IInv
<1> USE HubAssumption
<1>1. /\ feed = <<>> /\ published = 0 /\ members = [c \in Channels |-> {}]
      /\ confirmed = [c \in Channels |-> "no"] /\ up = TRUE /\ sent = <<>> /\ done = 0
      /\ back = <<>> /\ kept = {} /\ at = {} /\ hints = 0
      /\ stream = [s \in Streams |-> Nobody("idle")] /\ out = [s \in Streams |-> Empty]
      /\ head = NoLoad
  BY DEF Init
<1>2. /\ Nobody("idle") \in StreamStates /\ Nobody("idle").pc = "idle"
      /\ Nobody("idle").channels = {} /\ Nobody("idle").waits = {} /\ Nobody("idle").live = {}
      /\ Empty \in OutStates /\ Empty.queue = <<>>
  BY NobodyParts DEF Phases
<1>3. Typed
  BY <1>1, <1>2 DEF Typed, NoLoad
<1>4. \A s \in Streams : Phased(s)
  BY <1>1, <1>2 DEF Phased
<1>5. Paired
  BY <1>1, NothingAnswered DEF Paired
<1>6. InOrder
  BY <1>1, OrderEmpty DEF InOrder, Travels
<1>7. Connected
  BY <1>1 DEF Connected, Wired, WiredAt, Heard, HeardAt, Repeated, Again, Missing, Asks
<1>8. Awaited
  BY <1>1 DEF Awaited, Subscribing
<1>9. Covered
  BY <1>1, <1>2 DEF Covered, CoveredAt, Due
<1> QED
  BY <1>3, <1>4, <1>5, <1>6, <1>7, <1>8, <1>9 DEF IInv

\* It holds in every state.
LEMMA Invariant == Spec => []IInv
<1>1. Init => IInv
  BY InvariantStarts
<1>2. IInv /\ [Next]_vars => IInv'
  <2> SUFFICES ASSUME IInv, [Next]_vars
               PROVE  IInv'
    OBVIOUS
  <2>1. Typed /\ AllPhased /\ Paired /\ InOrder /\ Connected /\ Awaited /\ Covered
    BY DEF IInv, AllPhased
  <2>2. Typed' /\ Paired' /\ InOrder' /\ Connected' /\ Awaited' /\ Covered'
    BY <2>1, TypedKept, PairedKept, InOrderKept, ConnectedKept, AwaitedKept, CoveredKept
  <2>3. AllPhased'
    BY <2>1, PhasedKept
  <2> QED
    BY <2>2, <2>3 DEF IInv, AllPhased
<1> QED
  BY <1>1, <1>2, PTL DEF Spec

-----------------------------------------------------------------------------
(* Theorems *)

\* What happened is numbered along the routes there are, and no further than the bound.
FeedRouted == feed \in Seq(Routes) /\ Len(feed) <= MaxEvents

\* The bound and the routes of the feed are kept.
LEMMA FeedStaysRouted == Spec => []FeedRouted
<1>1. Init => FeedRouted
  BY HubAssumption DEF Init, FeedRouted
<1>2. FeedRouted /\ [Next]_vars => FeedRouted'
  <2> SUFFICES ASSUME FeedRouted, [Next]_vars
               PROVE  FeedRouted'
    OBVIOUS
  <2>1. CASE Number
    BY <2>1, HubAssumption DEF Number, FeedRouted
  <2>2. CASE UNCHANGED feed
    BY <2>2 DEF FeedRouted
  <2>3. CASE UNCHANGED vars \/ Publish \/ Execute \/ Acknowledge \/ Refuse \/ Message \/ Break
             \/ Mend \/ Hint \/ LoadEnds
    <3>1. UNCHANGED feed
      BY <2>3 DEF vars, source, Publish, Execute, Acknowledge, Refuse, Message, Break, Mend, Hint,
                  LoadEnds
    <3> QED
      BY <2>2, <3>1
  <2>4. ASSUME NEW s \in Streams,
               Connect(s) \/ Ready(s) \/ Write(s) \/ Leaves(s) \/ ScopesLive(s)
               \/ \E d \in Channels : AddScope(s, d)
        PROVE  FeedRouted'
    <3>1. UNCHANGED feed
      BY <2>4 DEF source, Connect, Ready, Write, Leaves, ScopesLive, AddScope
    <3> QED
      BY <2>2, <3>1
  <2> QED
    BY <2>1, <2>3, <2>4, EachStep
<1> QED
  BY <1>1, <1>2, PTL DEF Spec

\* Every variable of the process keeps its type, no stream's queue in the hub exceeds its bound,
\* and the hub's member sets always say the same as the streams' own sets of channels.
THEOREM TypesAndBounds == Spec => []TypeOK
<1>1. IInv /\ FeedRouted => TypeOK
  <2> SUFFICES ASSUME IInv, FeedRouted
               PROVE  TypeOK
    OBVIOUS
  <2>1. Typed /\ \A s \in Streams : Phased(s)
    BY DEF IInv
  <2>2. /\ published \in 0..Len(feed) /\ done \in 0..Len(sent) /\ head.value \in 0..Len(feed)
        /\ members \in [Channels -> SUBSET Streams]
        /\ confirmed \in [Channels -> {"no", "pending", "yes"}]
        /\ at \subseteq Channels /\ kept \subseteq Channels /\ hints \in 0..2
    BY <2>1 DEF Typed
  <2>3. ASSUME NEW s \in Streams
        PROVE  /\ stream[s].pc \in {"idle", "ready", "load", "next", "open", "closed"}
               /\ stream[s].waits \subseteq stream[s].channels
               /\ stream[s].live \subseteq stream[s].channels
               /\ Len(out[s].queue) <= MaxQueue
               /\ \A c \in Channels : s \in members[c] <=> c \in stream[s].channels
    <3>1. stream[s].pc \in {"idle", "ready", "load", "next", "open", "closed"}
      BY <2>1, StreamParts DEF Typed, Phases
    <3> QED
      BY <2>1, <3>1 DEF Phased
  <2> QED
    BY <2>2, <2>3 DEF TypeOK, FeedRouted
<1> QED
  BY <1>1, Invariant, FeedStaysRouted, PTL

\* Once every command is answered the process is subscribed to exactly the channels that one of
\* its streams is attached to, refused ones aside: whatever order streams come, share
\* subscriptions and leave in, and after any number of breaks.
THEOREM InterestIsKept == Spec => []SubscriptionsFollowInterest
<1>1. IInv => SubscriptionsFollowInterest
  <2> SUFFICES ASSUME IInv, up, sent = <<>>
               PROVE  at \ refused = {c \in Channels : members[c] # {}} \ refused
    BY DEF SubscriptionsFollowInterest
  <2>1. Heard(members, sent, done, at, refused) /\ at \subseteq Channels
    BY DEF IInv, Connected, Typed
  <2>2. \A i \in 1..Len(sent) : FALSE
    OBVIOUS
  <2>3. ASSUME NEW c \in Channels \ refused
        PROVE  c \in at <=> members[c] # {}
    <3>1. HeardAt(members[c] # {}, sent, done, c \in at, c)
      BY <2>1 DEF Heard
    <3> QED
      BY <2>2, <3>1 DEF HeardAt
  <2> QED
    BY <2>1, <2>3
<1> QED
  BY <1>1, Invariant, PTL

\* No stream is sent an event twice or an earlier one after a later one, over however many of
\* its channels an event arrives, and whatever breaks in between.
THEOREM FeedOrderIsKept == Spec => []StreamFollowsFeed
<1>1. IInv => StreamFollowsFeed
  <2> SUFFICES ASSUME IInv, NEW s \in Streams
               PROVE  LET all == out[s].got \o out[s].queue IN
                      \A i, j \in 1..Len(all) : i < j => all[i] < all[j]
    BY DEF StreamFollowsFeed
  <2> DEFINE all == out[s].got \o out[s].queue
  <2>1. out[s].got \in Seq(Nat) /\ out[s].queue \in Seq(Nat)
    BY DEF IInv, Typed, OutStates
  <2>2. Handed(out[s], back, published)
    BY DEF IInv, InOrder
  <2>3. Follows(all, out[s].got, out[s].queue)
    BY <2>1, Joined
  <2> HIDE DEF all
  <2>4. ASSUME NEW i \in 1..Len(all), NEW j \in 1..Len(all), i < j
        PROVE  all[i] < all[j]
    <3>1. CASE j \in 1..Len(out[s].got)
      <4>1. i \in 1..Len(out[s].got)
        BY <2>4, <3>1
      <4> QED
        BY <2>2, <2>3, <2>4, <3>1, <4>1 DEF Handed, Sorted, Follows
    <3>2. CASE j \notin 1..Len(out[s].got)
      <4>1. PICK l \in 1..Len(out[s].queue) : j = l + Len(out[s].got) /\ all[j] = out[s].queue[l]
        BY <2>3, <3>2 DEF Follows
      <4>2. CASE i \in 1..Len(out[s].got)
        <5>1. all[i] = out[s].got[i]
          BY <2>3, <4>2 DEF Follows
        <5> QED
          BY <2>2, <4>1, <4>2, <5>1 DEF Handed
      <4>3. CASE i \notin 1..Len(out[s].got)
        <5>1. PICK k \in 1..Len(out[s].queue) :
                i = k + Len(out[s].got) /\ all[i] = out[s].queue[k]
          BY <2>3, <4>3 DEF Follows
        <5>2. k < l
          BY <2>1, <2>4, <4>1, <5>1
        <5> QED
          BY <2>2, <4>1, <5>1, <5>2 DEF Handed, Sorted
      <4> QED
        BY <4>2, <4>3
    <3> QED
      BY <3>1, <3>2
  <2> QED
    BY <2>4 DEF all
<1> QED
  BY <1>1, Invariant, PTL

\* The barrier: what is published to a channel after a stream was told that the channel is live
\* is written to the stream, queued for it or on the connection, unless a hint to read the feed
\* is due; of every channel of which no SUBSCRIBE was refused and that was subscribed again when
\* the last hint after a break came.
THEOREM BarrierIsKept == Spec => []BarrierHolds
<1>1. IInv => BarrierHolds
  <2> SUFFICES ASSUME IInv, ~Warned, NEW s \in Listening, NEW c \in stream[s].live \ Excused
               PROVE  Covers(s, c)
    BY DEF BarrierHolds
  <2>1. s \in Streams /\ stream[s].pc = "open" /\ ~out[s].over
    BY DEF Listening
  <2>2. CoveredAt(s)
    BY <2>1 DEF IInv, Covered
  <2>3. c \in Due(stream[s]) \ Excused /\ From(stream[s], head, c) = stream[s].base[c]
    BY <2>1 DEF Due, From
  <2> QED
    BY <2>1, <2>2, <2>3 DEF Covers, CoveredAt
<1> QED
  BY <1>1, Invariant, PTL

\* How often a SUBSCRIBE was refused and a last hint came too soon, and what for.
Mishaps ==
  /\ refusals \in Nat /\ refusals <= MaxRefusals /\ (refused # {} => 0 < refusals)
  /\ lates \in Nat /\ lates <= MaxLate /\ (late # {} => 0 < lates)

\* Nothing but a refusal makes a channel a refused one, and nothing but a hint too soon a late one.
LEMMA MishapsAreCounted == Spec => []Mishaps
<1>1. Init => Mishaps
  BY HubAssumption DEF Init, Mishaps
<1>2. Mishaps /\ [Next]_vars => Mishaps'
  <2> SUFFICES ASSUME Mishaps, [Next]_vars
               PROVE  Mishaps'
    OBVIOUS
  <2>1. CASE Execute
    <3>1. /\ \/ UNCHANGED <<refusals, refused>>
             \/ refusals < MaxRefusals /\ refusals' = refusals + 1
          /\ UNCHANGED <<lates, late>>
      BY <2>1 DEF Execute, faults
    <3> QED
      BY <3>1, HubAssumption DEF Mishaps
  <2>2. CASE Hint
    <3>1. /\ UNCHANGED <<refusals, refused>>
          /\ TooSoon => lates < MaxLate
          /\ lates' = IF TooSoon THEN lates + 1 ELSE lates
          /\ late' = IF hints = 1 THEN NotBack ELSE late
      BY <2>2 DEF Hint
    <3>2. CASE TooSoon
      BY <3>1, <3>2, HubAssumption DEF Mishaps
    <3>3. CASE ~TooSoon
      <4>1. UNCHANGED lates /\ (late' = late \/ late' = {})
        BY <3>1, <3>3 DEF TooSoon
      <4> QED
        BY <3>1, <4>1 DEF Mishaps
    <3> QED
      BY <3>2, <3>3
  <2>3. CASE UNCHANGED <<refusals, refused, lates, late>>
    BY <2>3 DEF Mishaps
  <2>4. CASE UNCHANGED vars \/ Number \/ Publish \/ Acknowledge \/ Refuse \/ Message \/ Break
             \/ Mend \/ LoadEnds
    <3>1. UNCHANGED <<refusals, refused, lates, late>>
      BY <2>4 DEF vars, faults, Number, Publish, Acknowledge, Refuse, Message, Break, Mend, LoadEnds
    <3> QED
      BY <2>3, <3>1
  <2>5. ASSUME NEW s \in Streams,
               Connect(s) \/ Ready(s) \/ Write(s) \/ Leaves(s) \/ ScopesLive(s)
               \/ \E d \in Channels : AddScope(s, d)
        PROVE  Mishaps'
    <3>1. UNCHANGED <<refusals, refused, lates, late>>
      BY <2>5 DEF faults, Connect, Ready, Write, Leaves, ScopesLive, AddScope
    <3> QED
      BY <2>3, <3>1
  <2> QED
    BY <2>1, <2>2, <2>4, <2>5, EachStep
<1> QED
  BY <1>1, <1>2, PTL DEF Spec

\* What the gateway says of its frames (gateway.ts: "every event published from now on is guaranteed
\* to reach this stream") is true of every channel if Redis refuses no SUBSCRIBE and has subscribed
\* the connection again before the hint that comes 3 s after every break: a refusal or a slow
\* resubscription makes it false, and nothing else does: no race of streams that come, share and
\* leave, no overflow, and no break that is repaired in time.
THEOREM PromiseHoldsUnlessRefusedOrLate ==
  ASSUME MaxRefusals = 0, MaxLate = 0
  PROVE  Spec => []NothingPublishedIsMissed
<1>1. BarrierHolds /\ Mishaps => NothingPublishedIsMissed
  <2>1. Mishaps => Excused = {}
    BY DEF Mishaps, Excused
  <2> QED
    BY <2>1 DEF BarrierHolds, NothingPublishedIsMissed
<1> QED
  BY <1>1, BarrierIsKept, MishapsAreCounted, PTL
=============================================================================
