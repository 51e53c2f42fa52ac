--------------------------------- MODULE Hub ---------------------------------
(***************************************************************************)
(* The last leg on the server, in one process: LocalHub shares a transport *)
(* subscription per channel among the open streams, RedisBus carries it    *)
(* over one subscriber connection, and the gateway's barrier promises a    *)
(* stream, from its hello on, every event numbered later.                  *)
(*                                                                         *)
(* Commands wait on the connection until Redis replies.  Replies and       *)
(* messages come back on it in one order.  When it breaks, what is on its  *)
(* way is lost; ioredis subscribes again to what it had acknowledged and   *)
(* repeats what it had not; and the gateway hints to every stream to read  *)
(* the durable feed, 300 ms and 3 s later, subscribed again or not.        *)
(***************************************************************************)
EXTENDS Naturals, Sequences, FiniteSets, SequencesExt

CONSTANTS
  Streams, Channels,
  Routes,       \* the sets of channels an event may go to (scopesForEvent)
  MaxQueue,     \* events a stream's queue holds (256 in the code)
  MaxEvents,    \* bound: events
  MaxOutages,   \* bound: breaks of the subscriber connection
  MaxRefusals,  \* bound: SUBSCRIBEs that are answered with an error
  MaxLate       \* bound: breaks whose last hint comes before all is subscribed again

ASSUME HubAssumption ==
  /\ IsFiniteSet(Channels)
  /\ Routes \subseteq SUBSET Channels
  /\ MaxQueue \in Nat \ {0}
  /\ MaxEvents \in Nat
  /\ MaxOutages \in Nat
  /\ MaxRefusals \in Nat
  /\ MaxLate \in Nat

VARIABLES
  feed,       \* the numbered events: which channels each goes to
  published,  \* how many of them have been handed to Redis
  members,    \* hub: channel -> the streams attached to it
  confirmed,  \* hub: channel -> "no" entry, "pending" or "yes"
  up,         \* is the subscriber connection there?
  sent,       \* the commands without a reply
  done,       \* the first so many of them have been executed
  back,       \* what Redis has sent
  kept,       \* the channels ioredis subscribes again
  at,         \* the channels Redis knows of
  hints,      \* hints the gateway still owes after a break: 0, 1 or 2
  stream,     \* stream -> [pc, channels, waits, live, base]
  out,        \* its queue in the hub and what was written to it: [queue, over, got]
  head,       \* FreshRead: the load of the feed's head, [loading, value]
  outages, refusals, lates,
  refused,    \* the channels a SUBSCRIBE of which was ever answered with an error
  late        \* those not yet subscribed again when the last hint came

source == <<feed, published>>
hub == <<members, confirmed>>
link == <<up, sent, done, back, kept, at>>
faults == <<outages, refusals, lates, refused, late>>
vars == <<source, hub, link, hints, stream, out, head, faults>>

\* channels: attached; waits: those not confirmed yet; live: those the browser was told are
\* live; base: the last event of a channel the browser need not get from this stream
Stream(pc, channels, waits, live, base) ==
  [pc |-> pc, channels |-> channels, waits |-> waits, live |-> live, base |-> base]

Nobody(pc) == Stream(pc, {}, {}, {}, [c \in Channels |-> 0])

Empty == [queue |-> <<>>, over |-> FALSE, got |-> <<>>]

NoLoad == [loading |-> FALSE, value |-> 0]

Init ==
  /\ feed = <<>>
  /\ published = 0
  /\ members = [c \in Channels |-> {}]
  /\ confirmed = [c \in Channels |-> "no"]
  /\ up = TRUE /\ sent = <<>> /\ done = 0 /\ back = <<>> /\ kept = {} /\ at = {}
  /\ hints = 0
  /\ stream = [s \in Streams |-> Nobody("idle")]
  /\ out = [s \in Streams |-> Empty]
  /\ head = NoLoad
  /\ outages = 0 /\ refusals = 0 /\ lates = 0 /\ refused = {} /\ late = {}

-----------------------------------------------------------------------------
(* LocalHub *)

NoUnsubscribe(C) == <<>>   \* (mutant)

Commands(op, C) == LET order == SetToSeq(C)
                   IN [i \in 1..Len(order) |-> [op |-> op, channel |-> order[i]]]

\* The last one to leave a channel unsubscribes.
Unsubscribe(C) == Commands("unsub", C)

\* attach: the first one on a channel subscribes, the others share its confirmation.
Attach(s, C) ==
  LET opens == {c \in C : members[c] = {}} IN
  /\ members' = [c \in Channels |-> IF c \in C THEN members[c] \cup {s} ELSE members[c]]
  /\ confirmed' = [c \in Channels |-> IF c \in opens THEN "pending" ELSE confirmed[c]]
  /\ sent' = sent \o Commands("sub", opens)
  /\ UNCHANGED <<up, done, back, kept, at>>

\* The channels of C whose confirmation s has to wait for.
SharesNothing(C) == {c \in C : members[c] = {}}   \* (mutant)
Unconfirmed(C) == {c \in C : members[c] = {} \/ confirmed[c] = "pending"}

\* The channels nobody is attached to once the streams of D are gone.
LeftBy(D) == {c \in Channels : members[c] # {} /\ members[c] \subseteq D}

\* detach, from every channel of s.
DetachAll(s) ==
  /\ members' = [c \in Channels |-> members[c] \ {s}]
  /\ confirmed' = [c \in Channels |-> IF c \in LeftBy({s}) THEN "no" ELSE confirmed[c]]
  /\ sent' = sent \o Unsubscribe(LeftBy({s}))
  /\ UNCHANGED <<up, done, back, kept, at>>

End(D) ==
  /\ stream' = [s \in Streams |-> IF s \in D THEN Nobody("closed") ELSE stream[s]]
  /\ out' = [s \in Streams |-> IF s \in D THEN Empty ELSE out[s]]

KeepsDuplicates(s, n) == FALSE   \* (mutant)

\* SeenEvents of a subscription.
Seen(o, n) == \E i \in 1..Len(o.got) : o.got[i] = n
Queued(o, n) == \E i \in 1..Len(o.queue) : o.queue[i] = n
Ignores(o, n) == Seen(o, n) \/ Queued(o, n)

FullTooLate(o) == Len(o.queue) > MaxQueue   \* (mutant)
Full(o) == Len(o.queue) >= MaxQueue

\* deliver: a full queue is thrown away and the stream ends with a resync.
Enqueue(o, n) ==
  IF o.over \/ Ignores(o, n) THEN o
  ELSE IF Full(o) THEN [queue |-> <<>>, over |-> TRUE, got |-> o.got]
  ELSE [queue |-> Append(o.queue, n), over |-> FALSE, got |-> o.got]

Deliver(c, n) ==
  out' = [s \in Streams |-> IF s \in members[c] THEN Enqueue(out[s], n) ELSE out[s]]

-----------------------------------------------------------------------------
(* The relay *)

Number ==
  /\ Len(feed) < MaxEvents
  /\ \E C \in Routes : feed' = Append(feed, C)
  /\ UNCHANGED <<published, hub, link, hints, stream, out, head, faults>>

Messages(to, n) ==
  [i \in 1..Len(to) |-> [kind |-> "event", channel |-> to[i], event |-> n]]

\* One PUBLISH per channel: only what Redis has a subscription for comes back.
Publish ==
  /\ published < Len(feed)
  /\ published' = published + 1
  /\ back' = back \o Messages(SetToSeq(feed[published + 1] \cap at), published + 1)
  /\ UNCHANGED <<feed, hub, up, sent, done, kept, at, hints, stream, out, head, faults>>

-----------------------------------------------------------------------------
(* Redis and the subscriber connection *)

Reply(kind, command) == [kind |-> kind, channel |-> command.channel, op |-> command.op]

Execute ==
  LET command == sent[done + 1] IN
  /\ up
  /\ done < Len(sent)
  /\ done' = done + 1
  /\ \/ /\ at' = IF command.op = "unsub" THEN at \ {command.channel}
                                         ELSE at \cup {command.channel}
        /\ back' = Append(back, Reply("ok", command))
        /\ UNCHANGED faults
     \/ /\ command.op = "sub"
        /\ refusals < MaxRefusals
        /\ refusals' = refusals + 1
        /\ refused' = refused \cup {command.channel}
        /\ back' = Append(back, Reply("error", command))
        /\ UNCHANGED <<at, outages, lates, late>>
  /\ UNCHANGED <<source, hub, up, sent, kept, hints, stream, out, head>>

\* A newer SUBSCRIBE of the channel is on its way: this reply is not the one waited for.
Superseded(c) == \E i \in 2..Len(sent) : sent[i] = [op |-> "sub", channel |-> c]

\* The reply is taken, and with it its command; others may be sent because of it.
Take(more) ==
  /\ back' = Tail(back)
  /\ sent' = Tail(sent) \o more
  /\ done' = done - 1
  /\ UNCHANGED <<up, at>>

Acknowledge ==
  LET r == Head(back)  c == r.channel IN
  /\ back # <<>> /\ r.kind = "ok"
  /\ Take(<<>>)
  /\ kept' = IF r.op = "unsub" THEN kept \ {c} ELSE kept \cup {c}
  /\ \/ /\ r.op = "sub" /\ ~Superseded(c)
        /\ confirmed' = [confirmed EXCEPT ![c] = IF @ = "pending" THEN "yes" ELSE @]
        /\ stream' = [s \in Streams |-> [stream[s] EXCEPT !.waits = @ \ {c}]]
     \/ /\ r.op # "sub" \/ Superseded(c)
        /\ UNCHANGED <<confirmed, stream>>
  /\ UNCHANGED <<source, members, hints, out, head, faults>>

\* The streams that wait for the confirmation of a channel while they open.
Waiting(c) == {s \in Streams : stream[s].pc = "ready" /\ c \in stream[s].waits}

\* The entry of the channel is deleted, be it of this SUBSCRIBE or of a newer one.  Of the
\* streams that waited, those that are opening give up at once; one that is open is sent
\* "subscribe failed" and lives on, attached, until the browser reconnects.
Refuse ==
  LET r == Head(back)  c == r.channel
      D == IF Superseded(c) THEN {} ELSE Waiting(c)
  IN
  /\ back # <<>> /\ r.kind = "error"
  /\ members' = [d \in Channels |-> members[d] \ D]
  /\ confirmed' = [d \in Channels |-> IF d \in LeftBy(D) \cup {c} THEN "no" ELSE confirmed[d]]
  /\ Take(Unsubscribe(LeftBy(D)))
  /\ End(D)
  /\ UNCHANGED <<source, kept, hints, head, faults>>

Message ==
  /\ back # <<>> /\ Head(back).kind = "event"
  /\ back' = Tail(back)
  /\ Deliver(Head(back).channel, Head(back).event)
  /\ UNCHANGED <<source, hub, up, sent, done, kept, at, hints, stream, head, faults>>

\* The first n commands repeat earlier subscriptions: those go with the connection.
Repeats(n) == \A i \in 1..Len(sent) : sent[i].op = "again" <=> i <= n

Break ==
  /\ up
  /\ outages < MaxOutages
  /\ outages' = outages + 1
  /\ up' = FALSE /\ back' = <<>> /\ at' = {} /\ done' = 0
  /\ \E n \in 0..Len(sent) : Repeats(n) /\ sent' = SubSeq(sent, n + 1, Len(sent))
  /\ UNCHANGED <<source, hub, kept, hints, stream, out, head, refusals, lates, refused, late>>

ForgetsSubscriptions == <<>>   \* (mutant)

\* ioredis: what was subscribed is subscribed again before what still waits is sent.
Resubscribe == Commands("again", kept)

Mend ==
  /\ ~up
  /\ up' = TRUE
  /\ sent' = Resubscribe \o sent
  /\ hints' = 2
  /\ UNCHANGED <<source, hub, done, back, kept, at, stream, out, head, faults>>

\* The channels Redis has still to hear of again.
NotBack ==
  {c \in Channels : \E i \in 1..Len(sent) : done < i /\ sent[i] = [op |-> "again", channel |-> c]}

TooSoon == hints = 1 /\ NotBack # {}

\* 300 ms and 3 s after the connection is back, whether it is subscribed again or not: what is
\* published between the last hint and a later resubscription, no one is told of.
Hint ==
  /\ up /\ hints > 0
  /\ hints' = hints - 1
  /\ TooSoon => lates < MaxLate
  /\ lates' = IF TooSoon THEN lates + 1 ELSE lates
  /\ late' = IF hints = 1 THEN NotBack ELSE late
  /\ stream' = [s \in Streams |->
                  IF stream[s].pc \in {"load", "next", "open"}
                  THEN [stream[s] EXCEPT !.base = [c \in Channels |-> Len(feed)]] ELSE stream[s]]
  /\ UNCHANGED <<source, hub, link, out, head, outages, refusals, refused>>

-----------------------------------------------------------------------------
(* The gateway: one stream *)

Connect(s) ==
  /\ stream[s].pc = "idle"
  /\ \E C \in (SUBSET Channels) \ {{}} :
       /\ Attach(s, C)
       /\ stream' = [stream EXCEPT
                       ![s] = Stream("ready", C, Unconfirmed(C), {}, [c \in Channels |-> 0])]
  /\ UNCHANGED <<source, hints, out, head, faults>>

JoinsAny == "load"   \* (mutant)

\* FreshRead.read: a load that began before is not good enough; the next one is, and begins at
\* once when none is under way.
LoadToWaitFor == IF head.loading THEN "next" ELSE "load"

\* It reads the head at once: a later reading would only announce more.
Load == [loading |-> TRUE, value |-> Len(feed)]

\* Confirmed, it asks for the head.
Ready(s) ==
  /\ stream[s].pc = "ready" /\ stream[s].waits = {}
  /\ stream' = [stream EXCEPT ![s].pc = LoadToWaitFor]
  /\ head' = IF head.loading THEN head ELSE Load
  /\ UNCHANGED <<source, hub, link, hints, out, faults>>

Later(m, n) == IF m > n THEN m ELSE n

\* With the head it sends its hello: its channels are live.
Hello(v) == Stream("open", v.channels, v.waits, v.channels,
                   [c \in Channels |-> Later(v.base[c], head.value)])

\* Whoever waits for this load sends its hello; whoever is next gets a load of its own.
LoadEnds ==
  /\ head.loading
  /\ head' = IF \E s \in Streams : stream[s].pc = "next" THEN Load ELSE NoLoad
  /\ stream' = [s \in Streams |->
       CASE stream[s].pc = "load" -> Hello(stream[s])
         [] stream[s].pc = "next" -> [stream[s] EXCEPT !.pc = "load"]
         [] OTHER -> stream[s]]
  /\ UNCHANGED <<source, hub, link, hints, out, faults>>

\* POST /api/realtime/scopes adds a channel to the open stream.
AddScope(s, c) ==
  /\ stream[s].pc = "open" /\ ~out[s].over
  /\ stream[s].live = stream[s].channels
  /\ c \notin stream[s].channels
  /\ Attach(s, {c})
  /\ stream' = [stream EXCEPT ![s] =
                  Stream("open", @.channels \cup {c}, Unconfirmed({c}), @.live, @.base)]
  /\ UNCHANGED <<source, hints, out, head, faults>>

\* The scopes frame: from it on nothing published to the new channels is missed.  What came
\* before, the browser asks the server for.
ScopesLive(s) ==
  LET new == stream[s].channels \ stream[s].live IN
  /\ stream[s].pc = "open" /\ new # {} /\ stream[s].waits = {}
  /\ stream' = [stream EXCEPT ![s] =
                  Stream("open", @.channels, {}, @.channels,
                         [c \in Channels |-> IF c \in new THEN published ELSE stream[s].base[c]])]
  /\ UNCHANGED <<source, hub, link, hints, out, head, faults>>

\* The delivery loop writes the next event, or the resync frame that ends the stream.
Write(s) ==
  /\ stream[s].pc = "open"
  /\ out[s].queue # <<>>
  /\ out' = [out EXCEPT ![s] = [queue |-> Tail(@.queue), over |-> @.over,
                                got |-> Append(@.got, Head(@.queue))]]
  /\ UNCHANGED <<source, hub, link, hints, stream, head, faults>>

Resync(s) ==
  /\ stream[s].pc = "open" /\ out[s].over
  /\ DetachAll(s)
  /\ End({s})
  /\ UNCHANGED <<source, hints, head, faults>>

\* The browser leaves, the stream is too old, or its channels are not confirmed in time (503).
Disconnect(s) ==
  /\ stream[s].pc \in {"ready", "load", "next", "open"}
  /\ DetachAll(s)
  /\ End({s})
  /\ UNCHANGED <<source, hints, head, faults>>

-----------------------------------------------------------------------------
Redis == Execute \/ Acknowledge \/ Refuse \/ Message \/ Break \/ Mend

Gateway(s) ==
  \/ Connect(s) \/ Ready(s) \/ Write(s) \/ Resync(s) \/ Disconnect(s)
  \/ ScopesLive(s) \/ \E c \in Channels : AddScope(s, c)

Next == Number \/ Publish \/ Redis \/ Hint \/ LoadEnds \/ \E s \in Streams : Gateway(s)

Spec == Init /\ [][Next]_vars

-----------------------------------------------------------------------------
(* Properties *)

\* Every variable has its type; a stream's queue never exceeds its bound; and the hub's member
\* sets and a stream's own set of channels say the same.
TypeOK ==
  /\ feed \in Seq(Routes) /\ Len(feed) <= MaxEvents
  /\ published \in 0..Len(feed)
  /\ members \in [Channels -> SUBSET Streams]
  /\ confirmed \in [Channels -> {"no", "pending", "yes"}]
  /\ at \subseteq Channels /\ kept \subseteq Channels
  /\ done \in 0..Len(sent)
  /\ hints \in 0..2
  /\ head.value \in 0..Len(feed)
  /\ \A s \in Streams :
       /\ stream[s].pc \in {"idle", "ready", "load", "next", "open", "closed"}
       /\ stream[s].waits \subseteq stream[s].channels
       /\ stream[s].live \subseteq stream[s].channels
       /\ Len(out[s].queue) <= MaxQueue
       /\ \A c \in Channels : s \in members[c] <=> c \in stream[s].channels

OnItsWay(s, n) ==
  \E i \in 1..Len(back) :
    back[i].kind = "event" /\ back[i].event = n /\ s \in members[back[i].channel]

Reaches(s, n) == Seen(out[s], n) \/ Queued(out[s], n) \/ OnItsWay(s, n)

Covers(s, c) ==
  \A n \in stream[s].base[c] + 1 .. published : c \in feed[n] => Reaches(s, n)

\* The gateway owes every stream a hint: it knows that messages may have been lost.
Warned == ~up \/ hints > 0

Listening == {s \in Streams : stream[s].pc = "open" /\ ~out[s].over}

\* The barrier: an event published to a channel a stream was told is live has been written to
\* the stream, is queued, or is on the connection; unless a hint to read the feed is due.
\* Across streams that share a subscription, leave and come while it is pending, and breaks of
\* the connection.  For channels of which no SUBSCRIBE was refused, and that were subscribed
\* again when the last hint after a break came.
Excused == refused \cup late

BarrierHolds ==
  ~Warned => \A s \in Listening : \A c \in stream[s].live \ Excused : Covers(s, c)

\* What the gateway says of its own frames, of every channel: "from this frame on nothing
\* published to them is missed" (gateway.ts), "every event published from now on is guaranteed
\* to reach this stream".
NothingPublishedIsMissed ==
  ~Warned => \A s \in Listening : \A c \in stream[s].live : Covers(s, c)

\* Once every command is answered, this process is subscribed to exactly the channels one of
\* its streams is attached to: no interest is forgotten, also after a break, and no abandoned
\* subscription is kept.
SubscriptionsFollowInterest ==
  up /\ sent = <<>> =>
    at \ refused = {c \in Channels : members[c] # {}} \ refused

\* A stream is sent events in the order of the feed, none twice, though one event comes over
\* several of its channels.
StreamFollowsFeed ==
  \A s \in Streams : LET all == out[s].got \o out[s].queue IN
    \A i, j \in 1..Len(all) : i < j => all[i] < all[j]
=============================================================================
