------------------------------- MODULE Outbox -------------------------------
(***************************************************************************)
(* The transactional outbox and its relay.                                 *)
(*                                                                         *)
(* A write transaction appends its event to `domain_events` under the row  *)
(* lock of its aggregate.  The row's AUTO_INCREMENT id is taken at the     *)
(* INSERT, so transactions of different aggregates commit out of id order. *)
(* On every node a relay drains the table under GET_LOCK: it numbers       *)
(* committed rows (`feedSeq`), hands them to the bus in order, and stamps  *)
(* them.  GET_LOCK belongs to the drain's connection: a node that crashes, *)
(* or whose connection dies, loses it at once; a node that lost only the   *)
(* connection goes on publishing what it had selected and fails at its     *)
(* next statement.                                                         *)
(*                                                                         *)
(* An event is abstracted to its aggregate and version.  `sent` is a       *)
(* history variable: the rows the transport has accepted at least once.    *)
(***************************************************************************)
EXTENDS Naturals, FiniteSets

CONSTANTS
  Aggregates,  \* projects, reports, ...: anything with its own version counter
  Nodes,       \* server processes, each with one relay
  NoNode,
  NoAggregate,
  Corrupt,     \* the rows whose stored envelope DomainEventSchema rejects
  MaxId,       \* bound: how many rows are ever inserted
  Batch,       \* rows per drain (RelayOptions.batch)
  MaxFaults    \* bound: crashes, lost connections and bus failures together

ASSUME OutboxAssumption ==
  /\ NoNode \notin Nodes
  /\ NoAggregate \notin Aggregates
  /\ MaxId \in Nat
  /\ Corrupt \subseteq 1..MaxId
  /\ Batch \in Nat \ {0}
  /\ MaxFaults \in Nat

Ids == 1..MaxId

Parses(i) == i \notin Corrupt

VARIABLES
  nextId,     \* the table's AUTO_INCREMENT counter
  phase,      \* id -> "free" | "open" (inserted, not committed) | "committed" | "aborted"
  agg, ver,   \* id -> aggregate and aggregateVersion of the row
  version,    \* aggregate -> its committed syncVersion
  feedSeq,    \* id -> feedSeq, 0 for NULL
  processed,  \* id -> "no" | "published" (processedAt) | "dead" (failedAt too)
  lock,       \* the node whose connection holds GET_LOCK('bahn:outbox-relay')
  pc,         \* node -> where its relay stands
  todo,       \* node -> selected rows it has not come to yet
  done,       \* node -> rows the bus accepted in this drain
  dead,       \* node -> unparseable rows met in this drain
  sent,       \* rows any node ever got onto the bus
  faults

table == <<nextId, phase, agg, ver, version>>
local == <<pc, todo, done, dead>>
vars == <<table, feedSeq, processed, lock, local, sent, faults>>

Phases == {"free", "open", "committed", "aborted"}
Steps == {"down", "idle", "select", "number", "publish", "stamp", "bury"}

Unprocessed == {i \in Ids : phase[i] = "committed" /\ processed[i] = "no"}

\* Numbered, but not yet acknowledged: a previous drain stopped after numbering them.
Pending == {i \in Unprocessed : feedSeq[i] # 0}

\* SELECT ... ORDER BY id LIMIT k, and ORDER BY feedSeq LIMIT k
FirstById(S, k) == {i \in S : Cardinality({j \in S : j < i}) < k}
FirstBySeq(S, k) == {i \in S : Cardinality({j \in S : feedSeq[j] < feedSeq[i]}) < k}

\* The order in which the selected rows are walked.
Before(i, j) ==
  IF feedSeq[i] # 0 /\ feedSeq[j] # 0 THEN feedSeq[i] < feedSeq[j] ELSE i < j

Init ==
  /\ nextId = 1
  /\ phase = [i \in Ids |-> "free"]
  /\ agg = [i \in Ids |-> NoAggregate]
  /\ ver = [i \in Ids |-> 0]
  /\ version = [a \in Aggregates |-> 0]
  /\ feedSeq = [i \in Ids |-> 0]
  /\ processed = [i \in Ids |-> "no"]
  /\ lock = NoNode
  /\ pc = [n \in Nodes |-> "idle"]
  /\ todo = [n \in Nodes |-> {}]
  /\ done = [n \in Nodes |-> {}]
  /\ dead = [n \in Nodes |-> {}]
  /\ sent = {}
  /\ faults = 0

-----------------------------------------------------------------------------
(* Write transactions *)

\* The aggregate's row lock: one open transaction per aggregate.
RowLocked(a) == \E j \in Ids : phase[j] = "open" /\ agg[j] = a

\* A transaction holding the row lock inserts the event of the next version.
Insert(a) ==
  /\ nextId \in Ids
  /\ ~RowLocked(a)
  /\ nextId' = nextId + 1
  /\ phase' = [phase EXCEPT ![nextId] = "open"]
  /\ agg' = [agg EXCEPT ![nextId] = a]
  /\ ver' = [ver EXCEPT ![nextId] = version[a] + 1]
  /\ UNCHANGED <<version, feedSeq, processed, lock, local, sent, faults>>

\* The aggregate row and its event become visible in one commit ...
Commit(i) ==
  /\ phase[i] = "open"
  /\ phase' = [phase EXCEPT ![i] = "committed"]
  /\ version' = [version EXCEPT ![agg[i]] = ver[i]]
  /\ UNCHANGED <<nextId, agg, ver, feedSeq, processed, lock, local, sent, faults>>

\* ... or neither does: the id stays a hole.
Abort(i) ==
  /\ phase[i] = "open"
  /\ phase' = [phase EXCEPT ![i] = "aborted"]
  /\ UNCHANGED <<nextId, agg, ver, version, feedSeq, processed, lock, local, sent, faults>>

-----------------------------------------------------------------------------
(* One drain of the relay of node n *)

\* tick(): GET_LOCK(name, 0) answers at once; without the lock the drain returns null.
Acquire(n) ==
  /\ pc[n] = "idle"
  /\ lock = NoNode
  /\ lock' = n
  /\ pc' = [pc EXCEPT ![n] = "select"]
  /\ UNCHANGED <<table, feedSeq, processed, todo, done, dead, sent, faults>>

\* Rows an earlier drain numbered come first; only without any are new rows numbered.
Select(n) ==
  /\ pc[n] = "select"
  /\ lock = n
  /\ \/ /\ Pending # {}
        /\ todo' = [todo EXCEPT ![n] = FirstBySeq(Pending, Batch)]
        /\ pc' = [pc EXCEPT ![n] = "publish"]
     \/ /\ Pending = {}
        /\ todo' = [todo EXCEPT ![n] = FirstById(Unprocessed, Batch)]
        /\ pc' = [pc EXCEPT ![n] = "number"]
  /\ UNCHANGED <<table, feedSeq, processed, lock, done, dead, sent, faults>>

\* SELECT COALESCE(MAX(feedSeq), 0)
IsPendingHead(m) == \A j \in Unprocessed : feedSeq[j] <= m   \* (mutant)

IsHead(m) == \A j \in Ids : phase[j] = "committed" => feedSeq[j] <= m
Numbers == {0} \cup {feedSeq[j] : j \in Ids}

NumbersEveryRow(S) == S   \* (mutant)

\* The rows of a selection that get a number.
ToNumber(S) == {i \in S : Parses(i)}

NewestFirst(S, i) == Cardinality({j \in S : i <= j})   \* (mutant)

\* The place of a row among the rows numbered with it, oldest id first.
Rank(S, i) == Cardinality({j \in S : j <= i})

\* One UPDATE numbers the batch, before anything of it is published.
Number(n) ==
  /\ pc[n] = "number"
  /\ lock = n
  /\ \E m \in Numbers :
       /\ IsHead(m)
       /\ feedSeq' = [i \in Ids |-> IF i \in ToNumber(todo[n])
                                    THEN m + Rank(ToNumber(todo[n]), i) ELSE feedSeq[i]]
  /\ pc' = [pc EXCEPT ![n] = "publish"]
  /\ UNCHANGED <<table, processed, lock, todo, done, dead, sent, faults>>

IsAny(n, i) == i \in todo[n]   \* (mutant)

\* The row the loop comes to next.
IsNext(n, i) == i \in todo[n] /\ \A j \in todo[n] \ {i} : Before(i, j)

\* (mutant: an unparseable row stops the loop like a bus failure)
StopsAtCorruptRow(n, i) ==
  /\ pc[n] = "publish"
  /\ IsNext(n, i)
  /\ ~Parses(i)
  /\ todo' = [todo EXCEPT ![n] = {}]
  /\ UNCHANGED <<table, feedSeq, processed, lock, pc, done, dead, sent, faults>>

\* An unparseable row is put aside; it blocks nothing behind it.
PutAside(n, i) ==
  /\ pc[n] = "publish"
  /\ IsNext(n, i)
  /\ ~Parses(i)
  /\ todo' = [todo EXCEPT ![n] = @ \ {i}]
  /\ dead' = [dead EXCEPT ![n] = @ \cup {i}]
  /\ UNCHANGED <<table, feedSeq, processed, lock, pc, done, sent, faults>>

\* The bus accepts the row.  No statement runs: the lock may be gone by now.
Publish(n, i) ==
  /\ pc[n] = "publish"
  /\ IsNext(n, i)
  /\ Parses(i)
  /\ todo' = [todo EXCEPT ![n] = @ \ {i}]
  /\ done' = [done EXCEPT ![n] = @ \cup {i}]
  /\ sent' = sent \cup {i}
  /\ UNCHANGED <<table, feedSeq, processed, lock, pc, dead, faults>>

\* The bus fails, having reached some channels or none: the drain stops at this row.
PublishFails(n, i) ==
  /\ pc[n] = "publish"
  /\ IsNext(n, i)
  /\ Parses(i)
  /\ faults < MaxFaults
  /\ faults' = faults + 1
  /\ sent' \in {sent, sent \cup {i}}
  /\ todo' = [todo EXCEPT ![n] = {}]
  /\ pc' = [pc EXCEPT ![n] = "stamp"]
  /\ UNCHANGED <<table, feedSeq, processed, lock, done, dead>>

LoopEnds(n) ==
  /\ pc[n] = "publish"
  /\ todo[n] = {}
  /\ pc' = [pc EXCEPT ![n] = "stamp"]
  /\ UNCHANGED <<table, feedSeq, processed, lock, todo, done, dead, sent, faults>>

AcknowledgesEverything(n) == done[n] \cup dead[n]   \* (mutant)

\* The rows a drain stamps as processed.
Acknowledged(n) == done[n]

Stamp(n) ==
  /\ pc[n] = "stamp"
  /\ lock = n
  /\ processed' = [i \in Ids |-> IF i \in Acknowledged(n) THEN "published" ELSE processed[i]]
  /\ done' = [done EXCEPT ![n] = {}]
  /\ pc' = [pc EXCEPT ![n] = "bury"]
  /\ UNCHANGED <<table, feedSeq, lock, todo, dead, sent, faults>>

\* One UPDATE per unparseable row.
Bury(n, i) ==
  /\ pc[n] = "bury"
  /\ lock = n
  /\ i \in dead[n]
  /\ processed' = [processed EXCEPT ![i] = "dead"]
  /\ dead' = [dead EXCEPT ![n] = @ \ {i}]
  /\ UNCHANGED <<table, feedSeq, lock, pc, todo, done, sent, faults>>

Release(n) ==
  /\ pc[n] = "bury"
  /\ lock = n
  /\ dead[n] = {}
  /\ lock' = NoNode
  /\ pc' = [pc EXCEPT ![n] = "idle"]
  /\ UNCHANGED <<table, feedSeq, processed, todo, done, dead, sent, faults>>

\* A statement on a connection that died throws out of the drain.
Throw(n) ==
  /\ pc[n] \in {"select", "number", "stamp", "bury"}
  /\ lock # n
  /\ pc' = [pc EXCEPT ![n] = "idle"]
  /\ todo' = [todo EXCEPT ![n] = {}]
  /\ done' = [done EXCEPT ![n] = {}]
  /\ dead' = [dead EXCEPT ![n] = {}]
  /\ UNCHANGED <<table, feedSeq, processed, lock, sent, faults>>

-----------------------------------------------------------------------------
(* Faults *)

LoseConnection ==
  /\ lock # NoNode
  /\ faults < MaxFaults
  /\ faults' = faults + 1
  /\ lock' = NoNode
  /\ UNCHANGED <<table, feedSeq, processed, local, sent>>

Crash(n) ==
  /\ pc[n] # "down"
  /\ faults < MaxFaults
  /\ faults' = faults + 1
  /\ pc' = [pc EXCEPT ![n] = "down"]
  /\ todo' = [todo EXCEPT ![n] = {}]
  /\ done' = [done EXCEPT ![n] = {}]
  /\ dead' = [dead EXCEPT ![n] = {}]
  /\ lock' = IF lock = n THEN NoNode ELSE lock
  /\ UNCHANGED <<table, feedSeq, processed, sent>>

Restart(n) ==
  /\ pc[n] = "down"
  /\ pc' = [pc EXCEPT ![n] = "idle"]
  /\ UNCHANGED <<table, feedSeq, processed, lock, todo, done, dead, sent, faults>>

-----------------------------------------------------------------------------
Write == \/ \E a \in Aggregates : Insert(a)
         \/ \E i \in Ids : Commit(i) \/ Abort(i)

\* What the relay's timer drives.
Relay(n) ==
  \/ Acquire(n) \/ Select(n) \/ Number(n) \/ LoopEnds(n)
  \/ \E i \in Ids : PutAside(n, i) \/ Publish(n, i) \/ Bury(n, i)
  \/ Stamp(n) \/ Release(n) \/ Throw(n) \/ Restart(n)

Fault == \/ LoseConnection
         \/ \E n \in Nodes : Crash(n) \/ \E i \in Ids : PublishFails(n, i)

Next == Write \/ Fault \/ \E n \in Nodes : Relay(n)

Spec == Init /\ [][Next]_vars

\* schedule() re-arms the timer after every tick, and a node that dies is restarted.
FairSpec == Spec /\ \A n \in Nodes : WF_vars(Relay(n))

-----------------------------------------------------------------------------
(* Properties *)

\* Types; and only committed rows that parse are ever numbered.
TypeOK ==
  /\ nextId \in 1..(MaxId + 1)
  /\ phase \in [Ids -> Phases]
  /\ agg \in [Ids -> Aggregates \cup {NoAggregate}]
  /\ ver \in [Ids -> Nat]
  /\ version \in [Aggregates -> Nat]
  /\ feedSeq \in [Ids -> Nat]
  /\ \A i \in Ids : feedSeq[i] # 0 => phase[i] = "committed" /\ Parses(i)
  /\ processed \in [Ids -> {"no", "published", "dead"}]
  /\ lock \in Nodes \cup {NoNode}
  /\ pc \in [Nodes -> Steps]
  /\ todo \in [Nodes -> SUBSET Ids]
  /\ done \in [Nodes -> SUBSET Ids]
  /\ dead \in [Nodes -> SUBSET Ids]
  /\ sent \subseteq Ids
  /\ faults \in 0..MaxFaults

\* feedSeq is unique, and an aggregate's events are in the feed in version order, although
\* transactions commit out of id order and numbering, publishing and stamping may be cut
\* short anywhere (mysqlOutbox.ts: rows are numbered oldest id first, under the row locks'
\* promise that an aggregate's ids are in version order).
FeedOrder ==
  \A i, j \in Ids :
    i # j /\ feedSeq[i] # 0 /\ feedSeq[j] # 0 =>
      /\ feedSeq[i] # feedSeq[j]
      /\ agg[i] = agg[j] => (feedSeq[i] < feedSeq[j] <=> ver[i] < ver[j])

\* A number is never taken back or reassigned, and a newly numbered row lands above every
\* number given before: a reader that has scanned up to the feed head (feedHead, changesSince)
\* will never find an event below its cursor that was not there when it scanned.
FeedAppendOnly ==
  [][\A i \in Ids :
       /\ feedSeq[i] # 0 => feedSeq'[i] = feedSeq[i]
       /\ feedSeq[i] = 0 /\ feedSeq'[i] # 0 => \A j \in Ids : feedSeq[j] < feedSeq'[i]]_vars

\* A row reaches the bus for the first time only after every row numbered below it, whichever
\* node published it: also with two nodes publishing at once after a lost lock.
FirstDeliveryInOrder ==
  \A i \in sent : \A j \in Ids : feedSeq[j] # 0 /\ feedSeq[j] < feedSeq[i] => j \in sent

\* At least once: what is stamped as published was on the bus, and only rows that can never
\* be parsed are dead-lettered.
StampedWasSent ==
  \A i \in Ids : /\ processed[i] = "published" => i \in sent
                 /\ processed[i] = "dead" => ~Parses(i)

\* The backlog drains: every committed row is in the end published or dead-lettered, whatever
\* crashed, lost its lock or failed to publish on the way, and unparseable rows block nothing.
BacklogDrains == \A i \in Ids : phase[i] = "committed" ~> processed[i] # "no"

-----------------------------------------------------------------------------
(* The abstract feed, as the table holds it *)

Numbered == {j \in Ids : feedSeq[j] # 0}
RowAt(m) == CHOOSE j \in Ids : feedSeq[j] = m

CommittedEvents == {<<agg[i], ver[i]>> : i \in {j \in Ids : phase[j] = "committed"}}
NumberedEvents == [m \in 1..Cardinality(Numbered) |-> <<agg[RowAt(m)], ver[RowAt(m)]>>]

\* The rows sent, up to the first one below them that was not.
SentInOrder == {i \in sent : \A j \in Ids : feedSeq[j] # 0 /\ feedSeq[j] < feedSeq[i] => j \in sent}

Feed == INSTANCE ChangeFeed WITH
  committed <- CommittedEvents, feed <- NumberedEvents, delivered <- Cardinality(SentInOrder)

\* The table and the relays implement the append-only feed.
ImplementsFeed == Feed!Spec
=============================================================================
