---------------------------- MODULE ProjectWrites ----------------------------
(***************************************************************************)
(* The write path of the Project aggregate: ProjectService on MySQL, with  *)
(* the browser's retry loop in front of it.                                *)
(*                                                                         *)
(* One user action is one idempotency key.  The browser sends it up to     *)
(* MaxAttempts times, and an attempt it has given up on may still run on   *)
(* the server.  An attempt is one transaction: it claims the key (INSERT   *)
(* IGNORE: waits for an open transaction of the same key), locks the       *)
(* project row, and then refuses, finds nothing to do, or writes row,      *)
(* event and stored answer in one commit.  Whatever fails before the       *)
(* commit leaves no trace, the claim included.                             *)
(*                                                                         *)
(* Field updates, review edits and review creation differ in the fields    *)
(* they touch and in what they refuse, and are one operation here.  Audit  *)
(* rows and watcher notifications are written by the same commit from the  *)
(* same change set: the event stands for the three.  Creation and deletion *)
(* are calls of the API; their caller is taken to retry like the browser.  *)
(***************************************************************************)
EXTENDS Naturals, Sequences, FiniteSets

CONSTANTS
  Keys,            \* idempotency keys: one per user action
  Projects,        \* project ids: numbers, assigned in ascending order
  Existing,        \* the projects that exist at the start, at version 1
  Fields, Values,
  Default,         \* the value of every field at first
  Wants,           \* bound: key -> the changes [op, field, to] its user may ask for
  Admins,          \* keys of principals who may delete projects
  NoKey,           \* the author of the first version of an existing project
  ConflictWindow,  \* events a conflict looks back over (100 in the code)
  MaxAttempts,     \* sends of one action (3 in the code)
  MaxFaults        \* bound: lost connections, deadlocks and killed transactions together

ASSUME WritesAssumption ==
  /\ Projects \subseteq Nat
  /\ Existing \subseteq Projects
  \* Bound: enough ids for everyone who may ask for a new project.
  /\ Cardinality({k \in Keys : \E w \in Wants[k] : w.op = "create"})
       <= Cardinality(Projects \ Existing)
  /\ Default \in Values
  /\ "none" \notin Fields
  /\ Wants \in [Keys -> SUBSET (     [op : {"update", "create"}, field : Fields, to : Values]
                                 \cup [op : {"delete"}, field : {"none"}, to : {Default}])]
  /\ Admins \subseteq Keys
  /\ NoKey \notin Keys
  /\ ConflictWindow \in Nat
  /\ MaxAttempts \in Nat \ {0}
  /\ MaxFaults \in Nat

VARIABLES
  row,      \* project -> [state, version, val]: the committed row
  events,   \* project -> its committed events, in commit order
  stored,   \* key -> the answer committed in `idempotency_keys`, or Nothing
  tx,       \* attempt <<key, n>> -> where its transaction stands
  answer,   \* attempt -> its reply, once its transaction has ended
  request,  \* key -> what the user asked for
  client,   \* key -> [pc, n, result]: the browser's retry loop, waiting for attempt n
  faults

vars == <<row, events, stored, tx, answer, request, client, faults>>

Attempts == Keys \X (1..MaxAttempts)

Nothing == [kind |-> "nothing"]
Refused == [kind |-> "refused"]   \* not found, not visible, forbidden
Failed  == [kind |-> "failed"]    \* a server error or no answer at all

Event(k, v, r) == [key |-> k, version |-> v, op |-> r.op, field |-> r.field, to |-> r.to]
Seed == [key |-> NoKey, version |-> 1, op |-> "create", field |-> "none", to |-> Default]

Init ==
  /\ row = [p \in Projects |->
              [state |-> IF p \in Existing THEN "live" ELSE "absent",
               version |-> IF p \in Existing THEN 1 ELSE 0,
               val |-> [f \in Fields |-> Default]]]
  /\ events = [p \in Projects |-> IF p \in Existing THEN <<Seed>> ELSE <<>>]
  /\ stored = [k \in Keys |-> Nothing]
  /\ tx = [a \in Attempts |-> "none"]
  /\ answer = [a \in Attempts |-> Nothing]
  /\ request = [k \in Keys |-> Nothing]
  /\ client = [k \in Keys |-> [pc |-> "idle", n |-> 0, result |-> Nothing]]
  /\ faults = 0

-----------------------------------------------------------------------------
(* The server: one attempt *)

\* Locks are held from the statement that takes them to the end of the transaction.
KeepsClaim(a) == tx[a] \in {"lock", "write", "gone"}   \* (mutant)

HoldsClaim(a) == tx[a] \in {"lock", "write"}
HoldsRow(a) == tx[a] = "write" /\ request[a[1]].op # "create"

NeverWaits(k) == TRUE   \* (mutant)

ClaimFree(k) == \A n \in 1..MaxAttempts : ~HoldsClaim(<<k, n>>)
RowFree(p) == \A a \in Attempts : HoldsRow(a) => request[a[1]].project # p

EndWith(a, reply) ==
  /\ tx' = [tx EXCEPT ![a] = "ended"]
  /\ answer' = [answer EXCEPT ![a] = reply]

NeverReplays(k) == FALSE   \* (mutant)

Replays(k) == stored[k] # Nothing

\* claimIdempotency: a committed answer is replayed, otherwise the key is claimed.
Claim(a) ==
  /\ tx[a] = "claim"
  /\ ClaimFree(a[1])
  /\ \/ /\ Replays(a[1])
        /\ EndWith(a, stored[a[1]])
     \/ /\ ~Replays(a[1])
        /\ tx' = [tx EXCEPT ![a] = IF request[a[1]].op = "create" THEN "write" ELSE "lock"]
        /\ UNCHANGED answer
  /\ UNCHANGED <<row, events, stored, request, client, faults>>

\* lockProject, then visibility and permission.
Lock(a) ==
  LET r == request[a[1]] IN
  /\ tx[a] = "lock"
  /\ RowFree(r.project)
  /\ \/ /\ row[r.project].state # "live" \/ (r.op = "delete" /\ a[1] \notin Admins)
        /\ EndWith(a, Refused)
     \/ /\ row[r.project].state = "live" /\ (r.op = "delete" => a[1] \in Admins)
        /\ tx' = [tx EXCEPT ![a] = "write"]
        /\ UNCHANGED answer
  /\ UNCHANGED <<row, events, stored, request, client, faults>>

UsesLockedVersion(r) == row[r.project].version   \* (mutant)

\* The version the writer must have seen: the one the browser sent, not the one just read.
ExpectedVersion(r) == r.base

\* conflict(): what changed since, from at most ConflictWindow events after the base.
SkipsFirstMissed(r) ==   \* (mutant)
  {events[r.project][i].field :
     i \in {j \in 1..Len(events[r.project]) : r.base + 1 < j /\ j <= r.base + ConflictWindow}}

ChangedSince(r) ==
  {events[r.project][i].field :
     i \in {j \in 1..Len(events[r.project]) : r.base < j /\ j <= r.base + ConflictWindow}}

RefuseStale(a) ==
  LET r == request[a[1]] IN
  /\ tx[a] = "write" /\ r.op # "create"
  /\ row[r.project].version # ExpectedVersion(r)
  /\ EndWith(a, [kind |-> "conflict", version |-> row[r.project].version,
                 disjoint |-> r.field \notin ChangedSince(r)])
  /\ UNCHANGED <<row, events, stored, request, client, faults>>

\* No difference: no version, no event; the answer is stored all the same.
FindNothingToDo(a) ==
  LET r == request[a[1]] IN
  /\ tx[a] = "write" /\ r.op = "update"
  /\ row[r.project].version = ExpectedVersion(r)
  /\ row[r.project].val[r.field] = r.to
  /\ stored' = [stored EXCEPT ![a[1]] = [kind |-> "noop", version |-> row[r.project].version]]
  /\ EndWith(a, stored'[a[1]])
  /\ UNCHANGED <<row, events, request, client, faults>>

\* Row, event and stored answer become durable together.
CommitVersion(a, p, newRow) ==
  /\ row' = [row EXCEPT ![p] = newRow]
  /\ events' = [events EXCEPT ![p] = Append(@, Event(a[1], newRow.version, request[a[1]]))]
  /\ stored' = [stored EXCEPT ![a[1]] = [kind |-> "ok", version |-> newRow.version]]
  /\ EndWith(a, stored'[a[1]])
  /\ UNCHANGED <<request, client, faults>>

SameVersion(v) == v   \* (mutant)

NextVersion(v) == v + 1

Update(a) ==
  LET r == request[a[1]]  old == row[r.project] IN
  /\ tx[a] = "write" /\ r.op = "update"
  /\ old.version = ExpectedVersion(r)
  /\ old.val[r.field] # r.to
  /\ CommitVersion(a, r.project, [state |-> old.state, version |-> NextVersion(old.version),
                                 val |-> [old.val EXCEPT ![r.field] = r.to]])

Delete(a) ==
  LET r == request[a[1]]  old == row[r.project] IN
  /\ tx[a] = "write" /\ r.op = "delete"
  /\ old.version = ExpectedVersion(r)
  /\ CommitVersion(a, r.project, [state |-> "deleted", version |-> NextVersion(old.version), val |-> old.val])

\* The database assigns the id.
NewId(p) == /\ row[p].state = "absent"
            /\ \A q \in Projects : row[q].state = "absent" => p <= q

Create(a) ==
  LET r == request[a[1]] IN
  /\ tx[a] = "write" /\ r.op = "create"
  /\ \E p \in Projects :
       /\ NewId(p)
       /\ CommitVersion(a, p, [state |-> "live", version |-> 1,
                               val |-> [[f \in Fields |-> Default] EXCEPT ![r.field] = r.to]])

\* A deadlock victim is rolled back and run again from the claim; in the end it fails.
Deadlock(a) ==
  /\ HoldsClaim(a)
  /\ faults < MaxFaults
  /\ faults' = faults + 1
  /\ \/ tx' = [tx EXCEPT ![a] = "claim"] /\ UNCHANGED answer
     \/ EndWith(a, Failed)
  /\ UNCHANGED <<row, events, stored, request, client>>

\* The process dies: the transaction is rolled back and nobody answers.
Kill(a) ==
  /\ tx[a] \in {"claim", "lock", "write"}
  /\ faults < MaxFaults
  /\ faults' = faults + 1
  /\ tx' = [tx EXCEPT ![a] = "gone"]
  /\ UNCHANGED <<row, events, stored, answer, request, client>>

-----------------------------------------------------------------------------
(* The browser: EditorProvider.run *)

\* The versions a browser may hold: the current one of a project, or an older one.
Versions == UNION {{p} \X (1..row[p].version) : p \in Projects}

\* What a user can ask for: an edit carries the version the browser holds, which may be stale.
Asks(k) ==
       {[op |-> w.op, base |-> 0, field |-> w.field, to |-> w.to] :
          w \in {u \in Wants[k] : u.op = "create" /\ u.to # Default}}
  \cup {[op |-> w.op, project |-> t[1], base |-> t[2], field |-> w.field, to |-> w.to] :
          w \in {u \in Wants[k] : u.op # "create"}, t \in Versions}

Send(k, n) ==
  /\ client' = [client EXCEPT ![k] = [pc |-> "waiting", n |-> n, result |-> Nothing]]
  /\ tx' = [tx EXCEPT ![<<k, n>>] = "claim"]

Submit(k) ==
  /\ client[k].pc = "idle"
  /\ \E r \in Asks(k) :
       /\ request' = [request EXCEPT ![k] = r]
  /\ Send(k, 1)
  /\ UNCHANGED <<row, events, stored, answer, faults>>

Tell(k, reply) ==
  client' = [client EXCEPT ![k] = [pc |-> "done", n |-> client[k].n, result |-> reply]]

\* A connection error or a 5xx is sent again under the same key; the last one is given up.
OneTooMany(k) == client[k].n <= MaxAttempts   \* (mutant)

SendsAgain(k) == client[k].n < MaxAttempts

TryAgain(k) ==
  \/ /\ SendsAgain(k)
     /\ Send(k, client[k].n + 1)
  \/ /\ ~SendsAgain(k)
     /\ Tell(k, Failed)
     /\ UNCHANGED tx

Receive(k) ==
  LET a == <<k, client[k].n>> IN
  /\ client[k].pc = "waiting"
  /\ \/ tx[a] = "ended" /\ answer[a] = Failed /\ TryAgain(k)
     \/ tx[a] = "gone" /\ TryAgain(k)
     \/ /\ tx[a] = "ended" /\ answer[a] # Failed
        /\ Tell(k, answer[a])
        /\ UNCHANGED tx
  /\ UNCHANGED <<row, events, stored, answer, request, faults>>

\* The connection breaks; the attempt goes on without anyone listening.
Disconnect(k) ==
  /\ client[k].pc = "waiting"
  /\ tx[<<k, client[k].n>>] # "gone"
  /\ faults < MaxFaults
  /\ faults' = faults + 1
  /\ TryAgain(k)
  /\ UNCHANGED <<row, events, stored, answer, request>>

-----------------------------------------------------------------------------
Server(a) ==
  \/ Claim(a) \/ Lock(a) \/ RefuseStale(a) \/ FindNothingToDo(a)
  \/ Update(a) \/ Delete(a) \/ Create(a)

Fault == \/ \E a \in Attempts : Deadlock(a) \/ Kill(a)
         \/ \E k \in Keys : Disconnect(k)

Next == \/ \E a \in Attempts : Server(a)
        \/ \E k \in Keys : Submit(k) \/ Receive(k)
        \/ Fault

Spec == Init /\ [][Next]_vars

\* MySQL and node finish what they started, and the browser handles what it receives.  Weak
\* fairness of the whole is enough: the user acts, the retries and the faults are finite.
FairSpec ==
  /\ Spec
  /\ WF_vars(\E a \in Attempts : Server(a))
  /\ WF_vars(\E k \in Keys : Receive(k))

-----------------------------------------------------------------------------
(* Properties *)

EventIds == UNION {{p} \X (1..Len(events[p])) : p \in Projects}
EventsOf(k) == {e \in EventIds : events[e[1]][e[2]].key = k}

\* Every variable has its type; only an attempt whose transaction ended has an answer; and the
\* browser never sends an action more than MaxAttempts times.
TypeOK ==
  /\ \A p \in Projects : /\ row[p].state \in {"absent", "live", "deleted"}
                         /\ row[p].version \in Nat
                         /\ row[p].val \in [Fields -> Values]
  /\ tx \in [Attempts -> {"none", "claim", "lock", "write", "ended", "gone"}]
  /\ \A a \in Attempts : tx[a] # "ended" => answer[a] = Nothing
  /\ \A k \in Keys : client[k].pc \in {"idle", "waiting", "done"} /\ client[k].n \in 0..MaxAttempts
  /\ faults \in 0..MaxFaults

\* The row is what its events say: versions are gapless from 1, and replaying the changes in
\* version order gives the row.  The browsers patch their copies from the events alone.
RowIsReplay ==
  \A p \in Projects :
    /\ row[p].version = Len(events[p])
    /\ \A i \in 1..Len(events[p]) : events[p][i].version = i
    /\ \A f \in Fields :
         LET on == {i \in 1..Len(events[p]) : events[p][i].field = f}
         IN row[p].val[f] = IF on = {} THEN Default
                            ELSE events[p][CHOOSE i \in on : \A j \in on : j <= i].to
    /\ row[p].state = "deleted" <=> \E i \in 1..Len(events[p]) : events[p][i].op = "delete"

\* However often an action is sent, and however its attempts overlap on the server, it takes
\* effect at most once, and exactly when its answer is stored under its key.
ExactlyOnce ==
  \A k \in Keys :
    /\ Cardinality(EventsOf(k)) <= 1
    /\ EventsOf(k) # {} <=> stored[k].kind = "ok"

\* Nobody overwrites what they have not seen: the author of version v had sent version v - 1
\* as the version the browser held.
NoLostUpdate ==
  \A k \in Keys : \A e \in EventsOf(k) : events[e[1]][e[2]].version = request[k].base + 1

\* What the user was told is and stays true: a success names the version of this very action,
\* a conflict or refusal means that no attempt of it ever takes effect, also none still
\* running on the server when the answer came.  (A refusal only as far as rights do not change
\* between two sends: here, who may see, edit or delete a project does not; in the code a project
\* can be moved to another workspace meanwhile.)
AnswersHold ==
  \A k \in Keys :
    client[k].pc = "done" =>
      /\ client[k].result.kind = "ok" =>
           \E e \in EventsOf(k) : events[e[1]][e[2]].version = client[k].result.version
      /\ client[k].result.kind \in {"noop", "conflict", "refused"} => EventsOf(k) = {}

\* The versions a refused edit had missed: the browser had not seen them when it sent it.
Missed(k) == (request[k].base + 1)..client[k].result.version

Touched(k, i) == events[request[k].project][i].field = request[k].field

ToldDisjoint(k) == client[k].result.kind = "conflict" /\ client[k].result.disjoint

\* A conflict is called disjoint only if nobody touched the field in the first ConflictWindow
\* versions missed, be there more of them or not, whoever commits between the attempts.  (The
\* ones that come after, conflict() does not look at.)
DisjointIsHonest ==
  \A k \in Keys : ToldDisjoint(k) =>
    \A i \in Missed(k) : i <= request[k].base + ConflictWindow => ~Touched(k, i)

\* What the docs say, of all of them: "disjoint: true (none of my fields were touched)"
\* (docs/data-plane.md).
DisjointAsDocumented ==
  \A k \in Keys : ToldDisjoint(k) => \A i \in Missed(k) : ~Touched(k, i)

\* Every action ends for the user, whatever is killed, deadlocked or disconnected: in the end
\* nobody is waiting.  (A key is sent by one call, which never goes back to waiting.)
EveryActionEnds == <>[](\A k \in Keys : client[k].pc # "waiting")
-----------------------------------------------------------------------------
(* What the users see of it *)

AsStore == INSTANCE ProjectStore WITH
  project <- row, effect <- stored, told <- [k \in Keys |-> client[k].result]

\* Transactions, locks, replays and retries implement a store in which an action takes effect
\* in one step, at most once, on the version that its user had seen.
ImplementsStore == AsStore!Spec
=============================================================================
