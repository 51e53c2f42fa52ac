------------------------------- MODULE Store ---------------------------------
(***************************************************************************)
(* The part of the database that bookings, checklists, report links,       *)
(* project deletion and notifications share, and the transactions they     *)
(* run on it: MysqlProjectStore over InnoDB.                               *)
(*                                                                         *)
(* A user action has an idempotency key and may be sent more than once.    *)
(* Each send is one transaction.  It takes row locks, one at a time, and   *)
(* keeps them to its end; what it writes is seen by others at its commit,  *)
(* which is one step.  A deadlock's victim is rolled back and run again    *)
(* from the start.  Marking notifications read and purging them run        *)
(* without a key and are not run again.                                    *)
(*                                                                         *)
(* The modules that extend this one say, for each operation, which rows it *)
(* still needs (Needs in Records) and what it does once it holds them.     *)
(***************************************************************************)
EXTENDS Naturals, Sequences, FiniteSets

CONSTANTS
  Keys,         \* user actions
  Wants,        \* bound: key -> what its user may ask for
  Actor,        \* key -> the user who acts
  Users,
  Slots, Checklists, Reports,
  Drafts,       \* the checklists that exist at the start
  Projects,     \* project ids: numbers, assigned in ascending order
  Existing,     \* the projects that exist at the start
  Registrations, \* what the workbook calls a project (fullKey)
  Spelled,      \* existing project -> the registration its fields spell out, or None
  Subscribers,  \* the users told of a submitted checklist (departmentCandidates)
  Watchers,     \* project -> the users who watch it
  Earlier,      \* the notifications in the inboxes at the start, all unread
  None,
  Sends,        \* bound: key -> how often its action may be sent
  MaxTries,     \* runs of a transaction that keeps being a deadlock's victim (3 in the code)
  Mortal        \* bound: the keys whose transactions may die with their process

Ops == {"book", "release", "save", "submit", "setLink", "autoLink", "delete", "import", "read",
        "purge"}

\* may: is the actor allowed to, at every send of it (the workspace of a project, on which the
\* code lets that depend, does not change here)?  base, slotBase: the versions seen, filled in
\* when it is asked.
Requests ==
  [op : Ops, may : BOOLEAN, slot : Slots \cup {None}, checklist : Checklists \cup {None},
   report : Reports \cup {None}, project : Projects \cup {None}, base : Nat, slotBase : Nat,
   rows : Seq([reg : Registrations, action : {"create", "update"},
               project : Projects \cup {None}])]

\* A request names what it is about.
IsMeant(w) ==
  /\ w.op \in {"book", "release"} => w.slot # None
  /\ w.op = "submit" => w.checklist # None
  /\ w.op = "setLink" => w.report # None
  /\ w.op = "delete" => w.project # None
  /\ \A i \in 1..Len(w.rows) : w.rows[i].action = "update" => w.rows[i].project # None

ASSUME StoreAssumption ==
  /\ None \notin Slots \cup Checklists \cup Reports \cup Projects \cup Registrations
  /\ Projects \subseteq Nat /\ Existing \subseteq Projects
  /\ Drafts \subseteq Checklists
  /\ Spelled \in [Existing -> Registrations \cup {None}]
  \* At the start nothing is registered twice.
  /\ \A p, q \in Existing : Spelled[p] = Spelled[q] => p = q \/ Spelled[p] = None
  /\ IsFiniteSet(Users) /\ Subscribers \subseteq Users
  /\ Watchers \in [Projects -> SUBSET Users]
  /\ Actor \in [Keys -> Users]
  /\ Wants \in [Keys -> SUBSET Requests]
  /\ \A k \in Keys : \A w \in Wants[k] : IsMeant(w)
  \* Earlier notifications are about something else.
  /\ IsFiniteSet(Earlier)
  /\ \A n \in Earlier : /\ n = [user |-> n.user, about |-> n.about, read |-> FALSE]
                         /\ n.user \in Users /\ n.about[1] = "earlier"
  /\ Sends \in [Keys -> Nat \ {0}] /\ MaxTries \in Nat \ {0} /\ Mortal \subseteq Keys

VARIABLES
  db,       \* the committed tables, see Init
  tx,       \* send <<key, n>> -> its transaction
  request   \* key -> what its user asked for

vars == <<db, tx, request>>

Attempts == UNION {{k} \X (1..Sends[k]) : k \in Keys}

Nothing  == [kind |-> "nothing"]
Refused  == [kind |-> "refused"]    \* not found, not visible, forbidden
Conflict == [kind |-> "conflict"]   \* somebody was there first
Failed   == [kind |-> "failed"]     \* a server error: the caller does not know
Done(p)  == [kind |-> "ok", project |-> p]

\* A transaction that has not done anything.
Fresh(pc, tries) == [pc |-> pc, locks |-> {}, shares |-> {}, tries |-> tries, work |-> <<>>,
                     reply |-> Nothing]
NotBegun == Fresh("none", 0)

UnreadOf(notes, u) == {n \in notes : n.user = u /\ ~n.read}

\* slotEvents: the `booking.updated` events; told: the recipients of `notification.created`
\* events with what they are about.
Init ==
  /\ db = [slot       |-> [s \in Slots |-> [version |-> 1, status |-> "free", project |-> None]],
           slotEvents |-> [s \in Slots |-> <<>>],
           checklist  |-> [c \in Checklists |->
                             [status |-> IF c \in Drafts THEN "draft" ELSE "absent",
                              version |-> IF c \in Drafts THEN 1 ELSE 0, project |-> None]],
           project    |-> [p \in Projects |->
                             [state |-> IF p \in Existing THEN "live" ELSE "absent", from |-> None,
                              reg |-> IF p \in Existing THEN Spelled[p] ELSE None]],
           key        |-> [g \in Registrations |-> None],
           report     |-> [r \in Reports |-> [project |-> None, source |-> "none", version |-> 1]],
           inbox      |-> Earlier,
           unread     |-> [u \in Users |-> Cardinality(UnreadOf(Earlier, u))],
           told       |-> {},
           stored     |-> [k \in Keys |-> Nothing]]
  /\ tx = [a \in Attempts |-> NotBegun]
  /\ request = [k \in Keys |-> Nothing]

Req(a) == request[a[1]]
Is(a, op, pc) == tx[a].pc = pc /\ Req(a).op = op
Running == {a \in Attempts : tx[a].pc \notin {"none", "ended", "gone"}}

-----------------------------------------------------------------------------
(* Row locks *)

ClaimRow(k) == <<"claim", k>>
SlotRow(s) == <<"slot", s>>
ChecklistRow(c) == <<"checklist", c>>
ProjectRow(p) == <<"project", p>>
ReportRow(r) == <<"report", r>>
NoteRow(n) == <<"note", n.user, n.about>>
CounterRow(u) == <<"counter", u>>

\* The attempts that keep a from locking the row: any holder, or for a shared lock any
\* exclusive one.
Blockers(a, row, shared) ==
  {b \in Running \ {a} : row \in tx[b].locks \/ (~shared /\ row \in tx[b].shares)}

\* A statement that locks a row waits until nobody is in its way.
Take(a, row, shared) ==
  /\ Blockers(a, row, shared) = {}
  /\ tx' = IF shared THEN [tx EXCEPT ![a].shares = @ \cup {row}]
                     ELSE [tx EXCEPT ![a].locks = @ \cup {row}]
  /\ UNCHANGED <<db, request>>

-----------------------------------------------------------------------------
(* One transaction *)

\* The next statement, with the row locks held and what the transaction has found out so far.
Goes(a, pc, locks, work) ==
  /\ tx' = [tx EXCEPT ![a] = [pc |-> pc, locks |-> locks, shares |-> tx[a].shares,
                              tries |-> tx[a].tries, work |-> work, reply |-> tx[a].reply]]
  /\ UNCHANGED <<db, request>>

Continue(a, pc, work) == Goes(a, pc, tx[a].locks, work)

KeepsLocks(a, reply) == [tx EXCEPT ![a].pc = "ended", ![a].reply = reply]   \* (mutant)

Ended(a, reply) ==
  [tx EXCEPT ![a] = [pc |-> "ended", locks |-> {}, shares |-> {}, tries |-> tx[a].tries,
                     work |-> <<>>, reply |-> reply]]

\* Rolled back: nothing is left, the claim included.
GiveUp(a, reply) ==
  /\ tx' = Ended(a, reply)
  /\ UNCHANGED <<db, request>>

\* Everything it wrote, and completeIdempotency, become durable together.
Commit(a, tables, reply) ==
  /\ db' = [tables EXCEPT !.stored[a[1]] = reply]
  /\ tx' = Ended(a, reply)
  /\ UNCHANGED request

\* The same for an operation without a key.
CommitUnkeyed(a, tables) ==
  /\ db' = tables
  /\ tx' = Ended(a, Done(None))
  /\ UNCHANGED request

Keyed(op) == op \notin {"read", "purge"}

\* Links and imports are refused before the transaction, the rest inside it.
Admitted(r) == r.may \/ r.op \notin {"setLink", "autoLink", "import"}

TurnAway(a) ==
  /\ tx[a].pc = "claim" /\ ~Admitted(Req(a))
  /\ GiveUp(a, Refused)

NeverReplays(k) == FALSE   \* (mutant)

Replays(k) == db.stored[k] # Nothing

\* claimIdempotency: the insert waits for another send that is under way, then a committed
\* answer is replayed.
Claim(a) ==
  /\ tx[a].pc = "claim" /\ Admitted(Req(a))
  /\ Blockers(a, ClaimRow(a[1]), FALSE) = {}
  /\ \/ /\ Replays(a[1])
        /\ GiveUp(a, db.stored[a[1]])
     \/ /\ ~Replays(a[1])
        /\ Goes(a, "start", {ClaimRow(a[1])}, <<>>)

TriesForEver(a) ==   \* (mutant)
  /\ tx' = [tx EXCEPT ![a] = Fresh("claim", tx[a].tries)]
  /\ UNCHANGED <<db, request>>

\* A deadlock's victim: transaction() runs it again from the start, three times in all.
IsVictim(a) ==
  /\ \/ /\ Keyed(Req(a).op) /\ tx[a].tries < MaxTries
        /\ tx' = [tx EXCEPT ![a] = Fresh("claim", tx[a].tries + 1)]
     \/ /\ ~Keyed(Req(a).op) \/ tx[a].tries = MaxTries
        /\ tx' = Ended(a, Failed)
  /\ UNCHANGED <<db, request>>

\* The process dies, or the connection to the database: rolled back, nobody answers.
Kill(a) ==
  /\ a \in Running /\ a[1] \in Mortal
  /\ tx' = [tx EXCEPT ![a] = Fresh("gone", 0)]
  /\ UNCHANGED <<db, request>>

\* The next id that is neither committed nor inserted by an open transaction.
Unused == {p \in Projects : /\ db.project[p].state = "absent"
                            /\ \A b \in Running : ProjectRow(p) \notin tx[b].locks}
NextId(p) == p \in Unused /\ \A q \in Unused : p <= q

-----------------------------------------------------------------------------
(* Notifications, as other transactions write them *)

\* The recipients who have no notification about this yet (the unique key of the inbox).
Untold(notes, to, about) == {u \in to : ~\E n \in notes : n.user = u /\ n.about = about}

CountsTwice(n) == n + 2   \* (mutant)
CountsOne(n) == n + 1

\* insertNotification for each of them, with its `notification.created` event.
Notify(tables, to, about) ==
  LET new == Untold(tables.inbox, to, about) IN
  [tables EXCEPT
     !.inbox = @ \cup {[user |-> u, about |-> about, read |-> FALSE] : u \in new},
     !.unread = [u \in Users |-> IF u \in new THEN CountsOne(@[u]) ELSE @[u]],
     !.told = @ \cup (new \X {about})]

-----------------------------------------------------------------------------
(* The user *)

\* An action carries the versions its user saw last; older ones are refused in the same way.
SeenVersion(w) ==
  CASE w.op \in {"book", "release"} -> db.slot[w.slot].version
    [] w.op \in {"save", "submit"} /\ w.checklist # None -> db.checklist[w.checklist].version
    [] w.op = "setLink" -> db.report[w.report].version
    [] OTHER -> 0

SeenSlot(w) == IF w.op = "submit" /\ w.slot # None THEN db.slot[w.slot].version ELSE 0

\* A user only acts on a checklist that exists, and on a project that exists or did.
CanAsk(w) == /\ w.checklist # None => db.checklist[w.checklist].status # "absent"
             /\ w.project # None => db.project[w.project].state # "absent"

Send(k, n, op) ==
  tx' = [tx EXCEPT ![<<k, n>>] = Fresh(IF Keyed(op) THEN "claim" ELSE "start", 1)]

Ask(k) ==
  /\ request[k] = Nothing
  /\ \E w \in Wants[k] :
       /\ CanAsk(w)
       /\ request' = [request EXCEPT
            ![k] = [w EXCEPT !.base = SeenVersion(w), !.slotBase = SeenSlot(w)]]
       /\ Send(k, 1, w.op)
  /\ UNCHANGED db

\* The answer is late, lost or an error: the same action again.
Resend(k) ==
  \E n \in 1..(Sends[k] - 1) :
    /\ tx[<<k, n>>].pc # "none" /\ tx[<<k, n + 1>>].pc = "none"
    /\ Keyed(request[k].op)
    /\ Send(k, n + 1, request[k].op)
    /\ UNCHANGED <<db, request>>
=============================================================================
