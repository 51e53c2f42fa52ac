----------------------------- MODULE RecordsLocks -----------------------------
(***************************************************************************)
(* What each step of Records does: a statement rewrites one transaction    *)
(* and leaves the tables alone, or commits, and each operation's commit    *)
(* says what it writes.  And what row locks are for: whatever a            *)
(* transaction has found out about the rows it holds is still so when it   *)
(* commits (`Held`), at each of its statements.                            *)
(***************************************************************************)
EXTENDS Records, FiniteSetTheorems, SequenceTheorems, TLAPS

-----------------------------------------------------------------------------
(* Transactions and tables are records, and a step rewrites one transaction. *)

TxFields(t) == t = [pc |-> t.pc, locks |-> t.locks, shares |-> t.shares, tries |-> t.tries,
                    work |-> t.work, reply |-> t.reply]

DbFields(d) == d = [slot |-> d.slot, slotEvents |-> d.slotEvents, checklist |-> d.checklist,
                    project |-> d.project, key |-> d.key, report |-> d.report, inbox |-> d.inbox,
                    unread |-> d.unread, told |-> d.told, stored |-> d.stored]

Shaped ==
  /\ tx = [a \in Attempts |-> tx[a]]
  /\ \A a \in Attempts : TxFields(tx[a])
  /\ DbFields(db)

\* The transaction of attempt a, and no other, becomes this.
Turns(a, pc, locks, shares, work, reply) ==
  /\ tx'[a].pc = pc /\ tx'[a].locks = locks /\ tx'[a].shares = shares
  /\ tx'[a].work = work /\ tx'[a].reply = reply
  /\ \A b \in Attempts : b # a => tx'[b] = tx[b]
  /\ tx' = [b \in Attempts |-> tx'[b]] /\ \A b \in Attempts : TxFields(tx'[b])

\* A transaction that is rewritten as a whole turns into just that.
LEMMA TurnsTo ==
  ASSUME Shaped, NEW a \in Attempts, NEW pc, NEW locks, NEW shares, NEW tries, NEW work, NEW reply,
         tx' = [tx EXCEPT ![a] = [pc |-> pc, locks |-> locks, shares |-> shares, tries |-> tries,
                                  work |-> work, reply |-> reply]]
  PROVE  Turns(a, pc, locks, shares, work, reply)
  BY DEF Shaped, Turns, TxFields

\* A statement that goes on changes its own transaction only.
LEMMA GoesEffect ==
  ASSUME Shaped, NEW a \in Attempts, NEW pc, NEW locks, NEW work, Goes(a, pc, locks, work)
  PROVE  /\ Turns(a, pc, locks, tx[a].shares, work, tx[a].reply)
         /\ db' = db /\ request' = request
  BY TurnsTo DEF Goes

\* The same for a statement that takes no row.
LEMMA ContinueEffect ==
  ASSUME Shaped, NEW a \in Attempts, NEW pc, NEW work, Continue(a, pc, work)
  PROVE  /\ Turns(a, pc, tx[a].locks, tx[a].shares, work, tx[a].reply)
         /\ db' = db /\ request' = request
  BY GoesEffect DEF Continue

\* A transaction that ends holds nothing.
LEMMA EndEffect ==
  ASSUME Shaped, NEW a \in Attempts, NEW reply, tx' = Ended(a, reply)
  PROVE  Turns(a, "ended", {}, {}, <<>>, reply)
  BY TurnsTo DEF Ended

\* A transaction that gives up leaves the tables as they are.
LEMMA GiveUpEffect ==
  ASSUME Shaped, NEW a \in Attempts, NEW reply, GiveUp(a, reply)
  PROVE  Turns(a, "ended", {}, {}, <<>>, reply) /\ db' = db /\ request' = request
  BY EndEffect DEF GiveUp

\* A deadlock's victim starts again or fails, and holds nothing.
LEMMA VictimEffect ==
  ASSUME Shaped, NEW a \in Attempts, IsVictim(a)
  PROVE  /\ \/ Turns(a, "claim", {}, {}, <<>>, Nothing) /\ Keyed(Req(a).op)
            \/ Turns(a, "ended", {}, {}, <<>>, Failed)
         /\ db' = db /\ request' = request
<1>1. CASE tx' = [tx EXCEPT ![a] = Fresh("claim", tx[a].tries + 1)] /\ Keyed(Req(a).op)
  BY <1>1, TurnsTo DEF IsVictim, Fresh
<1>2. CASE tx' = Ended(a, Failed)
  BY <1>2, EndEffect DEF IsVictim
<1> QED
  BY <1>1, <1>2 DEF IsVictim

\* A transaction whose process dies holds nothing.
LEMMA KillEffect ==
  ASSUME Shaped, NEW a \in Attempts, Kill(a)
  PROVE  Turns(a, "gone", {}, {}, <<>>, Nothing) /\ db' = db /\ request' = request
  BY TurnsTo DEF Kill, Fresh

\* Sending an action begins one attempt.
LEMMA SendEffect ==
  ASSUME Shaped, NEW k, NEW n, <<k, n>> \in Attempts, NEW op, Send(k, n, op)
  PROVE  Turns(<<k, n>>, IF Keyed(op) THEN "claim" ELSE "start", {}, {}, <<>>, Nothing)
<1> DEFINE pc == IF Keyed(op) THEN "claim" ELSE "start"
<1>1. tx' = [tx EXCEPT ![<<k, n>>] = Fresh(pc, 1)]
  BY DEF Send
<1> HIDE DEF pc
<1>2. Turns(<<k, n>>, pc, {}, {}, <<>>, Nothing)
  BY <1>1, TurnsTo DEF Fresh
<1> QED
  BY <1>2 DEF pc

\* Taking a row changes nothing but the locks of one transaction.
LEMMA TakeEffect ==
  ASSUME Shaped, NEW a \in Attempts, NEW row, NEW shared \in BOOLEAN, Take(a, row, shared)
  PROVE  /\ Turns(a, tx[a].pc, tx[a].locks \cup IF shared THEN {} ELSE {row},
                  tx[a].shares \cup IF shared THEN {row} ELSE {}, tx[a].work, tx[a].reply)
         /\ Blockers(a, row, shared) = {} /\ db' = db /\ request' = request
<1>1. CASE shared
  <2>1. tx' = [tx EXCEPT ![a].shares = @ \cup {row}]
    BY <1>1 DEF Take
  <2>2. /\ tx'[a].shares = tx[a].shares \cup {row} /\ tx'[a].locks = tx[a].locks /\ tx'[a].pc = tx[a].pc
        /\ tx'[a].work = tx[a].work /\ tx'[a].reply = tx[a].reply
    <3>1. tx'[a].shares = tx[a].shares \cup {row}
      BY <2>1 DEF Shaped, TxFields
    <3>2. tx'[a].locks = tx[a].locks
      BY <2>1 DEF Shaped, TxFields
    <3>3. tx'[a].pc = tx[a].pc
      BY <2>1 DEF Shaped, TxFields
    <3>4. tx'[a].work = tx[a].work
      BY <2>1 DEF Shaped, TxFields
    <3>5. tx'[a].reply = tx[a].reply
      BY <2>1 DEF Shaped, TxFields
    <3> QED
      BY <3>1, <3>2, <3>3, <3>4, <3>5
  <2>5. TxFields(tx'[a])
    BY <2>1 DEF Shaped, TxFields
  <2>3. \A b \in Attempts : b # a => tx'[b] = tx[b]
    BY <2>1 DEF Shaped
  <2>4. tx' = [b \in Attempts |-> tx'[b]]
    BY <2>1 DEF Shaped
  <2> QED
    BY <1>1, <2>2, <2>3, <2>4, <2>5 DEF Take, Shaped, TxFields, Turns
<1>2. CASE ~shared
  <2>1. tx' = [tx EXCEPT ![a].locks = @ \cup {row}]
    BY <1>2 DEF Take
  <2>2. /\ tx'[a].locks = tx[a].locks \cup {row} /\ tx'[a].shares = tx[a].shares /\ tx'[a].pc = tx[a].pc
        /\ tx'[a].work = tx[a].work /\ tx'[a].reply = tx[a].reply
    <3>1. tx'[a].locks = tx[a].locks \cup {row}
      BY <2>1 DEF Shaped, TxFields
    <3>2. tx'[a].shares = tx[a].shares
      BY <2>1 DEF Shaped, TxFields
    <3>3. tx'[a].pc = tx[a].pc
      BY <2>1 DEF Shaped, TxFields
    <3>4. tx'[a].work = tx[a].work
      BY <2>1 DEF Shaped, TxFields
    <3>5. tx'[a].reply = tx[a].reply
      BY <2>1 DEF Shaped, TxFields
    <3> QED
      BY <3>1, <3>2, <3>3, <3>4, <3>5
  <2>5. TxFields(tx'[a])
    BY <2>1 DEF Shaped, TxFields
  <2>3. \A b \in Attempts : b # a => tx'[b] = tx[b]
    BY <2>1 DEF Shaped
  <2>4. tx' = [b \in Attempts |-> tx'[b]]
    BY <2>1 DEF Shaped
  <2> QED
    BY <1>2, <2>2, <2>3, <2>4, <2>5 DEF Take, Shaped, TxFields, Turns
<1> QED
  BY <1>1, <1>2

-----------------------------------------------------------------------------
(* Tables *)

SlotsAs(d, e) == e.slot = d.slot /\ e.slotEvents = d.slotEvents
ChecklistsAs(d, e) == e.checklist = d.checklist
ProjectsAs(d, e) == e.project = d.project
KeysAs(d, e) == e.key = d.key
ReportsAs(d, e) == e.report = d.report
InboxAs(d, e) == e.inbox = d.inbox /\ e.unread = d.unread /\ e.told = d.told
StoredAs(d, e) == e.stored = d.stored

\* A commit stores the answer and writes the tables it was given.
LEMMA CommitEffect ==
  ASSUME Shaped, NEW d, DbFields(d), NEW a \in Attempts, NEW reply, Commit(a, d, reply)
  PROVE  /\ Turns(a, "ended", {}, {}, <<>>, reply) /\ request' = request
         /\ DbFields(db')
         /\ db'.stored = [d.stored EXCEPT ![a[1]] = reply]
         /\ SlotsAs(d, db') /\ ChecklistsAs(d, db') /\ ProjectsAs(d, db') /\ KeysAs(d, db')
         /\ ReportsAs(d, db') /\ InboxAs(d, db')
<1> USE DEF Commit, DbFields
<1>1. Turns(a, "ended", {}, {}, <<>>, reply)
  BY EndEffect
<1>2. db'.stored = [d.stored EXCEPT ![a[1]] = reply]
  OBVIOUS
<1>3. SlotsAs(d, db') /\ ChecklistsAs(d, db') /\ ProjectsAs(d, db')
  BY DEF SlotsAs, ChecklistsAs, ProjectsAs
<1>4. KeysAs(d, db') /\ ReportsAs(d, db') /\ InboxAs(d, db')
  BY DEF KeysAs, ReportsAs, InboxAs
<1>5. DbFields(db')
  OBVIOUS
<1> QED
  BY <1>1, <1>2, <1>3, <1>4, <1>5

\* Writing a slot changes that slot and its events, and no other table.
LEMMA WithSlotEffect ==
  ASSUME NEW d, DbFields(d), NEW k, NEW s, NEW status, NEW p
  PROVE  LET e == WithSlot(d, k, s, status, p) IN
         /\ DbFields(e)
         /\ e.slot = [d.slot EXCEPT ![s] = [version |-> d.slot[s].version + 1, status |-> status,
                                            project |-> p]]
         /\ e.slotEvents = [d.slotEvents EXCEPT
                              ![s] = Append(d.slotEvents[s], [key |-> k, to |-> status, project |-> p])]
         /\ ChecklistsAs(d, e) /\ ProjectsAs(d, e) /\ KeysAs(d, e) /\ ReportsAs(d, e)
         /\ InboxAs(d, e) /\ StoredAs(d, e)
<1> DEFINE e == WithSlot(d, k, s, status, p)
<1> USE DEF WithSlot, DbFields
<1>1. e.slot = [d.slot EXCEPT ![s] = [version |-> d.slot[s].version + 1, status |-> status,
                                      project |-> p]]
  OBVIOUS
<1>2. e.slotEvents = [d.slotEvents EXCEPT
                        ![s] = Append(d.slotEvents[s], [key |-> k, to |-> status, project |-> p])]
  OBVIOUS
<1>3. ChecklistsAs(d, e) /\ ProjectsAs(d, e) /\ KeysAs(d, e)
  BY DEF ChecklistsAs, ProjectsAs, KeysAs
<1>4. ReportsAs(d, e) /\ InboxAs(d, e) /\ StoredAs(d, e)
  BY DEF ReportsAs, InboxAs, StoredAs
<1>5. DbFields(e)
  <2> DEFINE x == [d.slot EXCEPT ![s] = [version |-> d.slot[s].version + 1, status |-> status,
                                         project |-> p]]
             y == [d.slotEvents EXCEPT
                     ![s] = Append(d.slotEvents[s], [key |-> k, to |-> status, project |-> p])]
  <2>1. e = [d EXCEPT !.slot = x, !.slotEvents = y]
    OBVIOUS
  <2> HIDE DEF x, y, e
  <2>2. e = [[d EXCEPT !.slot = x] EXCEPT !.slotEvents = y]
    BY <2>1
  <2>3. DbFields([d EXCEPT !.slot = x])
    OBVIOUS
  <2>4. \A c : DbFields(c) => DbFields([c EXCEPT !.slotEvents = y])
    OBVIOUS
  <2> QED
    BY <2>2, <2>3, <2>4
<1> QED
  BY <1>1, <1>2, <1>3, <1>4, <1>5

\* Notifying changes the inbox, its counters and what was told, and no other table.
LEMMA NotifyEffect ==
  ASSUME NEW d, DbFields(d), NEW to, NEW about
  PROVE  LET e == Notify(d, to, about)  new == Untold(d.inbox, to, about) IN
         /\ DbFields(e)
         /\ e.inbox = d.inbox \cup {[user |-> u, about |-> about, read |-> FALSE] : u \in new}
         /\ e.unread = [u \in Users |-> IF u \in new THEN d.unread[u] + 1 ELSE d.unread[u]]
         /\ e.told = d.told \cup (new \X {about})
         /\ SlotsAs(d, e) /\ ChecklistsAs(d, e) /\ ProjectsAs(d, e) /\ KeysAs(d, e)
         /\ ReportsAs(d, e) /\ StoredAs(d, e)
<1> DEFINE e == Notify(d, to, about)  new == Untold(d.inbox, to, about)
<1> USE DEF Notify, DbFields
<1>1. e.inbox = d.inbox \cup {[user |-> u, about |-> about, read |-> FALSE] : u \in new}
  OBVIOUS
<1>2. e.unread = [u \in Users |-> IF u \in new THEN d.unread[u] + 1 ELSE d.unread[u]]
  BY DEF CountsOne
<1>3. e.told = d.told \cup (new \X {about})
  OBVIOUS
<1>4. SlotsAs(d, e) /\ ChecklistsAs(d, e) /\ ProjectsAs(d, e)
  BY DEF SlotsAs, ChecklistsAs, ProjectsAs
<1>5. KeysAs(d, e) /\ ReportsAs(d, e) /\ StoredAs(d, e)
  BY DEF KeysAs, ReportsAs, StoredAs
<1>6. DbFields(e)
  <2> DEFINE x == e.inbox  y == e.unread  z == e.told
  <2>1. e = [d EXCEPT !.inbox = x, !.unread = y, !.told = z]
    BY <1>1, <1>2, <1>3 DEF CountsOne
  <2> HIDE DEF x, y, z, e
  <2>2. e = [[[d EXCEPT !.inbox = x] EXCEPT !.unread = y] EXCEPT !.told = z]
    BY <2>1
  <2>3. DbFields([d EXCEPT !.inbox = x])
    OBVIOUS
  <2>4. \A c : DbFields(c) => DbFields([c EXCEPT !.unread = y])
    OBVIOUS
  <2>5. \A c : DbFields(c) => DbFields([c EXCEPT !.told = z])
    OBVIOUS
  <2> QED
    BY <2>2, <2>3, <2>4, <2>5
<1> QED
  BY <1>1, <1>2, <1>3, <1>4, <1>5, <1>6

-----------------------------------------------------------------------------
(* What each operation's commit does to the tables. *)

Ends(a, reply) == Turns(a, "ended", {}, {}, <<>>, reply) /\ request' = request
Refuses(a, reply) == Ends(a, reply) /\ db' = db
Answers(a, reply) == /\ Ends(a, reply) /\ DbFields(db')
                     /\ db'.stored = [db.stored EXCEPT ![a[1]] = reply]

SlotWritten(k, s, status, p) ==
  /\ db'.slot = [db.slot EXCEPT ![s] = [version |-> db.slot[s].version + 1, status |-> status,
                                        project |-> p]]
  /\ db'.slotEvents = [db.slotEvents EXCEPT
                         ![s] = Append(db.slotEvents[s], [key |-> k, to |-> status, project |-> p])]

Notified(to, about) ==
  LET new == Untold(db.inbox, to, about) IN
  /\ db'.inbox = db.inbox \cup {[user |-> u, about |-> about, read |-> FALSE] : u \in new}
  /\ db'.unread = [u \in Users |-> IF u \in new THEN db.unread[u] + 1 ELSE db.unread[u]]
  /\ db'.told = db.told \cup (new \X {about})

Booking(a) ==
  LET r == Req(a) IN
  /\ Answers(a, Done(None))
  /\ Bookable(r.slot, r.base)
  /\ SlotWritten(a[1], r.slot, "booked", r.project)
  /\ ChecklistsAs(db, db') /\ ProjectsAs(db, db') /\ KeysAs(db, db') /\ ReportsAs(db, db')
  /\ InboxAs(db, db')

\* Booking books a slot that was free at the version asked for, or says no.
LEMMA BookEffect ==
  ASSUME Shaped, NEW a \in Attempts, Book(a)
  PROVE  \/ Refuses(a, Conflict) /\ ~Bookable(Req(a).slot, Req(a).base)
         \/ Booking(a)
<1> DEFINE r == Req(a)  d == WithSlot(db, a[1], r.slot, "booked", r.project)
<1>1. CASE ~Bookable(r.slot, r.base) /\ GiveUp(a, Conflict)
  BY <1>1, GiveUpEffect DEF Refuses, Ends
<1>2. CASE Bookable(r.slot, r.base) /\ Commit(a, d, Done(None))
  <2>1. DbFields(db)
    BY DEF Shaped
  <2>2. /\ DbFields(d)
        /\ d.slot = [db.slot EXCEPT ![r.slot] = [version |-> db.slot[r.slot].version + 1,
                                                 status |-> "booked", project |-> r.project]]
        /\ d.slotEvents = [db.slotEvents EXCEPT
              ![r.slot] = Append(db.slotEvents[r.slot],
                                 [key |-> a[1], to |-> "booked", project |-> r.project])]
        /\ ChecklistsAs(db, d) /\ ProjectsAs(db, d) /\ KeysAs(db, d) /\ ReportsAs(db, d)
        /\ InboxAs(db, d) /\ StoredAs(db, d)
    BY <2>1, WithSlotEffect
  <2> HIDE DEF d
  <2>3. /\ Ends(a, Done(None)) /\ DbFields(db')
        /\ db'.stored = [d.stored EXCEPT ![a[1]] = Done(None)]
        /\ SlotsAs(d, db') /\ ChecklistsAs(d, db') /\ ProjectsAs(d, db') /\ KeysAs(d, db')
        /\ ReportsAs(d, db') /\ InboxAs(d, db')
    BY <1>2, <2>2, CommitEffect DEF Ends
  <2>4. Answers(a, Done(None)) /\ SlotWritten(a[1], r.slot, "booked", r.project)
    BY <2>2, <2>3 DEF Answers, SlotWritten, StoredAs, SlotsAs
  <2>5. ChecklistsAs(db, db') /\ ProjectsAs(db, db') /\ KeysAs(db, db') /\ ReportsAs(db, db')
        /\ InboxAs(db, db')
    BY <2>2, <2>3 DEF ChecklistsAs, ProjectsAs, KeysAs, ReportsAs, InboxAs
  <2> QED
    BY <1>2, <2>4, <2>5 DEF Booking
<1> QED
  BY <1>1, <1>2 DEF Book

Releasing(a) ==
  LET r == Req(a) IN
  /\ Answers(a, Done(None))
  /\ r.may /\ db.slot[r.slot].version = r.base
  /\ SlotWritten(a[1], r.slot, "free", None)
  /\ ChecklistsAs(db, db') /\ ProjectsAs(db, db') /\ KeysAs(db, db') /\ ReportsAs(db, db')
  /\ InboxAs(db, db')

\* Releasing frees the slot at the version asked for, or says no.
LEMMA ReleaseEffect ==
  ASSUME Shaped, NEW a \in Attempts, Release(a)
  PROVE  \/ Refuses(a, Refused) /\ ~Req(a).may
         \/ Refuses(a, Conflict) /\ db.slot[Req(a).slot].version # Req(a).base
         \/ Releasing(a)
<1> DEFINE r == Req(a)  d == WithSlot(db, a[1], r.slot, "free", None)
<1>1. CASE ~r.may /\ GiveUp(a, Refused)
  BY <1>1, GiveUpEffect DEF Refuses, Ends
<1>2. CASE db.slot[r.slot].version # r.base /\ GiveUp(a, Conflict)
  BY <1>2, GiveUpEffect DEF Refuses, Ends
<1>3. CASE r.may /\ db.slot[r.slot].version = r.base /\ Commit(a, d, Done(None))
  <2>1. DbFields(db)
    BY DEF Shaped
  <2>2. /\ DbFields(d)
        /\ d.slot = [db.slot EXCEPT ![r.slot] = [version |-> db.slot[r.slot].version + 1,
                                                 status |-> "free", project |-> None]]
        /\ d.slotEvents = [db.slotEvents EXCEPT
              ![r.slot] = Append(db.slotEvents[r.slot],
                                 [key |-> a[1], to |-> "free", project |-> None])]
        /\ ChecklistsAs(db, d) /\ ProjectsAs(db, d) /\ KeysAs(db, d) /\ ReportsAs(db, d)
        /\ InboxAs(db, d) /\ StoredAs(db, d)
    BY <2>1, WithSlotEffect
  <2> HIDE DEF d
  <2>3. /\ Ends(a, Done(None)) /\ DbFields(db')
        /\ db'.stored = [d.stored EXCEPT ![a[1]] = Done(None)]
        /\ SlotsAs(d, db') /\ ChecklistsAs(d, db') /\ ProjectsAs(d, db') /\ KeysAs(d, db')
        /\ ReportsAs(d, db') /\ InboxAs(d, db')
    BY <1>3, <2>2, CommitEffect DEF Ends
  <2>4. Answers(a, Done(None)) /\ SlotWritten(a[1], r.slot, "free", None)
    BY <2>2, <2>3 DEF Answers, SlotWritten, StoredAs, SlotsAs
  <2>5. ChecklistsAs(db, db') /\ ProjectsAs(db, db') /\ KeysAs(db, db') /\ ReportsAs(db, db')
        /\ InboxAs(db, db')
    BY <2>2, <2>3 DEF ChecklistsAs, ProjectsAs, KeysAs, ReportsAs, InboxAs
  <2> QED
    BY <1>3, <2>4, <2>5 DEF Releasing
<1> QED
  BY <1>1, <1>2, <1>3 DEF Release

\* The checklist a save writes.
SavedAs(r) == IF r.checklist = None THEN NewChecklist ELSE r.checklist

Saving(a) ==
  LET r == Req(a)  c == SavedAs(r) IN
  /\ Answers(a, Done(None))
  /\ r.may /\ (r.checklist # None => Editable(r))
  /\ db'.checklist = [db.checklist EXCEPT
       ![c] = [status |-> "draft", version |-> db.checklist[c].version + 1,
               project |-> db.checklist[c].project]]
  /\ SlotsAs(db, db') /\ ProjectsAs(db, db') /\ KeysAs(db, db') /\ ReportsAs(db, db')
  /\ InboxAs(db, db')

\* Saving writes a draft, or says no.
LEMMA SaveEffect ==
  ASSUME Shaped, NEW a \in Attempts, Save(a)
  PROVE  \/ Refuses(a, Refused) /\ ~Req(a).may
         \/ Refuses(a, Conflict) /\ Req(a).checklist # None /\ ~Editable(Req(a))
         \/ Saving(a)
<1> DEFINE r == Req(a)  c == SavedAs(r)
           d == [db EXCEPT !.checklist[c] = [status |-> "draft", version |-> @.version + 1,
                                             project |-> @.project]]
<1>1. CASE ~r.may /\ GiveUp(a, Refused)
  BY <1>1, GiveUpEffect DEF Refuses, Ends
<1>2. CASE r.checklist # None /\ ~Editable(r) /\ GiveUp(a, Conflict)
  BY <1>2, GiveUpEffect DEF Refuses, Ends
<1>3. CASE r.may /\ (r.checklist # None => Editable(r)) /\ Commit(a, d, Done(None))
  <2>1. DbFields(d)
    BY DEF Shaped, DbFields
  <2>2. d.checklist = [db.checklist EXCEPT
                         ![c] = [status |-> "draft", version |-> db.checklist[c].version + 1,
                                 project |-> db.checklist[c].project]]
    BY DEF Shaped, DbFields
  <2>3. SlotsAs(db, d) /\ ProjectsAs(db, d) /\ KeysAs(db, d) /\ ReportsAs(db, d) /\ InboxAs(db, d)
        /\ StoredAs(db, d)
    BY DEF Shaped, DbFields, SlotsAs, ProjectsAs, KeysAs, ReportsAs, InboxAs, StoredAs
  <2> HIDE DEF d
  <2>4. /\ Ends(a, Done(None)) /\ DbFields(db')
        /\ db'.stored = [d.stored EXCEPT ![a[1]] = Done(None)]
        /\ SlotsAs(d, db') /\ ChecklistsAs(d, db') /\ ProjectsAs(d, db') /\ KeysAs(d, db')
        /\ ReportsAs(d, db') /\ InboxAs(d, db')
    BY <1>3, <2>1, CommitEffect DEF Ends
  <2>5. Answers(a, Done(None)) /\ db'.checklist = d.checklist
    BY <2>3, <2>4 DEF Answers, StoredAs, ChecklistsAs
  <2>6. SlotsAs(db, db') /\ ProjectsAs(db, db') /\ KeysAs(db, db') /\ ReportsAs(db, db')
        /\ InboxAs(db, db')
    BY <2>3, <2>4 DEF SlotsAs, ProjectsAs, KeysAs, ReportsAs, InboxAs
  <2> QED
    BY <1>3, <2>2, <2>5, <2>6 DEF Saving
<1> QED
  BY <1>1, <1>2, <1>3 DEF Save, SavedAs

Submitting(a) ==
  LET r == Req(a)  c == r.checklist  p == tx[a].work IN
  /\ Answers(a, Done(p))
  /\ db'.project = [db.project EXCEPT ![p] = [state |-> "live", from |-> c, reg |-> None]]
  /\ db'.checklist = [db.checklist EXCEPT
       ![c] = [status |-> "submitted", version |-> db.checklist[c].version + 1, project |-> p]]
  /\ IF r.slot # None /\ Bookable(r.slot, r.slotBase)
     THEN SlotWritten(a[1], r.slot, "booked", p) ELSE SlotsAs(db, db')
  /\ Notified(Subscribers \ {Actor[a[1]]}, ChecklistRow(c))
  /\ KeysAs(db, db') /\ ReportsAs(db, db')

\* Submitting writes checklist, project, slot and notifications together.
LEMMA SubmitEffect ==
  ASSUME Shaped, NEW a \in Attempts, Submit(a)
  PROVE  Submitting(a)
<1> DEFINE r == Req(a)  c == r.checklist  p == tx[a].work
           books == r.slot # None /\ Bookable(r.slot, r.slotBase)
           to == Subscribers \ {Actor[a[1]]}
           d1 == [db EXCEPT !.project[p] = [state |-> "live", from |-> c, reg |-> None],
                            !.checklist[c] = [status |-> "submitted", version |-> @.version + 1,
                                              project |-> p]]
           d2 == Booked(d1, a, p)
           d3 == Notify(d2, to, ChecklistRow(c))
<1>0. DbFields(db)
  BY DEF Shaped
<1>1. /\ d1.project = [db.project EXCEPT ![p] = [state |-> "live", from |-> c, reg |-> None]]
      /\ d1.checklist = [db.checklist EXCEPT
           ![c] = [status |-> "submitted", version |-> db.checklist[c].version + 1, project |-> p]]
  BY <1>0 DEF DbFields
<1>2. SlotsAs(db, d1) /\ KeysAs(db, d1) /\ ReportsAs(db, d1) /\ InboxAs(db, d1) /\ StoredAs(db, d1)
  BY <1>0 DEF DbFields, SlotsAs, KeysAs, ReportsAs, InboxAs, StoredAs
<1>3. DbFields(d1)
  <2> DEFINE x == d1.project  y == d1.checklist
  <2>1. d1 = [db EXCEPT !.project = x, !.checklist = y]
    BY <1>1
  <2> HIDE DEF x, y, d1
  <2>2. d1 = [[db EXCEPT !.project = x] EXCEPT !.checklist = y]
    BY <2>1
  <2>3. DbFields([db EXCEPT !.project = x])
    BY <1>0 DEF DbFields
  <2>4. \A e : DbFields(e) => DbFields([e EXCEPT !.checklist = y])
    BY DEF DbFields
  <2> QED
    BY <2>2, <2>3, <2>4
<1>4. Commit(a, d3, Done(p))
  BY DEF Submit
<1> HIDE DEF d1
<1>5. /\ DbFields(d2)
      /\ ChecklistsAs(d1, d2) /\ ProjectsAs(d1, d2) /\ KeysAs(d1, d2) /\ ReportsAs(d1, d2)
      /\ InboxAs(d1, d2) /\ StoredAs(d1, d2)
      /\ books => /\ d2.slot = [d1.slot EXCEPT
                       ![r.slot] = [version |-> d1.slot[r.slot].version + 1, status |-> "booked",
                                    project |-> p]]
                  /\ d2.slotEvents = [d1.slotEvents EXCEPT
                       ![r.slot] = Append(d1.slotEvents[r.slot],
                                          [key |-> a[1], to |-> "booked", project |-> p])]
      /\ ~books => SlotsAs(d1, d2)
  <2>1. CASE books
    <3> DEFINE e == WithSlot(d1, a[1], r.slot, "booked", p)
    <3>1. /\ DbFields(e)
          /\ e.slot = [d1.slot EXCEPT
               ![r.slot] = [version |-> d1.slot[r.slot].version + 1, status |-> "booked",
                            project |-> p]]
          /\ e.slotEvents = [d1.slotEvents EXCEPT
               ![r.slot] = Append(d1.slotEvents[r.slot],
                                  [key |-> a[1], to |-> "booked", project |-> p])]
          /\ ChecklistsAs(d1, e) /\ ProjectsAs(d1, e) /\ KeysAs(d1, e) /\ ReportsAs(d1, e)
          /\ InboxAs(d1, e) /\ StoredAs(d1, e)
      BY <1>3, WithSlotEffect
    <3>2. d2 = e
      BY <2>1 DEF Booked
    <3> HIDE DEF d2, e
    <3> QED
      BY <2>1, <3>1, <3>2
  <2>2. CASE ~books
    <3>1. d2 = d1
      BY <2>2 DEF Booked
    <3> QED
      BY <1>3, <2>2, <3>1
           DEF SlotsAs, ChecklistsAs, ProjectsAs, KeysAs, ReportsAs, InboxAs, StoredAs
  <2> QED
    BY <2>1, <2>2
<1> HIDE DEF d2
<1>6. /\ DbFields(d3)
      /\ d3.inbox = d2.inbox \cup {[user |-> u, about |-> ChecklistRow(c), read |-> FALSE] :
                                     u \in Untold(d2.inbox, to, ChecklistRow(c))}
      /\ d3.unread = [u \in Users |-> IF u \in Untold(d2.inbox, to, ChecklistRow(c))
                                      THEN d2.unread[u] + 1 ELSE d2.unread[u]]
      /\ d3.told = d2.told \cup (Untold(d2.inbox, to, ChecklistRow(c)) \X {ChecklistRow(c)})
      /\ SlotsAs(d2, d3) /\ ChecklistsAs(d2, d3) /\ ProjectsAs(d2, d3) /\ KeysAs(d2, d3)
      /\ ReportsAs(d2, d3) /\ StoredAs(d2, d3)
  BY <1>5, NotifyEffect
<1> HIDE DEF d3
<1>7. /\ Ends(a, Done(p)) /\ DbFields(db')
      /\ db'.stored = [d3.stored EXCEPT ![a[1]] = Done(p)]
      /\ SlotsAs(d3, db') /\ ChecklistsAs(d3, db') /\ ProjectsAs(d3, db') /\ KeysAs(d3, db')
      /\ ReportsAs(d3, db') /\ InboxAs(d3, db')
  BY <1>4, <1>6, CommitEffect DEF Ends
<1>8. Answers(a, Done(p))
  BY <1>2, <1>5, <1>6, <1>7 DEF Answers, StoredAs
<1>9. /\ db'.project = [db.project EXCEPT ![p] = [state |-> "live", from |-> c, reg |-> None]]
      /\ db'.checklist = [db.checklist EXCEPT
           ![c] = [status |-> "submitted", version |-> db.checklist[c].version + 1, project |-> p]]
  BY <1>1, <1>5, <1>6, <1>7 DEF ProjectsAs, ChecklistsAs
<1>10. IF books THEN SlotWritten(a[1], r.slot, "booked", p) ELSE SlotsAs(db, db')
  BY <1>2, <1>5, <1>6, <1>7 DEF SlotsAs, SlotWritten
<1>11. Notified(to, ChecklistRow(c))
  BY <1>2, <1>5, <1>6, <1>7 DEF InboxAs, Notified
<1>12. KeysAs(db, db') /\ ReportsAs(db, db')
  BY <1>2, <1>5, <1>6, <1>7 DEF KeysAs, ReportsAs
<1> QED
  BY <1>8, <1>9, <1>10, <1>11, <1>12 DEF Submitting

Deleting(a) ==
  LET p == Req(a).project IN
  /\ Answers(a, Done(p))
  /\ db'.project = [db.project EXCEPT ![p] = [state |-> "deleted", from |-> db.project[p].from,
                                              reg |-> db.project[p].reg]]
  /\ db'.report = WithoutLinksTo(p)
  /\ db'.key = WithoutKeysOf(p)
  /\ Notified(Watchers[p] \ {Actor[a[1]]}, ProjectRow(p))
  /\ SlotsAs(db, db') /\ ChecklistsAs(db, db')

\* Deleting takes the links and the source keys with the project.
LEMMA DeleteEffect ==
  ASSUME Shaped, NEW a \in Attempts, Delete(a)
  PROVE  Deleting(a)
<1> DEFINE p == Req(a).project
           to == Watchers[p] \ {Actor[a[1]]}
           d1 == [db EXCEPT
                    !.project[p] = [state |-> "deleted", from |-> @.from, reg |-> @.reg],
                    !.report = WithoutLinksTo(p), !.key = WithoutKeysOf(p)]
           d3 == Notify(d1, to, ProjectRow(p))
<1>0. DbFields(db)
  BY DEF Shaped
<1>1. /\ d1.project = [db.project EXCEPT ![p] = [state |-> "deleted", from |-> db.project[p].from,
                                                reg |-> db.project[p].reg]]
      /\ d1.report = WithoutLinksTo(p)
      /\ d1.key = WithoutKeysOf(p)
  BY <1>0 DEF DbFields
<1>2. SlotsAs(db, d1) /\ ChecklistsAs(db, d1) /\ InboxAs(db, d1) /\ StoredAs(db, d1)
  BY <1>0 DEF DbFields, SlotsAs, ChecklistsAs, InboxAs, StoredAs
<1>3. DbFields(d1)
  <2> DEFINE x == d1.project  y == d1.report  z == d1.key
  <2>1. d1 = [db EXCEPT !.project = x, !.report = y, !.key = z]
    BY <1>1
  <2> HIDE DEF x, y, z, d1
  <2>2. d1 = [[[db EXCEPT !.project = x] EXCEPT !.report = y] EXCEPT !.key = z]
    BY <2>1
  <2>3. DbFields([db EXCEPT !.project = x])
    BY <1>0 DEF DbFields
  <2>4. \A e : DbFields(e) => DbFields([e EXCEPT !.report = y])
    BY DEF DbFields
  <2>5. \A e : DbFields(e) => DbFields([e EXCEPT !.key = z])
    BY DEF DbFields
  <2> QED
    BY <2>2, <2>3, <2>4, <2>5
<1>4. Commit(a, d3, Done(p))
  BY DEF Delete
<1> HIDE DEF d1
<1>6. /\ DbFields(d3)
      /\ d3.inbox = d1.inbox \cup {[user |-> u, about |-> ProjectRow(p), read |-> FALSE] :
                                     u \in Untold(d1.inbox, to, ProjectRow(p))}
      /\ d3.unread = [u \in Users |-> IF u \in Untold(d1.inbox, to, ProjectRow(p))
                                      THEN d1.unread[u] + 1 ELSE d1.unread[u]]
      /\ d3.told = d1.told \cup (Untold(d1.inbox, to, ProjectRow(p)) \X {ProjectRow(p)})
      /\ SlotsAs(d1, d3) /\ ChecklistsAs(d1, d3) /\ ProjectsAs(d1, d3) /\ KeysAs(d1, d3)
      /\ ReportsAs(d1, d3) /\ StoredAs(d1, d3)
  BY <1>3, NotifyEffect
<1> HIDE DEF d3
<1>7. /\ Ends(a, Done(p)) /\ DbFields(db')
      /\ db'.stored = [d3.stored EXCEPT ![a[1]] = Done(p)]
      /\ SlotsAs(d3, db') /\ ChecklistsAs(d3, db') /\ ProjectsAs(d3, db') /\ KeysAs(d3, db')
      /\ ReportsAs(d3, db') /\ InboxAs(d3, db')
  BY <1>4, <1>6, CommitEffect DEF Ends
<1>8. Answers(a, Done(p)) /\ Notified(to, ProjectRow(p))
  BY <1>2, <1>6, <1>7 DEF Answers, StoredAs, InboxAs, Notified
<1>9. /\ db'.project = d1.project /\ db'.report = d1.report /\ db'.key = d1.key
      /\ SlotsAs(db, db') /\ ChecklistsAs(db, db')
  BY <1>2, <1>6, <1>7 DEF ProjectsAs, ReportsAs, KeysAs, SlotsAs, ChecklistsAs
<1> QED
  BY <1>1, <1>8, <1>9 DEF Deleting

Linking(a) ==
  LET r == Req(a)  p == r.project IN
  /\ Answers(a, Done(p))
  /\ db.report[r.report].version = r.base
  /\ \/ ReportsAs(db, db')
     \/ db'.report = [db.report EXCEPT
          ![r.report] = [project |-> p, source |-> ByHand(p),
                         version |-> db.report[r.report].version + 1]]
  /\ SlotsAs(db, db') /\ ChecklistsAs(db, db') /\ ProjectsAs(db, db') /\ KeysAs(db, db')
  /\ InboxAs(db, db')

\* Linking by hand writes the report at the version asked for, or says no.
LEMMA SetLinkEffect ==
  ASSUME Shaped, NEW a \in Attempts, SetLink(a)
  PROVE  \/ Refuses(a, Conflict) /\ db.report[Req(a).report].version # Req(a).base
         \/ Linking(a)
<1> DEFINE r == Req(a)  p == r.project  old == db.report[r.report]
           d == WithLink(db, r.report, p, ByHand(p))
<1>0. DbFields(db)
  BY DEF Shaped
<1>1. CASE old.version # r.base /\ GiveUp(a, Conflict)
  BY <1>1, GiveUpEffect DEF Refuses, Ends
<1>2. CASE old.version = r.base /\ old.project = p /\ Commit(a, db, Done(old.project))
  <2>1. Ends(a, Done(p)) /\ DbFields(db') /\ db'.stored = [db.stored EXCEPT ![a[1]] = Done(p)]
        /\ SlotsAs(db, db') /\ ChecklistsAs(db, db') /\ ProjectsAs(db, db') /\ KeysAs(db, db')
        /\ ReportsAs(db, db') /\ InboxAs(db, db')
    BY <1>0, <1>2, CommitEffect DEF Ends
  <2> QED
    BY <1>2, <2>1 DEF Linking, Answers
<1>3. CASE old.version = r.base /\ Commit(a, d, Done(p))
  <2>1. DbFields(d) /\ d.report = [db.report EXCEPT
          ![r.report] = [project |-> p, source |-> ByHand(p), version |-> old.version + 1]]
    BY <1>0 DEF WithLink, DbFields
  <2>2. SlotsAs(db, d) /\ ChecklistsAs(db, d) /\ ProjectsAs(db, d) /\ KeysAs(db, d)
        /\ InboxAs(db, d) /\ StoredAs(db, d)
    BY <1>0 DEF WithLink, DbFields, SlotsAs, ChecklistsAs, ProjectsAs, KeysAs, InboxAs, StoredAs
  <2> HIDE DEF d
  <2>3. Ends(a, Done(p)) /\ DbFields(db') /\ db'.stored = [d.stored EXCEPT ![a[1]] = Done(p)]
        /\ SlotsAs(d, db') /\ ChecklistsAs(d, db') /\ ProjectsAs(d, db') /\ KeysAs(d, db')
        /\ ReportsAs(d, db') /\ InboxAs(d, db')
    BY <1>3, <2>1, CommitEffect DEF Ends
  <2>4. Answers(a, Done(p)) /\ db'.report = d.report
    BY <2>2, <2>3 DEF Answers, StoredAs, ReportsAs
  <2>5. SlotsAs(db, db') /\ ChecklistsAs(db, db') /\ ProjectsAs(db, db') /\ KeysAs(db, db')
        /\ InboxAs(db, db')
    BY <2>2, <2>3 DEF SlotsAs, ChecklistsAs, ProjectsAs, KeysAs, InboxAs
  <2> QED
    BY <1>3, <2>1, <2>4, <2>5 DEF Linking
<1> QED
  BY <1>1, <1>2, <1>3 DEF SetLink

\* The reports after a bulk run that found what is in set.
BulkLinked(set) ==
  [r \in Reports |-> IF \E t \in set : t.report = r
                     THEN [project |-> (CHOOSE t \in set : t.report = r).project,
                           source |-> "auto", version |-> db.report[r].version + 1]
                     ELSE db.report[r]]

BulkLinking(a) ==
  /\ Answers(a, Done(None))
  /\ db'.report = BulkLinked(tx[a].work.set)
  /\ SlotsAs(db, db') /\ ChecklistsAs(db, db') /\ ProjectsAs(db, db') /\ KeysAs(db, db')
  /\ InboxAs(db, db')

\* A bulk run writes the reports it has found, and no other table.
LEMMA AutoLinkEffect ==
  ASSUME Shaped, NEW a \in Attempts, AutoLink(a)
  PROVE  BulkLinking(a)
<1> DEFINE x == BulkLinked(tx[a].work.set)  d == [db EXCEPT !.report = x]
<1>0. DbFields(db)
  BY DEF Shaped
<1>1. Commit(a, d, Done(None))
  BY DEF AutoLink, BulkLinked
<1> HIDE DEF x
<1>2. DbFields(d) /\ d.report = x
  BY <1>0 DEF DbFields
<1>3. SlotsAs(db, d) /\ ChecklistsAs(db, d) /\ ProjectsAs(db, d) /\ KeysAs(db, d)
      /\ InboxAs(db, d) /\ StoredAs(db, d)
  BY <1>0 DEF DbFields, SlotsAs, ChecklistsAs, ProjectsAs, KeysAs, InboxAs, StoredAs
<1> HIDE DEF d
<1>4. Ends(a, Done(None)) /\ DbFields(db') /\ db'.stored = [d.stored EXCEPT ![a[1]] = Done(None)]
      /\ SlotsAs(d, db') /\ ChecklistsAs(d, db') /\ ProjectsAs(d, db') /\ KeysAs(d, db')
      /\ ReportsAs(d, db') /\ InboxAs(d, db')
  BY <1>1, <1>2, CommitEffect DEF Ends
<1>5. Answers(a, Done(None)) /\ db'.report = x
  BY <1>2, <1>3, <1>4 DEF Answers, StoredAs, ReportsAs
<1>6. SlotsAs(db, db') /\ ChecklistsAs(db, db') /\ ProjectsAs(db, db') /\ KeysAs(db, db')
      /\ InboxAs(db, db')
  BY <1>3, <1>4 DEF SlotsAs, ChecklistsAs, ProjectsAs, KeysAs, InboxAs
<1> QED
  BY <1>5, <1>6 DEF BulkLinking, x

\* Projects and source keys after an import that made and kept these.
WithMade(made) ==
  [p \in Projects |-> IF \E t \in made : t.project = p
                      THEN [state |-> "live", from |-> None, reg |-> RegOf(made, p)]
                      ELSE db.project[p]]
WithOwned(owned) ==
  [g \in Registrations |-> IF \E t \in owned : t.reg = g THEN OwnerIn(owned, g) ELSE db.key[g]]

Importing(a) ==
  LET w == tx[a].work IN
  /\ Answers(a, Done(None))
  /\ db'.project = WithMade(w.made)
  /\ db'.key = WithOwned(w.made \cup w.kept)
  /\ SlotsAs(db, db') /\ ChecklistsAs(db, db') /\ ReportsAs(db, db') /\ InboxAs(db, db')

\* An import writes the projects it makes and the keys it claims, and no other table.
LEMMA ImportEffect ==
  ASSUME Shaped, NEW a \in Attempts, Import(a)
  PROVE  Importing(a)
<1> DEFINE w == tx[a].work  x == WithMade(w.made)  y == WithOwned(w.made \cup w.kept)
           d == [db EXCEPT !.project = x, !.key = y]
<1>0. DbFields(db)
  BY DEF Shaped
<1>1. Commit(a, d, Done(None))
  BY DEF Import, WithMade, WithOwned
<1> HIDE DEF x, y
<1>2. d.project = x /\ d.key = y
  BY <1>0 DEF DbFields
<1>3. SlotsAs(db, d) /\ ChecklistsAs(db, d) /\ ReportsAs(db, d) /\ InboxAs(db, d) /\ StoredAs(db, d)
  BY <1>0 DEF DbFields, SlotsAs, ChecklistsAs, ReportsAs, InboxAs, StoredAs
<1>4. DbFields(d)
  <2>1. d = [[db EXCEPT !.project = x] EXCEPT !.key = y]
    OBVIOUS
  <2>2. DbFields([db EXCEPT !.project = x])
    BY <1>0 DEF DbFields
  <2>3. \A e : DbFields(e) => DbFields([e EXCEPT !.key = y])
    BY DEF DbFields
  <2> HIDE DEF d
  <2> QED
    BY <2>1, <2>2, <2>3
<1> HIDE DEF d
<1>5. Ends(a, Done(None)) /\ DbFields(db') /\ db'.stored = [d.stored EXCEPT ![a[1]] = Done(None)]
      /\ SlotsAs(d, db') /\ ChecklistsAs(d, db') /\ ProjectsAs(d, db') /\ KeysAs(d, db')
      /\ ReportsAs(d, db') /\ InboxAs(d, db')
  BY <1>1, <1>4, CommitEffect DEF Ends
<1>6. Answers(a, Done(None)) /\ db'.project = x /\ db'.key = y
  BY <1>2, <1>3, <1>5 DEF Answers, StoredAs, ProjectsAs, KeysAs
<1>7. SlotsAs(db, db') /\ ChecklistsAs(db, db') /\ ReportsAs(db, db') /\ InboxAs(db, db')
  BY <1>3, <1>5 DEF SlotsAs, ChecklistsAs, ReportsAs, InboxAs
<1> QED
  BY <1>6, <1>7 DEF Importing, x, y

\* A commit of the inbox's own writers.
Tidies(a, inbox) ==
  /\ Ends(a, Done(None)) /\ DbFields(db') /\ StoredAs(db, db')
  /\ db'.inbox = inbox /\ db'.unread = Discount(db, tx[a].work) /\ db'.told = db.told
  /\ SlotsAs(db, db') /\ ChecklistsAs(db, db') /\ ProjectsAs(db, db') /\ KeysAs(db, db')
  /\ ReportsAs(db, db')

\* A commit without a key stores no answer.
LEMMA TidyEffect ==
  ASSUME Shaped, NEW a \in Attempts, NEW x,
         CommitUnkeyed(a, [db EXCEPT !.inbox = x, !.unread = Discount(db, tx[a].work)])
  PROVE  Tidies(a, x)
<1> DEFINE y == Discount(db, tx[a].work)  d == [db EXCEPT !.inbox = x, !.unread = y]
<1>0. DbFields(db)
  BY DEF Shaped
<1> HIDE DEF y
<1>1. d.inbox = x /\ d.unread = y /\ d.told = db.told
  BY <1>0 DEF DbFields
<1>2. SlotsAs(db, d) /\ ChecklistsAs(db, d) /\ ProjectsAs(db, d) /\ KeysAs(db, d)
      /\ ReportsAs(db, d) /\ StoredAs(db, d)
  BY <1>0 DEF DbFields, SlotsAs, ChecklistsAs, ProjectsAs, KeysAs, ReportsAs, StoredAs
<1>3. DbFields(d)
  <2>1. d = [[db EXCEPT !.inbox = x] EXCEPT !.unread = y]
    OBVIOUS
  <2>2. DbFields([db EXCEPT !.inbox = x])
    BY <1>0 DEF DbFields
  <2>3. \A e : DbFields(e) => DbFields([e EXCEPT !.unread = y])
    BY DEF DbFields
  <2> HIDE DEF d
  <2> QED
    BY <2>1, <2>2, <2>3
<1>4. db' = d /\ Ends(a, Done(None))
  BY EndEffect DEF CommitUnkeyed, Ends, y
<1> HIDE DEF d
<1> QED
  BY <1>1, <1>2, <1>3, <1>4 DEF Tidies, y

\* What marking read leaves.
MarkedRead(w) == (db.inbox \ w) \cup {[n EXCEPT !.read = TRUE] : n \in w}

\* Marking as read keeps every notification.
LEMMA MarkReadEffect ==
  ASSUME Shaped, NEW a \in Attempts, MarkRead(a)
  PROVE  Tidies(a, MarkedRead(tx[a].work))
<1>1. CommitUnkeyed(a, [db EXCEPT !.inbox = MarkedRead(tx[a].work),
                                  !.unread = Discount(db, tx[a].work)])
  BY DEF MarkRead, MarkedRead
<1> QED
  BY <1>1, TidyEffect

\* Purging removes what it has locked.
LEMMA PurgeEffect ==
  ASSUME Shaped, NEW a \in Attempts, Purge(a)
  PROVE  Tidies(a, db.inbox \ tx[a].work)
<1>1. CommitUnkeyed(a, [db EXCEPT !.inbox = db.inbox \ tx[a].work,
                                  !.unread = Discount(db, tx[a].work)])
  BY DEF Purge
<1> QED
  BY <1>1, TidyEffect

-----------------------------------------------------------------------------
(* A step of an attempt commits, or changes nothing but its transaction. *)

\* The steps that write to the tables.
Writes(a) ==
  \/ Is(a, "book", "slot") /\ Holds(a) /\ Booking(a)
  \/ Is(a, "release", "start") /\ Holds(a) /\ Releasing(a)
  \/ Is(a, "save", "start") /\ Holds(a) /\ Saving(a)
     /\ (Req(a).checklist = None => \E c \in Checklists : db.checklist[c].status = "absent")
  \/ Is(a, "submit", "tell") /\ Holds(a) /\ Submitting(a)
  \/ Is(a, "setLink", "report") /\ Locked(a) /\ Linking(a)
  \/ Is(a, "autoLink", "set") /\ BulkLinking(a)
  \/ Is(a, "delete", "reports") /\ Locked(a) /\ Deleting(a)
  \/ Is(a, "import", "row") /\ Importing(a)
  \/ Is(a, "read", "count") /\ Has(a) /\ Tidies(a, MarkedRead(tx[a].work))
  \/ Is(a, "purge", "count") /\ Has(a) /\ Tidies(a, db.inbox \ tx[a].work)

\* The steps that take a row lock, claim a key, end the transaction or let it go on.
Taking(a) ==
  \E row \in Missing(a) :
    /\ Turns(a, tx[a].pc, tx[a].locks \cup IF SharesLock(a) THEN {} ELSE {row},
             tx[a].shares \cup IF SharesLock(a) THEN {row} ELSE {}, tx[a].work, tx[a].reply)
    /\ Blockers(a, row, SharesLock(a)) = {}

Claiming(a) ==
  /\ tx[a].pc = "claim" /\ Admitted(Req(a)) /\ ~Replays(a[1])
  /\ Blockers(a, ClaimRow(a[1]), FALSE) = {}
  /\ Turns(a, "start", {ClaimRow(a[1])}, tx[a].shares, <<>>, tx[a].reply)

Ending(a) == \E reply : Turns(a, "ended", {}, {}, <<>>, reply)

Busy == {"start", "slot", "tell", "report", "share", "set", "reports", "row", "rows", "count"}

Going(a) ==
  /\ tx[a].pc \in Busy
  /\ \E pc \in Busy : \E work :
       \/ Turns(a, pc, tx[a].locks, tx[a].shares, work, tx[a].reply)
       \/ \E p \in Projects :
            /\ NextId(p)
            /\ Turns(a, pc, tx[a].locks \cup {ProjectRow(p)}, tx[a].shares, work, tx[a].reply)

Moves(a) ==
  /\ db' = db /\ request' = request
  /\ Taking(a) \/ Claiming(a) \/ Ending(a) \/ Going(a)

\* Every statement of bookings and checklists commits, or leaves the tables alone.
LEMMA BookingMoves ==
  ASSUME Shaped, NEW a \in Attempts, BookingStep(a)
  PROVE  Writes(a) \/ Moves(a)
<1>1. CASE CheckProject(a)
  <2>1. \/ Is(a, "book", "start") /\ Continue(a, "slot", <<>>)
        \/ GiveUp(a, Refused)
    BY <1>1 DEF CheckProject
  <2> QED
    BY <2>1, ContinueEffect, GiveUpEffect DEF Moves, Going, Ending, Busy, Is
<1>2. CASE Book(a)
  <2>1. Is(a, "book", "slot") /\ Holds(a)
    BY <1>2 DEF Book
  <2> QED
    BY <1>2, <2>1, BookEffect DEF Writes, Moves, Ending, Refuses, Ends
<1>3. CASE Release(a)
  <2>1. Is(a, "release", "start") /\ Holds(a)
    BY <1>3 DEF Release
  <2> QED
    BY <1>3, <2>1, ReleaseEffect DEF Writes, Moves, Ending, Refuses, Ends
<1>4. CASE Save(a)
  <2>1. /\ Is(a, "save", "start") /\ Holds(a)
        /\ Req(a).checklist = None => \E c \in Checklists : db.checklist[c].status = "absent"
    BY <1>4 DEF Save
  <2> QED
    BY <1>4, <2>1, SaveEffect DEF Writes, Moves, Ending, Refuses, Ends
<1>5. CASE SubmitBegin(a)
  <2>1. CASE GiveUp(a, Refused) \/ GiveUp(a, Conflict)
    BY <2>1, GiveUpEffect DEF Moves, Ending
  <2>2. ASSUME NEW p \in Projects, NextId(p), Is(a, "submit", "start"),
               Goes(a, IF Req(a).slot = None THEN "tell" ELSE "slot",
                    tx[a].locks \cup {ProjectRow(p)}, p)
        PROVE  Moves(a)
    <3> DEFINE pc == IF Req(a).slot = None THEN "tell" ELSE "slot"
    <3>1. pc \in Busy /\ tx[a].pc \in Busy
      BY <2>2 DEF Busy, Is
    <3> HIDE DEF pc
    <3>2. /\ Turns(a, pc, tx[a].locks \cup {ProjectRow(p)}, tx[a].shares, p, tx[a].reply)
          /\ db' = db /\ request' = request
      BY <2>2, GoesEffect DEF pc
    <3> QED
      BY <2>2, <3>1, <3>2 DEF Moves, Going
  <2> QED
    BY <1>5, <2>1, <2>2 DEF SubmitBegin
<1>6. CASE SubmitSlot(a)
  <2>1. \/ Is(a, "submit", "slot") /\ Continue(a, "tell", tx[a].work)
        \/ GiveUp(a, Conflict)
    BY <1>6 DEF SubmitSlot, SlotGone
  <2> QED
    BY <2>1, ContinueEffect, GiveUpEffect DEF Moves, Going, Ending, Busy, Is
<1>7. CASE Submit(a)
  BY <1>7, SubmitEffect DEF Writes, Submit
<1> QED
  BY <1>1, <1>2, <1>3, <1>4, <1>5, <1>6, <1>7 DEF BookingStep

\* Every statement of links and deletion commits, or leaves the tables alone.
LEMMA LinkMoves ==
  ASSUME Shaped, NEW a \in Attempts, LinkStep(a)
  PROVE  Writes(a) \/ Moves(a)
<1> USE ContinueEffect, GiveUpEffect DEF Moves, Going, Ending, Busy, Is
<1>1. CASE LinkTarget(a)
  BY <1>1 DEF LinkTarget
<1>2. CASE SetLink(a)
  <2>1. Is(a, "setLink", "report") /\ Locked(a)
    BY <1>2 DEF SetLink
  <2> QED
    BY <1>2, <2>1, SetLinkEffect DEF Writes, Refuses, Ends
<1>3. CASE AutoRead(a)
  BY <1>3 DEF AutoRead
<1>4. CASE AutoShare(a)
  BY <1>4 DEF AutoShare
<1>5. CASE AutoSet(a)
  BY <1>5 DEF AutoSet
<1>6. CASE AutoNext(a)
  BY <1>6 DEF AutoNext
<1>7. CASE AutoLink(a)
  BY <1>7, AutoLinkEffect DEF Writes, AutoLink
<1>8. CASE DeleteBegin(a)
  BY <1>8 DEF DeleteBegin
<1>9. CASE DeleteTell(a)
  BY <1>9 DEF DeleteTell
<1>10. CASE Delete(a)
  BY <1>10, DeleteEffect DEF Writes, Delete
<1> QED
  BY <1>1, <1>2, <1>3, <1>4, <1>5, <1>6, <1>7, <1>8, <1>9, <1>10 DEF LinkStep

\* Every statement of an import commits, or leaves the tables alone.
LEMMA ImportMoves ==
  ASSUME Shaped, NEW a \in Attempts, ImportStep(a)
  PROVE  Writes(a) \/ Moves(a)
<1> USE ContinueEffect DEF Moves, Going, Busy, Is, AtRow
<1>1. CASE ImportPlan(a)
  BY <1>1 DEF ImportPlan
<1>2. CASE ImportExists(a)
  BY <1>2 DEF ImportExists
<1>3. CASE ImportCreate(a)
  BY <1>3, GoesEffect DEF ImportCreate
<1>4. CASE ImportUpdate(a)
  BY <1>4 DEF ImportUpdate
<1>5. CASE Import(a)
  BY <1>5, ImportEffect DEF Writes, Import
<1> QED
  BY <1>1, <1>2, <1>3, <1>4, <1>5 DEF ImportStep

\* Every statement of the inbox's own writers commits, or leaves the tables alone.
LEMMA InboxMoves ==
  ASSUME Shaped, NEW a \in Attempts, InboxStep(a)
  PROVE  Writes(a) \/ Moves(a)
<1> USE ContinueEffect, EndEffect DEF Moves, Going, Ending, Busy, Is, CommitUnkeyed
<1>1. CASE ReadBegin(a)
  BY <1>1 DEF ReadBegin
<1>2. CASE MarkRead(a)
  BY <1>2, MarkReadEffect DEF Writes, MarkRead
<1>3. CASE PurgeBegin(a)
  BY <1>3 DEF PurgeBegin
<1>4. CASE PurgeRows(a)
  BY <1>4 DEF PurgeRows
<1>5. CASE Purge(a)
  BY <1>5, PurgeEffect DEF Writes, Purge
<1> QED
  BY <1>1, <1>2, <1>3, <1>4, <1>5 DEF InboxStep

\* What a step of the database does: it commits, moves, or drops the attempt.
Drops(a) ==
  /\ db' = db /\ request' = request
  /\ \/ Turns(a, "claim", {}, {}, <<>>, Nothing) /\ Keyed(Req(a).op)
     \/ Turns(a, "ended", {}, {}, <<>>, Failed)
     \/ Turns(a, "gone", {}, {}, <<>>, Nothing)

\* Every step of the database commits, or leaves the tables alone.
LEMMA ServerMoves ==
  ASSUME Shaped, NEW a \in Attempts, Server(a)
  PROVE  Writes(a) \/ Moves(a)
<1>1. CASE Lock(a)
  <2>1. SharesLock(a) \in BOOLEAN
    BY DEF SharesLock, Is
  <2> QED
    BY <1>1, <2>1, TakeEffect DEF Lock, Moves, Taking
<1>2. CASE TurnAway(a)
  BY <1>2, GiveUpEffect DEF TurnAway, Moves, Ending
<1>3. CASE Claim(a)
  BY <1>3, GiveUpEffect, GoesEffect DEF Claim, Moves, Ending, Claiming
<1> QED
  BY <1>1, <1>2, <1>3, BookingMoves, LinkMoves, ImportMoves, InboxMoves DEF Server

\* A victim and an attempt that dies leave the tables alone.
LEMMA DropMoves ==
  ASSUME Shaped, NEW a \in Attempts, Deadlock(a) \/ Kill(a)
  PROVE  Drops(a)
  BY VictimEffect, KillEffect DEF Drops, Deadlock

\* An attempt is a send of an action that the bound allows.
LEMMA AttemptsAre ==
  /\ \A a \in Attempts : a[1] \in Keys
  /\ \A k \in Keys : <<k, 1>> \in Attempts
  /\ \A k \in Keys : \A n \in 1..(Sends[k] - 1) : <<k, n + 1>> \in Attempts
<1>1. \A k \in Keys : Sends[k] \in Nat \ {0}
  BY StoreAssumption
<1>2. \A a \in Attempts : a[1] \in Keys
  BY DEF Attempts
<1>3. ASSUME NEW k \in Keys
      PROVE  /\ <<k, 1>> \in Attempts
             /\ \A n \in 1..(Sends[k] - 1) : <<k, n + 1>> \in Attempts
  <2>1. 1 \in 1..Sends[k] /\ \A n \in 1..(Sends[k] - 1) : n + 1 \in 1..Sends[k]
    BY <1>1, SMT
  <2>2. \A n \in 1..Sends[k] : <<k, n>> \in {k} \X (1..Sends[k])
    OBVIOUS
  <2>3. \A x \in {k} \X (1..Sends[k]) : x \in Attempts
    BY DEF Attempts
  <2> QED
    BY <2>1, <2>2, <2>3
<1> QED
  BY <1>2, <1>3

\* Sending an action begins an attempt that holds nothing.
Begins(a) ==
  /\ tx[a].pc = "none" /\ db' = db
  /\ Turns(a, IF Keyed(request'[a[1]].op) THEN "claim" ELSE "start", {}, {}, <<>>, Nothing)

\* Asking begins the first attempt of an action nobody has asked for before.
LEMMA AskEffect ==
  ASSUME Shaped, NEW k \in Keys, Ask(k), \A a \in Attempts : a[1] = k => tx[a].pc = "none",
         request = [x \in Keys |-> request[x]]
  PROVE  /\ Begins(<<k, 1>>) /\ \A x \in Keys : x # k => request'[x] = request[x]
         /\ request' = [x \in Keys |-> request'[x]]
         /\ request[k] = Nothing
         /\ \E w \in Wants[k] :
              /\ CanAsk(w)
              /\ request'[k] = [w EXCEPT !.base = SeenVersion(w), !.slotBase = SeenSlot(w)]
<1>1. PICK w \in Wants[k] :
        /\ CanAsk(w)
        /\ request' = [request EXCEPT
             ![k] = [w EXCEPT !.base = SeenVersion(w), !.slotBase = SeenSlot(w)]]
        /\ Send(k, 1, w.op)
  BY DEF Ask
<1>2. <<k, 1>> \in Attempts
  BY AttemptsAre
<1>3. Turns(<<k, 1>>, IF Keyed(w.op) THEN "claim" ELSE "start", {}, {}, <<>>, Nothing)
  BY <1>1, <1>2, SendEffect
<1> DEFINE v == [w EXCEPT !.base = SeenVersion(w), !.slotBase = SeenSlot(w)]
<1>4. w \in Requests
  BY StoreAssumption
<1>5. v.op = w.op
  BY <1>4 DEF Requests
<1>6. request' = [request EXCEPT ![k] = v]
  BY <1>1
<1> HIDE DEF v
<1>7. request'[k] = v /\ (\A x \in Keys : x # k => request'[x] = request[x])
      /\ request' = [x \in Keys |-> request'[x]]
  BY <1>6
<1>8. Begins(<<k, 1>>)
  <2>1. <<k, 1>>[1] = k
    OBVIOUS
  <2>2. tx[<<k, 1>>].pc = "none" /\ db' = db
    BY <1>2, <2>1 DEF Ask
  <2>3. request'[<<k, 1>>[1]].op = w.op
    BY <1>5, <1>7, <2>1
  <2> QED
    BY <1>3, <2>2, <2>3 DEF Begins
<1> QED
  BY <1>1, <1>7, <1>8 DEF Ask, v

\* Sending again begins the next attempt, with the same request.
LEMMA ResendEffect ==
  ASSUME Shaped, NEW k \in Keys, Resend(k)
  PROVE  \E n \in 1..(Sends[k] - 1) :
           /\ tx[<<k, n>>].pc # "none" /\ Begins(<<k, n + 1>>) /\ Keyed(request[k].op)
           /\ request' = request
<1>1. PICK n \in 1..(Sends[k] - 1) :
        /\ tx[<<k, n>>].pc # "none" /\ tx[<<k, n + 1>>].pc = "none"
        /\ Keyed(request[k].op)
        /\ Send(k, n + 1, request[k].op)
        /\ UNCHANGED <<db, request>>
  BY DEF Resend
<1>2. <<k, n + 1>> \in Attempts
  BY AttemptsAre
<1>3. Turns(<<k, n + 1>>, IF Keyed(request[k].op) THEN "claim" ELSE "start", {}, {}, <<>>, Nothing)
  BY <1>1, <1>2, SendEffect
<1>4. <<k, n + 1>>[1] = k
  OBVIOUS
<1> QED
  BY <1>1, <1>3, <1>4 DEF Begins

\* A commit ends its transaction and leaves every request as it is.
LEMMA WritesShape ==
  ASSUME NEW a \in Attempts, Writes(a)
  PROVE  /\ DbFields(db') /\ request' = request
         /\ \E reply : Turns(a, "ended", {}, {}, <<>>, reply)
<1> USE DEF Ends, Answers
<1>1. (\E reply : Answers(a, reply)) \/ (DbFields(db') /\ Ends(a, Done(None)))
  BY DEF Writes, Booking, Releasing, Saving, Submitting, Linking, BulkLinking, Deleting, Importing,
         Tidies
<1> QED
  BY <1>1

\* Every step of the system.
LEMMA NextMoves ==
  ASSUME Shaped, [Next]_vars
  PROVE  \/ UNCHANGED vars
         \/ \E k \in Keys : Ask(k) \/ Resend(k)
         \/ \E a \in Attempts : a \in Running /\ (Writes(a) \/ Moves(a) \/ Drops(a))
<1>1. ASSUME NEW a \in Attempts, Server(a) \/ Deadlock(a) \/ Kill(a)
      PROVE  a \in Running /\ (Writes(a) \/ Moves(a) \/ Drops(a))
  <2>1. a \in Running
    BY <1>1 DEF Server, Deadlock, Blocked, Kill
  <2> QED
    BY <1>1, <2>1, ServerMoves, DropMoves
<1> QED
  BY <1>1 DEF Next

-----------------------------------------------------------------------------
(* What is known of the rows a transaction holds *)

Notes(inbox) ==
  /\ IsFiniteSet(inbox)
  /\ \A n \in inbox : n = [user |-> n.user, about |-> n.about, read |-> n.read] /\ n.read \in BOOLEAN

\* The tables keep their shape.
Tables ==
  /\ db.slot \in [Slots -> [version : Nat, status : {"free", "booked"},
                            project : Projects \cup {None}]]
  /\ db.slotEvents \in [Slots -> Seq([key : Keys, to : {"free", "booked"},
                                      project : Projects \cup {None}])]
  /\ db.checklist \in [Checklists -> [status : {"absent", "draft", "submitted"}, version : Nat,
                                      project : Projects \cup {None}]]
  /\ db.project \in [Projects -> [state : {"absent", "live", "deleted"},
                                  from : Checklists \cup {None},
                                  reg : Registrations \cup {None}]]
  /\ db.key \in [Registrations -> Projects \cup {None}]
  /\ db.report \in [Reports -> [project : Projects \cup {None}, version : Nat,
                                source : {"none", "auto", "manual", "detached"}]]
  /\ Notes(db.inbox)
  /\ db.unread \in [Users -> Nat]
  /\ db.stored \in [Keys -> {Nothing} \cup {Done(p) : p \in Projects \cup {None}}]

\* A request names rows that exist, at a version they have had.
Fits(d, w) ==
  /\ w.checklist # None => d.checklist[w.checklist].status # "absent"
  /\ w.project # None => d.project[w.project].state # "absent"
  /\ w.op \in {"book", "release"} => w.base <= d.slot[w.slot].version
  /\ w.op \in {"save", "submit"} /\ w.checklist # None =>
       w.base <= d.checklist[w.checklist].version
  /\ w.op = "submit" /\ w.slot # None => w.slotBase <= d.slot[w.slot].version
  /\ w.op = "setLink" => w.base <= d.report[w.report].version

Idle == {"none", "claim", "ended", "gone"}

Asked ==
  /\ request = [k \in Keys |-> request[k]]
  /\ \A k \in Keys : request[k] # Nothing =>
       request[k] \in Requests /\ IsMeant(request[k]) /\ Fits(db, request[k])
  /\ \A a \in Attempts : /\ tx[a].pc \in Idle \cup Busy
                         /\ tx[a].pc # "none" => request[a[1]] # Nothing

\* A row is held by one, or shared.
LocksSound ==
  /\ \A a \in Attempts : tx[a].pc \in Idle => tx[a].locks = {} /\ tx[a].shares = {}
  /\ \A a, b \in Attempts : a # b => tx[a].locks \cap (tx[b].locks \cup tx[b].shares) = {}
  /\ \A a \in Attempts : \A p \in Projects :
       ProjectRow(p) \in tx[a].shares => db.project[p].state # "absent"
  /\ \A a \in Attempts : \A c \in Checklists :
       ChecklistRow(c) \in tx[a].locks => db.checklist[c].status # "absent"

\* What an attempt knows at each statement.
ClaimSound(a) ==
  tx[a].pc \in Busy /\ Keyed(Req(a).op) =>
    ClaimRow(a[1]) \in tx[a].locks /\ db.stored[a[1]] = Nothing /\ Admitted(Req(a))

BookSound(a) == Is(a, "book", "slot") => Req(a).may

SubmitSound(a) ==
  LET r == Req(a)  p == tx[a].work IN
  tx[a].pc \in {"slot", "tell"} /\ r.op = "submit" =>
    /\ p \in Projects /\ ProjectRow(p) \in tx[a].locks /\ db.project[p].state = "absent"
    /\ ChecklistRow(r.checklist) \in tx[a].locks /\ Editable(r) /\ r.may
    /\ tx[a].pc = "slot" => r.slot # None
    /\ tx[a].pc = "tell" /\ r.slot # None =>
         SlotRow(r.slot) \in tx[a].locks /\ Bookable(r.slot, r.slotBase)

LinkSound(a) ==
  LET r == Req(a) IN
  Is(a, "setLink", "report") /\ r.project # None =>
    ProjectRow(r.project) \in tx[a].locks /\ db.project[r.project].state = "live"

Finds == [report : Reports, version : Nat, project : Projects]
BulkWork == [part : SUBSET Finds, alive : SUBSET Projects, todo : SUBSET Finds, set : SUBSET Finds]

\* A report found unlinked is unlinked as long as its version is the one it was found at.
StillOpen(t) ==
  /\ t.version <= db.report[t.report].version
  /\ Unchanged(t) => db.report[t.report].source = "none"

Shared(a, p) == ProjectRow(p) \in tx[a].shares /\ db.project[p].state = "live"

BulkSound(a) ==
  LET w == tx[a].work IN
  tx[a].pc \in {"share", "set"} /\ Req(a).op = "autoLink" =>
    /\ w \in BulkWork
    /\ \A t \in w.part \cup w.todo : StillOpen(t)
    /\ \A p \in w.alive : Shared(a, p)
    /\ \A t \in w.set : /\ Shared(a, t.project) /\ ReportRow(t.report) \in tx[a].locks
                        /\ db.report[t.report].source = "none"

DeleteSound(a) ==
  LET r == Req(a) IN
  tx[a].pc \in {"tell", "reports"} /\ r.op = "delete" =>
    ProjectRow(r.project) \in tx[a].locks /\ db.project[r.project].state = "live" /\ r.may

Owns == [reg : Registrations, project : Projects]

\* A source key nobody has, and which nobody else can claim.
KeyIsOurs(a, g) == KeyRow(g) \in tx[a].locks /\ db.key[g] = None

ImportSound(a) ==
  LET w == tx[a].work IN
  Is(a, "import", "row") =>
    /\ w = [todo |-> w.todo, made |-> w.made, kept |-> w.kept, plan |-> w.plan]
    /\ w.made \in SUBSET Owns /\ w.kept \in SUBSET Owns
    /\ w.todo \in Seq([reg : Registrations, action : {"create", "update"},
                       project : Projects \cup {None}])
    /\ \A i \in 1..Len(w.todo) : w.todo[i].reg \in DOMAIN w.plan
    /\ \A i \in 1..Len(w.todo) : w.todo[i].action = "update" => w.todo[i].project # None
    /\ \A t \in w.made : /\ ProjectRow(t.project) \in tx[a].locks
                         /\ db.project[t.project].state = "absent" /\ KeyIsOurs(a, t.reg)
    /\ \A t \in w.kept : /\ ProjectRow(t.project) \in tx[a].locks
                         /\ db.project[t.project].state = "live" /\ KeyIsOurs(a, t.reg)
    /\ \A s, t \in w.made \cup w.kept : s.reg = t.reg => s = t
    /\ \A s, t \in w.made : s.project = t.project => s = t

InboxSound(a) ==
  LET w == tx[a].work IN
  tx[a].pc = "count" /\ Req(a).op \in {"read", "purge"} =>
    /\ w \subseteq db.inbox /\ \A n \in w : NoteRow(n) \in tx[a].locks
    /\ Req(a).op = "read" => \A n \in w : ~n.read

WorkSound(a) ==
  /\ ClaimSound(a) /\ BookSound(a) /\ SubmitSound(a) /\ LinkSound(a) /\ BulkSound(a)
  /\ DeleteSound(a) /\ ImportSound(a) /\ InboxSound(a)

Held == Shaped /\ Tables /\ Asked /\ LocksSound /\ \A a \in Attempts : WorkSound(a)

-----------------------------------------------------------------------------
(* The shape is kept. *)

\* A transaction that turns into a record keeps the shape of all of them.
LEMMA TurnsShape ==
  ASSUME Shaped, NEW a \in Attempts, NEW pc, NEW locks, NEW shares, NEW work, NEW reply,
         Turns(a, pc, locks, shares, work, reply), DbFields(db')
  PROVE  Shaped'
  BY DEF Turns, Shaped

\* No step changes the shape of the records.
LEMMA ShapedKept ==
  ASSUME Held, [Next]_vars
  PROVE  Shaped'
<1>0. Shaped /\ DbFields(db)
  BY DEF Held, Shaped
<1>1. CASE UNCHANGED vars
  BY <1>0, <1>1 DEF vars, Shaped
<1>2. ASSUME NEW k \in Keys, Ask(k) PROVE Shaped'
  <2>1. \A a \in Attempts : a[1] = k => tx[a].pc = "none"
    BY <1>2 DEF Held, Asked, Ask
  <2>2. Begins(<<k, 1>>)
    BY <1>0, <1>2, <2>1, AskEffect DEF Held, Asked
  <2> QED
    BY <1>0, <2>2, TurnsShape, AttemptsAre DEF Begins
<1>3. ASSUME NEW k \in Keys, Resend(k) PROVE Shaped'
  BY <1>0, <1>3, ResendEffect, TurnsShape, AttemptsAre DEF Begins
<1>4. ASSUME NEW a \in Attempts, Writes(a) PROVE Shaped'
  BY <1>0, <1>4, WritesShape, TurnsShape
<1>5. ASSUME NEW a \in Attempts, Moves(a) PROVE Shaped'
  <2>1. DbFields(db')
    BY <1>0, <1>5 DEF Moves
  <2> QED
    BY <1>0, <1>5, <2>1, TurnsShape DEF Moves, Taking, Claiming, Ending, Going
<1>6. ASSUME NEW a \in Attempts, Drops(a) PROVE Shaped'
  <2>1. DbFields(db')
    BY <1>0, <1>6 DEF Drops
  <2> QED
    BY <1>0, <1>6, <2>1, TurnsShape DEF Drops
<1> QED
  BY <1>0, <1>1, <1>2, <1>3, <1>4, <1>5, <1>6, NextMoves

\* What an attempt still needs, by the kind of row; before it has claimed its key, nothing.
LEMMA MissingAre ==
  ASSUME NEW a \in Attempts, NEW row \in Missing(a)
  PROVE  /\ tx[a].pc \in Busy
         /\ \A c : row = ChecklistRow(c) => c = Req(a).checklist /\ Req(a).checklist # None
         /\ SharesLock(a) => \E p \in Alive(tx[a].work.part) : row = ProjectRow(p)
<1> USE DEF Busy, ChecklistRow, SlotRow, ProjectRow, ReportRow, CounterRow, NoteRow, KeyRow, Is
<1>1. ASSUME row \in BookingNeeds(a)
      PROVE  /\ tx[a].pc \in Busy
             /\ \A c : row = ChecklistRow(c) => c = Req(a).checklist /\ Req(a).checklist # None
             /\ ~SharesLock(a)
  BY <1>1 DEF BookingNeeds, SharesLock
<1>2. ASSUME row \in LinkNeeds(a)
      PROVE  /\ tx[a].pc \in Busy
             /\ \A c : row # ChecklistRow(c)
             /\ SharesLock(a) => \E p \in Alive(tx[a].work.part) : row = ProjectRow(p)
  <2>1. tx[a].pc \in Busy
    BY <1>2 DEF LinkNeeds
  <2>2. \A c : row # ChecklistRow(c)
    BY <1>2 DEF LinkNeeds, TargetFirst, KeysOf
  <2>3. SharesLock(a) => \E p \in Alive(tx[a].work.part) : row = ProjectRow(p)
    BY <1>2 DEF LinkNeeds, SharesLock
  <2> QED
    BY <2>1, <2>2, <2>3
<1>3. ASSUME row \in ImportNeeds(a)
      PROVE  tx[a].pc \in Busy /\ (\A c : row # ChecklistRow(c)) /\ ~SharesLock(a)
  BY <1>3 DEF ImportNeeds, AtRow, SharesLock
<1>4. ASSUME row \in InboxNeeds(a)
      PROVE  tx[a].pc \in Busy /\ (\A c : row # ChecklistRow(c)) /\ ~SharesLock(a)
  <2>1. tx[a].pc \in Busy /\ Req(a).op \in {"read", "purge"}
    BY <1>4 DEF InboxNeeds
  <2>2. (\E n : row = NoteRow(n)) \/ (\E u : row = CounterRow(u))
    BY <1>4, Zenon DEF InboxNeeds
  <2> QED
    BY <2>1, <2>2 DEF SharesLock
<1> HIDE DEF Busy, ChecklistRow, SlotRow, ProjectRow, ReportRow, CounterRow, NoteRow, KeyRow, Is
<1>5. row \in BookingNeeds(a) \/ row \in LinkNeeds(a) \/ row \in ImportNeeds(a) \/ row \in InboxNeeds(a)
  BY DEF Missing
<1> QED
  BY <1>1, <1>2, <1>3, <1>4, <1>5

-----------------------------------------------------------------------------
(* A commit writes only rows that its transaction holds, and new ones. *)

SlotsUnder(a) == \A s \in Slots :
  \/ db'.slot[s] = db.slot[s]
  \/ SlotRow(s) \in tx[a].locks /\ db'.slot[s].version = db.slot[s].version + 1

ChecklistsUnder(a) == \A c \in Checklists :
  \/ db'.checklist[c] = db.checklist[c]
  \/ /\ ChecklistRow(c) \in tx[a].locks \/ db.checklist[c].status = "absent"
     /\ db'.checklist[c].version = db.checklist[c].version + 1
     /\ db'.checklist[c].status # "absent"

\* A project is made, or a live one deleted.
Born(p) == db.project[p].state = "absent" /\ db'.project[p].state = "live"
Dies(p) == /\ db.project[p].state = "live" /\ db'.project[p].state = "deleted"
           /\ db'.project[p].from = db.project[p].from /\ db'.project[p].reg = db.project[p].reg

ProjectsUnder(a) == \A p \in Projects :
  \/ db'.project[p] = db.project[p]
  \/ ProjectRow(p) \in tx[a].locks /\ (Born(p) \/ Dies(p))

ReportsUnder(a) == \A x \in Reports :
  \/ db'.report[x] = db.report[x]
  \/ ReportRow(x) \in tx[a].locks /\ db'.report[x].version = db.report[x].version + 1

KeysUnder(a) == \A g \in Registrations : db'.key[g] = db.key[g] \/ KeyRow(g) \in tx[a].locks

StoredUnder(a) == \A k \in Keys :
  \/ db'.stored[k] = db.stored[k]
  \/ k = a[1] /\ ClaimRow(k) \in tx[a].locks /\ db.stored[k] = Nothing

InboxUnder(a) == \A n \in db.inbox : n \in db'.inbox \/ NoteRow(n) \in tx[a].locks

Under(a) ==
  /\ SlotsUnder(a) /\ ChecklistsUnder(a) /\ ProjectsUnder(a) /\ ReportsUnder(a) /\ KeysUnder(a)
  /\ StoredUnder(a) /\ InboxUnder(a)

\* A table that is left alone is written under the locks.
LEMMA SameIsUnder ==
  ASSUME NEW a \in Attempts
  PROVE  /\ SlotsAs(db, db') => SlotsUnder(a)
         /\ ChecklistsAs(db, db') => ChecklistsUnder(a)
         /\ ProjectsAs(db, db') => ProjectsUnder(a)
         /\ ReportsAs(db, db') => ReportsUnder(a)
         /\ KeysAs(db, db') => KeysUnder(a)
         /\ StoredAs(db, db') => StoredUnder(a)
         /\ InboxAs(db, db') => InboxUnder(a)
  BY DEF SlotsAs, ChecklistsAs, ProjectsAs, ReportsAs, KeysAs, StoredAs, InboxAs,
         SlotsUnder, ChecklistsUnder, ProjectsUnder, ReportsUnder, KeysUnder, StoredUnder, InboxUnder

\* An answer is stored under the claim.
LEMMA AnswerUnder ==
  ASSUME Held, NEW a \in Attempts, tx[a].pc \in Busy, Keyed(Req(a).op), NEW reply, Answers(a, reply)
  PROVE  StoredUnder(a)
<1>1. ClaimRow(a[1]) \in tx[a].locks /\ db.stored[a[1]] = Nothing
  BY DEF Held, WorkSound, ClaimSound
<1>2. db.stored = [k \in Keys |-> db.stored[k]]
  BY DEF Held, Tables
<1>3. \A k \in Keys : k # a[1] => db'.stored[k] = db.stored[k]
  BY <1>2 DEF Answers
<1> QED
  BY <1>1, <1>3 DEF StoredUnder

\* A slot is written under its lock.
LEMMA SlotUnder ==
  ASSUME Held, NEW a \in Attempts, NEW s, SlotRow(s) \in tx[a].locks, NEW k, NEW status, NEW p,
         SlotWritten(k, s, status, p)
  PROVE  SlotsUnder(a)
<1>1. db.slot = [t \in Slots |-> db.slot[t]]
  BY DEF Held, Tables
<1>2. \A t \in Slots : t # s => db'.slot[t] = db.slot[t]
  BY <1>1 DEF SlotWritten
<1>3. s \in Slots => db'.slot[s].version = db.slot[s].version + 1
  BY <1>1 DEF SlotWritten
<1> QED
  BY <1>2, <1>3 DEF SlotsUnder

\* Notifications are only added.
LEMMA NotifiedUnder ==
  ASSUME NEW a \in Attempts, NEW to, NEW about, Notified(to, about)
  PROVE  InboxUnder(a)
  BY DEF Notified, InboxUnder

\* Booking writes only rows it holds.
LEMMA BookUnder ==
  ASSUME Held, NEW a \in Attempts, Is(a, "book", "slot"), Holds(a), Booking(a)
  PROVE  Under(a)
<1>1. SlotRow(Req(a).slot) \in tx[a].locks
  BY DEF Holds, BookingNeeds, Is
<1>2. tx[a].pc \in Busy /\ Keyed(Req(a).op)
  BY DEF Is, Busy, Keyed
<1> QED
  BY <1>1, <1>2, SlotUnder, AnswerUnder, SameIsUnder DEF Booking, Under

\* Releasing writes only rows it holds.
LEMMA ReleaseUnder ==
  ASSUME Held, NEW a \in Attempts, Is(a, "release", "start"), Holds(a), Releasing(a)
  PROVE  Under(a)
<1>1. SlotRow(Req(a).slot) \in tx[a].locks
  BY DEF Holds, BookingNeeds, Is
<1>2. tx[a].pc \in Busy /\ Keyed(Req(a).op)
  BY DEF Is, Busy, Keyed
<1> QED
  BY <1>1, <1>2, SlotUnder, AnswerUnder, SameIsUnder DEF Releasing, Under

\* Saving writes only rows it holds, or a new one.
LEMMA SaveUnder ==
  ASSUME Held, NEW a \in Attempts, Is(a, "save", "start"), Holds(a), Saving(a),
         Req(a).checklist = None => \E c \in Checklists : db.checklist[c].status = "absent"
  PROVE  Under(a)
<1> DEFINE r == Req(a)  c == SavedAs(r)
<1>1. ChecklistRow(c) \in tx[a].locks \/ db.checklist[c].status = "absent"
  <2>1. CASE r.checklist # None
    BY <2>1 DEF Holds, BookingNeeds, Is, SavedAs
  <2>2. CASE r.checklist = None
    <3>1. \E d \in Checklists : db.checklist[d].status = "absent"
      BY <2>2
    <3>2. db.checklist[NewChecklist].status = "absent"
      BY <3>1 DEF NewChecklist
    <3> QED
      BY <2>2, <3>2 DEF SavedAs
  <2> QED
    BY <2>1, <2>2
<1>2. tx[a].pc \in Busy /\ Keyed(Req(a).op)
  BY DEF Is, Busy, Keyed
<1>3. ChecklistsUnder(a)
  <2>1. db.checklist = [d \in Checklists |-> db.checklist[d]]
    BY DEF Held, Tables
  <2>2. db'.checklist = [db.checklist EXCEPT
          ![c] = [status |-> "draft", version |-> db.checklist[c].version + 1,
                  project |-> db.checklist[c].project]]
    BY DEF Saving
  <2> HIDE DEF c
  <2>3. \A d \in Checklists : d # c => db'.checklist[d] = db.checklist[d]
    BY <2>1, <2>2
  <2>4. c \in Checklists => /\ db'.checklist[c].version = db.checklist[c].version + 1
                            /\ db'.checklist[c].status # "absent"
    BY <2>1, <2>2
  <2> QED
    BY <1>1, <2>3, <2>4 DEF ChecklistsUnder
<1> QED
  BY <1>2, <1>3, AnswerUnder, SameIsUnder DEF Saving, Under

\* Submitting writes only rows it holds.
LEMMA SubmitUnder ==
  ASSUME Held, NEW a \in Attempts, Is(a, "submit", "tell"), Submitting(a)
  PROVE  Under(a)
<1> DEFINE r == Req(a)  c == r.checklist  p == tx[a].work
<1>0. tx[a].pc \in Busy /\ Keyed(Req(a).op)
  BY DEF Is, Busy, Keyed
<1>1. /\ p \in Projects /\ ProjectRow(p) \in tx[a].locks /\ db.project[p].state = "absent"
      /\ ChecklistRow(c) \in tx[a].locks
      /\ r.slot # None => SlotRow(r.slot) \in tx[a].locks
  BY DEF Held, WorkSound, SubmitSound, Is
<1>2. ChecklistsUnder(a)
  <2>1. db.checklist = [d \in Checklists |-> db.checklist[d]]
    BY DEF Held, Tables
  <2>2. db'.checklist = [db.checklist EXCEPT
          ![c] = [status |-> "submitted", version |-> db.checklist[c].version + 1, project |-> p]]
    BY DEF Submitting
  <2> HIDE DEF c, p
  <2>3. \A d \in Checklists : d # c => db'.checklist[d] = db.checklist[d]
    BY <2>1, <2>2
  <2>4. c \in Checklists => /\ db'.checklist[c].version = db.checklist[c].version + 1
                            /\ db'.checklist[c].status # "absent"
    BY <2>1, <2>2
  <2> QED
    BY <1>1, <2>3, <2>4 DEF ChecklistsUnder
<1>3. ProjectsUnder(a)
  <2>1. db.project = [q \in Projects |-> db.project[q]]
    BY DEF Held, Tables
  <2>2. db'.project = [db.project EXCEPT ![p] = [state |-> "live", from |-> c, reg |-> None]]
    BY DEF Submitting
  <2> HIDE DEF c, p
  <2>3. \A q \in Projects : q # p => db'.project[q] = db.project[q]
    BY <2>1, <2>2
  <2>4. db'.project[p].state = "live"
    BY <1>1, <2>1, <2>2
  <2> QED
    BY <1>1, <2>3, <2>4 DEF ProjectsUnder, Born
<1>4. SlotsUnder(a)
  BY <1>1, SlotUnder, SameIsUnder DEF Submitting
<1>5. StoredUnder(a) /\ InboxUnder(a) /\ KeysUnder(a) /\ ReportsUnder(a)
  BY <1>0, AnswerUnder, NotifiedUnder, SameIsUnder DEF Submitting
<1> QED
  BY <1>2, <1>3, <1>4, <1>5 DEF Under

\* Linking by hand writes only rows it holds.
LEMMA SetLinkUnder ==
  ASSUME Held, NEW a \in Attempts, Is(a, "setLink", "report"), Locked(a), Linking(a)
  PROVE  Under(a)
<1> DEFINE r == Req(a)
<1>0. tx[a].pc \in Busy /\ Keyed(Req(a).op)
  BY DEF Is, Busy, Keyed
<1>1. ReportRow(r.report) \in tx[a].locks
  BY DEF Locked, LinkNeeds, SharesLock, Is
<1>2. ReportsUnder(a)
  <2>1. CASE ReportsAs(db, db')
    BY <2>1, SameIsUnder
  <2>2. CASE db'.report = [db.report EXCEPT
               ![r.report] = [project |-> r.project, source |-> ByHand(r.project),
                              version |-> db.report[r.report].version + 1]]
    <3>1. db.report = [x \in Reports |-> db.report[x]]
      BY DEF Held, Tables
    <3> HIDE DEF r
    <3>2. \A x \in Reports : x # r.report => db'.report[x] = db.report[x]
      BY <2>2, <3>1
    <3>3. r.report \in Reports => db'.report[r.report].version = db.report[r.report].version + 1
      BY <2>2, <3>1
    <3> QED
      BY <1>1, <3>2, <3>3 DEF ReportsUnder
  <2> QED
    BY <2>1, <2>2 DEF Linking
<1> QED
  BY <1>0, <1>2, AnswerUnder, SameIsUnder DEF Linking, Under

\* A bulk run writes only rows it holds.
LEMMA AutoLinkUnder ==
  ASSUME Held, NEW a \in Attempts, Is(a, "autoLink", "set"), BulkLinking(a)
  PROVE  Under(a)
<1> DEFINE set == tx[a].work.set
<1>0. tx[a].pc \in Busy /\ Keyed(Req(a).op)
  BY DEF Is, Busy, Keyed
<1>1. \A t \in set : ReportRow(t.report) \in tx[a].locks
  BY DEF Held, WorkSound, BulkSound, Is
<1>2. ReportsUnder(a)
  <2>1. db'.report = BulkLinked(set)
    BY DEF BulkLinking
  <2> HIDE DEF set
  <2>2. ASSUME NEW x \in Reports, \E t \in set : t.report = x
        PROVE  ReportRow(x) \in tx[a].locks /\ db'.report[x].version = db.report[x].version + 1
    BY <1>1, <2>1, <2>2 DEF BulkLinked
  <2>3. ASSUME NEW x \in Reports, ~\E t \in set : t.report = x
        PROVE  db'.report[x] = db.report[x]
    BY <2>1, <2>3 DEF BulkLinked
  <2> QED
    BY <2>2, <2>3 DEF ReportsUnder
<1> QED
  BY <1>0, <1>2, AnswerUnder, SameIsUnder DEF BulkLinking, Under

\* Deleting writes only rows it holds, the links and keys of the project among them.
LEMMA DeleteUnder ==
  ASSUME Held, NEW a \in Attempts, Is(a, "delete", "reports"), Locked(a), Deleting(a)
  PROVE  Under(a)
<1> DEFINE p == Req(a).project
<1>0. tx[a].pc \in Busy /\ Keyed(Req(a).op)
  BY DEF Is, Busy, Keyed
<1>1. ProjectRow(p) \in tx[a].locks /\ db.project[p].state = "live"
  BY DEF Held, WorkSound, DeleteSound, Is
<1>2. /\ \A x \in LinkedTo(p) : ReportRow(x) \in tx[a].locks
      /\ \A g \in Registrations : db.key[g] = p => KeyRow(g) \in tx[a].locks
  <2>1. LinkNeeds(a) \subseteq tx[a].locks
    BY DEF Locked, SharesLock, Is
  <2>2. LinkNeeds(a) = LET reports == {ReportRow(x) : x \in LinkedTo(p)}
                       IN  reports \cup (IF reports \subseteq tx[a].locks THEN KeysOf(p) ELSE {})
    BY DEF LinkNeeds, Is
  <2>3. \A x \in LinkedTo(p) : ReportRow(x) \in {ReportRow(y) : y \in LinkedTo(p)}
    OBVIOUS
  <2>4. {ReportRow(x) : x \in LinkedTo(p)} \subseteq tx[a].locks
    BY <2>1, <2>2
  <2>5. KeysOf(p) \subseteq tx[a].locks
    BY <2>1, <2>2, <2>4
  <2>6. \A g \in Registrations : db.key[g] = p => KeyRow(g) \in KeysOf(p)
    BY DEF KeysOf
  <2> QED
    BY <2>3, <2>4, <2>5, <2>6
<1>3. ReportsUnder(a)
  <2>1. db'.report = WithoutLinksTo(p)
    BY DEF Deleting
  <2> HIDE DEF p
  <2> QED
    BY <1>2, <2>1 DEF ReportsUnder, WithoutLinksTo, LinkedTo
<1>4. KeysUnder(a)
  <2>1. db'.key = WithoutKeysOf(p)
    BY DEF Deleting
  <2> HIDE DEF p
  <2> QED
    BY <1>2, <2>1 DEF KeysUnder, WithoutKeysOf
<1>5. ProjectsUnder(a)
  <2>1. db.project = [q \in Projects |-> db.project[q]]
    BY DEF Held, Tables
  <2>2. db'.project = [db.project EXCEPT ![p] = [state |-> "deleted", from |-> db.project[p].from,
                                                reg |-> db.project[p].reg]]
    BY DEF Deleting
  <2> HIDE DEF p
  <2>3. \A q \in Projects : q # p => db'.project[q] = db.project[q]
    BY <2>1, <2>2
  <2>4. p \in Projects => Dies(p)
    BY <1>1, <2>1, <2>2 DEF Dies
  <2> QED
    BY <1>1, <2>3, <2>4 DEF ProjectsUnder
<1> QED
  BY <1>0, <1>3, <1>4, <1>5, AnswerUnder, NotifiedUnder, SameIsUnder DEF Deleting, Under

\* An import writes only rows it holds.
LEMMA ImportUnder ==
  ASSUME Held, NEW a \in Attempts, Is(a, "import", "row"), Importing(a)
  PROVE  Under(a)
<1> DEFINE w == tx[a].work
<1>0. tx[a].pc \in Busy /\ Keyed(Req(a).op)
  BY DEF Is, Busy, Keyed
<1>1. /\ \A t \in w.made : ProjectRow(t.project) \in tx[a].locks /\ KeyRow(t.reg) \in tx[a].locks
                           /\ db.project[t.project].state = "absent"
      /\ \A t \in w.kept : KeyRow(t.reg) \in tx[a].locks
  BY DEF Held, WorkSound, ImportSound, KeyIsOurs
<1>2. db'.project = WithMade(w.made) /\ db'.key = WithOwned(w.made \cup w.kept)
  BY DEF Importing
<1>3. ProjectsUnder(a)
  <2>1. ASSUME NEW p \in Projects, \E t \in w.made : t.project = p
        PROVE  ProjectRow(p) \in tx[a].locks /\ Born(p)
    BY <1>1, <1>2, <2>1 DEF WithMade, Born
  <2>2. ASSUME NEW p \in Projects, ~\E t \in w.made : t.project = p
        PROVE  db'.project[p] = db.project[p]
    BY <1>2, <2>2 DEF WithMade
  <2> QED
    BY <2>1, <2>2 DEF ProjectsUnder
<1>4. KeysUnder(a)
  <2>1. ASSUME NEW g \in Registrations, \E t \in w.made \cup w.kept : t.reg = g
        PROVE  KeyRow(g) \in tx[a].locks
    BY <1>1, <2>1
  <2>2. ASSUME NEW g \in Registrations, ~\E t \in w.made \cup w.kept : t.reg = g
        PROVE  db'.key[g] = db.key[g]
    BY <1>2, <2>2 DEF WithOwned
  <2> QED
    BY <2>1, <2>2 DEF KeysUnder
<1> QED
  BY <1>0, <1>3, <1>4, AnswerUnder, SameIsUnder DEF Importing, Under

\* The inbox's own writers remove only rows they hold.
LEMMA TidyUnder ==
  ASSUME Held, NEW a \in Attempts, tx[a].pc = "count", Req(a).op \in {"read", "purge"},
         NEW inbox, Tidies(a, inbox), db.inbox \ tx[a].work \subseteq inbox
  PROVE  Under(a)
<1>1. \A n \in tx[a].work : NoteRow(n) \in tx[a].locks
  BY DEF Held, WorkSound, InboxSound
<1>2. InboxUnder(a)
  BY <1>1 DEF Tidies, InboxUnder
<1> QED
  BY <1>2, SameIsUnder DEF Tidies, Under

\* Every commit writes only rows it holds.
LEMMA WritesUnder ==
  ASSUME Held, NEW a \in Attempts, Writes(a)
  PROVE  Under(a)
<1>1. CASE Is(a, "read", "count") /\ Tidies(a, MarkedRead(tx[a].work))
  <2>1. db.inbox \ tx[a].work \subseteq MarkedRead(tx[a].work)
    BY DEF MarkedRead
  <2> QED
    BY <1>1, <2>1, TidyUnder DEF Is
<1>2. CASE Is(a, "purge", "count") /\ Tidies(a, db.inbox \ tx[a].work)
  BY <1>2, TidyUnder DEF Is
<1> QED
  BY <1>1, <1>2, BookUnder, ReleaseUnder, SaveUnder, SubmitUnder, SetLinkUnder, AutoLinkUnder,
     DeleteUnder, ImportUnder DEF Writes

\* A step leaves the tables alone or is the commit of one attempt.
LEMMA DbMoves ==
  ASSUME Held, [Next]_vars
  PROVE  \/ db' = db
         \/ \E a \in Attempts : Writes(a) /\ Under(a)
<1>0. Shaped /\ request = [k \in Keys |-> request[k]]
  BY DEF Held, Asked
<1>1. ASSUME NEW k \in Keys, Ask(k) PROVE db' = db
  BY <1>1 DEF Ask
<1>2. ASSUME NEW k \in Keys, Resend(k) PROVE db' = db
  BY <1>2 DEF Resend
<1> QED
  BY <1>0, <1>1, <1>2, NextMoves, WritesUnder DEF Moves, Drops, vars

-----------------------------------------------------------------------------
(* The tables keep their shape. *)

\* A function that is changed at one place keeps its type.
LEMMA ExceptIn ==
  ASSUME NEW S, NEW T, NEW f \in [S -> T], NEW x, NEW e, x \in S => e \in T
  PROVE  [f EXCEPT ![x] = e] \in [S -> T]
  OBVIOUS

Versions == [version : Nat, status : {"free", "booked"}, project : Projects \cup {None}]

\* A slot that is written keeps its shape.
LEMMA SlotTables ==
  ASSUME Tables, NEW s, NEW k \in Keys, NEW status \in {"free", "booked"},
         NEW p \in Projects \cup {None}, SlotWritten(k, s, status, p)
  PROVE  /\ db'.slot \in [Slots -> Versions]
         /\ db'.slotEvents \in [Slots -> Seq([key : Keys, to : {"free", "booked"},
                                              project : Projects \cup {None}])]
<1>1. db.slot \in [Slots -> Versions]
  BY DEF Tables, Versions
<1>2. db'.slot \in [Slots -> Versions]
  <2>1. s \in Slots => [version |-> db.slot[s].version + 1, status |-> status, project |-> p] \in Versions
    BY <1>1 DEF Versions
  <2> QED
    BY <1>1, <2>1 DEF SlotWritten
<1>3. db'.slotEvents \in [Slots -> Seq([key : Keys, to : {"free", "booked"},
                                        project : Projects \cup {None}])]
  <2> DEFINE E == [key : Keys, to : {"free", "booked"}, project : Projects \cup {None}]
             e == [key |-> k, to |-> status, project |-> p]
  <2>1. e \in E /\ db.slotEvents \in [Slots -> Seq(E)]
    BY DEF Tables
  <2>2. db'.slotEvents = [db.slotEvents EXCEPT ![s] = Append(db.slotEvents[s], e)]
    BY DEF SlotWritten
  <2> HIDE DEF E, e
  <2>3. s \in Slots => Append(db.slotEvents[s], e) \in Seq(E)
    BY <2>1
  <2>4. db'.slotEvents \in [Slots -> Seq(E)]
    BY <2>1, <2>2, <2>3, ExceptIn
  <2> QED
    BY <2>4 DEF E
<1> QED
  BY <1>2, <1>3

\* An answer that is stored keeps the shape of the ledger.
LEMMA AnswerTables ==
  ASSUME Tables, NEW a \in Attempts, NEW p \in Projects \cup {None}, Answers(a, Done(p))
  PROVE  db'.stored \in [Keys -> {Nothing} \cup {Done(q) : q \in Projects \cup {None}}]
<1> DEFINE T == {Nothing} \cup {Done(q) : q \in Projects \cup {None}}
<1>1. db.stored \in [Keys -> T] /\ Done(p) \in T
  BY DEF Tables
<1>2. db'.stored = [db.stored EXCEPT ![a[1]] = Done(p)]
  BY DEF Answers
<1> HIDE DEF T
<1>3. db'.stored \in [Keys -> T]
  BY <1>1, <1>2, ExceptIn
<1> QED
  BY <1>3 DEF T

\* The notifications for finitely many users are finitely many.
LEMMA FiniteImage ==
  ASSUME NEW S, IsFiniteSet(S), NEW f
  PROVE  IsFiniteSet({f[x] : x \in S})
<1> DEFINE T == {f[x] : x \in S}  g == [x \in S |-> f[x]]
<1>1. g \in Surjection(S, T)
  BY DEF Surjection
<1> HIDE DEF T, g
<1>2. IsFiniteSet(T)
  BY <1>1, FS_Surjection
<1> QED
  BY <1>2 DEF T

\* Notifying keeps the shape of the inbox.
LEMMA NotifiedTables ==
  ASSUME Tables, NEW to \in SUBSET Users, NEW about, Notified(to, about)
  PROVE  db'.unread \in [Users -> Nat] /\ Notes(db'.inbox)
<1> DEFINE new == Untold(db.inbox, to, about)
           f == [u \in new |-> [user |-> u, about |-> about, read |-> FALSE]]
<1>1. db'.unread \in [Users -> Nat]
  <2>1. db.unread \in [Users -> Nat]
    BY DEF Tables
  <2> QED
    BY <2>1 DEF Notified
<1>2. IsFiniteSet(new)
  <2>1. IsFiniteSet(Users) /\ new \subseteq Users
    BY StoreAssumption DEF Untold
  <2> QED
    BY <2>1, FS_Subset
<1>3. db'.inbox = db.inbox \cup {f[u] : u \in new}
  BY DEF Notified
<1>4. Notes(db.inbox)
  BY DEF Tables
<1>5. \A u \in new : /\ f[u] = [user |-> f[u].user, about |-> f[u].about, read |-> f[u].read]
                     /\ f[u].read \in BOOLEAN
  <2> TAKE u \in new
  <2>1. f[u] = [user |-> u, about |-> about, read |-> FALSE]
    OBVIOUS
  <2> HIDE DEF f
  <2> QED
    BY <2>1
<1> HIDE DEF new, f
<1>6. IsFiniteSet({f[u] : u \in new})
  BY <1>2, FiniteImage
<1>7. IsFiniteSet(db'.inbox)
  <2> DEFINE T == {f[u] : u \in new}
  <2>1. IsFiniteSet(db.inbox)
    BY <1>4 DEF Notes
  <2>2. db'.inbox = db.inbox \cup T /\ IsFiniteSet(T)
    BY <1>3, <1>6
  <2> HIDE DEF T
  <2>3. IsFiniteSet(db.inbox \cup T)
    BY <2>1, <2>2, FS_Union
  <2> QED
    BY <2>2, <2>3
<1>8. ASSUME NEW n \in db'.inbox
      PROVE  n = [user |-> n.user, about |-> n.about, read |-> n.read] /\ n.read \in BOOLEAN
  <2>1. CASE n \in db.inbox
    BY <1>4, <2>1 DEF Notes
  <2>2. ASSUME NEW u \in new, n = f[u]
        PROVE  n = [user |-> n.user, about |-> n.about, read |-> n.read] /\ n.read \in BOOLEAN
    BY <1>5, <2>2
  <2> QED
    BY <1>3, <2>1, <2>2
<1> QED
  BY <1>1, <1>7, <1>8 DEF Notes

\* The unread counters after some notifications were read or deleted.
LEMMA DiscountIs ==
  ASSUME Tables, NEW w \in SUBSET db.inbox
  PROVE  Discount(db, w) \in [Users -> Nat]
<1>1. \A u \in Users : Cardinality(UnreadOf(w, u)) \in Nat
  <2>1. \A u \in Users : UnreadOf(w, u) \subseteq db.inbox
    BY DEF UnreadOf
  <2> QED
    BY <2>1, FS_Subset, FS_CardinalityType DEF Tables, Notes
<1>2. \A u \in Users : db.unread[u] \in Nat
  BY DEF Tables
<1>3. \A m, n \in Nat : Minus(m, n) \in Nat
  BY DEF Minus
<1> QED
  BY <1>1, <1>2, <1>3 DEF Discount

\* An attempt under way has a request of the right shape.
LEMMA RequestIs ==
  ASSUME Held, NEW a \in Attempts, tx[a].pc \in Busy \cup {"claim"}
  PROVE  Req(a) \in Requests /\ IsMeant(Req(a)) /\ Fits(db, Req(a)) /\ a[1] \in Keys
  BY AttemptsAre DEF Held, Asked, Busy, Req

\* Submitting keeps the tables in shape.
LEMMA SubmitTables ==
  ASSUME Held, NEW a \in Attempts, Is(a, "submit", "tell"), Submitting(a)
  PROVE  Tables'
<1> DEFINE r == Req(a)  c == r.checklist  p == tx[a].work
<1>0. Tables
  BY DEF Held
<1>1. p \in Projects
  BY DEF Held, WorkSound, SubmitSound, Is
<1>2. r \in Requests /\ r.checklist # None /\ a[1] \in Keys
  BY RequestIs DEF Is, Busy, IsMeant
<1>3. c \in Checklists
  BY <1>2 DEF Requests
<1>4. db'.project \in [Projects -> [state : {"absent", "live", "deleted"},
                                    from : Checklists \cup {None},
                                    reg : Registrations \cup {None}]]
  BY <1>0, <1>1, <1>3 DEF Tables, Submitting
<1>5. db'.checklist \in [Checklists -> [status : {"absent", "draft", "submitted"}, version : Nat,
                                        project : Projects \cup {None}]]
  BY <1>0, <1>1, <1>3 DEF Tables, Submitting
<1>6. /\ db'.slot \in [Slots -> Versions]
      /\ db'.slotEvents \in [Slots -> Seq([key : Keys, to : {"free", "booked"},
                                           project : Projects \cup {None}])]
  <2>1. CASE SlotsAs(db, db')
    BY <1>0, <2>1 DEF Tables, SlotsAs, Versions
  <2>2. CASE SlotWritten(a[1], r.slot, "booked", p)
    BY <1>0, <1>1, <1>2, <2>2, SlotTables
  <2> QED
    BY <2>1, <2>2 DEF Submitting
<1>7. db'.stored \in [Keys -> {Nothing} \cup {Done(q) : q \in Projects \cup {None}}]
  BY <1>0, <1>1, AnswerTables DEF Submitting
<1>8. db'.unread \in [Users -> Nat] /\ Notes(db'.inbox)
  <2>1. Subscribers \ {Actor[a[1]]} \in SUBSET Users
    BY StoreAssumption
  <2> QED
    BY <1>0, <2>1, NotifiedTables DEF Submitting
<1> QED
  BY <1>0, <1>4, <1>5, <1>6, <1>7, <1>8 DEF Submitting, Tables, KeysAs, ReportsAs, Versions

\* Booking and releasing keep the tables in shape.
LEMMA BookTables ==
  ASSUME Held, NEW a \in Attempts,
         \/ Is(a, "book", "slot") /\ Booking(a)
         \/ Is(a, "release", "start") /\ Releasing(a)
  PROVE  Tables'
<1>0. Tables /\ None \in Projects \cup {None}
  BY DEF Held
<1>1. Req(a).project \in Projects \cup {None} /\ a[1] \in Keys
  BY RequestIs DEF Is, Busy, Requests
<1>2. /\ db'.slot \in [Slots -> Versions]
      /\ db'.slotEvents \in [Slots -> Seq([key : Keys, to : {"free", "booked"},
                                           project : Projects \cup {None}])]
  <2>1. CASE Booking(a)
    BY <1>0, <1>1, <2>1, SlotTables DEF Booking
  <2>2. CASE Releasing(a)
    BY <1>0, <1>1, <2>2, SlotTables DEF Releasing
  <2> QED
    BY <2>1, <2>2
<1>3. db'.stored \in [Keys -> {Nothing} \cup {Done(q) : q \in Projects \cup {None}}]
  BY <1>0, AnswerTables DEF Booking, Releasing
<1> QED
  BY <1>0, <1>2, <1>3
     DEF Booking, Releasing, Tables, ChecklistsAs, ProjectsAs, KeysAs, ReportsAs, InboxAs, Versions

\* Saving keeps the tables in shape.
LEMMA SaveTables ==
  ASSUME Held, NEW a \in Attempts, Saving(a)
  PROVE  Tables'
<1> DEFINE c == SavedAs(Req(a))
<1>0. Tables /\ None \in Projects \cup {None}
  BY DEF Held
<1>1. db'.checklist \in [Checklists -> [status : {"absent", "draft", "submitted"}, version : Nat,
                                        project : Projects \cup {None}]]
  <2>1. db'.checklist = [db.checklist EXCEPT
       ![c] = [status |-> "draft", version |-> db.checklist[c].version + 1,
               project |-> db.checklist[c].project]]
    BY DEF Saving
  <2> DEFINE T == [status : {"absent", "draft", "submitted"}, version : Nat,
                    project : Projects \cup {None}]
             e == [status |-> "draft", version |-> db.checklist[c].version + 1,
                   project |-> db.checklist[c].project]
  <2>2. db.checklist \in [Checklists -> T]
    BY <1>0 DEF Tables
  <2> HIDE DEF c
  <2>3. c \in Checklists => e \in T
    BY <2>2
  <2> HIDE DEF T, e
  <2>4. db'.checklist \in [Checklists -> T]
    BY <2>1, <2>2, <2>3, ExceptIn DEF e
  <2> QED
    BY <2>4 DEF T
<1>2. db'.stored \in [Keys -> {Nothing} \cup {Done(q) : q \in Projects \cup {None}}]
  BY <1>0, AnswerTables DEF Saving
<1> QED
  BY <1>0, <1>1, <1>2 DEF Saving, Tables, SlotsAs, ProjectsAs, KeysAs, ReportsAs, InboxAs

\* Linking by hand keeps the tables in shape.
LEMMA LinkTables ==
  ASSUME Held, NEW a \in Attempts, Is(a, "setLink", "report"), Linking(a)
  PROVE  Tables'
<1>0. Tables
  BY DEF Held
<1>1. Req(a).project \in Projects \cup {None}
  BY RequestIs DEF Is, Busy, Requests
<1>2. db'.report \in [Reports -> [project : Projects \cup {None}, version : Nat,
                                  source : {"none", "auto", "manual", "detached"}]]
  <2> DEFINE T == [project : Projects \cup {None}, version : Nat,
                    source : {"none", "auto", "manual", "detached"}]
             x == Req(a).report
             e == [project |-> Req(a).project, source |-> ByHand(Req(a).project),
                   version |-> db.report[x].version + 1]
  <2>1. db.report \in [Reports -> T]
    BY <1>0 DEF Tables
  <2>2. db'.report = db.report \/ db'.report = [db.report EXCEPT ![x] = e]
    BY DEF Linking, ReportsAs
  <2> HIDE DEF x
  <2>3. x \in Reports => e \in T
    BY <1>1, <2>1 DEF ByHand
  <2> HIDE DEF T, e
  <2>4. db'.report \in [Reports -> T]
    BY <2>1, <2>2, <2>3, ExceptIn
  <2> QED
    BY <2>4 DEF T
<1>3. db'.stored \in [Keys -> {Nothing} \cup {Done(q) : q \in Projects \cup {None}}]
  BY <1>0, <1>1, AnswerTables DEF Linking
<1> QED
  BY <1>0, <1>2, <1>3 DEF Linking, Tables, SlotsAs, ChecklistsAs, ProjectsAs, KeysAs, InboxAs

\* A bulk run keeps the tables in shape.
LEMMA BulkTables ==
  ASSUME Held, NEW a \in Attempts, Is(a, "autoLink", "set"), BulkLinking(a)
  PROVE  Tables'
<1> DEFINE set == tx[a].work.set
<1>0. Tables /\ None \in Projects \cup {None}
  BY DEF Held
<1>1. set \subseteq Finds
  BY DEF Held, WorkSound, BulkSound, BulkWork, Is
<1>2. db'.report = BulkLinked(set)
  BY DEF BulkLinking
<1>3. db'.report \in [Reports -> [project : Projects \cup {None}, version : Nat,
                                  source : {"none", "auto", "manual", "detached"}]]
  <2> HIDE DEF set
  <2>1. ASSUME NEW x \in Reports, \E t \in set : t.report = x
        PROVE  (CHOOSE t \in set : t.report = x).project \in Projects
    BY <1>1, <2>1 DEF Finds
  <2> QED
    BY <1>0, <1>2, <2>1 DEF Tables, BulkLinked
<1>4. db'.stored \in [Keys -> {Nothing} \cup {Done(q) : q \in Projects \cup {None}}]
  BY <1>0, AnswerTables DEF BulkLinking
<1> QED
  BY <1>0, <1>3, <1>4 DEF BulkLinking, Tables, SlotsAs, ChecklistsAs, ProjectsAs, KeysAs, InboxAs

\* Deleting keeps the tables in shape.
LEMMA DeleteTables ==
  ASSUME Held, NEW a \in Attempts, Is(a, "delete", "reports"), Deleting(a)
  PROVE  Tables'
<1> DEFINE p == Req(a).project
<1>0. Tables /\ None \in Projects \cup {None}
  BY DEF Held
<1>1. p \in Projects \cup {None}
  BY RequestIs DEF Is, Busy, Requests
<1>2. db'.report \in [Reports -> [project : Projects \cup {None}, version : Nat,
                                  source : {"none", "auto", "manual", "detached"}]]
  BY <1>0, <1>1 DEF Tables, Deleting, WithoutLinksTo
<1>3. db'.key \in [Registrations -> Projects \cup {None}]
  BY <1>0, <1>1 DEF Tables, Deleting, WithoutKeysOf
<1>4. db'.project \in [Projects -> [state : {"absent", "live", "deleted"},
                                    from : Checklists \cup {None},
                                    reg : Registrations \cup {None}]]
  <2>1. db'.project = [db.project EXCEPT ![p] = [state |-> "deleted", from |-> db.project[p].from,
                                                reg |-> db.project[p].reg]]
    BY DEF Deleting
  <2> DEFINE T == [state : {"absent", "live", "deleted"}, from : Checklists \cup {None},
                    reg : Registrations \cup {None}]
             e == [state |-> "deleted", from |-> db.project[p].from, reg |-> db.project[p].reg]
  <2>2. db.project \in [Projects -> T]
    BY <1>0 DEF Tables
  <2> HIDE DEF p
  <2>3. p \in Projects => e \in T
    BY <2>2
  <2> HIDE DEF T, e
  <2>4. db'.project \in [Projects -> T]
    BY <2>1, <2>2, <2>3, ExceptIn DEF e
  <2> QED
    BY <2>4 DEF T
<1>5. db'.stored \in [Keys -> {Nothing} \cup {Done(q) : q \in Projects \cup {None}}]
  BY <1>0, <1>1, AnswerTables DEF Deleting
<1>6. db'.unread \in [Users -> Nat] /\ Notes(db'.inbox)
  <2>1. p \in Projects
    BY RequestIs DEF Is, Busy, Requests, IsMeant
  <2>2. Watchers[p] \ {Actor[a[1]]} \in SUBSET Users
    BY <2>1, StoreAssumption
  <2> QED
    BY <1>0, <2>2, NotifiedTables DEF Deleting
<1> QED
  BY <1>0, <1>2, <1>3, <1>4, <1>5, <1>6 DEF Deleting, Tables, SlotsAs, ChecklistsAs

\* An import keeps the tables in shape.
LEMMA ImportTables ==
  ASSUME Held, NEW a \in Attempts, Is(a, "import", "row"), Importing(a)
  PROVE  Tables'
<1> DEFINE made == tx[a].work.made  owned == tx[a].work.made \cup tx[a].work.kept
<1>0. Tables /\ None \in Projects \cup {None}
  BY DEF Held
<1>1. made \subseteq Owns /\ owned \subseteq Owns
  BY DEF Held, WorkSound, ImportSound
<1>2. db'.project = WithMade(made) /\ db'.key = WithOwned(owned)
  BY DEF Importing
<1> HIDE DEF made, owned
<1>3. db'.project \in [Projects -> [state : {"absent", "live", "deleted"},
                                    from : Checklists \cup {None},
                                    reg : Registrations \cup {None}]]
  <2>1. ASSUME NEW p \in Projects, \E t \in made : t.project = p
        PROVE  RegOf(made, p) \in Registrations
    BY <1>1, <2>1 DEF RegOf, Owns
  <2> QED
    BY <1>0, <1>2, <2>1 DEF Tables, WithMade
<1>4. db'.key \in [Registrations -> Projects \cup {None}]
  <2>1. ASSUME NEW g \in Registrations, \E t \in owned : t.reg = g
        PROVE  OwnerIn(owned, g) \in Projects
    BY <1>1, <2>1 DEF OwnerIn, Owns
  <2> QED
    BY <1>0, <1>2, <2>1 DEF Tables, WithOwned
<1>5. db'.stored \in [Keys -> {Nothing} \cup {Done(q) : q \in Projects \cup {None}}]
  BY <1>0, AnswerTables DEF Importing
<1> QED
  BY <1>0, <1>3, <1>4, <1>5 DEF Importing, Tables, SlotsAs, ChecklistsAs, ReportsAs, InboxAs

\* Marking as read keeps the tables in shape.
LEMMA ReadTables ==
  ASSUME Held, NEW a \in Attempts, Is(a, "read", "count"), Tidies(a, MarkedRead(tx[a].work))
  PROVE  Tables'
<1> DEFINE w == tx[a].work  f == [n \in w |-> [n EXCEPT !.read = TRUE]]
<1>0. Tables
  BY DEF Held
<1>1. w \in SUBSET db.inbox
  BY DEF Held, WorkSound, InboxSound, Is
<1>2. db'.inbox = (db.inbox \ w) \cup {f[n] : n \in w} /\ db'.unread = Discount(db, w)
  BY DEF Tidies, MarkedRead
<1>3. Notes(db.inbox)
  BY <1>0 DEF Tables
<1>4. \A n \in w : /\ f[n] = [user |-> f[n].user, about |-> f[n].about, read |-> f[n].read]
                   /\ f[n].read \in BOOLEAN
  <2> TAKE n \in w
  <2>1. n = [user |-> n.user, about |-> n.about, read |-> n.read]
    BY <1>1, <1>3 DEF Notes
  <2>2. f[n] = [n EXCEPT !.read = TRUE]
    OBVIOUS
  <2> HIDE DEF f
  <2>3. f[n] = [user |-> n.user, about |-> n.about, read |-> TRUE]
    BY <2>1, <2>2
  <2> QED
    BY <2>3
<1> HIDE DEF w, f
<1>5. ASSUME NEW m \in db'.inbox
      PROVE  m = [user |-> m.user, about |-> m.about, read |-> m.read] /\ m.read \in BOOLEAN
  <2>1. CASE m \in db.inbox
    BY <1>3, <2>1 DEF Notes
  <2>2. ASSUME NEW n \in w, m = f[n]
        PROVE  m = [user |-> m.user, about |-> m.about, read |-> m.read] /\ m.read \in BOOLEAN
    BY <1>4, <2>2
  <2> QED
    BY <1>2, <2>1, <2>2
<1>6. IsFiniteSet(db'.inbox)
  <2>1. IsFiniteSet(w)
    BY <1>1, <1>3, FS_Subset DEF Notes
  <2>2. IsFiniteSet({f[n] : n \in w})
    BY <2>1, FiniteImage
  <2>3. IsFiniteSet(db.inbox \ w)
    BY <1>3, FS_Difference DEF Notes
  <2> DEFINE D == db.inbox \ w  T == {f[n] : n \in w}
  <2>4. db'.inbox = D \cup T /\ IsFiniteSet(D) /\ IsFiniteSet(T)
    BY <1>2, <2>2, <2>3
  <2> HIDE DEF D, T
  <2>5. IsFiniteSet(D \cup T)
    BY <2>4, FS_Union
  <2> QED
    BY <2>4, <2>5
<1>7. db'.unread \in [Users -> Nat]
  BY <1>0, <1>1, <1>2, DiscountIs
<1>8. Notes(db'.inbox)
  BY <1>5, <1>6 DEF Notes
<1> QED
  BY <1>0, <1>7, <1>8
     DEF Tidies, Tables, SlotsAs, ChecklistsAs, ProjectsAs, KeysAs, ReportsAs, StoredAs

\* Purging keeps the tables in shape.
LEMMA PurgeTables ==
  ASSUME Held, NEW a \in Attempts, Is(a, "purge", "count"), Tidies(a, db.inbox \ tx[a].work)
  PROVE  Tables'
<1> DEFINE w == tx[a].work
<1>0. Tables
  BY DEF Held
<1>1. w \in SUBSET db.inbox
  BY DEF Held, WorkSound, InboxSound, Is
<1>2. db'.inbox = db.inbox \ w /\ db'.unread = Discount(db, w)
  BY DEF Tidies
<1> HIDE DEF w
<1>3. Notes(db'.inbox)
  <2>1. Notes(db.inbox)
    BY <1>0 DEF Tables
  <2>2. IsFiniteSet(db.inbox \ w)
    BY <2>1, FS_Difference DEF Notes
  <2> QED
    BY <1>2, <2>1, <2>2 DEF Notes
<1>4. db'.unread \in [Users -> Nat]
  BY <1>0, <1>1, <1>2, DiscountIs
<1> QED
  BY <1>0, <1>3, <1>4
     DEF Tidies, Tables, SlotsAs, ChecklistsAs, ProjectsAs, KeysAs, ReportsAs, StoredAs

\* No step changes the shape of the tables.
LEMMA TablesKept ==
  ASSUME Held, [Next]_vars
  PROVE  Tables'
<1>1. CASE db' = db
  BY <1>1 DEF Held, Tables
<1>2. ASSUME NEW a \in Attempts, Writes(a) PROVE Tables'
  <2>1. CASE Is(a, "book", "slot") /\ Booking(a)
    BY <2>1, BookTables
  <2>2. CASE Is(a, "release", "start") /\ Releasing(a)
    BY <2>2, BookTables
  <2>3. CASE Saving(a)
    BY <2>3, SaveTables
  <2>4. CASE Is(a, "submit", "tell") /\ Submitting(a)
    BY <2>4, SubmitTables
  <2>5. CASE Is(a, "setLink", "report") /\ Linking(a)
    BY <2>5, LinkTables
  <2>6. CASE Is(a, "autoLink", "set") /\ BulkLinking(a)
    BY <2>6, BulkTables
  <2>7. CASE Is(a, "delete", "reports") /\ Deleting(a)
    BY <2>7, DeleteTables
  <2>8. CASE Is(a, "import", "row") /\ Importing(a)
    BY <2>8, ImportTables
  <2>9. CASE Is(a, "read", "count") /\ Tidies(a, MarkedRead(tx[a].work))
    BY <2>9, ReadTables
  <2>10. CASE Is(a, "purge", "count") /\ Tidies(a, db.inbox \ tx[a].work)
    BY <2>10, PurgeTables
  <2> QED
    BY <1>2, <2>1, <2>2, <2>3, <2>4, <2>5, <2>6, <2>7, <2>8, <2>9, <2>10 DEF Writes
<1> QED
  BY <1>1, <1>2, DbMoves

-----------------------------------------------------------------------------
(* Locks exclude each other. *)

\* What exists goes on existing, if only as deleted.
Persists ==
  /\ \A p \in Projects : db.project[p].state # "absent" => db'.project[p].state # "absent"
  /\ \A c \in Checklists : db.checklist[c].status # "absent" => db'.checklist[c].status # "absent"

\* No step makes a project or a checklist as if it had never been.
LEMMA PersistsKept ==
  ASSUME Held, [Next]_vars
  PROVE  Persists
<1>1. CASE db' = db
  BY <1>1 DEF Persists
<1>2. ASSUME NEW a \in Attempts, Under(a) PROVE Persists
  <2>1. ASSUME NEW p \in Projects, db.project[p].state # "absent"
        PROVE  db'.project[p].state # "absent"
    BY <1>2, <2>1 DEF Under, ProjectsUnder, Born, Dies
  <2>2. ASSUME NEW c \in Checklists, db.checklist[c].status # "absent"
        PROVE  db'.checklist[c].status # "absent"
    BY <1>2, <2>2 DEF Under, ChecklistsUnder
  <2> QED
    BY <2>1, <2>2 DEF Persists
<1> QED
  BY <1>1, <1>2, DbMoves

\* One attempt's locks change to some that nobody else is in the way of.
LEMMA LocksMove ==
  ASSUME LocksSound, Persists, NEW a \in Attempts, NEW pc, NEW locks, NEW shares, NEW work, NEW reply,
         Turns(a, pc, locks, shares, work, reply),
         pc \in Idle => locks = {} /\ shares = {},
         \A b \in Attempts : b # a => /\ locks \cap (tx[b].locks \cup tx[b].shares) = {}
                                      /\ shares \cap tx[b].locks = {},
         \A p \in Projects : ProjectRow(p) \in shares => db'.project[p].state # "absent",
         \A c \in Checklists : ChecklistRow(c) \in locks => db'.checklist[c].status # "absent"
  PROVE  LocksSound'
<1>0. /\ tx'[a].pc = pc /\ tx'[a].locks = locks /\ tx'[a].shares = shares
      /\ \A b \in Attempts : b # a => tx'[b] = tx[b]
  BY DEF Turns
<1>1. ASSUME NEW b \in Attempts, tx'[b].pc \in Idle
      PROVE  tx'[b].locks = {} /\ tx'[b].shares = {}
  BY <1>0, <1>1 DEF LocksSound
<1>2. ASSUME NEW b \in Attempts, NEW c \in Attempts, b # c
      PROVE  tx'[b].locks \cap (tx'[c].locks \cup tx'[c].shares) = {}
  <2>1. CASE b # a /\ c # a
    BY <1>0, <1>2, <2>1 DEF LocksSound
  <2>2. CASE b = a
    BY <1>0, <1>2, <2>2
  <2>3. CASE c = a
    BY <1>0, <1>2, <2>3
  <2> QED
    BY <2>1, <2>2, <2>3
<1>3. ASSUME NEW b \in Attempts, NEW p \in Projects, ProjectRow(p) \in tx'[b].shares
      PROVE  db'.project[p].state # "absent"
  BY <1>0, <1>3 DEF LocksSound, Persists
<1>4. ASSUME NEW b \in Attempts, NEW c \in Checklists, ChecklistRow(c) \in tx'[b].locks
      PROVE  db'.checklist[c].status # "absent"
  BY <1>0, <1>4 DEF LocksSound, Persists
<1> QED
  BY <1>1, <1>2, <1>3, <1>4 DEF LocksSound

\* Letting go of everything is always sound.
LEMMA LocksReleased ==
  ASSUME LocksSound, Persists, NEW a \in Attempts, NEW pc, NEW work, NEW reply,
         Turns(a, pc, {}, {}, work, reply)
  PROVE  LocksSound'
  BY LocksMove

\* Nobody is in the way of a row that has no blockers.
LEMMA Unblocked ==
  ASSUME LocksSound, NEW a \in Attempts, NEW row, NEW shared \in BOOLEAN,
         Blockers(a, row, shared) = {}
  PROVE  \A b \in Attempts : b # a => row \notin tx[b].locks /\ (~shared => row \notin tx[b].shares)
<1> TAKE b \in Attempts
<1>1. b \notin Running => tx[b].locks = {} /\ tx[b].shares = {}
  BY DEF Running, LocksSound, Idle
<1>2. b \in Running /\ b # a => row \notin tx[b].locks /\ (~shared => row \notin tx[b].shares)
  BY DEF Blockers
<1> QED
  BY <1>1, <1>2

\* A row that is taken was free.
LEMMA TakingKeepsLocks ==
  ASSUME Held, Persists, NEW a \in Attempts, Taking(a), db' = db
  PROVE  LocksSound'
<1> USE DEF Held
<1>1. PICK row \in Missing(a) :
        /\ Turns(a, tx[a].pc, tx[a].locks \cup IF SharesLock(a) THEN {} ELSE {row},
                 tx[a].shares \cup IF SharesLock(a) THEN {row} ELSE {}, tx[a].work, tx[a].reply)
        /\ Blockers(a, row, SharesLock(a)) = {}
  BY DEF Taking
<1>2. SharesLock(a) \in BOOLEAN
  BY DEF SharesLock, Is
<1>3. \A b \in Attempts : b # a => row \notin tx[b].locks /\ (~SharesLock(a) => row \notin tx[b].shares)
  BY <1>1, <1>2, Unblocked
<1>4. tx[a].pc \notin Idle
  BY MissingAre DEF Busy, Idle
<1>5. CASE SharesLock(a)
  <2>1. Turns(a, tx[a].pc, tx[a].locks, tx[a].shares \cup {row}, tx[a].work, tx[a].reply)
    BY <1>1, <1>5
  <2>2. \A p \in Projects : ProjectRow(p) \in tx[a].shares \cup {row} => db'.project[p].state # "absent"
    <3> TAKE p \in Projects
    <3>1. PICK q \in Alive(tx[a].work.part) : row = ProjectRow(q)
      BY <1>5, MissingAre
    <3>2. db.project[q].state = "live"
      BY DEF Alive
    <3> QED
      BY <3>1, <3>2 DEF LocksSound, ProjectRow
  <2>3. \A c \in Checklists : ChecklistRow(c) \in tx[a].locks => db'.checklist[c].status # "absent"
    BY DEF LocksSound
  <2>4. \A b \in Attempts : b # a => /\ tx[a].locks \cap (tx[b].locks \cup tx[b].shares) = {}
                                     /\ (tx[a].shares \cup {row}) \cap tx[b].locks = {}
    BY <1>3 DEF LocksSound
  <2> QED
    BY <1>4, <2>1, <2>2, <2>3, <2>4, LocksMove
<1>6. CASE ~SharesLock(a)
  <2>1. Turns(a, tx[a].pc, tx[a].locks \cup {row}, tx[a].shares, tx[a].work, tx[a].reply)
    BY <1>1, <1>6
  <2>2. \A p \in Projects : ProjectRow(p) \in tx[a].shares => db'.project[p].state # "absent"
    BY DEF LocksSound
  <2>3. \A c \in Checklists :
          ChecklistRow(c) \in tx[a].locks \cup {row} => db'.checklist[c].status # "absent"
    <3> TAKE c \in Checklists
    <3>1. row = ChecklistRow(c) => c = Req(a).checklist /\ Req(a).checklist # None
      BY MissingAre
    <3>2. Fits(db, Req(a))
      BY MissingAre, RequestIs
    <3> QED
      BY <3>1, <3>2 DEF LocksSound, Fits
  <2>4. \A b \in Attempts : b # a => /\ (tx[a].locks \cup {row}) \cap (tx[b].locks \cup tx[b].shares) = {}
                                     /\ tx[a].shares \cap tx[b].locks = {}
    BY <1>3, <1>6 DEF LocksSound
  <2> QED
    BY <1>4, <2>1, <2>2, <2>3, <2>4, LocksMove
<1> QED
  BY <1>5, <1>6

\* A project that is inserted is held by nobody else.
LEMMA GoingKeepsLocks ==
  ASSUME Held, Persists, NEW a \in Attempts, Going(a), db' = db
  PROVE  LocksSound'
<1> USE DEF Held
<1>0. \A b \in Attempts : b # a => /\ tx[a].locks \cap (tx[b].locks \cup tx[b].shares) = {}
                                   /\ tx[a].shares \cap tx[b].locks = {}
  BY DEF LocksSound
<1>1. /\ \A p \in Projects : ProjectRow(p) \in tx[a].shares => db'.project[p].state # "absent"
      /\ \A c \in Checklists : ChecklistRow(c) \in tx[a].locks => db'.checklist[c].status # "absent"
  BY DEF LocksSound
<1>2. PICK pc \in Busy : \E work :
       \/ Turns(a, pc, tx[a].locks, tx[a].shares, work, tx[a].reply)
       \/ \E p \in Projects :
            /\ NextId(p)
            /\ Turns(a, pc, tx[a].locks \cup {ProjectRow(p)}, tx[a].shares, work, tx[a].reply)
  BY DEF Going
<1>3. pc \notin Idle
  BY DEF Busy, Idle
<1>4. ASSUME NEW work, Turns(a, pc, tx[a].locks, tx[a].shares, work, tx[a].reply)
      PROVE  LocksSound'
  BY <1>0, <1>1, <1>3, <1>4, LocksMove
<1>5. ASSUME NEW work, NEW p \in Projects, NextId(p),
             Turns(a, pc, tx[a].locks \cup {ProjectRow(p)}, tx[a].shares, work, tx[a].reply)
      PROVE  LocksSound'
  <2>1. \A b \in Attempts : ProjectRow(p) \notin tx[b].locks /\ ProjectRow(p) \notin tx[b].shares
    <3> TAKE b \in Attempts
    <3>1. db.project[p].state = "absent" /\ (b \in Running => ProjectRow(p) \notin tx[b].locks)
      BY <1>5 DEF NextId, Unused
    <3>2. b \notin Running => tx[b].locks = {}
      BY DEF Running, LocksSound, Idle
    <3> QED
      BY <3>1, <3>2 DEF LocksSound
  <2>2. \A c : ChecklistRow(c) # ProjectRow(p)
    BY DEF ChecklistRow, ProjectRow
  <2>3. \A b \in Attempts : b # a =>
          (tx[a].locks \cup {ProjectRow(p)}) \cap (tx[b].locks \cup tx[b].shares) = {}
    BY <1>0, <2>1
  <2>4. \A c \in Checklists : ChecklistRow(c) \in tx[a].locks \cup {ProjectRow(p)}
                                => db'.checklist[c].status # "absent"
    BY <1>1, <2>2
  <2> QED
    BY <1>0, <1>1, <1>3, <1>5, <2>3, <2>4, LocksMove
<1> QED
  BY <1>2, <1>4, <1>5

\* No step lets two transactions hold one row, or share one that another holds.
LEMMA LocksKept ==
  ASSUME Held, [Next]_vars
  PROVE  LocksSound'
<1>0. Shaped /\ LocksSound /\ Persists /\ request = [k \in Keys |-> request[k]]
  BY PersistsKept DEF Held, Asked
<1>1. CASE UNCHANGED vars
  BY <1>0, <1>1 DEF vars, LocksSound
<1>2. ASSUME NEW k \in Keys, Ask(k) \/ Resend(k) PROVE LocksSound'
  <2>1. \A a \in Attempts : request[a[1]] = Nothing => tx[a].pc = "none"
    BY DEF Held, Asked
  <2>2. Ask(k) => Begins(<<k, 1>>)
    <3> SUFFICES ASSUME Ask(k) PROVE Begins(<<k, 1>>)
      OBVIOUS
    <3>1. \A a \in Attempts : a[1] = k => tx[a].pc = "none"
      BY <2>1 DEF Ask
    <3> QED
      BY <1>0, <3>1, AskEffect
  <2>3. Resend(k) => \E n \in 1..(Sends[k] - 1) : Begins(<<k, n + 1>>)
    BY <1>0, ResendEffect
  <2>4. \E a \in Attempts : Begins(a)
    BY <1>2, <2>2, <2>3, AttemptsAre
  <2> QED
    BY <1>0, <2>4, LocksReleased DEF Begins
<1>3. ASSUME NEW a \in Attempts, Writes(a) PROVE LocksSound'
  BY <1>0, <1>3, WritesShape, LocksReleased
<1>4. ASSUME NEW a \in Attempts, Drops(a) PROVE LocksSound'
  BY <1>0, <1>4, LocksReleased DEF Drops
<1>5. ASSUME NEW a \in Attempts, Moves(a) PROVE LocksSound'
  <2>1. CASE Taking(a)
    BY <1>0, <1>5, <2>1, TakingKeepsLocks DEF Moves
  <2>2. CASE Claiming(a)
    <3>1. Turns(a, "start", {ClaimRow(a[1])}, {}, <<>>, tx[a].reply)
      BY <1>0, <2>2 DEF Claiming, LocksSound, Idle
    <3>2. \A b \in Attempts : b # a =>
            ClaimRow(a[1]) \notin tx[b].locks /\ ClaimRow(a[1]) \notin tx[b].shares
      BY <1>0, <2>2, Unblocked DEF Claiming
    <3>3. \A c : ChecklistRow(c) # ClaimRow(a[1])
      BY DEF ChecklistRow, ClaimRow
    <3>4. "start" \notin Idle
      BY DEF Idle
    <3> QED
      BY <1>0, <3>1, <3>2, <3>3, <3>4, LocksMove
  <2>3. CASE Ending(a)
    BY <1>0, <2>3, LocksReleased DEF Ending
  <2>4. CASE Going(a)
    BY <1>0, <1>5, <2>4, GoingKeepsLocks DEF Moves
  <2> QED
    BY <1>5, <2>1, <2>2, <2>3, <2>4 DEF Moves
<1> QED
  BY <1>0, <1>1, <1>2, <1>3, <1>4, <1>5, NextMoves

-----------------------------------------------------------------------------
(* What was asked stays, and goes on being about rows that exist. *)

\* A request goes on fitting the tables.
LEMMA FitsKept ==
  ASSUME Held, [Next]_vars, NEW w \in Requests, IsMeant(w), Fits(db, w)
  PROVE  Fits(db', w)
<1>0. Persists
  BY PersistsKept
<1>1. w.checklist # None => db'.checklist[w.checklist].status # "absent"
  BY <1>0 DEF Fits, Requests, Persists
<1>2. w.project # None => db'.project[w.project].state # "absent"
  BY <1>0 DEF Fits, Requests, Persists
<1>3. /\ \A s \in Slots : \A n \in Nat : n <= db.slot[s].version => n <= db'.slot[s].version
      /\ \A c \in Checklists : \A n \in Nat :
           n <= db.checklist[c].version => n <= db'.checklist[c].version
      /\ \A x \in Reports : \A n \in Nat : n <= db.report[x].version => n <= db'.report[x].version
  <2>1. /\ \A s \in Slots : db.slot[s].version \in Nat
        /\ \A c \in Checklists : db.checklist[c].version \in Nat
        /\ \A x \in Reports : db.report[x].version \in Nat
    BY DEF Held, Tables
  <2>2. CASE db' = db
    BY <2>2
  <2>3. ASSUME NEW a \in Attempts, Under(a)
        PROVE  /\ \A s \in Slots : \/ db'.slot[s] = db.slot[s]
                                   \/ db'.slot[s].version = db.slot[s].version + 1
               /\ \A c \in Checklists : \/ db'.checklist[c] = db.checklist[c]
                                        \/ db'.checklist[c].version = db.checklist[c].version + 1
               /\ \A x \in Reports : \/ db'.report[x] = db.report[x]
                                     \/ db'.report[x].version = db.report[x].version + 1
    BY <2>3 DEF Under, SlotsUnder, ChecklistsUnder, ReportsUnder
  <2> QED
    BY <2>1, <2>2, <2>3, DbMoves
<1>4. w.base \in Nat /\ w.slotBase \in Nat
  BY DEF Requests
<1>5. w.op \in {"book", "release"} => w.base <= db'.slot[w.slot].version
  BY <1>3, <1>4 DEF Fits, Requests, IsMeant
<1>6. w.op \in {"save", "submit"} /\ w.checklist # None =>
        w.base <= db'.checklist[w.checklist].version
  BY <1>3, <1>4 DEF Fits, Requests, IsMeant
<1>7. w.op = "submit" /\ w.slot # None => w.slotBase <= db'.slot[w.slot].version
  BY <1>3, <1>4 DEF Fits, Requests, IsMeant
<1>8. w.op = "setLink" => w.base <= db'.report[w.report].version
  BY <1>3, <1>4 DEF Fits, Requests, IsMeant
<1> QED
  BY <1>1, <1>2, <1>5, <1>6, <1>7, <1>8 DEF Fits

\* An action starts with the versions its user sees.
LEMMA AskFits ==
  ASSUME Tables, NEW k \in Keys, NEW w \in Wants[k], CanAsk(w), NEW v,
         v = [w EXCEPT !.base = SeenVersion(w), !.slotBase = SeenSlot(w)]
  PROVE  v \in Requests /\ IsMeant(v) /\ Fits(db, v)
<1>1. w \in Requests /\ IsMeant(w)
  BY StoreAssumption
<1>2. /\ w.op = "book" \/ w.op = "release" => w.slot \in Slots
      /\ w.checklist # None => w.checklist \in Checklists
      /\ w.slot # None => w.slot \in Slots
      /\ w.op = "setLink" => w.report \in Reports
  BY <1>1 DEF Requests, IsMeant
<1>3. /\ \A s \in Slots : db.slot[s].version \in Nat
      /\ \A c \in Checklists : db.checklist[c].version \in Nat
      /\ \A x \in Reports : db.report[x].version \in Nat
  BY DEF Tables
<1>4. SeenVersion(w) \in Nat /\ SeenSlot(w) \in Nat
  BY <1>2, <1>3 DEF SeenVersion, SeenSlot
<1> DEFINE m == SeenVersion(w)  n == SeenSlot(w)  u == [w EXCEPT !.base = m]
<1>5. v = [u EXCEPT !.slotBase = n]
  OBVIOUS
<1>6. u \in Requests
  <2>1. m \in Nat
    BY <1>4
  <2> HIDE DEF m
  <2> QED
    BY <1>1, <2>1 DEF Requests
<1>7. n \in Nat
  BY <1>4
<1>8. v \in Requests
  <2> HIDE DEF n, u
  <2> QED
    BY <1>5, <1>6, <1>7 DEF Requests
<1>9. /\ v.op = w.op /\ v.slot = w.slot /\ v.checklist = w.checklist /\ v.report = w.report
      /\ v.project = w.project /\ v.rows = w.rows
      /\ v.base = SeenVersion(w) /\ v.slotBase = SeenSlot(w)
  BY <1>1 DEF Requests
<1>10. IsMeant(v)
  BY <1>1, <1>9 DEF IsMeant
<1>11. Fits(db, v)
  <2>1. /\ v.checklist # None => db.checklist[v.checklist].status # "absent"
        /\ v.project # None => db.project[v.project].state # "absent"
    BY <1>9 DEF CanAsk
  <2>2. v.op \in {"book", "release"} => v.base <= db.slot[v.slot].version
    BY <1>2, <1>3, <1>9 DEF SeenVersion
  <2>3. v.op \in {"save", "submit"} /\ v.checklist # None =>
          v.base <= db.checklist[v.checklist].version
    BY <1>2, <1>3, <1>9 DEF SeenVersion
  <2>4. v.op = "submit" /\ v.slot # None => v.slotBase <= db.slot[v.slot].version
    BY <1>2, <1>3, <1>9 DEF SeenSlot
  <2>5. v.op = "setLink" => v.base <= db.report[v.report].version
    BY <1>2, <1>3, <1>9 DEF SeenVersion
  <2> QED
    BY <2>1, <2>2, <2>3, <2>4, <2>5 DEF Fits
<1> QED
  BY <1>8, <1>10, <1>11

\* Nobody's request changes once it is made.
RequestsStay == \A k \in Keys : request[k] # Nothing => request'[k] = request[k]

\* No request is taken for none.
LEMMA NothingIsNoRequest ==
  Nothing \notin Requests
<1>1. \A r \in Requests : "op" \in DOMAIN r
  BY DEF Requests
<1>2. "op" \notin DOMAIN Nothing
  BY DEF Nothing
<1> QED
  BY <1>1, <1>2

\* A request is made once, and stays as it is.
LEMMA AskedKept ==
  ASSUME Held, [Next]_vars
  PROVE  Asked' /\ RequestsStay
<1>0. /\ Shaped /\ Tables
      /\ request = [k \in Keys |-> request[k]]
      /\ \A k \in Keys : request[k] # Nothing =>
           request[k] \in Requests /\ IsMeant(request[k]) /\ Fits(db, request[k])
      /\ \A a \in Attempts : /\ tx[a].pc \in Idle \cup Busy
                             /\ tx[a].pc # "none" => request[a[1]] # Nothing
  BY DEF Held, Asked
<1>1. \A k \in Keys : request[k] # Nothing =>
        request[k] \in Requests /\ IsMeant(request[k]) /\ Fits(db', request[k])
  BY <1>0, FitsKept
<1>2. CASE request' = request /\ \A a \in Attempts : tx'[a] = tx[a]
  BY <1>0, <1>1, <1>2 DEF Asked, RequestsStay
<1>3. ASSUME request' = request, NEW a \in Attempts, NEW pc \in Idle \cup Busy, request[a[1]] # Nothing,
             NEW L, NEW S, NEW w, NEW r, Turns(a, pc, L, S, w, r)
      PROVE  Asked' /\ RequestsStay
  BY <1>0, <1>1, <1>3 DEF Asked, RequestsStay, Turns
<1>4. ASSUME NEW k \in Keys, Ask(k) PROVE Asked' /\ RequestsStay
  <2>1. \A a \in Attempts : a[1] = k => tx[a].pc = "none"
    BY <1>0, <1>4 DEF Ask
  <2>2. /\ Begins(<<k, 1>>) /\ \A x \in Keys : x # k => request'[x] = request[x]
        /\ request' = [x \in Keys |-> request'[x]]
        /\ request[k] = Nothing
        /\ \E w \in Wants[k] :
             /\ CanAsk(w)
             /\ request'[k] = [w EXCEPT !.base = SeenVersion(w), !.slotBase = SeenSlot(w)]
    BY <1>0, <1>4, <2>1, AskEffect
  <2>3. request'[k] \in Requests /\ IsMeant(request'[k]) /\ Fits(db, request'[k])
    BY <1>0, <2>2, AskFits
  <2>4. db' = db
    BY <2>2 DEF Begins
  <2>5. request'[k] # Nothing
    BY <2>3, NothingIsNoRequest
  <2>6. \A x \in Keys : request'[x] # Nothing =>
          request'[x] \in Requests /\ IsMeant(request'[x]) /\ Fits(db', request'[x])
    BY <1>0, <2>2, <2>3, <2>4
  <2>7. \A a \in Attempts : /\ tx'[a].pc \in Idle \cup Busy
                            /\ tx'[a].pc # "none" => request'[a[1]] # Nothing
    <3> TAKE a \in Attempts
    <3>1. CASE a = <<k, 1>>
      <4>1. tx'[a].pc \in {"claim", "start"}
        BY <2>2, <3>1 DEF Begins, Turns
      <4>2. a[1] = k
        BY <3>1
      <4> QED
        BY <2>5, <4>1, <4>2 DEF Idle, Busy
    <3>2. CASE a # <<k, 1>>
      <4>1. tx'[a] = tx[a]
        BY <2>2, <3>2 DEF Begins, Turns
      <4>2. tx[a].pc # "none" => a[1] # k /\ a[1] \in Keys
        BY <2>1, AttemptsAre
      <4> QED
        BY <1>0, <2>2, <4>1, <4>2
    <3> QED
      BY <3>1, <3>2
  <2> QED
    BY <2>2, <2>6, <2>7 DEF Asked, RequestsStay
<1>5. ASSUME NEW k \in Keys, Resend(k) PROVE Asked' /\ RequestsStay
  <2>1. PICK n \in 1..(Sends[k] - 1) :
          /\ tx[<<k, n>>].pc # "none" /\ Begins(<<k, n + 1>>) /\ request' = request
    BY <1>0, <1>5, ResendEffect
  <2>2. <<k, n>> \in Attempts /\ <<k, n + 1>> \in Attempts
    <3>1. Sends[k] \in Nat \ {0}
      BY StoreAssumption
    <3>2. n \in 1..Sends[k]
      BY <3>1
    <3> QED
      BY <3>2, AttemptsAre DEF Attempts
  <2>3. request[k] # Nothing /\ <<k, n + 1>>[1] = k
    BY <1>0, <2>1, <2>2
  <2> DEFINE pc == IF Keyed(request'[<<k, n + 1>>[1]].op) THEN "claim" ELSE "start"
  <2>4. pc \in Idle \cup Busy
    BY DEF Idle, Busy
  <2>5. Turns(<<k, n + 1>>, pc, {}, {}, <<>>, Nothing)
    BY <2>1 DEF Begins
  <2> HIDE DEF pc
  <2> QED
    BY <1>3, <2>1, <2>2, <2>3, <2>4, <2>5
<1>6. ASSUME NEW a \in Attempts, Writes(a) PROVE Asked' /\ RequestsStay
  <2>1. tx[a].pc # "none"
    BY <1>6 DEF Writes, Is
  <2>2. "ended" \in Idle \cup Busy
    BY DEF Idle
  <2> QED
    BY <1>0, <1>3, <1>6, <2>1, <2>2, WritesShape
<1>7. ASSUME NEW a \in Attempts, Moves(a) \/ Drops(a), tx[a].pc # "none" PROVE Asked' /\ RequestsStay
  <2>1. request[a[1]] # Nothing /\ request' = request /\ tx[a].pc \in Idle \cup Busy
    BY <1>0, <1>7 DEF Moves, Drops
  <2>2. \E pc \in Idle \cup Busy : \E L, S, w, r : Turns(a, pc, L, S, w, r)
    <3>1. {"ended", "claim", "gone", "start"} \subseteq Idle \cup Busy
      BY DEF Idle, Busy
    <3> QED
      BY <1>7, <2>1, <3>1 DEF Moves, Drops, Taking, Claiming, Ending, Going
  <2> QED
    BY <1>3, <2>1, <2>2
<1>8. \A a \in Running : tx[a].pc # "none"
  BY DEF Running
<1>9. UNCHANGED vars => Asked' /\ RequestsStay
  BY <1>2 DEF vars
<1> QED
  BY <1>0, <1>4, <1>5, <1>6, <1>7, <1>8, <1>9, NextMoves

-----------------------------------------------------------------------------
(* What an attempt knows about its rows is not disturbed by the others. *)

\* What b holds stays as it is.
Stays(b) ==
  /\ \A s \in Slots : SlotRow(s) \in tx[b].locks => db'.slot[s] = db.slot[s]
  /\ \A c \in Checklists : ChecklistRow(c) \in tx[b].locks => db'.checklist[c] = db.checklist[c]
  /\ \A p \in Projects :
       ProjectRow(p) \in tx[b].locks \cup tx[b].shares => db'.project[p] = db.project[p]
  /\ \A x \in Reports : ReportRow(x) \in tx[b].locks => db'.report[x] = db.report[x]
  /\ \A g \in Registrations : KeyRow(g) \in tx[b].locks => db'.key[g] = db.key[g]
  /\ ClaimRow(b[1]) \in tx[b].locks => db'.stored[b[1]] = db.stored[b[1]]
  /\ \A n \in db.inbox : NoteRow(n) \in tx[b].locks => n \in db'.inbox
  /\ \A x \in Reports : \/ db'.report[x] = db.report[x]
                        \/ db'.report[x].version = db.report[x].version + 1

\* What a transaction holds, no other transaction writes.
LEMMA HeldStays ==
  ASSUME Held, NEW a \in Attempts, NEW b \in Attempts, a # b, Under(a)
  PROVE  Stays(b)
<1>1. tx[a].locks \cap (tx[b].locks \cup tx[b].shares) = {}
  BY DEF Held, LocksSound
<1>2. \A s \in Slots : SlotRow(s) \in tx[b].locks => db'.slot[s] = db.slot[s]
  BY <1>1 DEF Under, SlotsUnder
<1>3. \A c \in Checklists : ChecklistRow(c) \in tx[b].locks => db'.checklist[c] = db.checklist[c]
  BY <1>1 DEF Under, ChecklistsUnder, Held, LocksSound
<1>4. \A p \in Projects :
        ProjectRow(p) \in tx[b].locks \cup tx[b].shares => db'.project[p] = db.project[p]
  BY <1>1 DEF Under, ProjectsUnder
<1>5. \A x \in Reports : /\ ReportRow(x) \in tx[b].locks => db'.report[x] = db.report[x]
                         /\ \/ db'.report[x] = db.report[x]
                            \/ db'.report[x].version = db.report[x].version + 1
  BY <1>1 DEF Under, ReportsUnder
<1>6. \A g \in Registrations : KeyRow(g) \in tx[b].locks => db'.key[g] = db.key[g]
  BY <1>1 DEF Under, KeysUnder
<1>7. ClaimRow(b[1]) \in tx[b].locks => db'.stored[b[1]] = db.stored[b[1]]
  <2>1. b[1] \in Keys
    BY AttemptsAre
  <2> QED
    BY <1>1, <2>1 DEF Under, StoredUnder
<1>8. \A n \in db.inbox : NoteRow(n) \in tx[b].locks => n \in db'.inbox
  BY <1>1 DEF Under, InboxUnder
<1> QED
  BY <1>2, <1>3, <1>4, <1>5, <1>6, <1>7, <1>8 DEF Stays

\* An attempt that is not under way knows nothing; one that has just begun, its claim.
LEMMA IdleIsSound ==
  ASSUME NEW a \in Attempts, tx'[a].pc \in Idle
  PROVE  WorkSound(a)'
  BY DEF Idle, Busy, Is, WorkSound, ClaimSound, BookSound, SubmitSound, LinkSound, BulkSound,
         DeleteSound, ImportSound, InboxSound

\* A transaction at its first statement has found out nothing yet.
LEMMA StartIsSound ==
  ASSUME NEW a \in Attempts, tx'[a].pc = "start", ClaimSound(a)'
  PROVE  WorkSound(a)'
  BY DEF Is, WorkSound, BookSound, SubmitSound, LinkSound, BulkSound, DeleteSound, ImportSound,
         InboxSound

\* The parts of WorkSound are about different operations.
LEMMA OtherOps ==
  ASSUME NEW a \in Attempts, request' = request
  PROVE  /\ Req(a).op # "book" => BookSound(a)'
         /\ Req(a).op # "submit" => SubmitSound(a)'
         /\ Req(a).op # "setLink" => LinkSound(a)'
         /\ Req(a).op # "autoLink" => BulkSound(a)'
         /\ Req(a).op # "delete" => DeleteSound(a)'
         /\ Req(a).op # "import" => ImportSound(a)'
         /\ Req(a).op \notin {"read", "purge"} => InboxSound(a)'
  BY DEF Is, Req, BookSound, SubmitSound, LinkSound, BulkSound, DeleteSound, ImportSound, InboxSound

\* The attempt keeps its locks and its work, and what it holds stays.
Keeps(b) ==
  /\ tx'[b].pc = tx[b].pc /\ tx'[b].work = tx[b].work
  /\ tx[b].locks \subseteq tx'[b].locks /\ tx[b].shares \subseteq tx'[b].shares
  /\ request'[b[1]] = request[b[1]]
  /\ Stays(b)

\* Nobody else answers an action while an attempt holds its claim.
LEMMA ClaimStays ==
  ASSUME Held, NEW b \in Attempts, Keeps(b)
  PROVE  ClaimSound(b)' /\ BookSound(b)'
  BY DEF Held, WorkSound, ClaimSound, BookSound, Keeps, Stays, Req, Is

\* Nobody else changes what a submission has checked.
LEMMA SubmitStays ==
  ASSUME Held, NEW b \in Attempts, Keeps(b)
  PROVE  SubmitSound(b)'
<1> SUFFICES ASSUME tx[b].pc \in {"slot", "tell"}, Req(b).op = "submit"
             PROVE  SubmitSound(b)'
  BY DEF SubmitSound, Keeps, Req
<1> DEFINE r == Req(b)  p == tx[b].work
<1>0. Req(b)' = r /\ tx'[b].work = p /\ tx'[b].pc = tx[b].pc
  BY DEF Keeps, Req
<1>1. /\ p \in Projects /\ ProjectRow(p) \in tx[b].locks /\ db.project[p].state = "absent"
      /\ ChecklistRow(r.checklist) \in tx[b].locks /\ Editable(r) /\ r.may
      /\ tx[b].pc = "slot" => r.slot # None
      /\ tx[b].pc = "tell" /\ r.slot # None =>
           SlotRow(r.slot) \in tx[b].locks /\ Bookable(r.slot, r.slotBase)
  BY DEF Held, WorkSound, SubmitSound
<1>2. /\ r.checklist \in Checklists
      /\ r.slot # None => r.slot \in Slots
  BY RequestIs DEF Busy, Requests, IsMeant
<1>3. ProjectRow(p) \in tx'[b].locks /\ db'.project[p].state = "absent"
  BY <1>1 DEF Keeps, Stays
<1>4. ChecklistRow(r.checklist) \in tx'[b].locks /\ db'.checklist[r.checklist] = db.checklist[r.checklist]
  BY <1>1, <1>2 DEF Keeps, Stays
<1>5. tx[b].pc = "tell" /\ r.slot # None =>
        SlotRow(r.slot) \in tx'[b].locks /\ db'.slot[r.slot] = db.slot[r.slot]
  BY <1>1, <1>2 DEF Keeps, Stays
<1> QED
  BY <1>0, <1>1, <1>3, <1>4, <1>5 DEF SubmitSound, Editable, Bookable

\* Nobody else deletes the project of a link or of a deletion under way.
LEMMA LinkStays ==
  ASSUME Held, NEW b \in Attempts, Keeps(b)
  PROVE  LinkSound(b)' /\ DeleteSound(b)'
<1>1. tx[b].pc \in Busy /\ Req(b).project # None => Req(b).project \in Projects
  BY RequestIs DEF Requests
<1>2. tx[b].pc \in Busy /\ Req(b).op = "delete" => Req(b).project \in Projects
  BY RequestIs DEF Requests, IsMeant
<1>3. LinkSound(b)'
  <2> SUFFICES ASSUME Is(b, "setLink", "report"), Req(b).project # None
               PROVE  LinkSound(b)'
    BY DEF LinkSound, Keeps, Req, Is
  <2>1. ProjectRow(Req(b).project) \in tx[b].locks /\ db.project[Req(b).project].state = "live"
    BY DEF Held, WorkSound, LinkSound
  <2>2. Req(b).project \in Projects /\ Req(b)' = Req(b)
    BY <1>1 DEF Is, Busy, Req, Keeps
  <2>3. ProjectRow(Req(b).project) \in tx'[b].locks
        /\ db'.project[Req(b).project] = db.project[Req(b).project]
    BY <2>1, <2>2 DEF Keeps, Stays
  <2> QED
    BY <2>1, <2>2, <2>3 DEF LinkSound
<1>4. DeleteSound(b)'
  BY <1>2 DEF Held, WorkSound, DeleteSound, Keeps, Stays, Req, Busy
<1> QED
  BY <1>3, <1>4

\* Nobody else removes the notifications that are being counted.
LEMMA InboxStays ==
  ASSUME Held, NEW b \in Attempts, Keeps(b)
  PROVE  InboxSound(b)'
  BY DEF Held, WorkSound, InboxSound, Keeps, Stays, Req

\* What a bulk run found open is open or has changed.
LEMMA OpenStays ==
  ASSUME Held, NEW b \in Attempts, Stays(b), NEW t \in Finds, StillOpen(t)
  PROVE  StillOpen(t)'
<1>1. t.report \in Reports /\ t.version \in Nat
  BY DEF Finds
<1>2. db.report[t.report].version \in Nat
  BY <1>1 DEF Held, Tables
<1>3. \/ db'.report[t.report] = db.report[t.report]
      \/ db'.report[t.report].version = db.report[t.report].version + 1
  BY <1>1 DEF Stays
<1>4. CASE db'.report[t.report] = db.report[t.report]
  BY <1>4 DEF StillOpen, Unchanged
<1>5. CASE db'.report[t.report].version = db.report[t.report].version + 1
  <2>1. t.version < db'.report[t.report].version
    BY <1>1, <1>2, <1>5 DEF StillOpen
  <2> QED
    BY <1>1, <1>2, <1>5, <2>1 DEF StillOpen, Unchanged
<1> QED
  BY <1>3, <1>4, <1>5

\* Nobody else changes what a bulk run has found.
LEMMA BulkStays ==
  ASSUME Held, NEW b \in Attempts, Keeps(b)
  PROVE  BulkSound(b)'
<1> SUFFICES ASSUME tx[b].pc \in {"share", "set"}, Req(b).op = "autoLink"
             PROVE  BulkSound(b)'
  BY DEF BulkSound, Keeps, Req
<1> DEFINE w == tx[b].work
<1>0. tx'[b].work = w /\ Stays(b) /\ tx[b].locks \subseteq tx'[b].locks /\ tx[b].shares \subseteq tx'[b].shares
  BY DEF Keeps
<1>1. /\ w \in BulkWork
      /\ \A t \in w.part \cup w.todo : StillOpen(t)
      /\ \A p \in w.alive : Shared(b, p)
      /\ \A t \in w.set : /\ Shared(b, t.project) /\ ReportRow(t.report) \in tx[b].locks
                          /\ db.report[t.report].source = "none"
  BY DEF Held, WorkSound, BulkSound
<1>2. /\ w.part \cup w.todo \subseteq Finds /\ w.alive \subseteq Projects
      /\ \A t \in w.set : t.project \in Projects /\ t.report \in Reports
  BY <1>1 DEF BulkWork, Finds
<1> HIDE DEF w
<1>3. \A t \in w.part \cup w.todo : StillOpen(t)'
  BY <1>0, <1>1, <1>2, OpenStays
<1>4. \A p \in Projects : Shared(b, p) => Shared(b, p)'
  BY <1>0 DEF Shared, Stays
<1>5. \A t \in w.set : /\ Shared(b, t.project)' /\ ReportRow(t.report) \in tx'[b].locks
                       /\ db'.report[t.report].source = "none"
  <2> TAKE t \in w.set
  <2>1. Shared(b, t.project)'
    BY <1>1, <1>2, <1>4
  <2>2. ReportRow(t.report) \in tx'[b].locks /\ db'.report[t.report] = db.report[t.report]
    BY <1>0, <1>1, <1>2 DEF Stays
  <2> QED
    BY <1>1, <2>1, <2>2
<1>6. \A p \in w.alive : Shared(b, p)'
  BY <1>1, <1>2, <1>4
<1> QED
  BY <1>0, <1>1, <1>3, <1>5, <1>6 DEF BulkSound

\* Nobody else claims the keys of an import, or changes its projects.
LEMMA ImportStays ==
  ASSUME Held, NEW b \in Attempts, Keeps(b)
  PROVE  ImportSound(b)'
<1> SUFFICES ASSUME Is(b, "import", "row")
             PROVE  ImportSound(b)'
  BY DEF ImportSound, Keeps, Req, Is
<1> DEFINE w == tx[b].work
<1>0. tx'[b].work = w /\ Stays(b) /\ tx[b].locks \subseteq tx'[b].locks
  BY DEF Keeps
<1>1. /\ w = [todo |-> w.todo, made |-> w.made, kept |-> w.kept, plan |-> w.plan]
      /\ w.made \in SUBSET Owns /\ w.kept \in SUBSET Owns
      /\ w.todo \in Seq([reg : Registrations, action : {"create", "update"},
                         project : Projects \cup {None}])
      /\ \A i \in 1..Len(w.todo) : w.todo[i].reg \in DOMAIN w.plan
      /\ \A i \in 1..Len(w.todo) : w.todo[i].action = "update" => w.todo[i].project # None
      /\ \A s, t \in w.made \cup w.kept : s.reg = t.reg => s = t
      /\ \A s, t \in w.made : s.project = t.project => s = t
  BY DEF Held, WorkSound, ImportSound
<1>2. /\ \A t \in w.made : /\ ProjectRow(t.project) \in tx[b].locks
                           /\ db.project[t.project].state = "absent" /\ KeyIsOurs(b, t.reg)
      /\ \A t \in w.kept : /\ ProjectRow(t.project) \in tx[b].locks
                           /\ db.project[t.project].state = "live" /\ KeyIsOurs(b, t.reg)
  BY DEF Held, WorkSound, ImportSound
<1>3. \A t \in Owns : t.project \in Projects /\ t.reg \in Registrations
  BY DEF Owns
<1> HIDE DEF w
<1>4. \A g \in Registrations : KeyIsOurs(b, g) => KeyIsOurs(b, g)'
  BY <1>0 DEF KeyIsOurs, Stays
<1>5. \A p \in Projects : ProjectRow(p) \in tx[b].locks =>
        ProjectRow(p) \in tx'[b].locks /\ db'.project[p] = db.project[p]
  BY <1>0 DEF Stays
<1>6. \A t \in w.made : /\ ProjectRow(t.project) \in tx'[b].locks
                        /\ db'.project[t.project].state = "absent" /\ KeyIsOurs(b, t.reg)'
  BY <1>1, <1>2, <1>3, <1>4, <1>5
<1>7. \A t \in w.kept : /\ ProjectRow(t.project) \in tx'[b].locks
                        /\ db'.project[t.project].state = "live" /\ KeyIsOurs(b, t.reg)'
  BY <1>1, <1>2, <1>3, <1>4, <1>5
<1> QED
  BY <1>0, <1>1, <1>6, <1>7 DEF ImportSound

\* What an attempt knows stays true while others commit.
LEMMA WorkStays ==
  ASSUME Held, NEW b \in Attempts, Keeps(b)
  PROVE  WorkSound(b)'
  BY ClaimStays, SubmitStays, LinkStays, InboxStays, BulkStays, ImportStays DEF WorkSound

-----------------------------------------------------------------------------
(* Each statement, by the transaction that runs it. *)

\* Going on to the next statement keeps the claim.
LEMMA ClaimGoes ==
  ASSUME Held, NEW a \in Attempts, tx[a].pc \in Busy, NEW pc, NEW locks, NEW shares, NEW work,
         NEW reply, Turns(a, pc, locks, shares, work, reply), tx[a].locks \subseteq locks,
         db' = db, request' = request
  PROVE  ClaimSound(a)'
  BY DEF Held, WorkSound, ClaimSound, Turns, Req

\* An attempt that takes a row knows what it knew.
LEMMA TakingSound ==
  ASSUME Held, NEW a \in Attempts, Taking(a), db' = db, request' = request
  PROVE  WorkSound(a)'
<1>1. Stays(a)
  BY DEF Stays
<1>2. Keeps(a)
  BY <1>1 DEF Keeps, Taking, Turns
<1> QED
  BY <1>2, WorkStays

\* An attempt that claims its key finds no answer under it.
LEMMA ClaimingSound ==
  ASSUME Held, NEW a \in Attempts, Claiming(a), db' = db, request' = request
  PROVE  WorkSound(a)'
<1>1. tx'[a].pc = "start" /\ tx'[a].locks = {ClaimRow(a[1])}
  BY DEF Claiming, Turns
<1>2. ClaimSound(a)'
  BY <1>1 DEF ClaimSound, Claiming, Replays, Req
<1> QED
  BY <1>1, <1>2, StartIsSound

\* An attempt that is over need not know anything.
LEMMA EndingSound ==
  ASSUME NEW a \in Attempts, Ending(a)
  PROVE  WorkSound(a)'
<1>1. tx'[a].pc \in Idle
  BY DEF Ending, Turns, Idle
<1> QED
  BY <1>1, IdleIsSound

\* The same after a commit.
LEMMA WritingSound ==
  ASSUME NEW a \in Attempts, Writes(a)
  PROVE  WorkSound(a)'
  BY WritesShape, EndingSound DEF Ending

\* The same for an attempt that starts again, fails or dies.
LEMMA DroppingSound ==
  ASSUME NEW a \in Attempts, Drops(a)
  PROVE  WorkSound(a)'
<1>1. tx'[a].pc \in Idle
  BY DEF Drops, Turns, Idle
<1> QED
  BY <1>1, IdleIsSound

\* A send without a key has no claim to hold.
LEMMA BeginningSound ==
  ASSUME NEW a \in Attempts, Begins(a)
  PROVE  WorkSound(a)'
<1>1. CASE Keyed(request'[a[1]].op)
  <2>1. tx'[a].pc \in Idle
    BY <1>1 DEF Begins, Turns, Idle
  <2> QED
    BY <2>1, IdleIsSound
<1>2. CASE ~Keyed(request'[a[1]].op)
  <2>1. tx'[a].pc = "start"
    BY <1>2 DEF Begins, Turns
  <2>2. ClaimSound(a)'
    BY <1>2 DEF ClaimSound, Req
  <2> QED
    BY <2>1, <2>2, StartIsSound
<1> QED
  BY <1>1, <1>2

\* A booking that goes on is allowed.
LEMMA CheckProjectSound ==
  ASSUME Held, NEW a \in Attempts, CheckProject(a)
  PROVE  WorkSound(a)'
<1>0. Shaped
  BY DEF Held
<1>1. CASE Req(a).may /\ Continue(a, "slot", <<>>)
  <2>1. /\ Turns(a, "slot", tx[a].locks, tx[a].shares, <<>>, tx[a].reply)
        /\ db' = db /\ request' = request
    BY <1>0, <1>1, ContinueEffect
  <2>2. Req(a).op = "book" /\ tx[a].pc \in Busy
    BY DEF CheckProject, Is, Busy
  <2>3. ClaimSound(a)'
    BY <2>1, <2>2, ClaimGoes
  <2>4. BookSound(a)'
    BY <1>1, <2>1 DEF BookSound, Req
  <2> QED
    BY <2>1, <2>2, <2>3, <2>4, OtherOps DEF WorkSound
<1>2. CASE GiveUp(a, Refused)
  BY <1>0, <1>2, GiveUpEffect, EndingSound DEF Ending
<1> QED
  BY <1>1, <1>2 DEF CheckProject

\* A submission that goes on holds an editable checklist and a new project.
LEMMA SubmitBeginSound ==
  ASSUME Held, NEW a \in Attempts, SubmitBegin(a)
  PROVE  WorkSound(a)'
<1>0. Shaped
  BY DEF Held
<1> DEFINE r == Req(a)  pc == IF r.slot = None THEN "tell" ELSE "slot"
<1>1. ASSUME NEW p \in Projects, NextId(p), r.may, Editable(r),
             Goes(a, pc, tx[a].locks \cup {ProjectRow(p)}, p)
      PROVE  WorkSound(a)'
  <2>1. Is(a, "submit", "start") /\ Holds(a)
    BY DEF SubmitBegin
  <2>2. r.op = "submit" /\ tx[a].pc \in Busy
    BY <2>1 DEF Is, Busy
  <2>3. r.checklist # None
    BY <2>2, RequestIs DEF IsMeant
  <2>4. ChecklistRow(r.checklist) \in tx[a].locks
    BY <2>1, <2>3 DEF Holds, BookingNeeds, Is
  <2>5. pc \in {"tell", "slot"} /\ (pc = "slot" => r.slot # None) /\ (pc = "tell" => r.slot = None)
    OBVIOUS
  <2> HIDE DEF pc
  <2>6. /\ Turns(a, pc, tx[a].locks \cup {ProjectRow(p)}, tx[a].shares, p, tx[a].reply)
        /\ db' = db /\ request' = request
    BY <1>0, <1>1, GoesEffect
  <2>7. ClaimSound(a)'
    BY <2>2, <2>6, ClaimGoes
  <2>8. SubmitSound(a)'
    <3>1. tx'[a].pc = pc /\ tx'[a].work = p /\ tx'[a].locks = tx[a].locks \cup {ProjectRow(p)} /\ Req(a)' = r
      BY <2>6 DEF Turns, Req
    <3>2. db'.project[p].state = "absent"
      BY <1>1, <2>6 DEF NextId, Unused
    <3> QED
      BY <1>1, <2>4, <2>5, <2>6, <3>1, <3>2 DEF SubmitSound, Editable
  <2> QED
    BY <2>2, <2>6, <2>7, <2>8, OtherOps DEF WorkSound
<1>2. CASE GiveUp(a, Refused) \/ GiveUp(a, Conflict)
  BY <1>0, <1>2, GiveUpEffect, EndingSound DEF Ending
<1> QED
  BY <1>1, <1>2 DEF SubmitBegin

\* A submission that goes on holds a slot it can book.
LEMMA SubmitSlotSound ==
  ASSUME Held, NEW a \in Attempts, SubmitSlot(a)
  PROVE  WorkSound(a)'
<1>0. Shaped
  BY DEF Held
<1> DEFINE r == Req(a)
<1>1. CASE Bookable(r.slot, r.slotBase) /\ Continue(a, "tell", tx[a].work)
  <2>1. Is(a, "submit", "slot") /\ Holds(a)
    BY DEF SubmitSlot
  <2>2. r.op = "submit" /\ tx[a].pc \in Busy
    BY <2>1 DEF Is, Busy
  <2>3. SlotRow(r.slot) \in tx[a].locks
    BY <2>1 DEF Holds, BookingNeeds, Is
  <2>4. /\ Turns(a, "tell", tx[a].locks, tx[a].shares, tx[a].work, tx[a].reply)
        /\ db' = db /\ request' = request
    BY <1>0, <1>1, ContinueEffect
  <2>5. ClaimSound(a)'
    BY <2>2, <2>4, ClaimGoes
  <2>6. SubmitSound(a)'
    <3>1. SubmitSound(a)
      BY DEF Held, WorkSound
    <3>2. tx'[a].pc = "tell" /\ tx'[a].work = tx[a].work /\ tx'[a].locks = tx[a].locks /\ Req(a)' = r
      BY <2>4 DEF Turns, Req
    <3> QED
      BY <1>1, <2>1, <2>3, <2>4, <3>1, <3>2 DEF SubmitSound, Editable, Bookable, Is
  <2> QED
    BY <2>2, <2>4, <2>5, <2>6, OtherOps DEF WorkSound
<1>2. CASE GiveUp(a, Conflict)
  BY <1>0, <1>2, GiveUpEffect, EndingSound DEF Ending
<1> QED
  BY <1>1, <1>2 DEF SubmitSlot, SlotGone

\* A link by hand that goes on holds a project that is there.
LEMMA LinkTargetSound ==
  ASSUME Held, NEW a \in Attempts, LinkTarget(a)
  PROVE  WorkSound(a)'
<1>0. Shaped
  BY DEF Held
<1> DEFINE r == Req(a)
<1>1. CASE (r.project # None => db.project[r.project].state = "live") /\ Continue(a, "report", <<>>)
  <2>1. Is(a, "setLink", "start") /\ Locked(a)
    BY DEF LinkTarget
  <2>2. r.op = "setLink" /\ tx[a].pc \in Busy
    BY <2>1 DEF Is, Busy
  <2>3. r.project # None => ProjectRow(r.project) \in tx[a].locks
    BY <2>1 DEF Locked, LinkNeeds, SharesLock, TargetFirst, Is
  <2>4. /\ Turns(a, "report", tx[a].locks, tx[a].shares, <<>>, tx[a].reply)
        /\ db' = db /\ request' = request
    BY <1>0, <1>1, ContinueEffect
  <2>5. ClaimSound(a)'
    BY <2>2, <2>4, ClaimGoes
  <2>6. LinkSound(a)'
    <3>1. tx'[a].locks = tx[a].locks /\ Req(a)' = r
      BY <2>4 DEF Turns, Req
    <3> QED
      BY <1>1, <2>3, <2>4, <3>1 DEF LinkSound
  <2> QED
    BY <2>2, <2>4, <2>5, <2>6, OtherOps DEF WorkSound
<1>2. CASE GiveUp(a, Refused)
  BY <1>0, <1>2, GiveUpEffect, EndingSound DEF Ending
<1> QED
  BY <1>1, <1>2 DEF LinkTarget

\* A deletion that goes on holds a project that is there.
LEMMA DeleteBeginSound ==
  ASSUME Held, NEW a \in Attempts, DeleteBegin(a)
  PROVE  WorkSound(a)'
<1>0. Shaped
  BY DEF Held
<1> DEFINE r == Req(a)
<1>1. CASE r.may /\ db.project[r.project].state = "live" /\ Continue(a, "tell", <<>>)
  <2>1. Is(a, "delete", "start") /\ Locked(a)
    BY DEF DeleteBegin
  <2>2. r.op = "delete" /\ tx[a].pc \in Busy
    BY <2>1 DEF Is, Busy
  <2>3. ProjectRow(r.project) \in tx[a].locks
    BY <2>1 DEF Locked, LinkNeeds, SharesLock, Is
  <2>4. /\ Turns(a, "tell", tx[a].locks, tx[a].shares, <<>>, tx[a].reply)
        /\ db' = db /\ request' = request
    BY <1>0, <1>1, ContinueEffect
  <2>5. ClaimSound(a)'
    BY <2>2, <2>4, ClaimGoes
  <2>6. DeleteSound(a)'
    <3>1. tx'[a].locks = tx[a].locks /\ Req(a)' = r
      BY <2>4 DEF Turns, Req
    <3> QED
      BY <1>1, <2>3, <2>4, <3>1 DEF DeleteSound
  <2> QED
    BY <2>2, <2>4, <2>5, <2>6, OtherOps DEF WorkSound
<1>2. CASE GiveUp(a, Refused)
  BY <1>0, <1>2, GiveUpEffect, EndingSound DEF Ending
<1> QED
  BY <1>1, <1>2 DEF DeleteBegin

\* It still does when its notifications are counted.
LEMMA DeleteTellSound ==
  ASSUME Held, NEW a \in Attempts, DeleteTell(a)
  PROVE  WorkSound(a)'
<1>1. Is(a, "delete", "tell")
  BY DEF DeleteTell
<1>2. Req(a).op = "delete" /\ tx[a].pc \in Busy
  BY <1>1 DEF Is, Busy
<1>3. /\ Turns(a, "reports", tx[a].locks, tx[a].shares, <<>>, tx[a].reply)
      /\ db' = db /\ request' = request
  BY ContinueEffect DEF DeleteTell, Held
<1>4. ClaimSound(a)'
  BY <1>2, <1>3, ClaimGoes
<1>5. DeleteSound(a)'
  <2>1. tx'[a].locks = tx[a].locks /\ Req(a)' = Req(a)
    BY <1>3 DEF Turns, Req
  <2> QED
    BY <1>1, <1>3, <2>1 DEF Held, WorkSound, DeleteSound, Is
<1> QED
  BY <1>2, <1>3, <1>4, <1>5, OtherOps DEF WorkSound

\* What a bulk run reads is what it may link: one live project for a report without a link.
LEMMA PlanIsOpen ==
  ASSUME Held
  PROVE  Plan \subseteq Finds /\ \A t \in Plan : StillOpen(t)
<1> SUFFICES ASSUME NEW t \in Plan PROVE t \in Finds /\ StillOpen(t)
  OBVIOUS
<1>1. PICK r \in Unique : t = [report |-> r, version |-> db.report[r].version,
                               project |-> CHOOSE p \in LiveMatches(r) : TRUE]
  BY DEF Plan
<1>2. r \in Reports /\ Unlinked(r) /\ Cardinality(LiveMatches(r)) = 1
  BY DEF Unique
<1>3. LiveMatches(r) # {}
  BY <1>2, FS_EmptySet
<1>4. LiveMatches(r) \subseteq Projects
  BY <1>2, LinksAssumption DEF LiveMatches
<1>5. (CHOOSE p \in LiveMatches(r) : TRUE) \in Projects
  BY <1>3, <1>4
<1>6. db.report[r].version \in Nat
  BY <1>2 DEF Held, Tables
<1>7. t \in Finds
  BY <1>1, <1>2, <1>5, <1>6 DEF Finds
<1>8. t.report = r /\ t.version = db.report[r].version
  BY <1>1
<1> QED
  BY <1>2, <1>6, <1>7, <1>8 DEF StillOpen, Unlinked

\* The next chunk is of what there was to do, and is without shared projects yet.
LEMMA NextPartIs ==
  ASSUME NEW todo, NEW set
  PROVE  /\ NextPart(todo, set) = [part |-> NextPart(todo, set).part, alive |-> {},
                                   todo |-> NextPart(todo, set).todo, set |-> set]
         /\ NextPart(todo, set).part \subseteq todo /\ NextPart(todo, set).todo \subseteq todo
  BY DEF NextPart

\* A bulk run that goes on with this work.
LEMMA BulkGoes ==
  ASSUME Held, NEW a \in Attempts, tx[a].pc \in Busy, Req(a).op = "autoLink",
         NEW pc \in {"share", "set"}, NEW w \in BulkWork, Continue(a, pc, w),
         \A t \in w.part \cup w.todo : StillOpen(t),
         \A p \in w.alive : Shared(a, p),
         \A t \in w.set : /\ Shared(a, t.project) /\ ReportRow(t.report) \in tx[a].locks
                          /\ db.report[t.report].source = "none"
  PROVE  WorkSound(a)'
<1>1. /\ Turns(a, pc, tx[a].locks, tx[a].shares, w, tx[a].reply)
      /\ db' = db /\ request' = request
  BY ContinueEffect DEF Held
<1>2. tx'[a].work = w /\ tx'[a].locks = tx[a].locks /\ tx'[a].shares = tx[a].shares
  BY <1>1 DEF Turns
<1>3. ClaimSound(a)'
  BY <1>1, ClaimGoes
<1>4. BulkSound(a)'
  <2>1. \A t \in w.part \cup w.todo : StillOpen(t)'
    BY <1>1 DEF StillOpen, Unchanged
  <2>2. \A p : Shared(a, p) => Shared(a, p)'
    BY <1>1, <1>2 DEF Shared
  <2>3. \A t \in w.set : /\ Shared(a, t.project)' /\ ReportRow(t.report) \in tx'[a].locks
                         /\ db'.report[t.report].source = "none"
    BY <1>1, <1>2, <2>2
  <2>4. \A p \in w.alive : Shared(a, p)'
    BY <2>2
  <2> QED
    BY <1>2, <2>1, <2>3, <2>4 DEF BulkSound
<1> QED
  BY <1>1, <1>3, <1>4, OtherOps DEF WorkSound

\* What a bulk run reads is open at the version it reads.
LEMMA AutoReadSound ==
  ASSUME Held, NEW a \in Attempts, AutoRead(a)
  PROVE  WorkSound(a)'
<1> DEFINE w == NextPart(Plan, {})
<1>1. tx[a].pc \in Busy /\ Req(a).op = "autoLink"
  BY DEF AutoRead, Is, Busy
<1>2. /\ w = [part |-> w.part, alive |-> {}, todo |-> w.todo, set |-> {}]
      /\ w.part \subseteq Plan /\ w.todo \subseteq Plan
  BY NextPartIs
<1>3. Continue(a, "share", w)
  BY DEF AutoRead
<1> HIDE DEF w
<1>4. w \in BulkWork
  BY <1>2, PlanIsOpen DEF BulkWork
<1>5. w.alive = {} /\ w.set = {}
  BY <1>2
<1>6. \A t \in w.part \cup w.todo : StillOpen(t)
  BY <1>2, PlanIsOpen
<1> QED
  BY <1>1, <1>3, <1>4, <1>5, <1>6, BulkGoes

\* What a bulk run knows at each of its statements.
LEMMA BulkIs ==
  ASSUME Held, NEW a \in Attempts, tx[a].pc \in {"share", "set"}, Req(a).op = "autoLink"
  PROVE  LET w == tx[a].work IN
         /\ w \in BulkWork
         /\ \A t \in w.part \cup w.todo : StillOpen(t)
         /\ \A p \in w.alive : Shared(a, p)
         /\ \A t \in w.set : /\ Shared(a, t.project) /\ ReportRow(t.report) \in tx[a].locks
                             /\ db.report[t.report].source = "none"
  BY DEF Held, WorkSound, BulkSound

\* The projects of a chunk that are alive stay so under their shared locks.
LEMMA AutoShareSound ==
  ASSUME Held, NEW a \in Attempts, AutoShare(a)
  PROVE  WorkSound(a)'
<1> DEFINE w == tx[a].work
           v == [part |-> w.part, alive |-> Alive(w.part), todo |-> w.todo, set |-> w.set]
<1>1. Is(a, "autoLink", "share") /\ Locked(a) /\ Continue(a, "set", v)
  BY DEF AutoShare
<1>2. tx[a].pc \in Busy /\ Req(a).op = "autoLink" /\ tx[a].pc = "share"
  BY <1>1 DEF Is, Busy
<1>3. /\ w \in BulkWork
      /\ \A t \in w.part \cup w.todo : StillOpen(t)
      /\ \A t \in w.set : /\ Shared(a, t.project) /\ ReportRow(t.report) \in tx[a].locks
                          /\ db.report[t.report].source = "none"
  BY <1>2, BulkIs
<1>4. \A p \in Alive(w.part) : p \in Projects /\ db.project[p].state = "live"
  BY <1>3 DEF Alive, Projected, BulkWork, Finds
<1>5. \A p \in Alive(w.part) : Shared(a, p)
  BY <1>1, <1>4 DEF Locked, LinkNeeds, SharesLock, Is, Shared
<1>6. v \in BulkWork
  BY <1>3, <1>4 DEF BulkWork
<1>7. v.part = w.part /\ v.todo = w.todo /\ v.alive = Alive(w.part) /\ v.set = w.set
  OBVIOUS
<1> HIDE DEF v, w
<1> QED
  BY <1>1, <1>2, <1>3, <1>5, <1>6, <1>7, BulkGoes

\* A report that a bulk run takes up is unlinked, and held.
LEMMA AutoSetSound ==
  ASSUME Held, NEW a \in Attempts, AutoSet(a)
  PROVE  WorkSound(a)'
<1> DEFINE w == tx[a].work
<1>1. Is(a, "autoLink", "set") /\ Locked(a)
  BY DEF AutoSet
<1>2. tx[a].pc \in Busy /\ Req(a).op = "autoLink" /\ tx[a].pc = "set"
  BY <1>1 DEF Is, Busy
<1>3. /\ w \in BulkWork
      /\ \A t \in w.part \cup w.todo : StillOpen(t)
      /\ \A p \in w.alive : Shared(a, p)
      /\ \A t \in w.set : /\ Shared(a, t.project) /\ ReportRow(t.report) \in tx[a].locks
                          /\ db.report[t.report].source = "none"
  BY <1>2, BulkIs
<1>4. PICK t \in w.part :
        /\ IsFirst(w.part, t)
        /\ Continue(a, "set", [part |-> w.part \ {t}, alive |-> w.alive, todo |-> w.todo,
                               set |-> IF t.project \in w.alive /\ Unchanged(t)
                                       THEN w.set \cup {t} ELSE w.set])
  BY DEF AutoSet
<1> DEFINE set == IF t.project \in w.alive /\ Unchanged(t) THEN w.set \cup {t} ELSE w.set
           v == [part |-> w.part \ {t}, alive |-> w.alive, todo |-> w.todo, set |-> set]
<1>5. t \in Finds
  BY <1>3 DEF BulkWork
<1>6. t.project \in w.alive => ReportRow(t.report) \in tx[a].locks
  BY <1>1, <1>4 DEF Locked, LinkNeeds, SharesLock, Is
<1>7. \A s \in set : /\ Shared(a, s.project) /\ ReportRow(s.report) \in tx[a].locks
                     /\ db.report[s.report].source = "none"
  BY <1>3, <1>6 DEF StillOpen
<1>8. set \subseteq Finds
  BY <1>3, <1>5 DEF BulkWork
<1>9. Continue(a, "set", v)
  BY <1>4
<1> HIDE DEF set
<1>10. v \in BulkWork
  BY <1>3, <1>8 DEF BulkWork
<1>11. v.part = w.part \ {t} /\ v.todo = w.todo /\ v.alive = w.alive /\ v.set = set
  OBVIOUS
<1>12. \A s \in v.part \cup v.todo : StillOpen(s)
  BY <1>3, <1>11
<1> HIDE DEF v, w
<1> QED
  BY <1>2, <1>3, <1>7, <1>9, <1>10, <1>11, <1>12, BulkGoes

\* The next chunk is as open as it was.
LEMMA AutoNextSound ==
  ASSUME Held, NEW a \in Attempts, AutoNext(a)
  PROVE  WorkSound(a)'
<1> DEFINE w == tx[a].work  v == NextPart(w.todo, w.set)
<1>1. tx[a].pc = "set" /\ tx[a].pc \in Busy /\ Req(a).op = "autoLink"
  BY DEF AutoNext, Is, Busy
<1>2. /\ w \in BulkWork
      /\ \A t \in w.part \cup w.todo : StillOpen(t)
      /\ \A t \in w.set : /\ Shared(a, t.project) /\ ReportRow(t.report) \in tx[a].locks
                          /\ db.report[t.report].source = "none"
  BY <1>1, BulkIs
<1>3. /\ v = [part |-> v.part, alive |-> {}, todo |-> v.todo, set |-> w.set]
      /\ v.part \subseteq w.todo /\ v.todo \subseteq w.todo
  BY NextPartIs
<1>4. Continue(a, "share", v)
  BY DEF AutoNext
<1> HIDE DEF v
<1>5. v \in BulkWork
  BY <1>2, <1>3 DEF BulkWork
<1>6. v.alive = {} /\ v.set = w.set
  BY <1>3
<1>7. \A t \in v.part \cup v.todo : StillOpen(t)
  BY <1>2, <1>3
<1> HIDE DEF w
<1> QED
  BY <1>1, <1>2, <1>4, <1>5, <1>6, <1>7, BulkGoes

\* What an import knows, given its work and its locks.
KeyFree(g, locks) == KeyRow(g) \in locks /\ db.key[g] = None
Rows == [reg : Registrations, action : {"create", "update"}, project : Projects \cup {None}]

RowsSound(w, locks) ==
  /\ w = [todo |-> w.todo, made |-> w.made, kept |-> w.kept, plan |-> w.plan]
  /\ w.made \in SUBSET Owns /\ w.kept \in SUBSET Owns
  /\ w.todo \in Seq(Rows)
  /\ \A i \in 1..Len(w.todo) : w.todo[i].reg \in DOMAIN w.plan
  /\ \A i \in 1..Len(w.todo) : w.todo[i].action = "update" => w.todo[i].project # None
  /\ \A t \in w.made : /\ ProjectRow(t.project) \in locks
                       /\ db.project[t.project].state = "absent" /\ KeyFree(t.reg, locks)
  /\ \A t \in w.kept : /\ ProjectRow(t.project) \in locks
                       /\ db.project[t.project].state = "live" /\ KeyFree(t.reg, locks)
  /\ \A s, t \in w.made \cup w.kept : s.reg = t.reg => s = t
  /\ \A s, t \in w.made : s.project = t.project => s = t

\* What an import knows while it is at its rows.
LEMMA RowsAre ==
  ASSUME Held, NEW a \in Attempts, Is(a, "import", "row")
  PROVE  RowsSound(tx[a].work, tx[a].locks)
  BY DEF Held, WorkSound, ImportSound, RowsSound, KeyIsOurs, KeyFree, Rows

\* An import that goes on with sound rows knows what it has to.
LEMMA ImportGoes ==
  ASSUME Held, NEW a \in Attempts, tx[a].pc \in Busy, Req(a).op = "import",
         NEW locks, tx[a].locks \subseteq locks, NEW w, RowsSound(w, locks),
         Goes(a, "row", locks, w)
  PROVE  WorkSound(a)'
<1>1. /\ Turns(a, "row", locks, tx[a].shares, w, tx[a].reply)
      /\ db' = db /\ request' = request
  BY GoesEffect DEF Held
<1>2. ClaimSound(a)'
  BY <1>1, ClaimGoes
<1>3. ImportSound(a)'
  BY <1>1 DEF ImportSound, RowsSound, KeyIsOurs, KeyFree, Turns, Rows
<1> QED
  BY <1>1, <1>2, <1>3, OtherOps DEF WorkSound

\* An import that has planned has made nothing yet.
LEMMA ImportPlanSound ==
  ASSUME Held, NEW a \in Attempts, ImportPlan(a)
  PROVE  WorkSound(a)'
<1> DEFINE rows == Req(a).rows
           plan == [g \in {rows[i].reg : i \in 1..Len(rows)} |-> OwnersOf(g)]
           w == [todo |-> rows, made |-> {}, kept |-> {}, plan |-> plan]
<1>1. tx[a].pc \in Busy /\ Req(a).op = "import"
  BY DEF ImportPlan, Is, Busy
<1>2. Goes(a, "row", tx[a].locks, w)
  BY DEF ImportPlan, Continue
<1>3. /\ rows \in Seq(Rows)
      /\ \A i \in 1..Len(rows) : rows[i].action = "update" => rows[i].project # None
  BY <1>1, RequestIs DEF IsMeant, Requests, Rows
<1>4. \A i \in 1..Len(rows) : rows[i].reg \in DOMAIN plan
  OBVIOUS
<1> HIDE DEF rows, plan
<1>5. w.todo = rows /\ w.made = {} /\ w.kept = {} /\ w.plan = plan
  OBVIOUS
<1>6. RowsSound(w, tx[a].locks)
  BY <1>3, <1>4, <1>5 DEF RowsSound
<1> QED
  BY <1>1, <1>2, <1>6, ImportGoes

\* Done with a row, an import goes on with the rest.
LEMMA NextRowSound ==
  ASSUME Held, NEW a \in Attempts, Is(a, "import", "row"), tx[a].work.todo # <<>>,
         NEW locks, tx[a].locks \subseteq locks,
         NEW made \in SUBSET Owns, NEW kept \in SUBSET Owns,
         \A t \in made : /\ ProjectRow(t.project) \in locks \ tx[a].locks
                         /\ db.project[t.project].state = "absent",
         \A t \in kept : /\ ProjectRow(t.project) \in locks
                         /\ db.project[t.project].state = "live",
         \A t \in made \cup kept : KeyRow(t.reg) \in locks /\ ~Known(a, t.reg),
         \A s, t \in made \cup kept : s = t,
         Goes(a, "row", locks, NextRow(a, made, kept))
  PROVE  WorkSound(a)'
<1> DEFINE w == tx[a].work  v == NextRow(a, made, kept)
<1>1. tx[a].pc \in Busy /\ Req(a).op = "import"
  BY DEF Is, Busy
<1>2. RowsSound(w, tx[a].locks)
  BY RowsAre
<1>3. /\ v = [todo |-> v.todo, made |-> v.made, kept |-> v.kept, plan |-> v.plan]
      /\ v.todo = Tail(w.todo) /\ v.made = w.made \cup made /\ v.kept = w.kept \cup kept
      /\ v.plan = w.plan
  BY DEF NextRow
<1>4. \A t \in made \cup kept : KeyFree(t.reg, locks) /\ \A s \in w.made \cup w.kept : s.reg # t.reg
  BY DEF Known, KeyFree
<1> HIDE DEF v, w
<1>5. \A g : KeyFree(g, tx[a].locks) => KeyFree(g, locks)
  BY DEF KeyFree
<1>6. w.todo \in Seq(Rows) /\ w.todo # <<>>
  BY <1>2 DEF RowsSound, w
<1>7. v.todo \in Seq(Rows) /\ Len(v.todo) = Len(w.todo) - 1 /\ \A i \in 1..Len(v.todo) : v.todo[i] = w.todo[i + 1]
  BY <1>3, <1>6
<1>8. /\ \A i \in 1..Len(v.todo) : v.todo[i].reg \in DOMAIN v.plan
      /\ \A i \in 1..Len(v.todo) : v.todo[i].action = "update" => v.todo[i].project # None
  <2> SUFFICES ASSUME NEW i \in 1..Len(v.todo)
               PROVE  /\ v.todo[i].reg \in DOMAIN v.plan
                      /\ v.todo[i].action = "update" => v.todo[i].project # None
    OBVIOUS
  <2>1. i + 1 \in 1..Len(w.todo)
    BY <1>6, <1>7
  <2> QED
    BY <1>2, <1>3, <1>7, <2>1 DEF RowsSound
<1>9. /\ v.made \in SUBSET Owns /\ v.kept \in SUBSET Owns
  BY <1>2, <1>3 DEF RowsSound
<1>10. \A t \in v.made : /\ ProjectRow(t.project) \in locks
                         /\ db.project[t.project].state = "absent" /\ KeyFree(t.reg, locks)
  BY <1>2, <1>3, <1>4, <1>5 DEF RowsSound
<1>11. \A t \in v.kept : /\ ProjectRow(t.project) \in locks
                         /\ db.project[t.project].state = "live" /\ KeyFree(t.reg, locks)
  BY <1>2, <1>3, <1>4, <1>5 DEF RowsSound
<1>12. \A s, t \in v.made \cup v.kept : s.reg = t.reg => s = t
  <2>1. \A s, t \in w.made \cup w.kept : s.reg = t.reg => s = t
    BY <1>2 DEF RowsSound
  <2>2. v.made \cup v.kept = (w.made \cup w.kept) \cup (made \cup kept)
    BY <1>3
  <2> QED
    BY <1>4, <2>1, <2>2
<1>13. \A s, t \in v.made : s.project = t.project => s = t
  <2>1. \A s, t \in w.made : s.project = t.project => s = t
    BY <1>2 DEF RowsSound
  <2>2. \A s \in w.made : \A t \in made : s.project # t.project
    BY <1>2 DEF RowsSound
  <2> QED
    BY <1>3, <2>1, <2>2
<1>14. RowsSound(v, locks)
  BY <1>3, <1>7, <1>8, <1>9, <1>10, <1>11, <1>12, <1>13 DEF RowsSound
<1> QED
  BY <1>1, <1>14, ImportGoes DEF v

\* The row of an import is one of its request.
LEMMA RowIs ==
  ASSUME Held, NEW a \in Attempts, Is(a, "import", "row"), tx[a].work.todo # <<>>
  PROVE  /\ ImportRow(a) \in Rows /\ ImportRow(a).reg \in DOMAIN tx[a].work.plan
         /\ ImportRow(a).action = "update" => ImportRow(a).project \in Projects
<1> DEFINE todo == tx[a].work.todo
<1>1. /\ todo \in Seq(Rows) /\ \A i \in 1..Len(todo) : todo[i].reg \in DOMAIN tx[a].work.plan
      /\ \A i \in 1..Len(todo) : todo[i].action = "update" => todo[i].project # None
  BY RowsAre DEF RowsSound
<1>2. 1 \in 1..Len(todo) /\ ImportRow(a) = todo[1]
  BY <1>1 DEF ImportRow
<1>3. todo[1] \in Rows
  BY <1>1, <1>2
<1> QED
  BY <1>1, <1>2, <1>3 DEF Rows

\* A row that is left out changes nothing.
LEMMA ImportExistsSound ==
  ASSUME Held, NEW a \in Attempts, ImportExists(a)
  PROVE  WorkSound(a)'
<1>1. Is(a, "import", "row") /\ tx[a].work.todo # <<>>
  BY DEF ImportExists, AtRow
<1>2. Goes(a, "row", tx[a].locks, NextRow(a, {}, {}))
  BY DEF ImportExists, Continue
<1> QED
  BY <1>1, <1>2, NextRowSound

\* A project is made under a key that nobody has.
LEMMA ImportCreateSound ==
  ASSUME Held, NEW a \in Attempts, a \in Running, ImportCreate(a)
  PROVE  WorkSound(a)'
<1> DEFINE g == ImportRow(a).reg
<1>1. Is(a, "import", "row") /\ tx[a].work.todo # <<>> /\ AtRow(a, "create") /\ Grips(a)
  BY DEF ImportCreate, AtRow
<1>2. g \in Registrations
  BY <1>1, RowIs DEF Rows
<1>3. KeyRow(g) \in tx[a].locks
  <2>1. IsNew(a) /\ ~AtRow(a, "update")
    BY <1>1 DEF ImportCreate, AtRow
  <2>2. ImportNeeds(a) = {KeyRow(g)}
    BY <1>1, <2>1 DEF ImportNeeds
  <2> QED
    BY <1>1, <2>2 DEF Grips
<1>4. PICK p \in Projects :
        /\ NextId(p)
        /\ Goes(a, "row", tx[a].locks \cup {ProjectRow(p)}, NextRow(a, {[reg |-> g, project |-> p]}, {}))
  BY DEF ImportCreate
<1>5. db.project[p].state = "absent" /\ ProjectRow(p) \notin tx[a].locks
  BY <1>4 DEF NextId, Unused
<1>6. ~Known(a, g)
  BY DEF ImportCreate
<1> HIDE DEF g
<1>7. [reg |-> g, project |-> p] \in Owns
  BY <1>2 DEF Owns
<1> QED
  BY <1>1, <1>3, <1>4, <1>5, <1>6, <1>7, NextRowSound

\* A key is remembered for a project that is there.
LEMMA ImportUpdateSound ==
  ASSUME Held, NEW a \in Attempts, ImportUpdate(a)
  PROVE  WorkSound(a)'
<1> DEFINE row == ImportRow(a)  g == row.reg  p == row.project
<1>1. Is(a, "import", "row") /\ tx[a].work.todo # <<>> /\ AtRow(a, "update") /\ Grips(a)
  BY DEF ImportUpdate, AtRow
<1>2. g \in Registrations /\ p \in Projects
  BY <1>1, RowIs DEF Rows, AtRow
<1>3. CASE Goes(a, "row", tx[a].locks, NextRow(a, {}, {}))
  BY <1>1, <1>3, NextRowSound
<1>4. CASE /\ IsMatch(a) /\ db.project[p].state = "live" /\ ~Known(a, g)
           /\ Goes(a, "row", tx[a].locks, NextRow(a, {}, {[reg |-> g, project |-> p]}))
  <2>1. ProjectRow(p) \in tx[a].locks /\ KeyRow(g) \in tx[a].locks
    <3>1. ~(AtRow(a, "create") /\ IsNew(a))
      BY <1>1 DEF AtRow
    <3>2. ImportNeeds(a) = {ProjectRow(p)}
            \cup (IF ProjectRow(p) \in tx[a].locks /\ db.project[p].state = "live"
                  THEN {KeyRow(g)} ELSE {})
      BY <1>1, <1>4, <3>1 DEF ImportNeeds
    <3>3. ImportNeeds(a) \subseteq tx[a].locks
      BY <1>1 DEF Grips
    <3> QED
      BY <1>4, <3>2, <3>3
  <2> HIDE DEF row, g, p
  <2>2. [reg |-> g, project |-> p] \in Owns
    BY <1>2 DEF Owns
  <2> QED
    BY <1>1, <1>4, <2>1, <2>2, NextRowSound
<1> QED
  BY <1>3, <1>4 DEF ImportUpdate, Continue

\* What a statement of the inbox has read it has locked.
LEMMA InboxGoes ==
  ASSUME Held, NEW a \in Attempts, tx[a].pc \in Busy, Req(a).op \in {"read", "purge"},
         NEW pc \in {"rows", "count"}, NEW w, Continue(a, pc, w),
         pc = "count" =>
           /\ w \subseteq db.inbox /\ \A n \in w : NoteRow(n) \in tx[a].locks
           /\ Req(a).op = "read" => \A n \in w : ~n.read
  PROVE  WorkSound(a)'
<1>1. /\ Turns(a, pc, tx[a].locks, tx[a].shares, w, tx[a].reply)
      /\ db' = db /\ request' = request
  BY ContinueEffect DEF Held
<1>2. ClaimSound(a)'
  BY <1>1, ClaimGoes
<1>3. InboxSound(a)'
  BY <1>1 DEF InboxSound, Turns, Req
<1> QED
  BY <1>1, <1>2, <1>3, OtherOps DEF WorkSound

\* What is about to be marked as read is held and unread.
LEMMA ReadBeginSound ==
  ASSUME Held, NEW a \in Attempts, ReadBegin(a)
  PROVE  WorkSound(a)'
<1> DEFINE w == UnreadOf(db.inbox, Actor[a[1]])
<1>0. Shaped
  BY DEF Held
<1>1. Is(a, "read", "start") /\ Has(a)
  BY DEF ReadBegin
<1>2. CASE CommitUnkeyed(a, db)
  BY <1>0, <1>2, EndEffect, EndingSound DEF CommitUnkeyed, Ending
<1>3. CASE Continue(a, "count", w)
  <2>1. tx[a].pc \in Busy /\ Req(a).op = "read"
    BY <1>1 DEF Is, Busy
  <2>2. w \subseteq db.inbox /\ \A n \in w : ~n.read
    BY DEF UnreadOf
  <2>3. \A n \in w : NoteRow(n) \in tx[a].locks
    BY <1>1 DEF Has, InboxNeeds, Is
  <2> HIDE DEF w
  <2> QED
    BY <1>3, <2>1, <2>2, <2>3, InboxGoes
<1> QED
  BY <1>2, <1>3 DEF ReadBegin

\* A purge has chosen rows, and holds none.
LEMMA PurgeBeginSound ==
  ASSUME Held, NEW a \in Attempts, PurgeBegin(a)
  PROVE  WorkSound(a)'
<1>1. tx[a].pc \in Busy /\ Req(a).op = "purge"
  BY DEF PurgeBegin, Is, Busy
<1>2. PICK old \in SUBSET db.inbox : Continue(a, "rows", {NoteRow(n) : n \in old})
  BY DEF PurgeBegin
<1> DEFINE w == {NoteRow(n) : n \in old}
<1>3. Continue(a, "rows", w)
  BY <1>2
<1> HIDE DEF w
<1> QED
  BY <1>1, <1>3, InboxGoes

\* What is about to be purged is held.
LEMMA PurgeRowsSound ==
  ASSUME Held, NEW a \in Attempts, PurgeRows(a)
  PROVE  WorkSound(a)'
<1> DEFINE w == {n \in db.inbox : NoteRow(n) \in tx[a].work}
<1>0. Shaped
  BY DEF Held
<1>1. Is(a, "purge", "rows") /\ Has(a)
  BY DEF PurgeRows
<1>2. CASE CommitUnkeyed(a, db)
  BY <1>0, <1>2, EndEffect, EndingSound DEF CommitUnkeyed, Ending
<1>3. CASE Continue(a, "count", w)
  <2>1. tx[a].pc \in Busy /\ Req(a).op = "purge"
    BY <1>1 DEF Is, Busy
  <2>2. w \subseteq db.inbox
    OBVIOUS
  <2>3. \A n \in w : NoteRow(n) \in tx[a].locks
    BY <1>1 DEF Has, InboxNeeds, Is
  <2> HIDE DEF w
  <2> QED
    BY <1>3, <2>1, <2>2, <2>3, InboxGoes
<1> QED
  BY <1>2, <1>3 DEF PurgeRows

-----------------------------------------------------------------------------
(* The invariant. *)

\* Every step of the server leaves the transaction that takes it knowing what it should.
LEMMA ServerSound ==
  ASSUME Held, NEW a \in Attempts, Server(a)
  PROVE  WorkSound(a)'
<1>0. Shaped /\ a \in Running
  BY DEF Held, Server
<1>1. CASE Lock(a)
  <2>1. SharesLock(a) \in BOOLEAN
    BY DEF SharesLock, Is
  <2> QED
    BY <1>0, <1>1, <2>1, TakeEffect, TakingSound DEF Lock, Taking
<1>2. CASE TurnAway(a)
  BY <1>0, <1>2, GiveUpEffect, EndingSound DEF TurnAway, Ending
<1>3. CASE Claim(a)
  <2>1. CASE GiveUp(a, db.stored[a[1]])
    BY <1>0, <2>1, GiveUpEffect, EndingSound DEF Ending
  <2>2. CASE ~Replays(a[1]) /\ Goes(a, "start", {ClaimRow(a[1])}, <<>>)
    <3>1. Claiming(a) /\ db' = db /\ request' = request
      BY <1>0, <1>3, <2>2, GoesEffect DEF Claim, Claiming
    <3> QED
      BY <3>1, ClaimingSound
  <2> QED
    BY <1>3, <2>1, <2>2 DEF Claim
<1>4. CASE Book(a) \/ Release(a) \/ Save(a) \/ Submit(a)
  <2>1. Is(a, "book", "slot") /\ Holds(a) /\ Book(a) => Writes(a) \/ Ending(a)
    BY <1>0, BookEffect DEF Writes, Ending, Refuses, Ends
  <2>2. Is(a, "release", "start") /\ Holds(a) /\ Release(a) => Writes(a) \/ Ending(a)
    BY <1>0, ReleaseEffect DEF Writes, Ending, Refuses, Ends
  <2>3. Save(a) => Writes(a) \/ Ending(a)
    <3> SUFFICES ASSUME Save(a) PROVE Writes(a) \/ Ending(a)
      OBVIOUS
    <3>1. /\ Is(a, "save", "start") /\ Holds(a)
          /\ Req(a).checklist = None => \E c \in Checklists : db.checklist[c].status = "absent"
      BY DEF Save
    <3> QED
      BY <1>0, <3>1, SaveEffect DEF Writes, Ending, Refuses, Ends
  <2>4. Submit(a) => Writes(a)
    BY <1>0, SubmitEffect DEF Writes, Submit
  <2> QED
    BY <1>4, <2>1, <2>2, <2>3, <2>4, WritingSound, EndingSound DEF Book, Release
<1>5. CASE SetLink(a) \/ AutoLink(a) \/ Delete(a) \/ Import(a)
  <2>1. SetLink(a) => Writes(a) \/ Ending(a)
    BY <1>0, SetLinkEffect DEF SetLink, Writes, Ending, Refuses, Ends
  <2>2. AutoLink(a) => Writes(a)
    BY <1>0, AutoLinkEffect DEF Writes, AutoLink
  <2>3. Delete(a) => Writes(a)
    BY <1>0, DeleteEffect DEF Writes, Delete
  <2>4. Import(a) => Writes(a)
    BY <1>0, ImportEffect DEF Writes, Import
  <2> QED
    BY <1>5, <2>1, <2>2, <2>3, <2>4, WritingSound, EndingSound
<1>6. CASE MarkRead(a) \/ Purge(a)
  <2>1. MarkRead(a) => Writes(a)
    BY <1>0, MarkReadEffect DEF Writes, MarkRead
  <2>2. Purge(a) => Writes(a)
    BY <1>0, PurgeEffect DEF Writes, Purge
  <2> QED
    BY <1>6, <2>1, <2>2, WritingSound
<1>7. BookingStep(a) => WorkSound(a)'
  BY <1>4, CheckProjectSound, SubmitBeginSound, SubmitSlotSound DEF BookingStep
<1>8. LinkStep(a) => WorkSound(a)'
  BY <1>5, LinkTargetSound, AutoReadSound, AutoShareSound, AutoSetSound, AutoNextSound,
     DeleteBeginSound, DeleteTellSound DEF LinkStep
<1>9. ImportStep(a) => WorkSound(a)'
  BY <1>0, <1>5, ImportPlanSound, ImportExistsSound, ImportCreateSound, ImportUpdateSound DEF ImportStep
<1>10. InboxStep(a) => WorkSound(a)'
  BY <1>6, ReadBeginSound, PurgeBeginSound, PurgeRowsSound DEF InboxStep
<1> QED
  BY <1>1, <1>2, <1>3, <1>7, <1>8, <1>9, <1>10 DEF Server

\* A step of one attempt leaves the others knowing what they knew.
LEMMA OthersSound ==
  ASSUME Held, NEW a \in Attempts, NEW b \in Attempts, a # b, Server(a) \/ Deadlock(a) \/ Kill(a)
  PROVE  WorkSound(b)'
<1>0. Shaped
  BY DEF Held
<1>1. Writes(a) \/ Moves(a) \/ Drops(a)
  BY <1>0, ServerMoves, DropMoves
<1>2. tx'[b] = tx[b] /\ request' = request
  BY <1>1, WritesShape DEF Moves, Drops, Taking, Claiming, Ending, Going, Turns
<1>3. CASE Writes(a)
  <2>1. Stays(b)
    BY <1>3, WritesUnder, HeldStays
  <2> QED
    BY <1>2, <2>1, WorkStays DEF Keeps
<1>4. CASE Moves(a) \/ Drops(a)
  <2>1. Stays(b)
    BY <1>4 DEF Moves, Drops, Stays
  <2> QED
    BY <1>2, <2>1, WorkStays DEF Keeps
<1> QED
  BY <1>1, <1>3, <1>4

\* So does a user who sends an action.
LEMMA SendersSound ==
  ASSUME Held, NEW k \in Keys, Ask(k) \/ Resend(k), NEW b \in Attempts
  PROVE  WorkSound(b)'
<1>0. Shaped /\ request = [x \in Keys |-> request[x]]
  BY DEF Held, Asked
<1>1. CASE Ask(k)
  <2>1. \A a \in Attempts : a[1] = k => tx[a].pc = "none"
    BY <1>1 DEF Held, Asked, Ask
  <2>2. Begins(<<k, 1>>) /\ \A x \in Keys : x # k => request'[x] = request[x]
    BY <1>0, <1>1, <2>1, AskEffect
  <2>3. <<k, 1>> \in Attempts
    BY AttemptsAre
  <2>4. CASE b = <<k, 1>>
    BY <2>2, <2>4, BeginningSound
  <2>5. CASE b # <<k, 1>> /\ b[1] = k
    <3>1. tx'[b] = tx[b]
      BY <2>2, <2>5 DEF Begins, Turns
    <3>2. tx'[b].pc \in Idle
      BY <2>1, <2>5, <3>1 DEF Idle
    <3> QED
      BY <3>2, IdleIsSound
  <2>6. CASE b[1] # k
    <3>1. b # <<k, 1>> /\ b[1] \in Keys
      BY <2>6, AttemptsAre
    <3>2. tx'[b] = tx[b] /\ db' = db
      BY <2>2, <3>1 DEF Begins, Turns
    <3>3. Stays(b)
      BY <3>2 DEF Stays
    <3> QED
      BY <2>2, <2>6, <3>1, <3>2, <3>3, WorkStays DEF Keeps
  <2> QED
    BY <2>4, <2>5, <2>6
<1>2. CASE Resend(k)
  <2>1. PICK n \in 1..(Sends[k] - 1) : Begins(<<k, n + 1>>) /\ request' = request
    BY <1>0, <1>2, ResendEffect
  <2>2. <<k, n + 1>> \in Attempts
    BY AttemptsAre
  <2>3. CASE b = <<k, n + 1>>
    BY <2>1, <2>3, BeginningSound
  <2>4. CASE b # <<k, n + 1>>
    <3>1. tx'[b] = tx[b] /\ db' = db
      BY <2>1, <2>4 DEF Begins, Turns
    <3>2. Stays(b)
      BY <3>1 DEF Stays
    <3> QED
      BY <2>1, <3>1, <3>2, WorkStays DEF Keeps
  <2> QED
    BY <2>3, <2>4
<1> QED
  BY <1>1, <1>2

\* Every attempt knows what it has to, after every step.
LEMMA WorkKept ==
  ASSUME Held, [Next]_vars, NEW b \in Attempts
  PROVE  WorkSound(b)'
<1>1. CASE UNCHANGED vars
  <2>1. Stays(b)
    BY <1>1 DEF vars, Stays
  <2> QED
    BY <1>1, <2>1, WorkStays DEF Keeps, vars
<1>2. ASSUME NEW k \in Keys, Ask(k) \/ Resend(k) PROVE WorkSound(b)'
  BY <1>2, SendersSound
<1>3. ASSUME NEW a \in Attempts, Server(a) \/ Deadlock(a) \/ Kill(a) PROVE WorkSound(b)'
  <2>1. CASE a = b /\ Server(a)
    BY <2>1, ServerSound
  <2>2. CASE a = b /\ (Deadlock(a) \/ Kill(a))
    BY <2>2, DropMoves, DroppingSound DEF Held
  <2>3. CASE a # b
    BY <1>3, <2>3, OthersSound
  <2> QED
    BY <1>3, <2>1, <2>2, <2>3
<1> QED
  BY <1>1, <1>2, <1>3 DEF Next

\* No step breaks what the locks hold.
LEMMA HeldKept ==
  ASSUME Held, [Next]_vars
  PROVE  Held'
<1>1. Shaped' /\ Tables' /\ Asked' /\ LocksSound'
  BY ShapedKept, TablesKept, AskedKept, LocksKept
<1>2. \A a \in Attempts : WorkSound(a)'
  BY WorkKept
<1> QED
  BY <1>1, <1>2 DEF Held

\* It holds at the start.
LEMMA HeldAtFirst ==
  ASSUME Init
  PROVE  Held
<1> USE DEF Init
<1>1. Shaped
  BY DEF Shaped, TxFields, DbFields, NotBegun, Fresh
<1>2. Tables
  <2>1. /\ db.slot = [s \in Slots |-> [version |-> 1, status |-> "free", project |-> None]]
        /\ db.slotEvents = [s \in Slots |-> <<>>]
        /\ db.checklist = [c \in Checklists |->
                             [status |-> IF c \in Drafts THEN "draft" ELSE "absent",
                              version |-> IF c \in Drafts THEN 1 ELSE 0, project |-> None]]
        /\ db.project = [p \in Projects |->
                             [state |-> IF p \in Existing THEN "live" ELSE "absent", from |-> None,
                              reg |-> IF p \in Existing THEN Spelled[p] ELSE None]]
        /\ db.key = [g \in Registrations |-> None]
        /\ db.report = [r \in Reports |-> [project |-> None, source |-> "none", version |-> 1]]
    OBVIOUS
  <2>2. /\ db.inbox = Earlier
        /\ db.unread = [u \in Users |-> Cardinality(UnreadOf(Earlier, u))]
        /\ db.stored = [k \in Keys |-> Nothing]
    OBVIOUS
  <2>3. \A p \in Existing : Spelled[p] \in Registrations \cup {None}
    BY StoreAssumption
  <2>4. \A u \in Users : Cardinality(UnreadOf(Earlier, u)) \in Nat
    <3> TAKE u \in Users
    <3>1. UnreadOf(Earlier, u) \subseteq Earlier
      BY DEF UnreadOf
    <3>2. IsFiniteSet(Earlier)
      BY StoreAssumption
    <3> QED
      BY <3>1, <3>2, FS_Subset, FS_CardinalityType
  <2>5. Notes(db.inbox)
    <3>1. \A n \in Earlier : n = [user |-> n.user, about |-> n.about, read |-> FALSE]
      BY StoreAssumption
    <3>2. \A n \in Earlier : n.read = FALSE
      BY <3>1
    <3>3. \A n \in Earlier : n = [user |-> n.user, about |-> n.about, read |-> n.read]
      BY <3>1, <3>2
    <3>4. IsFiniteSet(Earlier)
      BY StoreAssumption
    <3> QED
      BY <2>2, <3>2, <3>3, <3>4 DEF Notes
  <2>6. db.unread \in [Users -> Nat]
    BY <2>2, <2>4
  <2>7. db.project \in [Projects -> [state : {"absent", "live", "deleted"},
                                     from : Checklists \cup {None}, reg : Registrations \cup {None}]]
    BY <2>1, <2>3
  <2> HIDE DEF Init
  <2> QED
    BY <2>1, <2>2, <2>5, <2>6, <2>7 DEF Tables
<1>3. \A a \in Attempts : tx[a].pc = "none" /\ tx[a].locks = {} /\ tx[a].shares = {}
  BY DEF NotBegun, Fresh
<1>4. Asked
  BY <1>3 DEF Asked, Idle
<1>5. LocksSound
  BY <1>3 DEF LocksSound
<1>6. \A a \in Attempts : WorkSound(a)
  BY <1>3 DEF Busy, Is, WorkSound, ClaimSound, BookSound, SubmitSound, LinkSound, BulkSound,
              DeleteSound, ImportSound, InboxSound
<1> HIDE DEF Init
<1> QED
  BY <1>1, <1>2, <1>4, <1>5, <1>6 DEF Held

\* Whatever a transaction has found out about the rows it holds is still so at its next
\* statement, however the transactions interleave, are rolled back or die.
THEOREM LocksHoldWhatWasRead == Spec => []Held
<1>1. Init => Held
  BY HeldAtFirst
<1>2. Held /\ [Next]_vars => Held'
  BY HeldKept
<1> QED
  BY <1>1, <1>2, PTL DEF Spec
==============================================================================
