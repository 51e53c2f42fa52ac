------------------------------ MODULE Bookings -------------------------------
(***************************************************************************)
(* BookingService and ChecklistService.  A checklist is submitted in one   *)
(* transaction with the project it creates, the slot it books and the      *)
(* notifications it causes: whatever is refused on the way rolls all of it *)
(* back.                                                                   *)
(***************************************************************************)
EXTENDS Store

\* The rows an attempt has to hold before its next statement.
BookingNeeds(a) ==
  LET r == Req(a)  pc == tx[a].pc IN
  CASE r.op = "release" /\ pc = "start" -> {SlotRow(r.slot)}
    [] r.op \in {"book", "submit"} /\ pc = "slot" -> {SlotRow(r.slot)}
    [] r.op \in {"save", "submit"} /\ pc = "start" /\ r.checklist # None ->
         {ChecklistRow(r.checklist)}
    [] r.op = "submit" /\ pc = "tell" ->
         {CounterRow(u) : u \in Untold(db.inbox, Subscribers \ {Actor[a[1]]},
                                       ChecklistRow(r.checklist))}
    [] OTHER -> {}

Holds(a) == BookingNeeds(a) \subseteq tx[a].locks

-----------------------------------------------------------------------------
(* Bookings *)

\* A slot at its next version, and the `booking.updated` event of it.
WithSlot(tables, k, s, status, p) ==
  [tables EXCEPT
     !.slot[s] = [version |-> @.version + 1, status |-> status, project |-> p],
     !.slotEvents[s] = Append(@, [key |-> k, to |-> status, project |-> p])]

\* The project a slot is booked for is read without a lock.
CheckProject(a) ==
  LET r == Req(a) IN
  /\ Is(a, "book", "start")
  /\ IF r.may /\ (r.project = None \/ db.project[r.project].state = "live")
     THEN Continue(a, "slot", <<>>) ELSE GiveUp(a, Refused)

OnlyVersion(s, base) == db.slot[s].version = base   \* (mutant)

Bookable(s, base) == db.slot[s].version = base /\ db.slot[s].status = "free"

Book(a) ==
  LET r == Req(a) IN
  /\ Is(a, "book", "slot") /\ Holds(a)
  /\ IF Bookable(r.slot, r.base)
     THEN Commit(a, WithSlot(db, a[1], r.slot, "booked", r.project), Done(None))
     ELSE GiveUp(a, Conflict)

\* Whatever the slot's status is.
Release(a) ==
  LET r == Req(a) IN
  /\ Is(a, "release", "start") /\ Holds(a)
  /\ IF ~r.may THEN GiveUp(a, Refused)
     ELSE IF db.slot[r.slot].version # r.base THEN GiveUp(a, Conflict)
     ELSE Commit(a, WithSlot(db, a[1], r.slot, "free", None), Done(None))

-----------------------------------------------------------------------------
(* Checklists *)

AnyStatus(r) == db.checklist[r.checklist].version = r.base   \* (mutant)

Editable(r) == /\ db.checklist[r.checklist].status = "draft"
               /\ db.checklist[r.checklist].version = r.base

NewChecklist == CHOOSE c \in Checklists : db.checklist[c].status = "absent"

\* save, with or without an id.
Save(a) ==
  LET r == Req(a)
      c == IF r.checklist = None THEN NewChecklist ELSE r.checklist
  IN
  /\ Is(a, "save", "start") /\ Holds(a)
  /\ r.checklist = None => \E d \in Checklists : db.checklist[d].status = "absent"
  /\ IF ~r.may THEN GiveUp(a, Refused)
     ELSE IF r.checklist # None /\ ~Editable(r) THEN GiveUp(a, Conflict)
     ELSE Commit(a, [db EXCEPT !.checklist[c] = [status |-> "draft", version |-> @.version + 1,
                                                project |-> @.project]],
                 Done(None))

\* The checklist is checked, then createWithin inserts the project.
SubmitBegin(a) ==
  LET r == Req(a) IN
  /\ Is(a, "submit", "start") /\ Holds(a)
  /\ IF ~r.may THEN GiveUp(a, Refused)
     ELSE IF ~Editable(r) THEN GiveUp(a, Conflict)
     ELSE \E p \in Projects :
            /\ NextId(p)
            /\ Goes(a, IF r.slot = None THEN "tell" ELSE "slot", tx[a].locks \cup {ProjectRow(p)}, p)

CarriesOn(a) == Continue(a, "tell", tx[a].work)   \* (mutant)

\* A slot that is gone takes the project and the checklist with it.
SlotGone(a) == GiveUp(a, Conflict)

\* bookWithin, in the same transaction.
SubmitSlot(a) ==
  LET r == Req(a) IN
  /\ Is(a, "submit", "slot") /\ Holds(a)
  /\ IF Bookable(r.slot, r.slotBase) THEN Continue(a, "tell", tx[a].work) ELSE SlotGone(a)

\* Only a slot that was free is written.
Booked(tables, a, p) ==
  LET r == Req(a) IN
  IF r.slot # None /\ Bookable(r.slot, r.slotBase)
  THEN WithSlot(tables, a[1], r.slot, "booked", p) ELSE tables

\* Checklist, project with its reviews, slot, events and notifications in one commit.
Submit(a) ==
  LET r == Req(a)
      p == tx[a].work
      written == [db EXCEPT
                    !.project[p] = [state |-> "live", from |-> r.checklist, reg |-> None],
                    !.checklist[r.checklist] =
                      [status |-> "submitted", version |-> @.version + 1, project |-> p]]
  IN
  /\ Is(a, "submit", "tell") /\ Holds(a)
  /\ Commit(a, Notify(Booked(written, a, p), Subscribers \ {Actor[a[1]]},
                      ChecklistRow(r.checklist)), Done(p))

BookingStep(a) ==
  \/ CheckProject(a) \/ Book(a) \/ Release(a)
  \/ Save(a) \/ SubmitBegin(a) \/ SubmitSlot(a) \/ Submit(a)
=============================================================================
