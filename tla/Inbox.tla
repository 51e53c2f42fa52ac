-------------------------------- MODULE Inbox --------------------------------
(***************************************************************************)
(* The other two writers of the inbox: a user marks notifications read,    *)
(* and the retention job deletes old ones.  Both count what they change    *)
(* while they hold its rows, and move the unread counter by that much.     *)
(***************************************************************************)
EXTENDS Store

InboxNeeds(a) ==
  LET r == Req(a)  pc == tx[a].pc  w == tx[a].work IN
  CASE r.op = "read" /\ pc = "start" -> {NoteRow(n) : n \in UnreadOf(db.inbox, Actor[a[1]])}
    [] r.op = "purge" /\ pc = "rows" -> {NoteRow(n) : n \in {m \in db.inbox : NoteRow(m) \in w}}
    [] r.op \in {"read", "purge"} /\ pc = "count" -> {CounterRow(n.user) : n \in {m \in w : ~m.read}}
    [] OTHER -> {}

Has(a) == InboxNeeds(a) \subseteq tx[a].locks

Minus(m, n) == IF m > n THEN m - n ELSE 0

CountsRows(tables, w) ==   \* (mutant)
  [u \in Users |-> Minus(tables.unread[u], Cardinality({n \in w : n.user = u}))]

\* GREATEST(0, n - k), where k counts the unread rows among w.
Discount(tables, w) ==
  [u \in Users |-> Minus(tables.unread[u], Cardinality(UnreadOf(w, u)))]

-----------------------------------------------------------------------------
\* SELECT ... readAt IS NULL FOR UPDATE
ReadBegin(a) ==
  /\ Is(a, "read", "start") /\ Has(a)
  /\ LET w == UnreadOf(db.inbox, Actor[a[1]]) IN
     IF w = {} THEN CommitUnkeyed(a, db) ELSE Continue(a, "count", w)

MarkRead(a) ==
  LET w == tx[a].work IN
  /\ Is(a, "read", "count") /\ Has(a)
  /\ CommitUnkeyed(a, [db EXCEPT !.inbox = (@ \ w) \cup {[n EXCEPT !.read = TRUE] : n \in w},
                                 !.unread = Discount(db, w)])

\* Which rows are old enough is left open: read ones after 30 days, all after 180.
PurgeBegin(a) ==
  /\ Is(a, "purge", "start")
  /\ \E old \in SUBSET db.inbox : Continue(a, "rows", {NoteRow(n) : n \in old})

PurgeRows(a) ==
  /\ Is(a, "purge", "rows") /\ Has(a)
  /\ LET w == {n \in db.inbox : NoteRow(n) \in tx[a].work} IN
     IF w = {} THEN CommitUnkeyed(a, db) ELSE Continue(a, "count", w)

Purge(a) ==
  LET w == tx[a].work IN
  /\ Is(a, "purge", "count") /\ Has(a)
  /\ CommitUnkeyed(a, [db EXCEPT !.inbox = @ \ w, !.unread = Discount(db, w)])

InboxStep(a) == ReadBegin(a) \/ MarkRead(a) \/ PurgeBegin(a) \/ PurgeRows(a) \/ Purge(a)
=============================================================================
