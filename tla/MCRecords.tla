------------------------------ MODULE MCRecords ------------------------------
(* Three users act at the same time on two slots, one draft, two reports and two projects,
   one of which the workbook knows. *)
EXTENDS Records, TLC

CONSTANTS k1, k2, k3, u1, u2, s1, c1, c2, r1, r2, g1, g2

Base == [op |-> "book", may |-> TRUE, slot |-> None, checklist |-> None, report |-> None,
         project |-> None, base |-> 0, slotBase |-> 0, rows |-> <<>>]
Want(op) == [Base EXCEPT !.op = op]
OnSlot(op, p) == [Want(op) EXCEPT !.slot = s1, !.project = p]
OnChecklist(op, c, s) == [Want(op) EXCEPT !.checklist = c, !.slot = s]
Link(r, p) == [Want("setLink") EXCEPT !.report = r, !.project = p]
New(g) == [reg |-> g, action |-> "create", project |-> None]
Match(g, p) == [reg |-> g, action |-> "update", project |-> p]
ImportOf(rows) == [Want("import") EXCEPT !.rows = rows]
DeleteOf(p) == [Want("delete") EXCEPT !.project = p]

MCWants ==
  (k1 :> {OnSlot("book", 1), OnChecklist("submit", c1, s1), Link(r1, 2),
          Want("read"), ImportOf(<<New(g1), Match(g2, 2)>>)})
  @@ (k2 :> {OnSlot("book", None), OnSlot("release", None), OnChecklist("submit", c1, None),
             Want("autoLink"), DeleteOf(1), ImportOf(<<Match(g2, 2), New(g1)>>)})
  @@ (k3 :> {OnChecklist("save", c1, None), Want("save"), DeleteOf(2), Want("purge"), Link(r1, None),
             [Link(r1, 1) EXCEPT !.may = FALSE]})

MCActor == (k1 :> u1) @@ (k2 :> u2) @@ (k3 :> u1)
MCSends == (k1 :> 2) @@ (k2 :> 1) @@ (k3 :> 1)
MCProjects == 1..4
MCExisting == 1..2
MCSpelled == (1 :> None) @@ (2 :> g2)
MCWatchers == [p \in MCProjects |-> IF p = 1 THEN {u1, u2} ELSE {u1}]
MCEarlier == {[user |-> u, about |-> <<"earlier", 0>>, read |-> FALSE] : u \in {u1}}
MCRank == (r1 :> 1) @@ (r2 :> 2)
MCMatches == (r1 :> {2}) @@ (r2 :> {1})
=============================================================================
