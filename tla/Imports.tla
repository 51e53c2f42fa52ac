------------------------------- MODULE Imports -------------------------------
(***************************************************************************)
(* RegisterImportService.apply: the rows of one request, in one            *)
(* transaction.  It plans from a snapshot; whether the plan still holds is *)
(* found out row by row, under the locks.                                  *)
(*                                                                         *)
(* A registration is a project's identity in the workbook (fullKey).  Rows *)
(* the evidence leaves open and decisions to skip a row are left out, and  *)
(* so is what an update writes to the project: ProjectWrites has that.     *)
(***************************************************************************)
EXTENDS Store

\* A source key is locked by the insert that claims it, whether or not it is a duplicate.
KeyRow(g) == <<"key", g>>

\* planRegister: the projects that already are this registration, by a stored key or by their
\* own fields.
OwnersOf(g) == {p \in Projects : /\ db.project[p].state = "live"
                                 /\ db.key[g] = p \/ db.project[p].reg = g}

ImportRow(a) == Head(tx[a].work.todo)
AtRow(a, action) == /\ Is(a, "import", "row") /\ tx[a].work.todo # <<>>
                    /\ ImportRow(a).action = action

IsNew(a) == tx[a].work.plan[ImportRow(a).reg] = {}
IsMatch(a) == tx[a].work.plan[ImportRow(a).reg] = {ImportRow(a).project}

\* First the project, then its key.
ImportNeeds(a) ==
  LET row == ImportRow(a) IN
  CASE AtRow(a, "create") /\ IsNew(a) -> {KeyRow(row.reg)}
    [] AtRow(a, "update") /\ IsMatch(a) ->
         {ProjectRow(row.project)}
         \cup (IF ProjectRow(row.project) \in tx[a].locks /\ db.project[row.project].state = "live"
               THEN {KeyRow(row.reg)} ELSE {})
    [] OTHER -> {}

Grips(a) == ImportNeeds(a) \subseteq tx[a].locks

\* On to the next row, with what this one has written.
NextRow(a, made, kept) ==
  LET w == tx[a].work IN
  [todo |-> Tail(w.todo), made |-> w.made \cup made, kept |-> w.kept \cup kept, plan |-> w.plan]

-----------------------------------------------------------------------------
\* registerCandidates, for all rows at once.
ImportPlan(a) ==
  LET rows == Req(a).rows IN
  /\ Is(a, "import", "start")
  /\ Continue(a, "row", [todo |-> rows, made |-> {}, kept |-> {},
                         plan |-> [g \in {rows[i].reg : i \in 1..Len(rows)} |-> OwnersOf(g)]])

NeverKnown(a, g) == FALSE   \* (mutant)

\* claimSourceKey finds the key of an import that was faster, or its own.
Known(a, g) == \/ db.key[g] # None
               \/ \E t \in tx[a].work.made \cup tx[a].work.kept : t.reg = g

\* "exists": by the plan, or because another session has just created it.
ImportExists(a) ==
  /\ AtRow(a, "create") /\ Grips(a)
  /\ IsNew(a) => Known(a, ImportRow(a).reg)
  /\ Continue(a, "row", NextRow(a, {}, {}))

\* createWithin, for a key nobody had.
ImportCreate(a) ==
  /\ AtRow(a, "create") /\ Grips(a)
  /\ IsNew(a) /\ ~Known(a, ImportRow(a).reg)
  /\ \E p \in Projects :
       /\ NextId(p)
       /\ Goes(a, "row", tx[a].locks \cup {ProjectRow(p)},
               NextRow(a, {[reg |-> ImportRow(a).reg, project |-> p]}, {}))

\* "refused" when it is not the match or no longer exists; otherwise the key is remembered,
\* unless another project has it.
ImportUpdate(a) ==
  LET row == ImportRow(a) IN
  /\ AtRow(a, "update") /\ Grips(a)
  /\ Continue(a, "row", NextRow(a, {},
       IF IsMatch(a) /\ db.project[row.project].state = "live" /\ ~Known(a, row.reg)
       THEN {[reg |-> row.reg, project |-> row.project]} ELSE {}))

RegOf(pairs, p) == (CHOOSE t \in pairs : t.project = p).reg
OwnerIn(pairs, g) == (CHOOSE t \in pairs : t.reg = g).project

Import(a) ==
  LET w == tx[a].work  owned == w.made \cup w.kept IN
  /\ Is(a, "import", "row") /\ w.todo = <<>>
  /\ Commit(a, [db EXCEPT
                  !.project = [p \in Projects |->
                    IF \E t \in w.made : t.project = p
                    THEN [state |-> "live", from |-> None, reg |-> RegOf(w.made, p)] ELSE @[p]],
                  !.key = [g \in Registrations |->
                    IF \E t \in owned : t.reg = g THEN OwnerIn(owned, g) ELSE @[g]]],
            Done(None))

ImportStep(a) ==
  ImportPlan(a) \/ ImportExists(a) \/ ImportCreate(a) \/ ImportUpdate(a) \/ Import(a)
=============================================================================
