-------------------------------- MODULE Links --------------------------------
(***************************************************************************)
(* PruefberichtLinkService, which links test reports to projects by hand   *)
(* or in bulk, and the deletion of a project, which removes its links.     *)
(***************************************************************************)
EXTENDS Imports

CONSTANTS
  Rank,         \* report -> its place in the order of year and id
  Matches,      \* report -> the projects its number and place fit (matchPruefbericht)
  Chunk         \* reports of one bulk step (100 in the code)

ASSUME LinksAssumption ==
  /\ Rank \in [Reports -> Nat]
  /\ \A r, x \in Reports : Rank[r] = Rank[x] => r = x
  /\ Matches \in [Reports -> SUBSET Projects]
  /\ Chunk \in Nat \ {0}

\* What a bulk run has to do: [part, alive, todo, set].  All but alive are sets of
\* [report, version, project], part is the current chunk.
Projected(part) == {t.project : t \in part}
IsFirst(part, t) == t \in part /\ \A s \in part : Rank[t.report] <= Rank[s.report]

KeepsGone(part) == Projected(part)   \* (mutant)

\* shareLockProjects: the projects of a chunk that still exist.
Alive(part) == {p \in Projected(part) : db.project[p].state = "live"}

KeysOf(p) == {KeyRow(g) : g \in {h \in Registrations : db.key[h] = p}}
LinkedTo(p) == {r \in Reports : db.report[r].project = p}

ReportFirst(r) == {ReportRow(r.report)}   \* (mutant)
\* "lock order everywhere: project, then its reports"
TargetFirst(r) == IF r.project = None THEN {} ELSE {ProjectRow(r.project)}

LinkNeeds(a) ==
  LET r == Req(a)  pc == tx[a].pc  w == tx[a].work IN
  CASE r.op = "setLink" /\ pc = "start" -> TargetFirst(r)
    [] r.op = "setLink" /\ pc = "report" ->
         {ReportRow(r.report)} \cup (IF r.project = None THEN {} ELSE {ProjectRow(r.project)})
    [] r.op = "autoLink" /\ pc = "share" -> {ProjectRow(p) : p \in Alive(w.part)}
    [] r.op = "autoLink" /\ pc = "set" ->
         {ReportRow(t.report) : t \in {u \in w.part : IsFirst(w.part, u) /\ u.project \in w.alive}}
    [] r.op = "delete" /\ pc = "start" -> {ProjectRow(r.project)}
    [] r.op = "delete" /\ pc = "tell" ->
         {CounterRow(u) : u \in Untold(db.inbox, Watchers[r.project] \ {Actor[a[1]]},
                                       ProjectRow(r.project))}
    [] r.op = "delete" /\ pc = "reports" ->
         LET reports == {ReportRow(x) : x \in LinkedTo(r.project)}
         IN  reports \cup (IF reports \subseteq tx[a].locks THEN KeysOf(r.project) ELSE {})
    [] OTHER -> {}

SharesLock(a) == Is(a, "autoLink", "share")
Locked(a) == LinkNeeds(a) \subseteq IF SharesLock(a) THEN tx[a].shares ELSE tx[a].locks

-----------------------------------------------------------------------------
(* setLink *)

LinkTarget(a) ==
  LET r == Req(a) IN
  /\ Is(a, "setLink", "start") /\ Locked(a)
  /\ IF r.project # None /\ db.project[r.project].state # "live"
     THEN GiveUp(a, Refused) ELSE Continue(a, "report", <<>>)

ByHand(p) == IF p = None THEN "detached" ELSE "manual"

WithLink(tables, r, p, source) ==
  [tables EXCEPT !.report[r] = [project |-> p, source |-> source, version |-> @.version + 1]]

SetLink(a) ==
  LET r == Req(a)  old == db.report[r.report] IN
  /\ Is(a, "setLink", "report") /\ Locked(a)
  /\ IF old.version # r.base THEN GiveUp(a, Conflict)
     ELSE IF old.project = r.project THEN Commit(a, db, Done(old.project))
     ELSE Commit(a, WithLink(db, r.report, r.project, ByHand(r.project)), Done(r.project))

-----------------------------------------------------------------------------
(* autoLink *)

LiveMatches(r) == {p \in Matches[r] : db.project[p].state = "live"}

IgnoresDecisions(r) == db.report[r].project = None   \* (mutant)

\* unlinkedPruefberichte: a removed link is a decision, and stays.
Unlinked(r) == db.report[r].project = None /\ db.report[r].source = "none"

\* The reports with exactly one match, as the snapshot shows them.
Unique == {r \in Reports : Unlinked(r) /\ Cardinality(LiveMatches(r)) = 1}

Plan == {[report |-> r, version |-> db.report[r].version,
          project |-> CHOOSE p \in LiveMatches(r) : TRUE] : r \in Unique}

\* The next chunk of what is left, with what has been written.
NextPart(todo, set) ==
  LET part == {t \in todo :
                 Cardinality({s \in todo : Rank[s.report] < Rank[t.report]}) < Chunk}
  IN [part |-> part, alive |-> {}, todo |-> todo \ part, set |-> set]

AutoRead(a) ==
  /\ Is(a, "autoLink", "start")
  /\ Continue(a, "share", NextPart(Plan, {}))

\* A project deleted meanwhile gets no link, and nobody deletes one now.
AutoShare(a) ==
  LET w == tx[a].work IN
  /\ Is(a, "autoLink", "share") /\ Locked(a)
  /\ Continue(a, "set", [part |-> w.part, alive |-> Alive(w.part), todo |-> w.todo, set |-> w.set])

AnyVersion(t) == TRUE   \* (mutant)

Unchanged(t) == db.report[t.report].version = t.version

\* A report somebody changed since the snapshot is left alone.
AutoSet(a) ==
  LET w == tx[a].work IN
  /\ Is(a, "autoLink", "set") /\ Locked(a)
  /\ \E t \in w.part :
       /\ IsFirst(w.part, t)
       /\ Continue(a, "set", [part |-> w.part \ {t}, alive |-> w.alive, todo |-> w.todo,
                              set |-> IF t.project \in w.alive /\ Unchanged(t)
                                      THEN w.set \cup {t} ELSE w.set])

AutoNext(a) ==
  LET w == tx[a].work IN
  /\ Is(a, "autoLink", "set") /\ w.part = {} /\ w.todo # {}
  /\ Continue(a, "share", NextPart(w.todo, w.set))

AutoLink(a) ==
  LET w == tx[a].work IN
  /\ Is(a, "autoLink", "set") /\ w.part = {} /\ w.todo = {}
  /\ Commit(a, [db EXCEPT !.report = [r \in Reports |->
                  IF \E t \in w.set : t.report = r
                  THEN [project |-> (CHOOSE t \in w.set : t.report = r).project, source |-> "auto",
                        version |-> db.report[r].version + 1]
                  ELSE db.report[r]]],
            Done(None))

-----------------------------------------------------------------------------
(* ProjectService.delete *)

DeleteBegin(a) ==
  LET r == Req(a) IN
  /\ Is(a, "delete", "start") /\ Locked(a)
  /\ IF r.may /\ db.project[r.project].state = "live"
     THEN Continue(a, "tell", <<>>) ELSE GiveUp(a, Refused)

\* notifyWatchers
DeleteTell(a) ==
  /\ Is(a, "delete", "tell") /\ Locked(a)
  /\ Continue(a, "reports", <<>>)

KeepsLinks(p) == db.report   \* (mutant)

\* unlinkPruefberichteOf: the link is gone, and nobody decided that.
WithoutLinksTo(p) ==
  [r \in Reports |-> IF db.report[r].project = p
                     THEN [project |-> None, source |-> "none",
                           version |-> db.report[r].version + 1]
                     ELSE db.report[r]]

KeepsKeys(p) == db.key   \* (mutant)

\* deleteProject: the source keys go with the project.
WithoutKeysOf(p) == [g \in Registrations |-> IF db.key[g] = p THEN None ELSE db.key[g]]

Delete(a) ==
  LET p == Req(a).project IN
  /\ Is(a, "delete", "reports") /\ Locked(a)
  /\ Commit(a, Notify([db EXCEPT
                         !.project[p] = [state |-> "deleted", from |-> @.from, reg |-> @.reg],
                         !.report = WithoutLinksTo(p), !.key = WithoutKeysOf(p)],
                      Watchers[p] \ {Actor[a[1]]}, ProjectRow(p)),
            Done(p))

LinkStep(a) ==
  \/ LinkTarget(a) \/ SetLink(a)
  \/ AutoRead(a) \/ AutoShare(a) \/ AutoSet(a) \/ AutoNext(a) \/ AutoLink(a)
  \/ DeleteBegin(a) \/ DeleteTell(a) \/ Delete(a)
=============================================================================
