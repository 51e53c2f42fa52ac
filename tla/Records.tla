------------------------------- MODULE Records -------------------------------
(***************************************************************************)
(* Bookings, checklists, report links, project deletion and the inbox, on  *)
(* one database: users act at the same time, send an action again when its *)
(* answer is lost, wait for each other's row locks and run into deadlocks. *)
(***************************************************************************)
EXTENDS Bookings, Links, Imports, Inbox

\* The rows an attempt still has to lock before its next statement, in whatever order the
\* database visits them.
Missing(a) ==
  (BookingNeeds(a) \cup LinkNeeds(a) \cup ImportNeeds(a) \cup InboxNeeds(a))
  \ IF SharesLock(a) THEN tx[a].shares ELSE tx[a].locks

Lock(a) == \E row \in Missing(a) : Take(a, row, SharesLock(a))

Blocked(a) ==
  /\ a \in Running
  /\ LET rows == Missing(a) IN
       rows # {} /\ \A row \in rows : Blockers(a, row, SharesLock(a)) # {}

Stuck == {a \in Running : Blocked(a)}

WaitsFor(a) == UNION {Blockers(a, row, SharesLock(a)) : row \in Missing(a)}

Knot(C) == C # {} /\ \A a \in C : WaitsFor(a) \cap C # {}

\* The smallest groups in which everyone waits for another: what InnoDB detects.
Cycles == {C \in SUBSET Stuck : Knot(C) /\ \A D \in (SUBSET C) \ {C} : ~Knot(D)}

Deadlock(a) == Blocked(a) /\ (\E C \in Cycles : a \in C) /\ IsVictim(a)

Server(a) ==
  /\ a \in Running
  /\ Lock(a) \/ TurnAway(a) \/ Claim(a) \/ BookingStep(a) \/ LinkStep(a) \/ ImportStep(a)
     \/ InboxStep(a)

Next ==
  \/ \E k \in Keys : Ask(k) \/ Resend(k)
  \/ \E a \in Attempts : Server(a) \/ Deadlock(a) \/ Kill(a)

Spec == Init /\ [][Next]_vars

\* While a statement can run or a deadlock can be broken, the database does one of them.
Fairness == WF_vars(\E a \in Attempts : Server(a) \/ Deadlock(a))

FairSpec == Spec /\ Fairness

-----------------------------------------------------------------------------
(* Properties *)

Replies == {Nothing, Refused, Conflict, Failed} \cup {Done(p) : p \in Projects \cup {None}}

\* Every table and every transaction keeps its shape; the pc names a step of the code.
TypeOK ==
  /\ db.slot \in [Slots -> [version : Nat, status : {"free", "booked"},
                            project : Projects \cup {None}]]
  /\ db.checklist \in [Checklists -> [status : {"absent", "draft", "submitted"}, version : Nat,
                                      project : Projects \cup {None}]]
  /\ db.project \in [Projects -> [state : {"absent", "live", "deleted"},
                                  from : Checklists \cup {None},
                                  reg : Registrations \cup {None}]]
  /\ db.key \in [Registrations -> Projects \cup {None}]
  /\ db.report \in [Reports -> [project : Projects \cup {None}, version : Nat,
                                source : {"none", "auto", "manual", "detached"}]]
  /\ db.unread \in [Users -> Nat]
  /\ db.stored \in [Keys -> Replies]
  /\ \A a \in Attempts :
       /\ tx[a].pc \in {"none", "claim", "start", "slot", "tell", "report", "share", "set",
                        "reports", "row", "rows", "count", "ended", "gone"}
       /\ tx[a].reply \in Replies
       /\ a \notin Running => tx[a].locks = {} /\ tx[a].shares = {}

\* A booked slot is never booked again before it was released, by whoever asks, from whichever
\* copy of it and however often (BookingService.bookWithin).
NoDoubleBooking ==
  \A s \in Slots : \A i \in 1..(Len(db.slotEvents[s]) - 1) :
    db.slotEvents[s][i].to = "booked" => db.slotEvents[s][i + 1].to = "free"

CreatedFrom(c) == {p \in Projects : db.project[p].from = c}
SubmittedBy(c) ==
  {k \in Keys : db.stored[k] # Nothing /\ request[k].op = "submit" /\ request[k].checklist = c}
BookedBy(k, s) == {i \in 1..Len(db.slotEvents[s]) : db.slotEvents[s][i].key = k}

\* A submission happens as a whole and once: a submitted checklist has exactly one submission
\* and one project, the one it names; the slot it asked for was booked once, for that project;
\* the departments know.  Before, there is no trace of it, whichever part of it was refused
\* (ChecklistService.submit).
SubmissionIsWhole ==
  /\ \A c \in Checklists :
       IF db.checklist[c].status = "submitted"
       THEN \E k \in Keys :
              /\ SubmittedBy(c) = {k}
              /\ CreatedFrom(c) = {db.checklist[c].project}
              /\ db.stored[k] = Done(db.checklist[c].project)
              /\ \A u \in Subscribers \ {Actor[k]} : <<u, ChecklistRow(c)>> \in db.told
       ELSE /\ SubmittedBy(c) = {} /\ CreatedFrom(c) = {}
            /\ \A note \in db.told : note[2] # ChecklistRow(c)
  /\ \A k \in Keys, s \in Slots :
       request[k] # Nothing /\ request[k].op = "submit" =>
         IF db.stored[k] = Nothing \/ request[k].slot # s THEN BookedBy(k, s) = {}
         ELSE \E i \in BookedBy(k, s) : /\ BookedBy(k, s) = {i}
                                        /\ Done(db.slotEvents[s][i].project) = db.stored[k]

\* The badge counts the unread notifications exactly, whoever inserts, reads or purges at the
\* same time (insertNotification, markRead, purgeNotifications).
UnreadIsExact ==
  \A u \in Users : db.unread[u] = Cardinality(UnreadOf(db.inbox, u))

\* "Two imports of the same registration create one project", however their snapshots, retries
\* and deadlocks fall, and a project that is deleted may be registered again
\* (RegisterImportService.apply: an add claims its key first).
RegisteredOnce ==
  \A g \in Registrations :
    Cardinality({p \in Projects : db.project[p].state = "live" /\ db.project[p].reg = g}) <= 1

\* No report is linked to a project that is gone and no import key names one, though links are
\* written in bulk from an older snapshot and keys are remembered while projects are deleted
\* (ProjectService.delete; "A project's keys are deleted with the project", or an import would
\* answer "exists" for ever).
NothingPointsToTheDeleted ==
  LET NotGone(p) == p = None \/ db.project[p].state = "live" IN
  /\ \A r \in Reports : NotGone(db.report[r].project)
  /\ \A g \in Registrations : NotGone(db.key[g])

\* A link somebody set or removed by hand is not overwritten by the bulk run
\* (docs/project-register-import.md: "A removed link is a decision").
DecisionsStand ==
  [][\A r \in Reports : db.report[r].source \in {"manual", "detached"}
                        => db.report'[r].source # "auto"]_vars

\* "Lock order everywhere is project -> reports ... so link and delete cannot deadlock": links
\* set by hand never wait in a circle with deletions alone, nor with each other.
LinkAndDeleteNeverDeadlock ==
  \A C \in Cycles : (\E a \in C : Req(a).op = "setLink")
                      => \E b \in C : Req(b).op \notin {"setLink", "delete"}

\* Whoever was told "conflict" or "refused" can rely on it: no send of that action has taken
\* effect or will.  Of "refused" that is so because the rights to an action do not change between
\* two sends of it here (Request.may); in the code a project can change its workspace meanwhile.
NoMeansNo ==
  \A a \in Attempts : tx[a].reply \in {Conflict, Refused} => db.stored[a[1]] = Nothing

\* Every request comes to an end, however the transactions wait for each other: deadlocks are
\* found, and a victim is not run again for ever.  (The actions are finitely many.)
EveryRequestEnds == <>[](Running = {})
=============================================================================
