----------------------------- MODULE RecordsProofs -----------------------------
(***************************************************************************)
(* The theorems about Records.  Each rests on Held, what the row locks     *)
(* keep true, and on what the tables say about each other.                 *)
(***************************************************************************)
EXTENDS RecordsLocks

\* What a caller has been told.
Told == \A a \in Attempts : tx[a].reply \in Replies

\* The last event of a slot tells its status.
EventsFollow ==
  \A s \in Slots :
    LET e == db.slotEvents[s] IN
    db.slot[s].status = IF e = <<>> THEN "free" ELSE e[Len(e)].to

\* No send of the action can take effect any more.
Hopeless(k) ==
  LET r == request[k] IN
  /\ r # Nothing /\ Keyed(r.op) /\ db.stored[k] = Nothing
  /\ \/ ~r.may
     \/ r.op = "book" /\ ~Bookable(r.slot, r.base)
     \/ /\ r.op = "book" /\ r.project # None /\ db.project[r.project].state = "deleted"
        /\ \A a \in Attempts : a[1] = k => tx[a].pc # "slot"
     \/ r.op = "release" /\ db.slot[r.slot].version # r.base
     \/ r.op \in {"save", "submit"} /\ r.checklist # None /\ ~Editable(r)
     \/ r.op = "submit" /\ r.slot # None /\ ~Bookable(r.slot, r.slotBase)
     \/ r.op = "setLink" /\ db.report[r.report].version # r.base
     \/ r.op \in {"setLink", "delete"} /\ r.project # None /\ db.project[r.project].state = "deleted"

NoIsFinal == \A a \in Attempts : tx[a].reply \in {Conflict, Refused} => Hopeless(a[1])

\* A project that is not there has no past.
Unmade == \A p \in Projects : db.project[p].state = "absent" =>
  db.project[p].from = None /\ db.project[p].reg = None

\* A checklist is announced by its submission.
Announced ==
  \A c \in Checklists : db.checklist[c].status # "submitted" =>
    \A n \in db.inbox : n.about # ChecklistRow(c)

\* An answer is stored for what was asked and allowed.
Answered ==
  \A k \in Keys : db.stored[k] # Nothing => request[k] # Nothing /\ Admitted(request[k])

\* A slot is booked for an action that has its answer.
BookedWhenDone ==
  \A k \in Keys : db.stored[k] = Nothing => \A s \in Slots : BookedBy(k, s) = {}

\* Whatever existed at the start as this registration is deleted.
Gone(g) == \A p \in Existing : Spelled[p] = g => db.project[p].state = "deleted"

\* Projects of the start keep their registration; one that an import made is registered as
\* long as it lives.
Registered ==
  \A p \in Projects :
    /\ p \in Existing => db.project[p].reg = Spelled[p] /\ db.project[p].state # "absent"
    /\ db.project[p].state = "live" /\ db.project[p].reg # None /\ p \notin Existing =>
         /\ db.key[db.project[p].reg] = p
         /\ Gone(db.project[p].reg)

\* What an import makes had no project at the start that still lives.
Planned(a) ==
  LET w == tx[a].work IN
  Is(a, "import", "row") =>
    /\ \A g \in DOMAIN w.plan : w.plan[g] = {} => Gone(g)
    /\ \A t \in w.made : Gone(t.reg)

-----------------------------------------------------------------------------
(* What the callers are told. *)

\* The answers are told apart.
LEMMA RepliesDiffer ==
  /\ Nothing \notin {Refused, Conflict} /\ Failed \notin {Refused, Conflict}
  /\ \A p : Done(p) \notin {Refused, Conflict, Nothing}
<1>1. /\ Nothing.kind = "nothing" /\ Refused.kind = "refused" /\ Conflict.kind = "conflict"
      /\ Failed.kind = "failed" /\ \A p : Done(p).kind = "ok"
  BY DEF Nothing, Refused, Conflict, Failed, Done
<1> QED
  BY <1>1

\* The sends of one action do not run at the same time once one of them has claimed its key.
LEMMA OneRuns ==
  ASSUME Held, NEW a \in Attempts, NEW b \in Attempts, a # b, a[1] = b[1],
         tx[a].pc \in Busy, tx[b].pc \in Busy
  PROVE  ~Keyed(Req(a).op)
<1> SUFFICES ASSUME Keyed(Req(a).op) PROVE FALSE
  OBVIOUS
<1>1. Keyed(Req(b).op)
  BY DEF Req
<1>2. ClaimRow(a[1]) \in tx[a].locks /\ ClaimRow(a[1]) \in tx[b].locks
  BY <1>1 DEF Held, WorkSound, ClaimSound
<1> QED
  BY <1>2 DEF Held, LocksSound

\* A statement that says no has found out why no send can succeed.
SaysNo(a) ==
  tx'[a].reply \in {Refused, Conflict} /\ Hopeless(a[1]) /\ db' = db /\ request' = request

SaysYes(a) == \E p \in Projects \cup {None} : tx'[a].reply = Done(p)

\* An attempt that says no has a request, and no answer is stored for it.
LEMMA Refusal ==
  ASSUME Held, NEW a \in Attempts, tx[a].pc \in Busy, Keyed(Req(a).op)
  PROVE  Req(a) # Nothing /\ db.stored[a[1]] = Nothing
  BY DEF Held, WorkSound, ClaimSound, Asked, Busy, Req

\* A booking or a checklist says yes, or says no for a reason that stays.
LEMMA BookingSays ==
  ASSUME Held, NEW a \in Attempts, BookingStep(a)
  PROVE  tx'[a].reply = tx[a].reply \/ SaysYes(a) \/ SaysNo(a)
<1> DEFINE r == Req(a)
<1>0. Shaped /\ r = request[a[1]]
  BY DEF Held, Req
<1>1. CASE CheckProject(a)
  <2>1. Is(a, "book", "start")
    BY <1>1 DEF CheckProject
  <2>2. tx[a].pc \in Busy /\ Keyed(r.op) /\ r.op = "book" /\ tx[a].pc # "slot"
    BY <2>1 DEF Is, Busy, Keyed
  <2>3. CASE GiveUp(a, Refused) /\ ~(r.may /\ (r.project = None \/ db.project[r.project].state = "live"))
    <3>1. \A b \in Attempts : b[1] = a[1] => tx[b].pc # "slot"
      BY <2>2, OneRuns DEF Busy
    <3>2. r.project # None => db.project[r.project].state \in {"live", "deleted"}
      <4> SUFFICES ASSUME r.project # None PROVE db.project[r.project].state \in {"live", "deleted"}
        OBVIOUS
      <4>1. r.project \in Projects /\ Fits(db, r)
        BY <2>2, RequestIs DEF Requests
      <4>2. db.project[r.project].state \in {"absent", "live", "deleted"}
        BY <4>1 DEF Held, Tables
      <4> QED
        BY <4>1, <4>2 DEF Fits
    <3>3. Hopeless(a[1])
      BY <1>0, <2>2, <2>3, <3>1, <3>2, Refusal DEF Hopeless
    <3>4. tx'[a].reply = Refused /\ db' = db /\ request' = request
      BY <1>0, <2>3, GiveUpEffect DEF Turns
    <3> QED
      BY <3>3, <3>4 DEF SaysNo
  <2>4. CASE Continue(a, "slot", <<>>)
    BY <1>0, <2>4, ContinueEffect DEF Turns
  <2> QED
    BY <1>1, <2>3, <2>4 DEF CheckProject
<1>2. CASE Book(a)
  <2>1. tx[a].pc \in Busy /\ Keyed(r.op) /\ r.op = "book"
    BY <1>2 DEF Book, Is, Busy, Keyed
  <2>2. CASE Refuses(a, Conflict) /\ ~Bookable(r.slot, r.base)
    BY <1>0, <2>1, <2>2, Refusal DEF SaysNo, Refuses, Ends, Turns, Hopeless
  <2>3. CASE Booking(a)
    BY <2>3 DEF Booking, SaysYes, Answers, Ends, Turns
  <2> QED
    BY <1>0, <1>2, <2>2, <2>3, BookEffect
<1>3. CASE Release(a)
  <2>1. tx[a].pc \in Busy /\ Keyed(r.op) /\ r.op = "release"
    BY <1>3 DEF Release, Is, Busy, Keyed
  <2>2. CASE Refuses(a, Conflict) /\ db.slot[r.slot].version # r.base
    BY <1>0, <2>1, <2>2, Refusal DEF SaysNo, Refuses, Ends, Turns, Hopeless
  <2>3. CASE Refuses(a, Refused) /\ ~r.may
    BY <1>0, <2>1, <2>3, Refusal DEF SaysNo, Refuses, Ends, Turns, Hopeless
  <2>4. CASE Releasing(a)
    BY <2>4 DEF Releasing, SaysYes, Answers, Ends, Turns
  <2> QED
    BY <1>0, <1>3, <2>2, <2>3, <2>4, ReleaseEffect
<1>4. CASE Save(a)
  <2>1. tx[a].pc \in Busy /\ Keyed(r.op) /\ r.op = "save"
    BY <1>4 DEF Save, Is, Busy, Keyed
  <2>2. CASE Refuses(a, Conflict) /\ r.checklist # None /\ ~Editable(r)
    BY <1>0, <2>1, <2>2, Refusal DEF SaysNo, Refuses, Ends, Turns, Hopeless
  <2>3. CASE Refuses(a, Refused) /\ ~r.may
    BY <1>0, <2>1, <2>3, Refusal DEF SaysNo, Refuses, Ends, Turns, Hopeless
  <2>4. CASE Saving(a)
    BY <2>4 DEF Saving, SaysYes, Answers, Ends, Turns
  <2> QED
    BY <1>0, <1>4, <2>2, <2>3, <2>4, SaveEffect
<1>5. CASE SubmitBegin(a)
  <2>1. tx[a].pc \in Busy /\ Keyed(r.op) /\ r.op = "submit"
    BY <1>5 DEF SubmitBegin, Is, Busy, Keyed
  <2>2. r.checklist # None
    BY <2>1, RequestIs DEF IsMeant
  <2>3. CASE (GiveUp(a, Refused) /\ ~r.may) \/ (GiveUp(a, Conflict) /\ ~Editable(r))
    <3>1. Hopeless(a[1])
      BY <1>0, <2>1, <2>2, <2>3, Refusal DEF Hopeless
    <3>2. tx'[a].reply \in {Refused, Conflict} /\ db' = db /\ request' = request
      BY <1>0, <2>3, GiveUpEffect DEF Turns
    <3> QED
      BY <3>1, <3>2 DEF SaysNo
  <2>4. CASE \E p \in Projects :
               Goes(a, IF r.slot = None THEN "tell" ELSE "slot", tx[a].locks \cup {ProjectRow(p)}, p)
    <3>1. PICK p \in Projects :
               Goes(a, IF r.slot = None THEN "tell" ELSE "slot", tx[a].locks \cup {ProjectRow(p)}, p)
      BY <2>4
    <3> DEFINE pc == IF r.slot = None THEN "tell" ELSE "slot"
    <3>2. Goes(a, pc, tx[a].locks \cup {ProjectRow(p)}, p)
      BY <3>1
    <3> HIDE DEF pc
    <3> QED
      BY <1>0, <3>2, GoesEffect DEF Turns
  <2> QED
    BY <1>5, <2>3, <2>4 DEF SubmitBegin
<1>6. CASE SubmitSlot(a)
  <2>1. tx[a].pc \in Busy /\ Keyed(r.op) /\ r.op = "submit" /\ tx[a].pc = "slot"
    BY <1>6 DEF SubmitSlot, Is, Busy, Keyed
  <2>2. r.slot # None
    BY <2>1 DEF Held, WorkSound, SubmitSound
  <2>3. CASE GiveUp(a, Conflict) /\ ~Bookable(r.slot, r.slotBase)
    <3>1. Hopeless(a[1])
      BY <1>0, <2>1, <2>2, <2>3, Refusal DEF Hopeless
    <3>2. tx'[a].reply \in {Refused, Conflict} /\ db' = db /\ request' = request
      BY <1>0, <2>3, GiveUpEffect DEF Turns
    <3> QED
      BY <3>1, <3>2 DEF SaysNo
  <2>4. CASE Continue(a, "tell", tx[a].work)
    BY <1>0, <2>4, ContinueEffect DEF Turns
  <2> QED
    BY <1>6, <2>3, <2>4 DEF SubmitSlot, SlotGone
<1>7. CASE Submit(a)
  <2>1. tx[a].work \in Projects
    BY <1>7 DEF Submit, Is, Held, WorkSound, SubmitSound
  <2>2. Submitting(a)
    BY <1>0, <1>7, SubmitEffect
  <2> QED
    BY <2>1, <2>2 DEF Submitting, SaysYes, Answers, Ends, Turns
<1> QED
  BY <1>1, <1>2, <1>3, <1>4, <1>5, <1>6, <1>7 DEF BookingStep

\* A project that somebody asked about was there, so one that is not live is deleted.
LEMMA AskedAbout ==
  ASSUME Held, NEW a \in Attempts, tx[a].pc \in Busy, Req(a).project # None
  PROVE  Req(a).project \in Projects /\ db.project[Req(a).project].state \in {"live", "deleted"}
<1>1. Req(a).project \in Projects /\ Fits(db, Req(a))
  BY RequestIs DEF Requests
<1>2. db.project[Req(a).project].state \in {"absent", "live", "deleted"}
  BY <1>1 DEF Held, Tables
<1> QED
  BY <1>1, <1>2 DEF Fits

\* A link or a deletion says yes, or says no for a reason that stays.
LEMMA LinkSays ==
  ASSUME Held, NEW a \in Attempts, LinkStep(a)
  PROVE  tx'[a].reply = tx[a].reply \/ SaysYes(a) \/ SaysNo(a)
<1> DEFINE r == Req(a)
<1>0. Shaped /\ r = request[a[1]]
  BY DEF Held, Req
<1>1. CASE LinkTarget(a)
  <2>1. tx[a].pc \in Busy /\ Keyed(r.op) /\ r.op = "setLink"
    BY <1>1 DEF LinkTarget, Is, Busy, Keyed
  <2>2. CASE GiveUp(a, Refused) /\ r.project # None /\ db.project[r.project].state # "live"
    <3>1. Hopeless(a[1])
      BY <1>0, <2>1, <2>2, Refusal, AskedAbout DEF Hopeless
    <3>2. tx'[a].reply = Refused /\ db' = db /\ request' = request
      BY <1>0, <2>2, GiveUpEffect DEF Turns
    <3> QED
      BY <3>1, <3>2 DEF SaysNo
  <2>3. CASE Continue(a, "report", <<>>)
    BY <1>0, <2>3, ContinueEffect DEF Turns
  <2> QED
    BY <1>1, <2>2, <2>3 DEF LinkTarget
<1>2. CASE SetLink(a)
  <2>1. tx[a].pc \in Busy /\ Keyed(r.op) /\ r.op = "setLink"
    BY <1>2 DEF SetLink, Is, Busy, Keyed
  <2>2. CASE Refuses(a, Conflict) /\ db.report[r.report].version # r.base
    BY <1>0, <2>1, <2>2, Refusal DEF SaysNo, Refuses, Ends, Turns, Hopeless
  <2>3. CASE Linking(a)
    <3>1. r.project \in Projects \cup {None}
      BY <2>1, RequestIs DEF Requests
    <3> QED
      BY <2>3, <3>1 DEF Linking, SaysYes, Answers, Ends, Turns
  <2> QED
    BY <1>0, <1>2, <2>2, <2>3, SetLinkEffect
<1>3. CASE AutoRead(a) \/ AutoShare(a) \/ AutoNext(a) \/ AutoSet(a) \/ DeleteTell(a)
  <2>1. \E pc : \E w : Continue(a, pc, w)
    BY <1>3 DEF AutoRead, AutoShare, AutoNext, AutoSet, DeleteTell
  <2> QED
    BY <1>0, <2>1, ContinueEffect DEF Turns
<1>4. CASE AutoLink(a)
  <2>1. BulkLinking(a)
    BY <1>0, <1>4, AutoLinkEffect
  <2> QED
    BY <2>1 DEF BulkLinking, SaysYes, Answers, Ends, Turns
<1>5. CASE DeleteBegin(a)
  <2>1. tx[a].pc \in Busy /\ Keyed(r.op) /\ r.op = "delete"
    BY <1>5 DEF DeleteBegin, Is, Busy, Keyed
  <2>2. r.project # None
    BY <2>1, RequestIs DEF IsMeant
  <2>3. CASE GiveUp(a, Refused) /\ ~(r.may /\ db.project[r.project].state = "live")
    <3>1. Hopeless(a[1])
      BY <1>0, <2>1, <2>2, <2>3, Refusal, AskedAbout DEF Hopeless
    <3>2. tx'[a].reply = Refused /\ db' = db /\ request' = request
      BY <1>0, <2>3, GiveUpEffect DEF Turns
    <3> QED
      BY <3>1, <3>2 DEF SaysNo
  <2>4. CASE Continue(a, "tell", <<>>)
    BY <1>0, <2>4, ContinueEffect DEF Turns
  <2> QED
    BY <1>5, <2>3, <2>4 DEF DeleteBegin
<1>6. CASE Delete(a)
  <2>1. tx[a].pc \in Busy /\ r.op = "delete"
    BY <1>6 DEF Delete, Is, Busy
  <2>2. r.project \in Projects
    BY <2>1, RequestIs DEF IsMeant, Requests
  <2>3. Deleting(a)
    BY <1>0, <1>6, DeleteEffect
  <2> QED
    BY <2>2, <2>3 DEF Deleting, SaysYes, Answers, Ends, Turns
<1> QED
  BY <1>1, <1>2, <1>3, <1>4, <1>5, <1>6 DEF LinkStep

\* An import that is admitted does not say no.
LEMMA ImportSays ==
  ASSUME Held, NEW a \in Attempts, ImportStep(a)
  PROVE  tx'[a].reply = tx[a].reply \/ SaysYes(a)
<1>0. Shaped
  BY DEF Held
<1>1. CASE ImportPlan(a) \/ ImportExists(a) \/ ImportUpdate(a) \/ ImportCreate(a)
  <2>1. \E locks : \E w : Goes(a, "row", locks, w)
    BY <1>1 DEF ImportPlan, ImportExists, ImportUpdate, ImportCreate, Continue
  <2> QED
    BY <1>0, <2>1, GoesEffect DEF Turns
<1>2. CASE Import(a)
  <2>1. Importing(a)
    BY <1>0, <1>2, ImportEffect
  <2> QED
    BY <2>1 DEF Importing, SaysYes, Answers, Ends, Turns
<1> QED
  BY <1>1, <1>2 DEF ImportStep

\* The inbox's own writers do not say no.
LEMMA InboxSays ==
  ASSUME Held, NEW a \in Attempts, InboxStep(a)
  PROVE  tx'[a].reply = tx[a].reply \/ SaysYes(a)
<1>0. Shaped
  BY DEF Held
<1>1. CASE \E tables : CommitUnkeyed(a, tables)
  BY <1>0, <1>1, EndEffect DEF CommitUnkeyed, SaysYes, Turns
<1>2. CASE \E pc : \E w : Continue(a, pc, w)
  BY <1>0, <1>2, ContinueEffect DEF Turns
<1> QED
  BY <1>1, <1>2 DEF InboxStep, ReadBegin, MarkRead, PurgeBegin, PurgeRows, Purge

\* What a stored answer says.
LEMMA StoredIs ==
  ASSUME Held, NEW k \in Keys, db.stored[k] # Nothing
  PROVE  \E p \in Projects \cup {None} : db.stored[k] = Done(p)
  BY DEF Held, Tables

\* Whoever says no has found out why no send can succeed, or replays an answer.
LEMMA ServerSays ==
  ASSUME Held, Answered, NEW a \in Attempts, Server(a)
  PROVE  tx'[a].reply = tx[a].reply \/ SaysYes(a) \/ SaysNo(a)
<1>0. Shaped /\ a[1] \in Keys
  BY AttemptsAre DEF Held
<1>1. CASE Lock(a)
  <2>1. SharesLock(a) \in BOOLEAN
    BY DEF SharesLock, Is
  <2> QED
    BY <1>0, <1>1, <2>1, TakeEffect DEF Lock, Turns
<1>2. CASE TurnAway(a)
  <2>1. tx[a].pc = "claim" /\ ~Admitted(Req(a))
    BY <1>2 DEF TurnAway
  <2>2. Req(a) # Nothing
    BY <2>1 DEF Held, Asked, Req
  <2>3. db.stored[a[1]] = Nothing
    BY <1>0, <2>1 DEF Answered, Req
  <2>4. ~Req(a).may /\ Keyed(Req(a).op)
    <3>1. Req(a) \in Requests
      BY <2>1, RequestIs
    <3> QED
      BY <2>1, <3>1 DEF Admitted, Keyed, Requests
  <2>5. Hopeless(a[1])
    BY <2>2, <2>3, <2>4 DEF Hopeless, Req
  <2>6. tx'[a].reply = Refused /\ db' = db /\ request' = request
    BY <1>0, <1>2, GiveUpEffect DEF TurnAway, Turns
  <2> QED
    BY <2>5, <2>6 DEF SaysNo
<1>3. CASE Claim(a)
  <2>1. CASE Replays(a[1]) /\ GiveUp(a, db.stored[a[1]])
    BY <1>0, <2>1, GiveUpEffect, StoredIs DEF Replays, SaysYes, Turns
  <2>2. CASE Goes(a, "start", {ClaimRow(a[1])}, <<>>)
    BY <1>0, <2>2, GoesEffect DEF Turns
  <2> QED
    BY <1>3, <2>1, <2>2 DEF Claim
<1> QED
  BY <1>1, <1>2, <1>3, BookingSays, LinkSays, ImportSays, InboxSays DEF Server

-----------------------------------------------------------------------------
(* Answers are stored once, and for good. *)

\* An answer is stored once, by a commit of its action.
LEMMA StoredMoves ==
  ASSUME Held, [Next]_vars
  PROVE  \A k \in Keys :
           \/ db'.stored[k] = db.stored[k]
           \/ /\ db.stored[k] = Nothing
              /\ \E a \in Attempts : Writes(a) /\ a[1] = k /\ Keyed(Req(a).op)
<1> SUFFICES ASSUME NEW k \in Keys, db'.stored[k] # db.stored[k]
             PROVE  /\ db.stored[k] = Nothing
                    /\ \E a \in Attempts : Writes(a) /\ a[1] = k /\ Keyed(Req(a).op)
  OBVIOUS
<1>1. PICK a \in Attempts : Writes(a) /\ Under(a)
  BY DbMoves
<1>2. k = a[1] /\ db.stored[k] = Nothing
  BY <1>1 DEF Under, StoredUnder
<1>3. Keyed(Req(a).op)
  <2>1. CASE \E inbox : Tidies(a, inbox)
    BY <2>1 DEF Tidies, StoredAs
  <2> QED
    BY <1>1, <2>1 DEF Writes, Is, Keyed
<1> QED
  BY <1>1, <1>2, <1>3

\* Whoever commits has a request that was admitted, and no answer yet.
LEMMA WriterIs ==
  ASSUME Held, NEW a \in Attempts, Writes(a), Keyed(Req(a).op)
  PROVE  /\ tx[a].pc \in Busy /\ Req(a) # Nothing /\ Admitted(Req(a))
         /\ db.stored[a[1]] = Nothing /\ request' = request
<1>1. tx[a].pc \in Busy
  BY DEF Writes, Is, Busy
<1> QED
  BY <1>1, WritesShape DEF Held, Asked, WorkSound, ClaimSound, Busy, Req

\* No step stores an answer for what was not asked or not allowed.
LEMMA AnsweredKept ==
  ASSUME Held, Answered, [Next]_vars
  PROVE  Answered'
<1> SUFFICES ASSUME NEW k \in Keys, db'.stored[k] # Nothing
             PROVE  request'[k] # Nothing /\ Admitted(request'[k])
  BY DEF Answered
<1>1. CASE db'.stored[k] = db.stored[k]
  BY <1>1, AskedKept DEF Answered, RequestsStay
<1>2. ASSUME NEW a \in Attempts, Writes(a), a[1] = k, Keyed(Req(a).op)
      PROVE  request'[k] # Nothing /\ Admitted(request'[k])
  BY <1>2, WriterIs DEF Req
<1> QED
  BY <1>1, <1>2, StoredMoves

-----------------------------------------------------------------------------
(* Whoever was told no was told the truth. *)

\* A hopeless action is not carried out.
LEMMA HopelessDoesNotWrite ==
  ASSUME Held, NEW a \in Attempts, Writes(a), Hopeless(a[1])
  PROVE  FALSE
<1> DEFINE r == Req(a)
<1>0. r = request[a[1]] /\ Keyed(r.op)
  BY DEF Req, Hopeless
<1>1. WorkSound(a) /\ Admitted(r)
  BY <1>0, WriterIs DEF Held
<1>2. \A p : ~(db.project[p].state = "live" /\ db.project[p].state = "deleted")
  OBVIOUS
<1>3. ~(Is(a, "book", "slot") /\ Booking(a))
  BY <1>0, <1>1 DEF Is, Booking, Hopeless, WorkSound, BookSound
<1>4. ~(Is(a, "release", "start") /\ Releasing(a))
  BY <1>0 DEF Is, Releasing, Hopeless
<1>5. ~(Is(a, "save", "start") /\ Saving(a))
  BY <1>0 DEF Is, Saving, Hopeless
<1>6. ~(Is(a, "submit", "tell") /\ Submitting(a))
  BY <1>0, <1>1 DEF Is, Hopeless, WorkSound, SubmitSound
<1>7. ~(Is(a, "setLink", "report") /\ Linking(a))
  BY <1>0, <1>1 DEF Is, Linking, Hopeless, WorkSound, LinkSound, Admitted
<1>8. ~(Is(a, "autoLink", "set") /\ BulkLinking(a))
  BY <1>0, <1>1 DEF Is, Hopeless, Admitted
<1>9. ~(Is(a, "delete", "reports") /\ Deleting(a))
  BY <1>0, <1>1 DEF Is, Hopeless, WorkSound, DeleteSound
<1>10. ~(Is(a, "import", "row") /\ Importing(a))
  BY <1>0, <1>1 DEF Is, Hopeless, Admitted
<1>11. ~Is(a, "read", "count") /\ ~Is(a, "purge", "count")
  BY <1>0 DEF Is, Keyed
<1> QED
  BY <1>3, <1>4, <1>5, <1>6, <1>7, <1>8, <1>9, <1>10, <1>11 DEF Writes

\* Versions only grow, and deleted projects stay deleted.
LEMMA Ages ==
  ASSUME Held, [Next]_vars
  PROVE  /\ \A s \in Slots : \/ db'.slot[s] = db.slot[s]
                             \/ db'.slot[s].version = db.slot[s].version + 1
         /\ \A c \in Checklists : \/ db'.checklist[c] = db.checklist[c]
                                  \/ db'.checklist[c].version = db.checklist[c].version + 1
         /\ \A x \in Reports : \/ db'.report[x] = db.report[x]
                               \/ db'.report[x].version = db.report[x].version + 1
         /\ \A p \in Projects : db.project[p].state = "deleted" => db'.project[p] = db.project[p]
<1>1. CASE db' = db
  BY <1>1
<1>2. ASSUME NEW a \in Attempts, Under(a)
      PROVE  /\ \A s \in Slots : \/ db'.slot[s] = db.slot[s]
                                 \/ db'.slot[s].version = db.slot[s].version + 1
             /\ \A c \in Checklists : \/ db'.checklist[c] = db.checklist[c]
                                      \/ db'.checklist[c].version = db.checklist[c].version + 1
             /\ \A x \in Reports : \/ db'.report[x] = db.report[x]
                                   \/ db'.report[x].version = db.report[x].version + 1
             /\ \A p \in Projects : db.project[p].state = "deleted" => db'.project[p] = db.project[p]
  BY <1>2 DEF Under, SlotsUnder, ChecklistsUnder, ReportsUnder, ProjectsUnder, Born, Dies
<1> QED
  BY <1>1, <1>2, DbMoves

\* A booking goes past the check of its project only while the project is there.
LEMMA ChecksProject ==
  ASSUME Held, [Next]_vars, NEW a \in Attempts, request[a[1]] # Nothing, Req(a).op = "book",
         tx'[a].pc = "slot", tx[a].pc # "slot"
  PROVE  Req(a).project = None \/ db.project[Req(a).project].state = "live"
<1>0. Shaped /\ request = [x \in Keys |-> request[x]]
  BY DEF Held, Asked
<1>1. ASSUME NEW k \in Keys, Ask(k) PROVE FALSE
  <2>1. \A b \in Attempts : b[1] = k => tx[b].pc = "none"
    BY <1>1 DEF Held, Asked, Ask
  <2>2. Begins(<<k, 1>>)
    BY <1>0, <1>1, <2>1, AskEffect
  <2> QED
    BY <2>2 DEF Begins, Turns
<1>2. ASSUME NEW k \in Keys, Resend(k) PROVE FALSE
  <2>1. PICK n \in 1..(Sends[k] - 1) : Begins(<<k, n + 1>>)
    BY <1>0, <1>2, ResendEffect
  <2> QED
    BY <2>1 DEF Begins, Turns
<1>3. ASSUME NEW b \in Attempts, b # a, Server(b) \/ Deadlock(b) \/ Kill(b) PROVE FALSE
  <2>1. Writes(b) \/ Moves(b) \/ Drops(b)
    BY <1>0, <1>3, ServerMoves, DropMoves
  <2>2. tx'[a] = tx[a]
    BY <1>3, <2>1, WritesShape DEF Moves, Drops, Taking, Claiming, Ending, Going, Turns
  <2> QED
    BY <2>2
<1>4. ASSUME Deadlock(a) \/ Kill(a) PROVE FALSE
  BY <1>0, <1>4, DropMoves DEF Drops, Turns
<1>5. CASE Server(a)
  <2>1. CASE Lock(a)
    <3>1. SharesLock(a) \in BOOLEAN
      BY DEF SharesLock, Is
    <3> QED
      BY <1>0, <2>1, <3>1, TakeEffect DEF Lock, Turns
  <2>2. CASE TurnAway(a) \/ Claim(a)
    <3>1. CASE \E reply : GiveUp(a, reply)
      BY <1>0, <3>1, GiveUpEffect DEF Turns
    <3>2. CASE Goes(a, "start", {ClaimRow(a[1])}, <<>>)
      BY <1>0, <3>2, GoesEffect DEF Turns
    <3> QED
      BY <2>2, <3>1, <3>2 DEF TurnAway, Claim
  <2>3. CASE CheckProject(a)
    BY <1>0, <2>3, GiveUpEffect DEF CheckProject, Turns
  <2>4. CASE Book(a)
    BY <2>4 DEF Book, Is
  <2>5. ~(Release(a) \/ Save(a) \/ SubmitBegin(a) \/ SubmitSlot(a) \/ Submit(a))
    BY DEF Release, Save, SubmitBegin, SubmitSlot, Submit, Is
  <2>6. ~LinkStep(a)
    BY DEF LinkStep, LinkTarget, SetLink, AutoRead, AutoShare, AutoSet, AutoNext, AutoLink,
           DeleteBegin, DeleteTell, Delete, Is
  <2>7. ~ImportStep(a)
    BY DEF ImportStep, ImportPlan, ImportExists, ImportCreate, ImportUpdate, Import, AtRow, Is
  <2>8. ~InboxStep(a)
    BY DEF InboxStep, ReadBegin, MarkRead, PurgeBegin, PurgeRows, Purge, Is
  <2> QED
    BY <1>5, <2>1, <2>2, <2>3, <2>4, <2>5, <2>6, <2>7, <2>8 DEF Server, BookingStep
<1>6. ~UNCHANGED vars
  BY DEF vars
<1> QED
  BY <1>1, <1>2, <1>3, <1>4, <1>5, <1>6 DEF Next

\* What is hopeless stays so.
LEMMA HopelessStays ==
  ASSUME Held, [Next]_vars, NEW k \in Keys, Hopeless(k)
  PROVE  Hopeless(k)'
<1>r. PICK r : r = request[k]
  OBVIOUS
<1>0. r # Nothing /\ Keyed(r.op) /\ db.stored[k] = Nothing
  BY <1>r DEF Hopeless
<1>1. request'[k] = r
  BY <1>r, <1>0, AskedKept DEF RequestsStay
<1>2. db'.stored[k] = Nothing
  BY <1>0, StoredMoves, HopelessDoesNotWrite
<1>3. r \in Requests /\ IsMeant(r) /\ Fits(db, r)
  BY <1>r, <1>0 DEF Held, Asked
<1> SUFFICES
      \/ ~r.may
      \/ r.op = "book" /\ ~Bookable(r.slot, r.base)'
      \/ /\ r.op = "book" /\ r.project # None /\ db'.project[r.project].state = "deleted"
         /\ \A a \in Attempts : a[1] = k => tx'[a].pc # "slot"
      \/ r.op = "release" /\ db'.slot[r.slot].version # r.base
      \/ r.op \in {"save", "submit"} /\ r.checklist # None /\ ~Editable(r)'
      \/ r.op = "submit" /\ r.slot # None /\ ~Bookable(r.slot, r.slotBase)'
      \/ r.op = "setLink" /\ db'.report[r.report].version # r.base
      \/ r.op \in {"setLink", "delete"} /\ r.project # None /\ db'.project[r.project].state = "deleted"
  BY <1>0, <1>1, <1>2 DEF Hopeless, Bookable, Editable
<1>4. ASSUME NEW s \in Slots, NEW base \in Nat, base <= db.slot[s].version
      PROVE  /\ ~Bookable(s, base) => ~Bookable(s, base)'
             /\ db.slot[s].version # base => db'.slot[s].version # base
  <2>1. db.slot[s].version \in Nat
    BY DEF Held, Tables
  <2>2. db'.slot[s] = db.slot[s] \/ db'.slot[s].version = db.slot[s].version + 1
    BY Ages
  <2> QED
    BY <1>4, <2>1, <2>2 DEF Bookable
<1>5. ASSUME r.op \in {"save", "submit"}, r.checklist # None, ~Editable(r)
      PROVE  ~Editable(r)'
  <2>1. r.checklist \in Checklists /\ r.base \in Nat /\ r.base <= db.checklist[r.checklist].version
    BY <1>3, <1>5 DEF Requests, Fits
  <2>2. db.checklist[r.checklist].version \in Nat
    BY <2>1 DEF Held, Tables
  <2>3. \/ db'.checklist[r.checklist] = db.checklist[r.checklist]
        \/ db'.checklist[r.checklist].version = db.checklist[r.checklist].version + 1
    BY <2>1, Ages
  <2> QED
    BY <1>5, <2>1, <2>2, <2>3, <1>1 DEF Editable
<1>6. ASSUME r.op = "setLink", db.report[r.report].version # r.base
      PROVE  db'.report[r.report].version # r.base
  <2>1. r.report \in Reports /\ r.base \in Nat /\ r.base <= db.report[r.report].version
    BY <1>3, <1>6 DEF Requests, Fits, IsMeant
  <2>2. db.report[r.report].version \in Nat
    BY <2>1 DEF Held, Tables
  <2>3. \/ db'.report[r.report] = db.report[r.report]
        \/ db'.report[r.report].version = db.report[r.report].version + 1
    BY <2>1, Ages
  <2> QED
    BY <1>6, <2>1, <2>2, <2>3
<1>7. ASSUME r.project # None, db.project[r.project].state = "deleted"
      PROVE  db'.project[r.project].state = "deleted"
  BY <1>3, <1>7, Ages DEF Requests
<1>8. r.op \in {"book", "release"} =>
        r.slot \in Slots /\ r.base \in Nat /\ r.base <= db.slot[r.slot].version
  BY <1>3 DEF Requests, Fits, IsMeant
<1>9. r.op = "submit" /\ r.slot # None =>
        r.slot \in Slots /\ r.slotBase \in Nat /\ r.slotBase <= db.slot[r.slot].version
  BY <1>3 DEF Requests, Fits
<1>10. ASSUME r.op = "book", r.project # None, db.project[r.project].state = "deleted",
              NEW a \in Attempts, a[1] = k, tx[a].pc # "slot"
       PROVE  tx'[a].pc # "slot"
  BY <1>0, <1>10, <1>r, ChecksProject DEF Req
<1>11. CASE ~r.may
  BY <1>11
<1>12. CASE r.op = "book" /\ ~Bookable(r.slot, r.base)
  BY <1>4, <1>8, <1>12
<1>13. CASE /\ r.op = "book" /\ r.project # None /\ db.project[r.project].state = "deleted"
            /\ \A a \in Attempts : a[1] = k => tx[a].pc # "slot"
  BY <1>7, <1>10, <1>13
<1>14. CASE r.op = "release" /\ db.slot[r.slot].version # r.base
  BY <1>4, <1>8, <1>14
<1>15. CASE r.op \in {"save", "submit"} /\ r.checklist # None /\ ~Editable(r)
  BY <1>5, <1>15
<1>16. CASE r.op = "submit" /\ r.slot # None /\ ~Bookable(r.slot, r.slotBase)
  BY <1>4, <1>9, <1>16
<1>17. CASE r.op = "setLink" /\ db.report[r.report].version # r.base
  BY <1>6, <1>17
<1>18. CASE r.op \in {"setLink", "delete"} /\ r.project # None /\ db.project[r.project].state = "deleted"
  BY <1>7, <1>18
<1> QED
  BY <1>11, <1>12, <1>13, <1>14, <1>15, <1>16, <1>17, <1>18, <1>r DEF Hopeless

\* What a step tells a caller.
LEMMA ReplyMoves ==
  ASSUME Held, Answered, [Next]_vars, NEW b \in Attempts
  PROVE  \/ tx'[b].reply = tx[b].reply \/ tx'[b].reply \in {Nothing, Failed}
         \/ SaysYes(b) \/ SaysNo(b)
<1>0. Shaped /\ request = [x \in Keys |-> request[x]]
  BY DEF Held, Asked
<1>1. CASE UNCHANGED vars
  BY <1>1 DEF vars
<1>2. ASSUME NEW a \in Attempts, Begins(a)
      PROVE  tx'[b].reply = tx[b].reply \/ tx'[b].reply \in {Nothing, Failed}
  BY <1>2 DEF Begins, Turns
<1>3. ASSUME NEW k \in Keys, Ask(k)
      PROVE  tx'[b].reply = tx[b].reply \/ tx'[b].reply \in {Nothing, Failed}
  <2>1. \A a \in Attempts : a[1] = k => tx[a].pc = "none"
    BY <1>3 DEF Held, Asked, Ask
  <2>2. Begins(<<k, 1>>)
    BY <1>0, <1>3, <2>1, AskEffect
  <2> QED
    BY <1>2, <2>2, AttemptsAre
<1>4. ASSUME NEW k \in Keys, Resend(k)
      PROVE  tx'[b].reply = tx[b].reply \/ tx'[b].reply \in {Nothing, Failed}
  BY <1>0, <1>2, <1>4, ResendEffect, AttemptsAre
<1>5. ASSUME NEW a \in Attempts, a # b, Server(a) \/ Deadlock(a) \/ Kill(a)
      PROVE  tx'[b].reply = tx[b].reply
  <2>1. Writes(a) \/ Moves(a) \/ Drops(a)
    BY <1>0, <1>5, ServerMoves, DropMoves
  <2>2. tx'[b] = tx[b]
    BY <1>5, <2>1, WritesShape DEF Moves, Drops, Taking, Claiming, Ending, Going, Turns
  <2> QED
    BY <2>2
<1>6. ASSUME Deadlock(b) \/ Kill(b)
      PROVE  tx'[b].reply \in {Nothing, Failed}
  BY <1>0, <1>6, DropMoves DEF Drops, Turns
<1> QED
  BY <1>1, <1>3, <1>4, <1>5, <1>6, ServerSays DEF Next

\* No step says no to what can still succeed.
LEMMA NoIsFinalKept ==
  ASSUME Held, Answered, NoIsFinal, [Next]_vars
  PROVE  NoIsFinal'
<1> SUFFICES ASSUME NEW a \in Attempts, tx'[a].reply \in {Conflict, Refused}
             PROVE  Hopeless(a[1])'
  BY DEF NoIsFinal
<1>1. a[1] \in Keys
  BY AttemptsAre
<1>2. tx'[a].reply = tx[a].reply \/ SaysNo(a)
  BY ReplyMoves, RepliesDiffer DEF SaysYes
<1>3. Hopeless(a[1])
  BY <1>2 DEF NoIsFinal, SaysNo
<1> QED
  BY <1>1, <1>3, HopelessStays

\* No step tells a caller anything else than an answer.
LEMMA ToldKept ==
  ASSUME Held, Answered, Told, [Next]_vars
  PROVE  Told'
<1> SUFFICES ASSUME NEW a \in Attempts PROVE tx'[a].reply \in Replies
  BY DEF Told, Replies
<1> QED
  BY ReplyMoves DEF Told, SaysYes, SaysNo, Replies

\* The tables and the transactions have the shape the code gives them.
THEOREM TypesAreKept == Spec => []TypeOK
<1>1. Init => Held /\ Answered /\ Told
  BY HeldAtFirst DEF Init, Answered, Told, NotBegun, Fresh, Replies
<1>2. Held /\ Answered /\ Told /\ [Next]_vars => (Held /\ Answered /\ Told)'
  BY HeldKept, AnsweredKept, ToldKept
<1>3. Held /\ Told => TypeOK
  <2> SUFFICES ASSUME Held, Told PROVE TypeOK
    OBVIOUS
  <2>1. Tables /\ Asked /\ LocksSound
    BY DEF Held
  <2>2. db.stored \in [Keys -> Replies]
    BY <2>1 DEF Tables, Replies
  <2>3. ASSUME NEW a \in Attempts
        PROVE  /\ tx[a].pc \in {"none", "claim", "start", "slot", "tell", "report", "share", "set",
                                "reports", "row", "rows", "count", "ended", "gone"}
               /\ tx[a].reply \in Replies
               /\ a \notin Running => tx[a].locks = {} /\ tx[a].shares = {}
    BY <2>1 DEF Asked, LocksSound, Told, Idle, Busy, Running
  <2> QED
    BY <2>1, <2>2, <2>3 DEF TypeOK, Tables
<1> QED
  BY <1>1, <1>2, <1>3, PTL DEF Spec

\* Whoever was told "conflict" or "refused" can rely on it, whichever sends of the action are
\* still under way or follow, as far as the rights to it do not change meanwhile.
THEOREM ANoIsFinal == Spec => []NoMeansNo
<1>1. Init => Held /\ Answered /\ NoIsFinal
  BY HeldAtFirst, RepliesDiffer DEF Init, Answered, NoIsFinal, NotBegun, Fresh
<1>2. Held /\ Answered /\ NoIsFinal /\ [Next]_vars => (Held /\ Answered /\ NoIsFinal)'
  BY HeldKept, AnsweredKept, NoIsFinalKept
<1>3. NoIsFinal => NoMeansNo
  BY DEF NoIsFinal, NoMeansNo, Hopeless
<1> QED
  BY <1>1, <1>2, <1>3, PTL DEF Spec

-----------------------------------------------------------------------------
(* Slots *)

\* No step books a booked slot, or lets its events differ from it.
LEMMA EventsKept ==
  ASSUME Held, EventsFollow, NoDoubleBooking, [Next]_vars
  PROVE  (EventsFollow /\ NoDoubleBooking)'
<1>0. /\ db.slot = [s \in Slots |-> db.slot[s]]
      /\ db.slotEvents = [s \in Slots |-> db.slotEvents[s]]
      /\ \A s \in Slots : /\ db.slotEvents[s] \in Seq([key : Keys, to : {"free", "booked"},
                                                       project : Projects \cup {None}])
  BY DEF Held, Tables
<1>1. CASE SlotsAs(db, db')
  BY <1>1 DEF SlotsAs, EventsFollow, NoDoubleBooking
<1>2. ASSUME NEW k \in Keys, NEW s \in Slots, NEW status \in {"free", "booked"},
             NEW p \in Projects \cup {None},
             SlotWritten(k, s, status, p), status = "booked" => db.slot[s].status = "free"
      PROVE  (EventsFollow /\ NoDoubleBooking)'
  <2> DEFINE e == db.slotEvents[s]  new == [key |-> k, to |-> status, project |-> p]
             Event == [key : Keys, to : {"free", "booked"}, project : Projects \cup {None}]
  <2>1. new \in Event /\ e \in Seq(Event) /\ new.to = status
    BY <1>0
  <2>2. /\ db'.slotEvents[s] = Append(e, new) /\ db'.slot[s].status = status
        /\ \A t \in Slots : t # s => db'.slotEvents[t] = db.slotEvents[t] /\ db'.slot[t] = db.slot[t]
    BY <1>0, <1>2 DEF SlotWritten
  <2>e. e = db.slotEvents[s]
    OBVIOUS
  <2> HIDE DEF e, new, Event
  <2>3. /\ Len(Append(e, new)) = Len(e) + 1 /\ Append(e, new)[Len(e) + 1] = new
        /\ \A i \in 1..Len(e) : Append(e, new)[i] = e[i]
        /\ Len(e) \in Nat /\ Append(e, new) # <<>>
        /\ e # <<>> => Len(e) # 0
    BY <2>1
  <2>4. EventsFollow'
    <3> SUFFICES ASSUME NEW t \in Slots
                 PROVE  db'.slot[t].status = IF db'.slotEvents[t] = <<>> THEN "free"
                          ELSE db'.slotEvents[t][Len(db'.slotEvents[t])].to
      BY DEF EventsFollow
    <3>1. CASE t = s
      BY <2>1, <2>2, <2>3, <3>1
    <3>2. CASE t # s
      BY <2>2, <3>2 DEF EventsFollow
    <3> QED
      BY <3>1, <3>2
  <2>5. NoDoubleBooking'
    <3> SUFFICES ASSUME NEW t \in Slots, NEW i \in 1..(Len(db'.slotEvents[t]) - 1),
                        db'.slotEvents[t][i].to = "booked"
                 PROVE  db'.slotEvents[t][i + 1].to = "free"
      BY DEF NoDoubleBooking
    <3>1. CASE t # s
      BY <2>2, <3>1 DEF NoDoubleBooking
    <3>2. CASE t = s /\ i < Len(e)
      <4>1. i \in 1..(Len(e) - 1) /\ i + 1 \in 1..Len(e)
        BY <2>2, <2>3, <3>2
      <4>2. db'.slotEvents[t][i] = e[i] /\ db'.slotEvents[t][i + 1] = e[i + 1]
        BY <2>2, <2>3, <3>2, <4>1
      <4> QED
        BY <2>e, <4>1, <4>2 DEF NoDoubleBooking
    <3>3. CASE t = s /\ i >= Len(e)
      <4>1. i = Len(e) /\ i \in 1..Len(e)
        BY <2>2, <2>3, <3>3
      <4>2. e[Len(e)].to = "booked" /\ e # <<>>
        BY <2>1, <2>2, <2>3, <4>1, <3>3
      <4>3. db.slot[s].status = "booked"
        BY <2>e, <4>2 DEF EventsFollow
      <4>4. status = "free"
        BY <1>2, <4>3
      <4> QED
        BY <2>1, <2>2, <2>3, <3>3, <4>1, <4>4
    <3> QED
      BY <2>3, <3>1, <3>2, <3>3
  <2> QED
    BY <2>4, <2>5
<1>3. ASSUME NEW a \in Attempts, Writes(a)
      PROVE  (EventsFollow /\ NoDoubleBooking)'
  <2>0. /\ tx[a].pc \in Busy /\ a[1] \in Keys /\ Req(a) \in Requests /\ IsMeant(Req(a))
    <3>1. tx[a].pc \in Busy
      BY <1>3 DEF Writes, Is, Busy
    <3> QED
      BY <3>1, RequestIs
  <2>1. CASE Is(a, "book", "slot") /\ Booking(a)
    <3>1. Req(a).slot \in Slots /\ Req(a).project \in Projects \cup {None}
      BY <2>0, <2>1 DEF Is, IsMeant, Requests
    <3> QED
      BY <1>2, <2>0, <2>1, <3>1 DEF Booking, Bookable
  <2>2. CASE Is(a, "release", "start") /\ Releasing(a)
    <3>1. Req(a).slot \in Slots
      BY <2>0, <2>2 DEF Is, IsMeant, Requests
    <3> QED
      BY <1>2, <2>0, <2>2, <3>1 DEF Releasing
  <2>3. CASE Is(a, "submit", "tell") /\ Submitting(a)
    <3>1. tx[a].work \in Projects
      BY <2>3 DEF Held, WorkSound, SubmitSound, Is
    <3>2. Req(a).slot # None => Req(a).slot \in Slots
      BY <2>0 DEF Requests
    <3> QED
      BY <1>1, <1>2, <2>0, <2>3, <3>1, <3>2 DEF Submitting, Bookable
  <2>4. CASE \/ Saving(a) \/ Linking(a) \/ BulkLinking(a) \/ Deleting(a) \/ Importing(a)
             \/ \E inbox : Tidies(a, inbox)
    BY <1>1, <2>4 DEF Saving, Linking, BulkLinking, Deleting, Importing, Tidies
  <2> QED
    BY <1>3, <2>1, <2>2, <2>3, <2>4 DEF Writes
<1>4. db' = db => SlotsAs(db, db')
  BY DEF SlotsAs
<1> QED
  BY <1>1, <1>3, <1>4, DbMoves

\* A booked slot is released before it is booked again, whoever asks and however often.
THEOREM SlotsAreBookedOnce == Spec => []NoDoubleBooking
<1>1. Init => Held /\ EventsFollow /\ NoDoubleBooking
  BY HeldAtFirst DEF Init, EventsFollow, NoDoubleBooking
<1>2. Held /\ EventsFollow /\ NoDoubleBooking /\ [Next]_vars
        => (Held /\ EventsFollow /\ NoDoubleBooking)'
  BY HeldKept, EventsKept
<1> QED
  BY <1>1, <1>2, PTL DEF Spec

-----------------------------------------------------------------------------
(* Links and source keys *)

\* Only its deletion ends a project.
LivesOn == \A p \in Projects : db.project[p].state = "live" => db'.project[p].state = "live"

\* Only a deletion takes a project away.
LEMMA OnlyDeletionEnds ==
  ASSUME Held, NEW a \in Attempts, Writes(a), ~Is(a, "delete", "reports")
  PROVE  LivesOn
<1>1. CASE ProjectsAs(db, db')
  BY <1>1 DEF ProjectsAs, LivesOn
<1>2. CASE Submitting(a)
  <2>1. db.project = [p \in Projects |-> db.project[p]]
    BY DEF Held, Tables
  <2> QED
    BY <1>2, <2>1 DEF Submitting, LivesOn
<1>3. CASE Importing(a)
  BY <1>3 DEF Importing, WithMade, LivesOn
<1> QED
  BY <1>1, <1>2, <1>3 DEF Writes, Booking, Releasing, Saving, Linking, BulkLinking, Tidies

Points(p) == p = None \/ db.project[p].state = "live"

\* No commit leaves a link to a project that is gone.
LEMMA ReportsPoint ==
  ASSUME Held, NothingPointsToTheDeleted, NEW a \in Attempts, Writes(a)
  PROVE  \A x \in Reports : Points(db.report[x].project)' /\ db'.report[x].project \in Projects \cup {None}
<1>0. /\ db.report = [x \in Reports |-> db.report[x]]
      /\ \A x \in Reports : /\ db.report[x].project \in Projects \cup {None}
                            /\ Points(db.report[x].project)
  BY DEF Held, Tables, NothingPointsToTheDeleted, Points
<1>1. LivesOn => \A p \in Projects \cup {None} : Points(p) => p = None \/ db'.project[p].state = "live"
  BY DEF LivesOn, Points
<1>2. CASE ~Is(a, "delete", "reports") /\ ReportsAs(db, db')
  BY <1>0, <1>1, <1>2, OnlyDeletionEnds DEF ReportsAs, Points
<1>3. CASE Is(a, "setLink", "report") /\ Linking(a)
  <2>1. CASE ReportsAs(db, db')
    <3>1. LivesOn
      BY <1>3 DEF Linking, ProjectsAs, LivesOn
    <3> QED
      BY <1>0, <1>1, <2>1, <3>1 DEF ReportsAs, Points
  <2>2. CASE db'.report = [db.report EXCEPT
                ![Req(a).report] = [project |-> Req(a).project, source |-> ByHand(Req(a).project),
                                    version |-> db.report[Req(a).report].version + 1]]
    <3>1. db'.project = db.project
      BY <1>3 DEF Linking, ProjectsAs
    <3>2. Req(a).project \in Projects \cup {None}
      BY <1>3, RequestIs DEF Is, Busy, Requests
    <3>3. Points(Req(a).project)
      BY <1>3 DEF Held, WorkSound, LinkSound, Points
    <3>4. \A x \in Reports : \/ db'.report[x].project = Req(a).project
                             \/ db'.report[x] = db.report[x]
      BY <1>0, <2>2
    <3> QED
      BY <1>0, <3>1, <3>2, <3>3, <3>4 DEF Points
  <2> QED
    BY <1>3, <2>1, <2>2 DEF Linking
<1>4. CASE Is(a, "autoLink", "set") /\ BulkLinking(a)
  <2> DEFINE w == tx[a].work
  <2>1. \A t \in w.set : t.project \in Projects /\ db.project[t.project].state = "live"
    BY <1>4, BulkIs DEF Is, BulkWork, Finds, Shared
  <2>2. db'.project = db.project /\ db'.report = BulkLinked(w.set)
    BY <1>4 DEF BulkLinking, ProjectsAs
  <2> HIDE DEF w
  <2>3. \A x \in Reports : \/ \E t \in w.set : db'.report[x].project = t.project
                           \/ db'.report[x] = db.report[x]
    BY <2>2 DEF BulkLinked
  <2> QED
    BY <1>0, <2>1, <2>2, <2>3 DEF Points
<1>5. CASE Is(a, "delete", "reports") /\ Deleting(a)
  <2>1. \A p \in Projects : p # Req(a).project => db'.project[p] = db.project[p]
    <3>1. db.project = [p \in Projects |-> db.project[p]]
      BY DEF Held, Tables
    <3> QED
      BY <1>5, <3>1 DEF Deleting
  <2>2. \A x \in Reports : \/ db'.report[x].project = None
                           \/ db'.report[x] = db.report[x] /\ db.report[x].project # Req(a).project
    BY <1>5 DEF Deleting, WithoutLinksTo
  <2> QED
    BY <1>0, <2>1, <2>2 DEF Points
<1>6. CASE \/ Is(a, "book", "slot") /\ Booking(a)
           \/ Is(a, "release", "start") /\ Releasing(a)
           \/ Is(a, "save", "start") /\ Saving(a)
           \/ Is(a, "submit", "tell") /\ Submitting(a)
           \/ Is(a, "import", "row") /\ Importing(a)
           \/ Is(a, "read", "count") /\ Tidies(a, MarkedRead(tx[a].work))
           \/ Is(a, "purge", "count") /\ Tidies(a, db.inbox \ tx[a].work)
  <2>1. ~Is(a, "delete", "reports")
    BY <1>6 DEF Is
  <2>2. ReportsAs(db, db')
    BY <1>6 DEF Booking, Releasing, Saving, Submitting, Importing, Tidies
  <2> QED
    BY <1>2, <2>1, <2>2
<1> QED
  BY <1>3, <1>4, <1>5, <1>6 DEF Writes

\* No commit leaves a source key of a project that is gone.
LEMMA KeysPoint ==
  ASSUME Held, NothingPointsToTheDeleted, NEW a \in Attempts, Writes(a)
  PROVE  \A g \in Registrations : Points(db.key[g])'
<1>0. \A g \in Registrations : db.key[g] \in Projects \cup {None} /\ Points(db.key[g])
  BY DEF Held, Tables, NothingPointsToTheDeleted, Points
<1>1. LivesOn => \A p \in Projects \cup {None} : Points(p) => p = None \/ db'.project[p].state = "live"
  BY DEF LivesOn, Points
<1>2. CASE ~Is(a, "delete", "reports") /\ KeysAs(db, db')
  BY <1>0, <1>1, <1>2, OnlyDeletionEnds DEF KeysAs, Points
<1>3. CASE Is(a, "import", "row") /\ Importing(a)
  <2> DEFINE w == tx[a].work  owned == w.made \cup w.kept
  <2>1. LivesOn
    BY <1>3, OnlyDeletionEnds DEF Is
  <2>2. /\ \A t \in w.kept : t.project \in Projects /\ db.project[t.project].state = "live"
        /\ \A t \in w.made : t.project \in Projects
    BY <1>3, RowsAre DEF RowsSound, Owns
  <2>3. /\ db'.project = WithMade(w.made) /\ db'.key = WithOwned(owned)
    BY <1>3 DEF Importing
  <2> HIDE DEF w
  <2>4. \A t \in owned : db'.project[t.project].state = "live"
    BY <2>1, <2>2, <2>3 DEF LivesOn, WithMade
  <2>5. \A g \in Registrations : \/ db'.key[g] = db.key[g]
                                 \/ \E t \in owned : db'.key[g] = t.project
    <3> TAKE g \in Registrations
    <3>1. CASE \E t \in owned : t.reg = g
      BY <2>3, <3>1 DEF WithOwned, OwnerIn
    <3>2. CASE ~\E t \in owned : t.reg = g
      BY <2>3, <3>2 DEF WithOwned
    <3> QED
      BY <3>1, <3>2
  <2> QED
    BY <1>0, <1>1, <2>1, <2>4, <2>5 DEF Points
<1>4. CASE Is(a, "delete", "reports") /\ Deleting(a)
  <2>1. \A p \in Projects : p # Req(a).project => db'.project[p] = db.project[p]
    <3>1. db.project = [p \in Projects |-> db.project[p]]
      BY DEF Held, Tables
    <3> QED
      BY <1>4, <3>1 DEF Deleting
  <2>2. \A g \in Registrations : \/ db'.key[g] = None
                                 \/ db'.key[g] = db.key[g] /\ db.key[g] # Req(a).project
    BY <1>4 DEF Deleting, WithoutKeysOf
  <2> QED
    BY <1>0, <2>1, <2>2 DEF Points
<1>5. CASE \/ Is(a, "book", "slot") /\ Booking(a)
           \/ Is(a, "release", "start") /\ Releasing(a)
           \/ Is(a, "save", "start") /\ Saving(a)
           \/ Is(a, "submit", "tell") /\ Submitting(a)
           \/ Is(a, "setLink", "report") /\ Linking(a)
           \/ Is(a, "autoLink", "set") /\ BulkLinking(a)
           \/ Is(a, "read", "count") /\ Tidies(a, MarkedRead(tx[a].work))
           \/ Is(a, "purge", "count") /\ Tidies(a, db.inbox \ tx[a].work)
  <2>1. ~Is(a, "delete", "reports")
    BY <1>5 DEF Is
  <2>2. KeysAs(db, db')
    BY <1>5 DEF Booking, Releasing, Saving, Submitting, Linking, BulkLinking, Tidies
  <2> QED
    BY <1>2, <2>1, <2>2
<1> QED
  BY <1>3, <1>4, <1>5 DEF Writes

\* No step leaves either.
LEMMA PointingKept ==
  ASSUME Held, NothingPointsToTheDeleted, [Next]_vars
  PROVE  NothingPointsToTheDeleted'
<1>1. CASE db' = db
  BY <1>1 DEF NothingPointsToTheDeleted
<1>2. ASSUME NEW a \in Attempts, Writes(a) PROVE NothingPointsToTheDeleted'
  BY <1>2, ReportsPoint, KeysPoint DEF NothingPointsToTheDeleted, Points
<1> QED
  BY <1>1, <1>2, DbMoves

\* No link and no source key names a project that is gone.
THEOREM LinksPointToProjects == Spec => []NothingPointsToTheDeleted
<1>1. Init => Held /\ NothingPointsToTheDeleted
  BY HeldAtFirst DEF Init, NothingPointsToTheDeleted
<1>2. Held /\ NothingPointsToTheDeleted /\ [Next]_vars => (Held /\ NothingPointsToTheDeleted)'
  BY HeldKept, PointingKept
<1> QED
  BY <1>1, <1>2, PTL DEF Spec

\* The bulk run links only reports about which nobody has decided.
LEMMA DecisionsKept ==
  ASSUME Held, [Next]_vars
  PROVE  \A x \in Reports : db.report[x].source \in {"manual", "detached"}
                              => db'.report[x].source # "auto"
<1> SUFFICES ASSUME NEW x \in Reports, db.report[x].source \in {"manual", "detached"}
             PROVE  db'.report[x].source # "auto"
  OBVIOUS
<1>0. db.report = [y \in Reports |-> db.report[y]]
  BY DEF Held, Tables
<1>1. CASE db'.report = db.report
  BY <1>1
<1>2. ASSUME NEW a \in Attempts, Writes(a) PROVE db'.report[x].source # "auto"
  <2>1. CASE Linking(a)
    BY <1>0, <1>1, <2>1 DEF Linking, ReportsAs, ByHand
  <2>2. CASE Is(a, "autoLink", "set") /\ BulkLinking(a)
    <3>1. \A t \in tx[a].work.set : t.report # x
      BY <2>2, BulkIs DEF Is
    <3> QED
      BY <1>1, <2>2, <3>1 DEF BulkLinking, BulkLinked
  <2>3. CASE Deleting(a)
    BY <2>3 DEF Deleting, WithoutLinksTo
  <2>4. CASE ReportsAs(db, db')
    BY <1>1, <2>4 DEF ReportsAs
  <2> QED
    BY <1>2, <2>1, <2>2, <2>3, <2>4 DEF Writes, Booking, Releasing, Saving, Submitting, Importing, Tidies
<1> QED
  BY <1>1, <1>2, DbMoves

\* A link that somebody set or removed by hand is not overwritten by a bulk run, which may have
\* read it long before.
THEOREM ADecisionStands == Spec => DecisionsStand
<1>1. Held /\ [Next]_vars =>
        [\A r \in Reports : db.report[r].source \in {"manual", "detached"}
                            => db.report'[r].source # "auto"]_vars
  BY DecisionsKept
<1>2. Spec => []Held
  BY LocksHoldWhatWasRead
<1> QED
  BY <1>1, <1>2, PTL DEF Spec, DecisionsStand

-----------------------------------------------------------------------------
(* Links set by hand and deletions lock the project first. *)

\* A link or a deletion takes a row, goes on with the rows it has, or is over.
LEMMA LinksGo ==
  ASSUME Held, NEW a \in Attempts, Server(a), Req(a).op \in {"setLink", "delete"}
  PROVE  \/ Taking(a) \/ Claiming(a) \/ tx'[a].pc \in Idle
         \/ /\ tx[a].pc \in Busy /\ tx'[a].pc # "start"
            /\ tx'[a].locks = tx[a].locks /\ tx'[a].shares = tx[a].shares
<1>0. Shaped
  BY DEF Held
<1>1. CASE Lock(a)
  <2>1. SharesLock(a) \in BOOLEAN
    BY DEF SharesLock, Is
  <2> QED
    BY <1>0, <1>1, <2>1, TakeEffect DEF Lock, Taking
<1>2. CASE \E reply : GiveUp(a, reply)
  BY <1>0, <1>2, GiveUpEffect DEF Turns, Idle
<1>3. CASE Claim(a) /\ ~\E reply : GiveUp(a, reply)
  BY <1>0, <1>3, GoesEffect DEF Claim, Claiming
<1>4. CASE \E pc \in {"report", "tell", "reports"} : tx[a].pc \in Busy /\ Continue(a, pc, <<>>)
  BY <1>0, <1>4, ContinueEffect DEF Turns
<1>5. CASE SetLink(a) \/ Delete(a)
  <2>1. SetLink(a) => Refuses(a, Conflict) \/ Linking(a)
    BY <1>0, SetLinkEffect
  <2>2. Delete(a) => Deleting(a)
    BY <1>0, DeleteEffect
  <2> QED
    BY <1>5, <2>1, <2>2 DEF Refuses, Linking, Deleting, Answers, Ends, Turns, Idle
<1>6. LinkTarget(a) => \/ \E reply : GiveUp(a, reply)
                       \/ tx[a].pc \in Busy /\ Continue(a, "report", <<>>)
  BY DEF LinkTarget, Is, Busy
<1>7. DeleteBegin(a) => \/ \E reply : GiveUp(a, reply)
                        \/ tx[a].pc \in Busy /\ Continue(a, "tell", <<>>)
  BY DEF DeleteBegin, Is, Busy
<1>8. DeleteTell(a) => tx[a].pc \in Busy /\ Continue(a, "reports", <<>>)
  BY DEF DeleteTell, Is, Busy
<1>9. ~(AutoRead(a) \/ AutoShare(a) \/ AutoSet(a) \/ AutoNext(a) \/ AutoLink(a))
  BY DEF AutoRead, AutoShare, AutoSet, AutoNext, AutoLink, Is
<1>10. ~BookingStep(a)
  BY DEF BookingStep, CheckProject, Book, Release, Save, SubmitBegin, SubmitSlot, Submit, Is
<1>11. ~ImportStep(a) /\ ~InboxStep(a)
  BY DEF ImportStep, ImportPlan, ImportExists, ImportCreate, ImportUpdate, Import, AtRow,
         InboxStep, ReadBegin, MarkRead, PurgeBegin, PurgeRows, Purge, Is
<1> QED
  BY <1>1, <1>2, <1>3, <1>4, <1>5, <1>6, <1>7, <1>8, <1>9, <1>10, <1>11
     DEF Server, TurnAway, LinkStep

\* The rows a link or a deletion waits for, by its statement.
LEMMA LinkMissing ==
  ASSUME NEW a \in Attempts, NEW row \in Missing(a), Req(a).op \in {"setLink", "delete"}
  PROVE  LET r == Req(a)
             own == IF r.project = None THEN {} ELSE {ProjectRow(r.project)} IN
         /\ ~SharesLock(a) /\ \A k : row # ClaimRow(k)
         /\ r.op = "setLink" /\ tx[a].pc = "start" => row \in own
         /\ r.op = "setLink" => row \in own \cup {ReportRow(r.report)}
         /\ r.op = "delete" /\ tx[a].pc = "start" => row = ProjectRow(r.project)
         /\ r.op = "delete" /\ tx[a].pc # "start" => \A p : row # ProjectRow(p)
<1>1. ~SharesLock(a)
  BY DEF SharesLock, Is
<1>2. row \in LinkNeeds(a)
  BY DEF Missing, BookingNeeds, ImportNeeds, AtRow, InboxNeeds, Is
<1>3. CASE Req(a).op = "setLink"
  BY <1>1, <1>2, <1>3 DEF LinkNeeds, TargetFirst, ClaimRow, ProjectRow, ReportRow
<1>4. CASE Req(a).op = "delete"
  <2>1. \/ tx[a].pc = "start" /\ row = ProjectRow(Req(a).project)
        \/ tx[a].pc = "tell" /\ \E u : row = CounterRow(u)
        \/ tx[a].pc = "reports" /\ ((\E x : row = ReportRow(x)) \/ \E g : row = KeyRow(g))
    BY <1>2, <1>4 DEF LinkNeeds, KeysOf
  <2> QED
    BY <1>1, <1>4, <2>1 DEF ClaimRow, ProjectRow, ReportRow, CounterRow, KeyRow
<1> QED
  BY <1>3, <1>4

\* What a link or a deletion may have locked at most.
Footprint(a) ==
  LET r == Req(a)
      own == {ClaimRow(a[1])} \cup IF r.project = None THEN {} ELSE {ProjectRow(r.project)}
  IN
  tx[a].pc \in Busy =>
    /\ r.op = "setLink" /\ tx[a].pc = "start" => tx[a].locks \subseteq own
    /\ r.op = "setLink" => tx[a].locks \subseteq own \cup {ReportRow(r.report)}
    /\ r.op = "delete" /\ tx[a].pc = "start" => tx[a].locks \subseteq own
    /\ r.op \in {"setLink", "delete"} => tx[a].shares = {}

\* No step locks more for a link or a deletion.
LEMMA FootprintKept ==
  ASSUME Held, NEW b \in Attempts, Footprint(b), [Next]_vars
  PROVE  Footprint(b)'
<1>0. Shaped /\ request = [x \in Keys |-> request[x]]
  BY DEF Held, Asked
<1>1. ASSUME tx'[b] = tx[b], tx[b].pc \in Busy => Req(b)' = Req(b) PROVE Footprint(b)'
  BY <1>1 DEF Footprint
<1>2. ASSUME tx'[b].locks = {}, tx'[b].shares = {} PROVE Footprint(b)'
  BY <1>2 DEF Footprint
<1>3. tx[b].pc \in Busy => Req(b)' = Req(b)
  BY AskedKept, AttemptsAre DEF RequestsStay, Held, Asked, Req, Busy
<1>4. CASE UNCHANGED vars
  BY <1>1, <1>3, <1>4 DEF vars
<1>5. ASSUME NEW a \in Attempts, Begins(a) PROVE Footprint(b)'
  BY <1>1, <1>2, <1>3, <1>5 DEF Begins, Turns
<1>6. ASSUME NEW k \in Keys, Ask(k) \/ Resend(k) PROVE Footprint(b)'
  <2>1. \A a \in Attempts : Ask(k) /\ a[1] = k => tx[a].pc = "none"
    BY <1>6 DEF Held, Asked, Ask
  <2> QED
    BY <1>0, <1>5, <1>6, <2>1, AskEffect, ResendEffect, AttemptsAre
<1>7. ASSUME NEW a \in Attempts, a # b, Server(a) \/ Deadlock(a) \/ Kill(a) PROVE Footprint(b)'
  <2>1. Writes(a) \/ Moves(a) \/ Drops(a)
    BY <1>0, <1>7, ServerMoves, DropMoves
  <2>2. tx'[b] = tx[b]
    BY <1>7, <2>1, WritesShape DEF Moves, Drops, Taking, Claiming, Ending, Going, Turns
  <2> QED
    BY <1>1, <1>3, <2>2
<1>8. ASSUME Deadlock(b) \/ Kill(b) PROVE Footprint(b)'
  BY <1>0, <1>2, <1>8, DropMoves DEF Drops, Turns
<1>9. CASE Server(b)
  <2>1. request' = request
    BY <1>0, <1>9, ServerMoves, WritesShape DEF Moves
  <2>2. Req(b)' = Req(b)
    BY <2>1 DEF Req
  <2>3. CASE Req(b).op \notin {"setLink", "delete"}
    BY <2>2, <2>3 DEF Footprint
  <2>4. CASE Req(b).op \in {"setLink", "delete"} /\ Taking(b)
    <3>1. PICK row \in Missing(b) :
            Turns(b, tx[b].pc, tx[b].locks \cup IF SharesLock(b) THEN {} ELSE {row},
                  tx[b].shares \cup IF SharesLock(b) THEN {row} ELSE {}, tx[b].work, tx[b].reply)
      BY <2>4 DEF Taking
    <3>2. ~SharesLock(b) /\ Req(b).op = "delete" => Req(b).project # None
      BY <2>4, <3>1, LinkMissing, MissingAre, RequestIs DEF IsMeant
    <3>3. ~SharesLock(b)
      BY <2>4, LinkMissing
    <3>4. /\ tx'[b].pc = tx[b].pc /\ tx'[b].locks = tx[b].locks \cup {row}
          /\ tx'[b].shares = tx[b].shares
      BY <3>1, <3>3 DEF Turns
    <3> QED
      BY <2>2, <2>4, <3>2, <3>3, <3>4, LinkMissing DEF Footprint
  <2>5. CASE Req(b).op \in {"setLink", "delete"} /\ Claiming(b)
    <3>1. tx[b].shares = {}
      BY <2>5 DEF Claiming, Held, LocksSound, Idle
    <3>2. tx'[b].locks = {ClaimRow(b[1])} /\ tx'[b].shares = {}
      BY <2>5, <3>1 DEF Claiming, Turns
    <3> QED
      BY <2>2, <3>2 DEF Footprint
  <2>6. CASE tx'[b].pc \in Idle
    BY <2>6 DEF Footprint, Idle, Busy
  <2>7. CASE /\ tx[b].pc \in Busy /\ tx'[b].pc # "start"
             /\ tx'[b].locks = tx[b].locks /\ tx'[b].shares = tx[b].shares
    BY <2>2, <2>7 DEF Footprint
  <2> QED
    BY <1>9, <2>3, <2>4, <2>5, <2>6, <2>7, LinksGo
<1> QED
  BY <1>4, <1>6, <1>7, <1>8, <1>9 DEF Next

\* Everyone in a smallest circle is waited for by another in it.
LEMMA EveryoneBlocks ==
  ASSUME NEW C \in Cycles, NEW a \in C
  PROVE  \E b \in C : b # a /\ \E row \in Missing(b) : a \in Blockers(b, row, SharesLock(b))
<1> SUFFICES ASSUME \A b \in C : b # a => a \notin WaitsFor(b)
             PROVE  FALSE
  BY DEF WaitsFor
<1>1. Knot(C) /\ \A D \in (SUBSET C) \ {C} : ~Knot(D)
  BY DEF Cycles
<1>2. \A b \in C : b \notin WaitsFor(b)
  BY DEF WaitsFor, Blockers
<1>3. PICK c \in C : c \in WaitsFor(a)
  BY <1>1 DEF Knot
<1>4. c # a
  BY <1>2, <1>3
<1>5. Knot(C \ {a})
  BY <1>1, <1>4 DEF Knot
<1>6. C \ {a} \in (SUBSET C) \ {C}
  OBVIOUS
<1> QED
  BY <1>1, <1>5, <1>6

\* Who blocks holds the row.
LEMMA BlockersHold ==
  ASSUME NEW a, NEW b, NEW row, NEW shared, b \in Blockers(a, row, shared)
  PROVE  b \in Attempts /\ (row \in tx[b].locks \/ row \in tx[b].shares)
  BY DEF Blockers, Running

\* A circle of links and deletions alone has no link in it.
LEMMA NoCircle ==
  ASSUME Held, \A a \in Attempts : Footprint(a)
  PROVE  LinkAndDeleteNeverDeadlock
<1> SUFFICES ASSUME NEW C \in Cycles, NEW a \in C, Req(a).op = "setLink",
                    \A b \in C : Req(b).op \in {"setLink", "delete"}
             PROVE  FALSE
  BY DEF LinkAndDeleteNeverDeadlock
<1>1. \A b \in C : b \in Attempts /\ Missing(b) # {}
  BY DEF Cycles, Stuck, Running, Blocked
<1>2. \A b \in C : tx[b].pc \in Busy
  BY <1>1, MissingAre
<1>3. \A b \in C : \A row \in Missing(b) : ~SharesLock(b) /\ row \notin tx[b].locks
  BY <1>1, LinkMissing DEF Missing
\* Nobody who waits for a project, holding none, is waited for.
<1>4. ASSUME NEW b \in C, tx[b].locks \subseteq {ClaimRow(b[1])}
      PROVE  FALSE
  <2>1. PICK c \in C : \E row \in Missing(c) : b \in Blockers(c, row, SharesLock(c))
    BY EveryoneBlocks
  <2>2. PICK row \in Missing(c) : b \in Blockers(c, row, SharesLock(c))
    BY <2>1
  <2>3. tx[b].shares = {}
    BY <1>1, <1>2 DEF Footprint
  <2>4. row = ClaimRow(b[1])
    BY <1>4, <2>2, <2>3, BlockersHold
  <2> QED
    BY <1>1, <2>2, <2>4, LinkMissing
<1>5. \A b \in C : tx[b].pc = "start" => tx[b].locks \subseteq {ClaimRow(b[1])}
  <2> SUFFICES ASSUME NEW b \in C, tx[b].pc = "start"
               PROVE  tx[b].locks \subseteq {ClaimRow(b[1])}
    OBVIOUS
  <2>1. PICK row \in Missing(b) : row \notin tx[b].locks
    BY <1>1, <1>3
  <2>2. b \in Attempts /\ tx[b].pc \in Busy /\ Req(b).op \in {"setLink", "delete"}
    BY <1>1, <1>2
  <2>3. Req(b).project # None /\ row = ProjectRow(Req(b).project)
    BY <2>1, <2>2, LinkMissing, RequestIs DEF IsMeant
  <2> QED
    BY <2>1, <2>2, <2>3 DEF Footprint
<1>6. tx[a].locks \subseteq {ClaimRow(a[1])} \cup {ProjectRow(Req(a).project)}
  <2>1. PICK row \in Missing(a) : row \notin tx[a].locks
    BY <1>1, <1>3
  <2>2. a \in Attempts /\ tx[a].pc \in Busy
    BY <1>1, <1>2
  <2>3. CASE row = ReportRow(Req(a).report)
    BY <2>1, <2>2, <2>3 DEF Footprint
  <2>4. CASE row = ProjectRow(Req(a).project) /\ Req(a).project # None
    <3>1. tx[a].pc # "start" => ProjectRow(Req(a).project) \in tx[a].locks
      <4>1. tx[a].pc # "start" => tx[a].pc = "report"
        BY <2>1, <2>2 DEF Missing, BookingNeeds, LinkNeeds, ImportNeeds, AtRow, InboxNeeds, Is
      <4> QED
        BY <2>2, <2>4, <4>1 DEF Held, WorkSound, LinkSound, Is
    <3> QED
      BY <1>5, <2>1, <2>4, <3>1
  <2> QED
    BY <2>1, <2>2, <2>3, <2>4, LinkMissing
\* So who waits for the link waits for its project, and holds none.
<1>7. PICK b \in C : b # a /\ \E row \in Missing(b) : a \in Blockers(b, row, SharesLock(b))
  BY EveryoneBlocks
<1>8. PICK row \in Missing(b) : a \in Blockers(b, row, SharesLock(b))
  BY <1>7
<1>9. row = ProjectRow(Req(a).project)
  <2>1. tx[a].shares = {}
    BY <1>1, <1>2 DEF Footprint
  <2>2. row \in tx[a].locks
    BY <1>8, <2>1, BlockersHold
  <2> QED
    BY <1>1, <1>6, <1>8, <2>2, LinkMissing
<1>10. tx[b].pc = "start" \/ (Req(b).op = "setLink" /\ ProjectRow(Req(b).project) = row)
  <2>1. b \in Attempts
    BY <1>1
  <2>2. Req(b).op = "delete" => tx[b].pc = "start"
    BY <1>8, <1>9, <2>1, LinkMissing
  <2>3. Req(b).op = "setLink" => row = ProjectRow(Req(b).project)
    BY <1>8, <1>9, <2>1, LinkMissing DEF ProjectRow, ReportRow
  <2> QED
    BY <2>2, <2>3
<1>11. tx[b].pc = "start"
  <2>1. SUFFICES ASSUME Req(b).op = "setLink", ProjectRow(Req(b).project) = row, tx[b].pc # "start"
                 PROVE  FALSE
    BY <1>10
  <2>2. tx[b].pc = "report"
    BY <1>8, <2>1 DEF Missing, BookingNeeds, LinkNeeds, ImportNeeds, AtRow, InboxNeeds, Is
  <2>3. Req(b).project # None
    BY <1>8, <1>9, <2>1, <1>1, LinkMissing DEF ProjectRow, ReportRow
  <2>4. row \in tx[b].locks
    BY <1>1, <2>1, <2>2, <2>3 DEF Held, WorkSound, LinkSound, Is
  <2> QED
    BY <1>3, <1>8, <2>4
<1> QED
  BY <1>4, <1>5, <1>11

\* Links set by hand never wait in a circle with deletions alone, nor with each other: both lock
\* the project before anything else.
THEOREM ProjectFirst == Spec => []LinkAndDeleteNeverDeadlock
<1> DEFINE Small == \A a \in Attempts : Footprint(a)
<1>1. Init => Held /\ Small
  BY HeldAtFirst DEF Init, Footprint, NotBegun, Fresh, Busy
<1>2. Held /\ Small /\ [Next]_vars => (Held /\ Small)'
  BY HeldKept, FootprintKept
<1>3. Held /\ Small => LinkAndDeleteNeverDeadlock
  BY NoCircle
<1> QED
  BY <1>1, <1>2, <1>3, PTL DEF Spec

-----------------------------------------------------------------------------
(* The badge *)

\* The users whose count a notification or a purge moves.
LEMMA NotifiedCounts ==
  ASSUME Held, UnreadIsExact, NEW to, NEW about, Notified(to, about)
  PROVE  UnreadIsExact'
<1> SUFFICES ASSUME NEW u \in Users
             PROVE  db'.unread[u] = Cardinality(UnreadOf(db'.inbox, u))
  BY DEF UnreadIsExact
<1> DEFINE new == Untold(db.inbox, to, about)
           note(v) == [user |-> v, about |-> about, read |-> FALSE]
<1>1. IsFiniteSet(db.inbox)
  BY DEF Held, Tables, Notes
<1>2. UnreadOf(db.inbox, u) \subseteq db.inbox /\ IsFiniteSet(UnreadOf(db.inbox, u))
  BY <1>1, FS_Subset DEF UnreadOf
<1>3. db.unread[u] = Cardinality(UnreadOf(db.inbox, u))
  BY DEF UnreadIsExact
<1>4. db'.inbox = db.inbox \cup {note(v) : v \in new}
      /\ db'.unread = [v \in Users |-> IF v \in new THEN db.unread[v] + 1 ELSE db.unread[v]]
  BY DEF Notified
<1>5. \A v : note(v).user = v /\ note(v).read = FALSE /\ note(v).about = about
  OBVIOUS
<1>6. \A v \in new : ~\E n \in db.inbox : n.user = v /\ n.about = about
  BY DEF Untold
<1>e. new = Untold(db.inbox, to, about)
  OBVIOUS
<1> HIDE DEF new, note
<1>7. CASE u \in new
  <2>1. UnreadOf(db'.inbox, u) = UnreadOf(db.inbox, u) \cup {note(u)}
    BY <1>4, <1>5, <1>7 DEF UnreadOf
  <2>2. note(u) \notin UnreadOf(db.inbox, u)
    BY <1>5, <1>6, <1>7 DEF UnreadOf
  <2>3. Cardinality(UnreadOf(db'.inbox, u)) = Cardinality(UnreadOf(db.inbox, u)) + 1
    BY <1>2, <2>1, <2>2, FS_AddElement
  <2> QED
    BY <1>3, <1>4, <1>7, <2>3
<1>8. CASE u \notin new
  <2>1. UnreadOf(db'.inbox, u) = UnreadOf(db.inbox, u)
    BY <1>4, <1>5, <1>8 DEF UnreadOf
  <2> QED
    BY <1>3, <1>4, <1>8, <2>1
<1> QED
  BY <1>7, <1>8

\* Taking off what was unread among the rows that go or are read.
LEMMA TidiedCounts ==
  ASSUME Held, UnreadIsExact, NEW a \in Attempts, tx[a].work \subseteq db.inbox, NEW inbox,
         Tidies(a, inbox),
         \A u \in Users : UnreadOf(inbox, u) = UnreadOf(db.inbox, u) \ UnreadOf(tx[a].work, u)
  PROVE  UnreadIsExact'
<1> SUFFICES ASSUME NEW u \in Users
             PROVE  db'.unread[u] = Cardinality(UnreadOf(db'.inbox, u))
  BY DEF UnreadIsExact
<1> DEFINE S == UnreadOf(db.inbox, u)  T == UnreadOf(tx[a].work, u)
<1>1. IsFiniteSet(db.inbox)
  BY DEF Held, Tables, Notes
<1>2. S \subseteq db.inbox /\ T \subseteq S
  BY DEF UnreadOf
<1>3. db.unread[u] = Cardinality(S)
  BY DEF UnreadIsExact
<1>4. db'.unread[u] = Minus(db.unread[u], Cardinality(T)) /\ UnreadOf(db'.inbox, u) = S \ T
  BY DEF Tidies, Discount
<1> HIDE DEF S, T
<1>5. IsFiniteSet(S) /\ IsFiniteSet(T)
  BY <1>1, <1>2, FS_Subset
<1>6. /\ Cardinality(S \ T) = Cardinality(S) - Cardinality(S \cap T)
      /\ Cardinality(S) \in Nat /\ Cardinality(T) \in Nat /\ Cardinality(S \ T) \in Nat
  BY <1>5, FS_Difference, FS_CardinalityType
<1>7. S \cap T = T
  BY <1>2
<1> QED
  BY <1>3, <1>4, <1>6, <1>7 DEF Minus

\* No step miscounts the badge.
LEMMA UnreadKept ==
  ASSUME Held, UnreadIsExact, [Next]_vars
  PROVE  UnreadIsExact'
<1>1. CASE db' = db
  BY <1>1 DEF UnreadIsExact
<1>2. ASSUME NEW a \in Attempts, Writes(a) PROVE UnreadIsExact'
  <2>1. CASE InboxAs(db, db')
    BY <2>1 DEF InboxAs, UnreadIsExact
  <2>2. CASE Submitting(a) \/ Deleting(a)
    BY <2>2, NotifiedCounts DEF Submitting, Deleting
  <2>3. CASE Is(a, "read", "count") /\ Tidies(a, MarkedRead(tx[a].work))
    <3> DEFINE w == tx[a].work
    <3>1. w \subseteq db.inbox /\ \A n \in w : ~n.read
      BY <2>3 DEF Held, WorkSound, InboxSound, Is
    <3>2. \A n \in db.inbox : n = [user |-> n.user, about |-> n.about, read |-> n.read]
      BY DEF Held, Tables, Notes
    <3>3. \A n \in w : [n EXCEPT !.read = TRUE].read = TRUE
      BY <3>1, <3>2
    <3> HIDE DEF w
    <3>4. \A u \in Users : UnreadOf(MarkedRead(w), u) = UnreadOf(db.inbox, u) \ UnreadOf(w, u)
      BY <3>1, <3>3 DEF MarkedRead, UnreadOf
    <3> QED
      BY <2>3, <3>1, <3>4, TidiedCounts DEF w
  <2>4. CASE Is(a, "purge", "count") /\ Tidies(a, db.inbox \ tx[a].work)
    <3>1. tx[a].work \subseteq db.inbox
      BY <2>4 DEF Held, WorkSound, InboxSound, Is
    <3>2. \A u \in Users :
            UnreadOf(db.inbox \ tx[a].work, u) = UnreadOf(db.inbox, u) \ UnreadOf(tx[a].work, u)
      BY DEF UnreadOf
    <3> QED
      BY <2>4, <3>1, <3>2, TidiedCounts
  <2> QED
    BY <1>2, <2>1, <2>2, <2>3, <2>4 DEF Writes, Booking, Releasing, Saving, Linking, BulkLinking, Importing
<1> QED
  BY <1>1, <1>2, DbMoves

\* The unread counter is exact, whoever inserts, reads or purges notifications at the same time:
\* both that take rows off count them under their locks.
THEOREM BadgeIsExact == Spec => []UnreadIsExact
<1>1. Init => Held /\ UnreadIsExact
  BY HeldAtFirst DEF Init, UnreadIsExact
<1>2. Held /\ UnreadIsExact /\ [Next]_vars => (Held /\ UnreadIsExact)'
  BY HeldKept, UnreadKept
<1> QED
  BY <1>1, <1>2, PTL DEF Spec

-----------------------------------------------------------------------------
(* A registration is one project at most. *)

\* A step leaves an attempt as it is, is a step of its own, or begins or drops it.
LEMMA OneActs ==
  ASSUME Held, [Next]_vars, NEW b \in Attempts
  PROVE  \/ tx'[b] = tx[b] /\ (tx[b].pc \in Busy => Req(b)' = Req(b))
         \/ Server(b) /\ request' = request
         \/ tx'[b].pc \in Idle \/ (tx[b].pc = "none" /\ tx'[b].pc = "start")
<1>0. Shaped /\ request = [x \in Keys |-> request[x]]
  BY DEF Held, Asked
<1>1. tx[b].pc \in Busy => Req(b)' = Req(b)
  BY AskedKept, AttemptsAre DEF RequestsStay, Held, Asked, Req, Busy
<1>2. CASE UNCHANGED vars
  BY <1>1, <1>2 DEF vars
<1>3. ASSUME NEW a \in Attempts, Begins(a)
      PROVE  tx'[b] = tx[b] \/ tx'[b].pc \in Idle \/ (tx[b].pc = "none" /\ tx'[b].pc = "start")
  BY <1>3 DEF Begins, Turns, Idle
<1>4. ASSUME NEW k \in Keys, Ask(k) \/ Resend(k)
      PROVE  tx'[b] = tx[b] \/ tx'[b].pc \in Idle \/ (tx[b].pc = "none" /\ tx'[b].pc = "start")
  <2>1. \A a \in Attempts : Ask(k) /\ a[1] = k => tx[a].pc = "none"
    BY <1>4 DEF Held, Asked, Ask
  <2> QED
    BY <1>0, <1>3, <1>4, <2>1, AskEffect, ResendEffect, AttemptsAre
<1>5. ASSUME NEW a \in Attempts, a # b, Server(a) \/ Deadlock(a) \/ Kill(a) PROVE tx'[b] = tx[b]
  <2>1. Writes(a) \/ Moves(a) \/ Drops(a)
    BY <1>0, <1>5, ServerMoves, DropMoves
  <2> QED
    BY <1>5, <2>1, WritesShape DEF Moves, Drops, Taking, Claiming, Ending, Going, Turns
<1>6. ASSUME Deadlock(b) \/ Kill(b) PROVE tx'[b].pc \in Idle
  BY <1>0, <1>6, DropMoves DEF Drops, Turns, Idle
<1>7. ASSUME Server(b) PROVE request' = request
  BY <1>0, <1>7, ServerMoves, WritesShape DEF Moves
<1> QED
  BY <1>1, <1>2, <1>4, <1>5, <1>6, <1>7 DEF Next

\* An import that is at its rows has just planned, has done a row, or has taken a lock.
LEMMA RowsGo ==
  ASSUME Held, NEW a \in Attempts, Server(a), request' = request, Is(a, "import", "row")'
  PROVE  \/ Is(a, "import", "row") /\ tx'[a].work = tx[a].work
         \/ ImportPlan(a) \/ ImportExists(a) \/ ImportCreate(a) \/ ImportUpdate(a)
<1>0. Shaped /\ Req(a)' = Req(a) /\ Req(a).op = "import" /\ tx'[a].pc = "row"
  BY DEF Held, Req, Is
<1>1. CASE Lock(a)
  <2>1. SharesLock(a) \in BOOLEAN
    BY DEF SharesLock, Is
  <2> QED
    BY <1>0, <1>1, <2>1, TakeEffect DEF Lock, Turns, Is
<1>2. ~\E reply : GiveUp(a, reply)
  BY <1>0, GiveUpEffect DEF Turns
<1>3. ~Goes(a, "start", {ClaimRow(a[1])}, <<>>)
  BY <1>0, GoesEffect DEF Turns
<1>4. ~Import(a)
  BY <1>0, ImportEffect DEF Importing, Answers, Ends, Turns
<1>5. ~LinkStep(a)
  BY <1>0 DEF LinkStep, LinkTarget, SetLink, AutoRead, AutoShare, AutoSet, AutoNext, AutoLink,
       DeleteBegin, DeleteTell, Delete, Is
<1>6. ~BookingStep(a)
  BY <1>0 DEF BookingStep, CheckProject, Book, Release, Save, SubmitBegin, SubmitSlot, Submit, Is
<1>7. ~InboxStep(a)
  BY <1>0 DEF InboxStep, ReadBegin, MarkRead, PurgeBegin, PurgeRows, Purge, Is
<1> QED
  BY <1>1, <1>2, <1>3, <1>4, <1>5, <1>6, <1>7 DEF Server, TurnAway, Claim, ImportStep

\* A deleted project stays deleted.
LEMMA GoneStays ==
  ASSUME Held, [Next]_vars, NEW g, Gone(g)
  PROVE  Gone(g)'
  BY Ages, StoreAssumption DEF Gone

\* Whoever has a registration at the start is found by the plan as long as it lives.
LEMMA PlanFinds ==
  ASSUME Held, Registered, NEW a \in Attempts, NEW g \in Registrations, OwnersOf(g) = {}
  PROVE  Gone(g)
<1> SUFFICES ASSUME NEW p \in Existing, Spelled[p] = g PROVE db.project[p].state = "deleted"
  BY DEF Gone
<1>1. p \in Projects /\ db.project[p].reg = g /\ db.project[p].state # "absent"
  BY StoreAssumption DEF Registered
<1>2. db.project[p].state \in {"absent", "live", "deleted"}
  BY <1>1 DEF Held, Tables
<1> QED
  BY <1>1, <1>2 DEF OwnersOf

\* No step makes a plan wrong about what is missing.
LEMMA PlannedKept ==
  ASSUME Held, Registered, NEW a \in Attempts, Planned(a), [Next]_vars
  PROVE  Planned(a)'
<1> SUFFICES ASSUME Is(a, "import", "row")'
             PROVE  /\ \A g \in DOMAIN tx'[a].work.plan : tx'[a].work.plan[g] = {} => Gone(g)'
                    /\ \A t \in tx'[a].work.made : Gone(t.reg)'
  BY DEF Planned
<1>0. Shaped /\ \A g : Gone(g) => Gone(g)'
  BY GoneStays DEF Held
<1>1. CASE Is(a, "import", "row") /\ tx'[a].work = tx[a].work
  BY <1>0, <1>1 DEF Planned
<1>2. CASE ImportPlan(a)
  <2> DEFINE rows == Req(a).rows
             plan == [g \in {rows[i].reg : i \in 1..Len(rows)} |-> OwnersOf(g)]
             w == [todo |-> rows, made |-> {}, kept |-> {}, plan |-> plan]
  <2>1. tx'[a].work = w
    BY <1>0, <1>2, ContinueEffect DEF ImportPlan, Turns
  <2>2. rows \in Seq(Rows)
    BY <1>2, RequestIs DEF ImportPlan, Is, Busy, Requests, Rows
  <2>3. \A g \in DOMAIN plan : g \in Registrations /\ plan[g] = OwnersOf(g)
    <3>1. \A i \in 1..Len(rows) : rows[i] \in Rows
      BY <2>2
    <3>2. \A i \in 1..Len(rows) : rows[i].reg \in Registrations
      BY <3>1 DEF Rows
    <3> HIDE DEF rows
    <3> QED
      BY <3>2
  <2> HIDE DEF plan, rows
  <2>4. tx'[a].work.made = {} /\ tx'[a].work.plan = plan
    BY <2>1
  <2> QED
    BY <1>0, <2>3, <2>4, PlanFinds
<1>3. CASE ImportExists(a) \/ ImportUpdate(a)
  <2>1. PICK kept : Continue(a, "row", NextRow(a, {}, kept))
    BY <1>3 DEF ImportExists, ImportUpdate
  <2>2. tx'[a].work = NextRow(a, {}, kept)
    BY <1>0, <2>1, ContinueEffect DEF Turns
  <2>3. tx'[a].work.made = tx[a].work.made /\ tx'[a].work.plan = tx[a].work.plan
    BY <2>2 DEF NextRow
  <2> QED
    BY <1>0, <1>3, <2>3 DEF Planned, ImportExists, ImportUpdate, AtRow
<1>4. CASE ImportCreate(a)
  <2>1. Is(a, "import", "row") /\ tx[a].work.todo # <<>> /\ IsNew(a)
    BY <1>4 DEF ImportCreate, AtRow
  <2> DEFINE g == ImportRow(a).reg
  <2>2. PICK p : Goes(a, "row", tx[a].locks \cup {ProjectRow(p)},
                      NextRow(a, {[reg |-> g, project |-> p]}, {}))
    BY <1>4 DEF ImportCreate
  <2>3. tx'[a].work = NextRow(a, {[reg |-> g, project |-> p]}, {})
    BY <1>0, <2>2, GoesEffect DEF Turns
  <2>4. /\ tx'[a].work.made = tx[a].work.made \cup {[reg |-> g, project |-> p]}
        /\ tx'[a].work.plan = tx[a].work.plan
    BY <2>3 DEF NextRow
  <2>5. Gone(g)
    BY <2>1, RowIs DEF Planned, IsNew
  <2> QED
    BY <1>0, <2>1, <2>4, <2>5 DEF Planned
<1>5. ~(tx'[a].pc \in Idle \/ (tx[a].pc = "none" /\ tx'[a].pc = "start"))
  BY DEF Is, Idle
<1>6. CASE tx'[a] = tx[a] /\ (tx[a].pc \in Busy => Req(a)' = Req(a))
  BY <1>1, <1>6 DEF Is, Busy
<1>7. CASE Server(a) /\ request' = request
  BY <1>1, <1>2, <1>3, <1>4, <1>7, RowsGo
<1> QED
  BY <1>5, <1>6, <1>7, OneActs

\* An import registers what it makes, each under its own key, and touches no key that is taken.
LEMMA ImportRegisters ==
  ASSUME Held, NEW a \in Attempts, Is(a, "import", "row"), Importing(a)
  PROVE  /\ \A g \in Registrations : db.key[g] # None => db'.key[g] = db.key[g]
         /\ \A p \in Projects :
              \/ db'.project[p] = db.project[p]
              \/ \E t \in tx[a].work.made :
                   /\ t.project = p /\ t.reg \in Registrations
                   /\ db'.project[p].reg = t.reg /\ db'.key[t.reg] = p
<1> DEFINE w == tx[a].work  owned == w.made \cup w.kept
<1>1. /\ \A t \in owned : db.key[t.reg] = None /\ t.reg \in Registrations
      /\ \A s, t \in owned : s.reg = t.reg => s = t
      /\ \A s, t \in w.made : s.project = t.project => s = t
  BY RowsAre DEF RowsSound, KeyFree, Owns
<1>2. db'.project = WithMade(w.made) /\ db'.key = WithOwned(owned)
  BY DEF Importing
<1> HIDE DEF w
<1>3. ASSUME NEW g \in Registrations, db.key[g] # None PROVE db'.key[g] = db.key[g]
  BY <1>1, <1>2, <1>3 DEF WithOwned
<1>4. ASSUME NEW t \in w.made
      PROVE  db'.key[t.reg] = t.project /\ RegOf(w.made, t.project) = t.reg
  <2>1. \A s \in owned : s.reg = t.reg => s = t
    BY <1>1
  <2>2. OwnerIn(owned, t.reg) = t.project
    BY <2>1 DEF OwnerIn
  <2>3. \A s \in w.made : s.project = t.project => s = t
    BY <1>1
  <2>4. RegOf(w.made, t.project) = t.reg
    BY <2>3 DEF RegOf
  <2> QED
    BY <1>1, <1>2, <2>2, <2>4 DEF WithOwned
<1>5. ASSUME NEW p \in Projects, db'.project[p] # db.project[p]
      PROVE  \E t \in w.made : /\ t.project = p /\ t.reg \in Registrations
                               /\ db'.project[p].reg = t.reg /\ db'.key[t.reg] = p
  <2>1. PICK t \in w.made : t.project = p
    BY <1>2, <1>5 DEF WithMade
  <2>2. db'.project[p].reg = RegOf(w.made, p)
    BY <1>2, <2>1 DEF WithMade
  <2> QED
    BY <1>1, <1>4, <2>1, <2>2
<1> QED
  BY <1>3, <1>5 DEF w

\* No step registers what is registered already.
LEMMA RegisteredKept ==
  ASSUME Held, Registered, \A a \in Attempts : Planned(a), [Next]_vars
  PROVE  Registered'
<1> DEFINE IsRegistered(p) == /\ db'.key[db'.project[p].reg] = p
                              /\ \A q \in Existing : Spelled[q] = db'.project[p].reg
                                                     => db'.project[q].state = "deleted"
<1>0. \A g : Gone(g) => \A q \in Existing : Spelled[q] = g => db'.project[q].state = "deleted"
  BY Ages, StoreAssumption DEF Gone
<1>1. ASSUME NEW p \in Projects, p \in Existing
      PROVE  db'.project[p].reg = Spelled[p] /\ db'.project[p].state # "absent"
  <2>1. db.project[p].reg = Spelled[p] /\ db.project[p].state # "absent"
    BY <1>1 DEF Registered
  <2> QED
    BY <2>1, DbMoves DEF Under, ProjectsUnder, Born, Dies
<1>2. ASSUME NEW p \in Projects, db'.project[p].state = "live", db'.project[p].reg # None,
             p \notin Existing
      PROVE  IsRegistered(p)
  <2> DEFINE g == db'.project[p].reg
  <2>0. db.project[p].reg \in Registrations \cup {None}
    BY DEF Held, Tables
  <2>1. ASSUME db'.project[p] = db.project[p], db'.key[g] = db.key[g] PROVE IsRegistered(p)
    BY <1>0, <1>2, <2>1 DEF Registered
  <2>2. CASE db' = db
    BY <2>1, <2>2
  <2>3. ASSUME NEW a \in Attempts, Writes(a) PROVE IsRegistered(p)
    <3>1. CASE ProjectsAs(db, db') /\ KeysAs(db, db')
      BY <2>1, <3>1 DEF ProjectsAs, KeysAs
    <3>2. CASE Is(a, "import", "row") /\ Importing(a)
      <4>1. CASE db'.project[p] = db.project[p]
        <5>1. db.key[g] = p
          BY <1>2, <4>1 DEF Registered
        <5>2. p # None /\ g \in Registrations
          BY <1>2, <2>0, <4>1, StoreAssumption
        <5> QED
          BY <2>1, <3>2, <4>1, <5>1, <5>2, ImportRegisters
      <4>2. CASE db'.project[p] # db.project[p]
        <5>1. PICK t \in tx[a].work.made : g = t.reg /\ db'.key[t.reg] = p
          BY <3>2, <4>2, ImportRegisters
        <5>2. Gone(g)
          BY <3>2, <5>1 DEF Planned
        <5> QED
          BY <1>0, <5>1, <5>2
      <4> QED
        BY <4>1, <4>2
    <3>3. CASE Is(a, "delete", "reports") /\ Deleting(a)
      <4>0. db.project = [q \in Projects |-> db.project[q]]
        BY DEF Held, Tables
      <4>1. p # Req(a).project /\ db'.project[p] = db.project[p]
        <5> DEFINE gone == [state |-> "deleted", from |-> db.project[Req(a).project].from,
                            reg |-> db.project[Req(a).project].reg]
        <5>1. db'.project = [db.project EXCEPT ![Req(a).project] = gone]
          BY <3>3, Zenon DEF Deleting
        <5>2. gone.state # "live"
          OBVIOUS
        <5> HIDE DEF gone
        <5> QED
          BY <1>2, <4>0, <5>1, <5>2
      <4>2. db.key[g] = p /\ g \in Registrations
        BY <1>2, <2>0, <4>1 DEF Registered
      <4>3. db'.key[g] = db.key[g]
        BY <3>3, <4>1, <4>2 DEF Deleting, WithoutKeysOf
      <4> QED
        BY <2>1, <4>1, <4>3
    <3>4. CASE Submitting(a)
      <4>0. db.project = [q \in Projects |-> db.project[q]]
        BY DEF Held, Tables
      <4>1. db'.project[p] = db.project[p]
        BY <1>2, <3>4, <4>0 DEF Submitting
      <4> QED
        BY <2>1, <3>4, <4>1 DEF Submitting, KeysAs
    <3> QED
      BY <2>3, <3>1, <3>2, <3>3, <3>4
         DEF Writes, Booking, Releasing, Saving, Linking, BulkLinking, Tidies
  <2> QED
    BY <2>2, <2>3, DbMoves
<1> QED
  BY <1>1, <1>2 DEF Registered, Gone

\* Imports of one registration, whatever they have planned from older snapshots, make one
\* project of it.
THEOREM OneProjectPerRegistration == Spec => []RegisteredOnce
<1> DEFINE Inv == Held /\ Registered /\ \A a \in Attempts : Planned(a)
<1>1. Init => Inv
  <2> SUFFICES ASSUME Init PROVE Inv
    OBVIOUS
  <2>1. Held
    BY HeldAtFirst
  <2>2. Registered
    BY StoreAssumption DEF Init, Registered
  <2>3. \A a \in Attempts : Planned(a)
    BY DEF Init, Planned, Is, NotBegun, Fresh
  <2> QED
    BY <2>1, <2>2, <2>3
<1>2. Inv /\ [Next]_vars => Inv'
  <2>1. Held /\ Registered /\ (\A a \in Attempts : Planned(a)) /\ [Next]_vars
          => Held' /\ Registered'
    BY HeldKept, RegisteredKept
  <2>2. Held /\ Registered /\ (\A a \in Attempts : Planned(a)) /\ [Next]_vars
          => \A a \in Attempts : Planned(a)'
    BY PlannedKept
  <2> QED
    BY <2>1, <2>2
<1>3. Inv => RegisteredOnce
  <2> SUFFICES ASSUME Inv, NEW g \in Registrations
               PROVE  Cardinality({p \in Projects : db.project[p].state = "live"
                                                    /\ db.project[p].reg = g}) <= 1
    BY DEF RegisteredOnce
  <2> DEFINE S == {p \in Projects : db.project[p].state = "live" /\ db.project[p].reg = g}
  <2>0. g # None
    BY StoreAssumption
  <2>1. \A p, q \in S : p = q
    <3> SUFFICES ASSUME NEW p \in S, NEW q \in S PROVE p = q
      OBVIOUS
    <3>1. CASE p \in Existing /\ q \in Existing
      BY <2>0, <3>1, StoreAssumption DEF Registered
    <3>2. CASE p \in Existing /\ q \notin Existing
      BY <2>0, <3>2 DEF Registered, Gone
    <3>3. CASE p \notin Existing /\ q \in Existing
      BY <2>0, <3>3 DEF Registered, Gone
    <3>4. CASE p \notin Existing /\ q \notin Existing
      BY <2>0, <3>4 DEF Registered
    <3> QED
      BY <3>1, <3>2, <3>3, <3>4
  <2> HIDE DEF S
  <2>2. CASE S = {}
    BY <2>2, FS_EmptySet DEF S
  <2>3. CASE S # {}
    <3>1. PICK p : S = {p}
      BY <2>1, <2>3
    <3>2. Cardinality(S) = 1
      BY <3>1, FS_Singleton
    <3> QED
      BY <3>2 DEF S
  <2> QED
    BY <2>2, <2>3
<1> QED
  BY <1>1, <1>2, <1>3, PTL DEF Spec

-----------------------------------------------------------------------------
(* A submission happens as a whole and once. *)

\* No step gives a past to a project that is not there.
LEMMA UnmadeKept ==
  ASSUME Held, Unmade, [Next]_vars
  PROVE  Unmade'
<1> SUFFICES ASSUME NEW p \in Projects, db'.project[p].state = "absent"
             PROVE  db'.project[p].from = None /\ db'.project[p].reg = None
  BY DEF Unmade
<1>1. db'.project[p] = db.project[p]
  BY DbMoves DEF Under, ProjectsUnder, Born, Dies
<1> QED
  BY <1>1 DEF Unmade

\* The rows of two tables, or of two checklists, are different.
LEMMA RowsDiffer ==
  /\ \A c, d : ChecklistRow(c) = ChecklistRow(d) => c = d
  /\ \A c, p : ChecklistRow(c) # ProjectRow(p)
  /\ \A c, x : ChecklistRow(c) = x => x[1] = "checklist"
  BY DEF ChecklistRow, ProjectRow

\* What a commit does to the checklists: nothing, unless it saves or submits one.
LEMMA ChecklistsMove ==
  ASSUME Held, NEW a \in Attempts, Writes(a), NEW c \in Checklists,
         ~(Is(a, "submit", "tell") /\ Req(a).checklist = c)
  PROVE  \/ db'.checklist[c] = db.checklist[c]
         \/ db.checklist[c].status # "submitted" /\ db'.checklist[c].status # "submitted"
<1>0. db.checklist = [x \in Checklists |-> db.checklist[x]]
  BY DEF Held, Tables
<1>1. CASE ChecklistsAs(db, db')
  BY <1>1 DEF ChecklistsAs
<1>2. CASE Is(a, "submit", "tell") /\ Submitting(a)
  BY <1>0, <1>2 DEF Submitting
<1>3. CASE /\ Is(a, "save", "start") /\ Saving(a)
           /\ Req(a).checklist = None => \E d \in Checklists : db.checklist[d].status = "absent"
  <2> DEFINE r == Req(a)  d == SavedAs(r)
  <2>1. db.checklist[d].status # "submitted"
    <3>1. CASE r.checklist = None
      BY <1>3, <3>1 DEF SavedAs, NewChecklist
    <3>2. CASE r.checklist # None
      BY <1>3, <3>2 DEF SavedAs, Saving, Editable
    <3> QED
      BY <3>1, <3>2
  <2>2. \/ db'.checklist[c] = db.checklist[c]
        \/ c = d /\ db'.checklist[c].status = "draft"
    BY <1>0, <1>3 DEF Saving
  <2> QED
    BY <2>1, <2>2
<1> QED
  BY <1>1, <1>2, <1>3 DEF Writes, Booking, Releasing, Linking, BulkLinking, Deleting, Importing, Tidies

\* What a commit announces.
LEMMA ToldMoves ==
  ASSUME Held, NEW a \in Attempts, Writes(a), NEW c \in Checklists
  PROVE  /\ db.told \subseteq db'.told
         /\ ~(Is(a, "submit", "tell") /\ Req(a).checklist = c) =>
              /\ \A n \in db'.told : n \in db.told \/ n[2] # ChecklistRow(c)
              /\ \A n \in db'.inbox : \/ n.about # ChecklistRow(c)
                                      \/ \E m \in db.inbox : m.about = n.about
<1>1. CASE InboxAs(db, db')
  BY <1>1 DEF InboxAs
<1>2. ASSUME NEW to, NEW about, Notified(to, about)
      PROVE  /\ db.told \subseteq db'.told
             /\ about # ChecklistRow(c) =>
                  /\ \A n \in db'.told : n \in db.told \/ n[2] # ChecklistRow(c)
                  /\ \A n \in db'.inbox : n \in db.inbox \/ n.about # ChecklistRow(c)
  <2> DEFINE new == Untold(db.inbox, to, about)
  <2>1. /\ db'.inbox = db.inbox \cup {[user |-> u, about |-> about, read |-> FALSE] : u \in new}
        /\ db'.told = db.told \cup (new \X {about})
    BY <1>2 DEF Notified
  <2> HIDE DEF new
  <2> QED
    BY <2>1
<1>3. CASE Is(a, "submit", "tell") /\ Submitting(a)
  BY <1>2, <1>3, RowsDiffer DEF Submitting
<1>4. CASE Deleting(a)
  BY <1>2, <1>4, RowsDiffer DEF Deleting
<1>5. ASSUME NEW inbox, Tidies(a, inbox),
             \/ inbox = MarkedRead(tx[a].work) /\ tx[a].work \subseteq db.inbox
             \/ inbox \subseteq db.inbox
      PROVE  /\ db'.told = db.told
             /\ \A n \in db'.inbox : \E m \in db.inbox : m.about = n.about
  <2>1. db'.told = db.told /\ db'.inbox = inbox
    BY <1>5 DEF Tidies
  <2>2. \A m \in db.inbox : [m EXCEPT !.read = TRUE].about = m.about
    BY DEF Held, Tables, Notes
  <2>3. inbox = MarkedRead(tx[a].work) /\ tx[a].work \subseteq db.inbox =>
          \A n \in inbox : \E m \in db.inbox : m.about = n.about
    BY <2>2 DEF MarkedRead
  <2> QED
    BY <1>5, <2>1, <2>3
<1>6. CASE Is(a, "read", "count") /\ Tidies(a, MarkedRead(tx[a].work))
  <2>1. tx[a].work \subseteq db.inbox
    BY <1>6 DEF Is, Held, WorkSound, InboxSound
  <2> QED
    BY <1>5, <1>6, <2>1
<1>7. CASE Is(a, "purge", "count") /\ Tidies(a, db.inbox \ tx[a].work)
  BY <1>5, <1>7
<1> QED
  BY <1>1, <1>3, <1>4, <1>6, <1>7
     DEF Writes, Booking, Releasing, Saving, Linking, BulkLinking, Importing

\* No step announces a checklist that is not submitted.
LEMMA AnnouncedKept ==
  ASSUME Held, Announced, [Next]_vars
  PROVE  Announced'
<1> SUFFICES ASSUME NEW c \in Checklists, db'.checklist[c].status # "submitted"
             PROVE  \A n \in db'.inbox : n.about # ChecklistRow(c)
  BY DEF Announced
<1>1. CASE db' = db
  BY <1>1 DEF Announced
<1>2. ASSUME NEW a \in Attempts, Writes(a)
      PROVE  \A n \in db'.inbox : n.about # ChecklistRow(c)
  <2>1. ~(Is(a, "submit", "tell") /\ Req(a).checklist = c)
    <3> SUFFICES ASSUME Is(a, "submit", "tell"), Req(a).checklist = c PROVE FALSE
      OBVIOUS
    <3>1. Submitting(a)
      BY <1>2 DEF Writes, Is
    <3>2. db.checklist = [x \in Checklists |-> db.checklist[x]]
      BY DEF Held, Tables
    <3> QED
      BY <3>1, <3>2 DEF Submitting
  <2>2. db.checklist[c].status # "submitted"
    BY <1>2, <2>1, ChecklistsMove
  <2> QED
    BY <1>2, <2>1, <2>2, ToldMoves DEF Announced
<1> QED
  BY <1>1, <1>2, DbMoves

\* Slot s has one more event: of key j, to this status, for project p.
Adds(s, j, status, p) ==
  db'.slotEvents[s] = Append(db.slotEvents[s], [key |-> j, to |-> status, project |-> p])

\* The events that an action has written, after one more.
LEMMA BookedByAppended ==
  ASSUME Held, NEW k, NEW s \in Slots, NEW status \in {"free", "booked"},
         NEW p \in Projects \cup {None}, NEW j \in Keys, Adds(s, j, status, p)
  PROVE  /\ k # j => BookedBy(k, s)' = BookedBy(k, s)
         /\ BookedBy(k, s) = {} => BookedBy(k, s)' \subseteq {Len(db.slotEvents[s]) + 1}
         /\ Len(db.slotEvents[s]) + 1 \in BookedBy(j, s)'
         /\ db'.slotEvents[s][Len(db.slotEvents[s]) + 1].project = p
<1> DEFINE e == db.slotEvents[s]  new == [key |-> j, to |-> status, project |-> p]
           f == db'.slotEvents[s]
           Event == [key : Keys, to : {"free", "booked"}, project : Projects \cup {None}]
<1>1. e \in Seq(Event) /\ new \in Event /\ new.key = j /\ new.project = p
  BY DEF Held, Tables
<1>2. f = Append(e, new)
  BY DEF Adds
<1>3. /\ BookedBy(k, s) = {i \in 1..Len(e) : e[i].key = k}
      /\ BookedBy(k, s)' = {i \in 1..Len(f) : f[i].key = k}
      /\ BookedBy(j, s)' = {i \in 1..Len(f) : f[i].key = j}
  BY DEF BookedBy
<1> HIDE DEF e, new, f, Event
<1>4. Len(f) = Len(e) + 1 /\ f[Len(e) + 1] = new /\ \A i \in 1..Len(e) : f[i] = e[i]
  BY <1>1, <1>2
<1>5. Len(e) \in Nat
  BY <1>1
<1>6. 1..Len(f) = 1..Len(e) \cup {Len(e) + 1}
  BY <1>4, <1>5
<1>7. /\ k # j => BookedBy(k, s)' = BookedBy(k, s)
      /\ BookedBy(k, s) = {} => BookedBy(k, s)' \subseteq {Len(e) + 1}
  BY <1>1, <1>3, <1>4, <1>6
<1>8. Len(e) + 1 \in BookedBy(j, s)' /\ f[Len(e) + 1].project = p
  BY <1>1, <1>3, <1>4, <1>6
<1> QED
  BY <1>7, <1>8 DEF e, f

\* A slot has one more event, of this attempt's action.
Appends(a, s) ==
  \E status \in {"free", "booked"} : \E p \in Projects \cup {None} :
    /\ db'.slotEvents[s] = Append(db.slotEvents[s], [key |-> a[1], to |-> status, project |-> p])
    /\ Req(a).op = "submit" => p = tx[a].work

\* A commit writes events of its own action only, and of the slot that this is about.
LEMMA EventsMove ==
  ASSUME Held, NEW a \in Attempts, Writes(a), NEW s \in Slots
  PROVE  \/ db'.slotEvents[s] = db.slotEvents[s]
         \/ Keyed(Req(a).op) /\ Req(a).slot = s /\ Appends(a, s)
<1> USE DEF Appends
<1>0. db.slotEvents = [t \in Slots |-> db.slotEvents[t]]
  BY DEF Held, Tables
<1>1. CASE SlotsAs(db, db')
  BY <1>1 DEF SlotsAs
<1>2. ASSUME NEW t, NEW status, NEW p, SlotWritten(a[1], t, status, p)
      PROVE  \/ db'.slotEvents[s] = db.slotEvents[s]
             \/ /\ t = s
                /\ db'.slotEvents[s] =
                     Append(db.slotEvents[s], [key |-> a[1], to |-> status, project |-> p])
  BY <1>0, <1>2 DEF SlotWritten
<1>3. CASE Is(a, "book", "slot") /\ Booking(a)
  <2>1. Req(a).project \in Projects \cup {None}
    BY <1>3, RequestIs DEF Is, Busy, Requests
  <2>2. SlotWritten(a[1], Req(a).slot, "booked", Req(a).project)
    BY <1>3 DEF Booking
  <2>3. Keyed(Req(a).op) /\ Req(a).op # "submit"
    BY <1>3 DEF Is, Keyed
  <2> QED
    BY <1>2, <2>1, <2>2, <2>3
<1>4. CASE Is(a, "release", "start") /\ Releasing(a)
  <2>1. SlotWritten(a[1], Req(a).slot, "free", None)
    BY <1>4 DEF Releasing
  <2>2. Keyed(Req(a).op) /\ Req(a).op # "submit"
    BY <1>4 DEF Is, Keyed
  <2> QED
    BY <1>2, <2>1, <2>2
<1>5. CASE Is(a, "submit", "tell") /\ Submitting(a)
  <2>1. tx[a].work \in Projects /\ Keyed(Req(a).op)
    BY <1>5 DEF Is, Keyed, Held, WorkSound, SubmitSound
  <2>2. CASE SlotWritten(a[1], Req(a).slot, "booked", tx[a].work)
    BY <1>2, <2>1, <2>2
  <2> QED
    BY <1>1, <1>5, <2>2 DEF Submitting
<1> QED
  BY <1>1, <1>3, <1>4, <1>5
     DEF Writes, Saving, Linking, BulkLinking, Deleting, Importing, Tidies

\* Answers and events of the other actions are left alone, and so is everything an action has
\* that commits without a key.
LEMMA OthersKeep ==
  ASSUME Held, NEW a \in Attempts, Writes(a), NEW k \in Keys, k # a[1] \/ ~Keyed(Req(a).op)
  PROVE  /\ db'.stored[k] = db.stored[k]
         /\ \A s \in Slots : /\ BookedBy(k, s)' = BookedBy(k, s)
                             /\ \A i \in BookedBy(k, s) : db'.slotEvents[s][i] = db.slotEvents[s][i]
<1>1. db'.stored[k] = db.stored[k]
  <2>1. CASE k # a[1]
    BY <2>1, WritesUnder DEF Under, StoredUnder
  <2>2. CASE ~Keyed(Req(a).op)
    <3>1. \E inbox : Tidies(a, inbox)
      BY <2>2 DEF Writes, Is, Keyed
    <3> QED
      BY <3>1 DEF Tidies, StoredAs
  <2> QED
    BY <2>1, <2>2
<1>2. ASSUME NEW s \in Slots
      PROVE  /\ BookedBy(k, s)' = BookedBy(k, s)
             /\ \A i \in BookedBy(k, s) : db'.slotEvents[s][i] = db.slotEvents[s][i]
  <2>1. CASE db'.slotEvents[s] = db.slotEvents[s]
    BY <2>1 DEF BookedBy
  <2>2. ASSUME db'.slotEvents[s] # db.slotEvents[s]
        PROVE  /\ BookedBy(k, s)' = BookedBy(k, s)
               /\ \A i \in BookedBy(k, s) : db'.slotEvents[s][i] = db.slotEvents[s][i]
    <3>0. Appends(a, s)
      BY <2>2, EventsMove
    <3>1. PICK status \in {"free", "booked"}, p \in Projects \cup {None} :
            db'.slotEvents[s] =
              Append(db.slotEvents[s], [key |-> a[1], to |-> status, project |-> p])
      BY <3>0, Zenon DEF Appends
    <3>2. Keyed(Req(a).op) /\ a[1] \in Keys
      BY <2>2, EventsMove, AttemptsAre
    <3>3. BookedBy(k, s)' = BookedBy(k, s)
      <4>1. k # a[1]
        BY <3>2
      <4>2. Adds(s, a[1], status, p)
        BY <3>1, Zenon DEF Adds
      <4>3. k # a[1] => BookedBy(k, s)' = BookedBy(k, s)
        BY <3>2, <4>2, BookedByAppended
      <4> QED
        BY <4>1, <4>3
    <3>4. db.slotEvents[s] \in Seq([key : Keys, to : {"free", "booked"}, project : Projects \cup {None}])
      <4>1. Tables
        BY DEF Held
      <4> QED
        BY <4>1 DEF Tables
    <3>5. \A i \in 1..Len(db.slotEvents[s]) : db'.slotEvents[s][i] = db.slotEvents[s][i]
      BY <3>1, <3>2, <3>4
    <3> QED
      BY <3>3, <3>5 DEF BookedBy
  <2> QED
    BY <2>1, <2>2
<1> QED
  BY <1>1, <1>2

\* No step books for an action and leaves it without its answer.
LEMMA BookedWhenDoneKept ==
  ASSUME Held, BookedWhenDone, [Next]_vars
  PROVE  BookedWhenDone'
<1> SUFFICES ASSUME NEW k \in Keys, db'.stored[k] = Nothing, NEW s \in Slots
             PROVE  BookedBy(k, s)' = {}
  BY DEF BookedWhenDone
<1>1. CASE db' = db
  BY <1>1 DEF BookedWhenDone, BookedBy
<1>2. ASSUME NEW a \in Attempts, Writes(a) PROVE BookedBy(k, s)' = {}
  <2>1. CASE k # a[1] \/ ~Keyed(Req(a).op)
    BY <1>2, <2>1, OthersKeep DEF BookedWhenDone
  <2>2. CASE k = a[1] /\ Keyed(Req(a).op)
    <3>1. \E p : Answers(a, Done(p))
      BY <1>2, <2>2 DEF Writes, Is, Keyed, Booking, Releasing, Saving, Submitting, Linking,
                        BulkLinking, Deleting, Importing
    <3>2. db.stored = [j \in Keys |-> db.stored[j]]
      BY DEF Held, Tables
    <3> QED
      BY <2>2, <3>1, <3>2, RepliesDiffer DEF Answers
  <2> QED
    BY <2>1, <2>2
<1> QED
  BY <1>1, <1>2, DbMoves

\* The two halves of SubmissionIsWhole, for one checklist and for one action.
Whole(c) ==
  IF db.checklist[c].status = "submitted"
  THEN \E k \in Keys :
         /\ SubmittedBy(c) = {k}
         /\ CreatedFrom(c) = {db.checklist[c].project}
         /\ db.stored[k] = Done(db.checklist[c].project)
         /\ \A u \in Subscribers \ {Actor[k]} : <<u, ChecklistRow(c)>> \in db.told
  ELSE /\ SubmittedBy(c) = {} /\ CreatedFrom(c) = {}
       /\ \A note \in db.told : note[2] # ChecklistRow(c)

BookedOnce(k) ==
  \A s \in Slots : request[k] # Nothing /\ request[k].op = "submit" =>
    IF db.stored[k] = Nothing \/ request[k].slot # s THEN BookedBy(k, s) = {}
    ELSE \E i \in BookedBy(k, s) : /\ BookedBy(k, s) = {i}
                                   /\ Done(db.slotEvents[s][i].project) = db.stored[k]

\* What a submission finds when it commits.
LEMMA SubmitFinds ==
  ASSUME Held, NEW a \in Attempts, Writes(a), Req(a).op = "submit"
  PROVE  LET r == Req(a)  p == tx[a].work IN
         /\ Is(a, "submit", "tell") /\ Submitting(a) /\ request' = request
         /\ a[1] \in Keys /\ r.checklist \in Checklists /\ r.slot \in Slots \cup {None}
         /\ p \in Projects /\ db.project[p].state = "absent"
         /\ db.checklist[r.checklist].status = "draft"
         /\ db'.checklist[r.checklist].status = "submitted"
         /\ db'.checklist[r.checklist].project = p
         /\ db'.stored[a[1]] = Done(p) /\ db.stored[a[1]] = Nothing
         /\ r.slot # None => SlotWritten(a[1], r.slot, "booked", p)
<1> DEFINE r == Req(a)  p == tx[a].work
<1>1. Is(a, "submit", "tell") /\ Submitting(a)
  BY DEF Writes, Is
<1>2. tx[a].pc \in Busy /\ Keyed(r.op)
  BY <1>1 DEF Is, Busy, Keyed
<1>3. request' = request /\ db.stored[a[1]] = Nothing
  BY <1>2, WriterIs
<1>4. a[1] \in Keys /\ r.checklist \in Checklists /\ r.slot \in Slots \cup {None}
  BY <1>1, <1>2, RequestIs DEF Is, IsMeant, Requests
<1>5. /\ p \in Projects /\ db.project[p].state = "absent" /\ Editable(r)
      /\ r.slot # None => Bookable(r.slot, r.slotBase)
  BY <1>1 DEF Is, Held, WorkSound, SubmitSound
<1>6. /\ db'.checklist[r.checklist].status = "submitted"
      /\ db'.checklist[r.checklist].project = p
  <2>1. db.checklist = [x \in Checklists |-> db.checklist[x]]
    BY DEF Held, Tables
  <2> QED
    BY <1>1, <1>4, <2>1 DEF Submitting
<1>7. db'.stored[a[1]] = Done(p)
  <2>1. db.stored = [x \in Keys |-> db.stored[x]]
    BY DEF Held, Tables
  <2> QED
    BY <1>1, <1>4, <2>1 DEF Submitting, Answers
<1>8. r.slot # None => SlotWritten(a[1], r.slot, "booked", p)
  BY <1>1, <1>5 DEF Submitting
<1> QED
  BY <1>1, <1>3, <1>4, <1>5, <1>6, <1>7, <1>8 DEF Editable

\* No step books twice for a submission, or another slot, or for another project.
LEMMA BookedOnceKept ==
  ASSUME Held, Answered, BookedWhenDone, NEW k \in Keys, BookedOnce(k), [Next]_vars
  PROVE  BookedOnce(k)'
<1> SUFFICES ASSUME NEW s \in Slots, request'[k] # Nothing, request'[k].op = "submit"
             PROVE  IF db'.stored[k] = Nothing \/ request'[k].slot # s THEN BookedBy(k, s)' = {}
                    ELSE \E i \in BookedBy(k, s)' :
                           /\ BookedBy(k, s)' = {i}
                           /\ Done(db'.slotEvents[s][i].project) = db'.stored[k]
  BY DEF BookedOnce
<1>1. CASE request[k] = Nothing
  <2>1. db.stored[k] = Nothing /\ BookedBy(k, s) = {}
    BY <1>1 DEF Answered, BookedWhenDone
  <2>2. \A a \in Attempts : Writes(a) => k # a[1] \/ ~Keyed(Req(a).op)
    BY <1>1, WriterIs DEF Req
  <2>3. db'.stored[k] = Nothing /\ BookedBy(k, s)' = {}
    <3>1. CASE db' = db
      BY <2>1, <3>1 DEF BookedBy
    <3> QED
      BY <2>1, <2>2, <3>1, DbMoves, OthersKeep
  <2> QED
    BY <2>3
<1>2. ASSUME request[k] # Nothing, db'.stored[k] = db.stored[k],
             BookedBy(k, s)' = BookedBy(k, s),
             \A i \in BookedBy(k, s) : db'.slotEvents[s][i] = db.slotEvents[s][i]
      PROVE  IF db'.stored[k] = Nothing \/ request'[k].slot # s THEN BookedBy(k, s)' = {}
             ELSE \E i \in BookedBy(k, s)' :
                    /\ BookedBy(k, s)' = {i}
                    /\ Done(db'.slotEvents[s][i].project) = db'.stored[k]
  <2>1. request'[k] = request[k]
    BY <1>2, AskedKept DEF RequestsStay
  <2> QED
    BY <1>2, <2>1 DEF BookedOnce
<1>3. CASE request[k] # Nothing /\ db' = db
  BY <1>2, <1>3 DEF BookedBy
<1>4. ASSUME request[k] # Nothing, NEW a \in Attempts, Writes(a)
      PROVE  IF db'.stored[k] = Nothing \/ request'[k].slot # s THEN BookedBy(k, s)' = {}
             ELSE \E i \in BookedBy(k, s)' :
                    /\ BookedBy(k, s)' = {i}
                    /\ Done(db'.slotEvents[s][i].project) = db'.stored[k]
  <2>1. CASE k # a[1] \/ ~Keyed(Req(a).op)
    BY <1>2, <1>4, <2>1, OthersKeep
  <2>2. CASE k = a[1] /\ Keyed(Req(a).op)
    <3>1. request'[k] = Req(a)
      BY <1>4, <2>2, AskedKept DEF RequestsStay, Req
    <3>2. Req(a).op = "submit"
      BY <3>1
    <3> DEFINE p == tx[a].work
    <3>3. /\ db'.stored[k] = Done(p) /\ db.stored[k] = Nothing /\ p \in Projects
          /\ Req(a).slot # None => SlotWritten(k, Req(a).slot, "booked", p)
      BY <1>4, <2>2, <3>2, SubmitFinds
    <3> HIDE DEF p
    <3>4. BookedBy(k, s) = {}
      BY <3>3 DEF BookedWhenDone
    <3>5. CASE Req(a).slot # s
      <4>1. db'.slotEvents[s] = db.slotEvents[s]
        BY <1>4, <3>5, EventsMove
      <4> QED
        BY <3>1, <3>4, <3>5, <4>1 DEF BookedBy
    <3>6. CASE Req(a).slot = s
      <4> DEFINE i == Len(db.slotEvents[s]) + 1
      <4>1. SlotWritten(k, s, "booked", p)
        BY <3>3, <3>6, StoreAssumption
      <4>2. db.slotEvents = [t \in Slots |-> db.slotEvents[t]]
        BY DEF Held, Tables
      <4>3. db'.slotEvents[s] =
              Append(db.slotEvents[s], [key |-> k, to |-> "booked", project |-> p])
        BY <4>1, <4>2 DEF SlotWritten
      <4>4. /\ BookedBy(k, s)' \subseteq {i} /\ i \in BookedBy(k, s)'
            /\ db'.slotEvents[s][i].project = p
        <5>1. k \in Keys /\ p \in Projects \cup {None} /\ "booked" \in {"free", "booked"}
          BY <3>3
        <5>2. Adds(s, k, "booked", p)
          BY <4>3, Zenon DEF Adds
        <5>3. /\ BookedBy(k, s) = {} => BookedBy(k, s)' \subseteq {Len(db.slotEvents[s]) + 1}
              /\ Len(db.slotEvents[s]) + 1 \in BookedBy(k, s)'
              /\ db'.slotEvents[s][Len(db.slotEvents[s]) + 1].project = p
          BY <5>1, <5>2, BookedByAppended
        <5> QED
          BY <3>4, <5>3
      <4> HIDE DEF i
      <4>5. BookedBy(k, s)' = {i}
        BY <4>4
      <4>6. ~(db'.stored[k] = Nothing \/ request'[k].slot # s)
        BY <3>1, <3>3, <3>6, RepliesDiffer
      <4> QED
        BY <3>3, <4>4, <4>5, <4>6
    <3> QED
      BY <3>5, <3>6
  <2> QED
    BY <2>1, <2>2
<1> QED
  BY <1>1, <1>3, <1>4, DbMoves

\* A checklist that is submitted now has all that belongs to it.
LEMMA SubmissionMakesWhole ==
  ASSUME Held, Announced, NEW a \in Attempts, Writes(a), Req(a).op = "submit",
         NEW c \in Checklists, Req(a).checklist = c, Whole(c)
  PROVE  Whole(c)'
<1> DEFINE k == a[1]
<1>p. PICK p : p = tx[a].work
  OBVIOUS
<1>1. /\ Submitting(a) /\ request' = request /\ request[k].op = "submit" /\ request[k].checklist = c
      /\ k \in Keys /\ c \in Checklists /\ p \in Projects
      /\ db.checklist[c].status = "draft"
      /\ db'.checklist[c].status = "submitted" /\ db'.checklist[c].project = p
      /\ db'.stored[k] = Done(p)
  BY <1>p, SubmitFinds DEF Req
<1>2. /\ SubmittedBy(c) = {} /\ CreatedFrom(c) = {}
  BY <1>1 DEF Whole
<1>3. SubmittedBy(c)' = {k}
  <2>1. \A j \in Keys : j # k => db'.stored[j] = db.stored[j]
    BY OthersKeep
  <2>2. \A j \in Keys : j \in SubmittedBy(c)' <=>
          db'.stored[j] # Nothing /\ request[j].op = "submit" /\ request[j].checklist = c
    BY <1>1 DEF SubmittedBy
  <2>3. \A j \in Keys : j # k => j \notin SubmittedBy(c)'
    BY <1>2, <2>1, <2>2 DEF SubmittedBy
  <2>4. k \in SubmittedBy(c)'
    BY <1>1, <2>2, RepliesDiffer
  <2>5. SubmittedBy(c)' \subseteq Keys
    BY DEF SubmittedBy
  <2> QED
    BY <2>3, <2>4, <2>5
<1>4. CreatedFrom(c)' = {p}
  <2>1. db.project = [q \in Projects |-> db.project[q]]
    BY DEF Held, Tables
  <2>2. /\ db'.project[p].from = c
        /\ \A q \in Projects : q # p => db'.project[q] = db.project[q]
    BY <1>1, <1>p, <2>1 DEF Submitting
  <2>3. \A q \in Projects : q # p => q \notin CreatedFrom(c)'
    BY <1>2, <2>2 DEF CreatedFrom
  <2>4. p \in CreatedFrom(c)' /\ CreatedFrom(c)' \subseteq Projects
    BY <1>1, <2>2 DEF CreatedFrom
  <2> QED
    BY <2>3, <2>4
<1>5. \A u \in Subscribers \ {Actor[k]} : <<u, ChecklistRow(c)>> \in db'.told
  <2>1. \A n \in db.inbox : n.about # ChecklistRow(c)
    BY <1>1 DEF Announced
  <2>2. Untold(db.inbox, Subscribers \ {Actor[k]}, ChecklistRow(c)) = Subscribers \ {Actor[k]}
    BY <2>1 DEF Untold
  <2> QED
    BY <1>1, <2>2 DEF Submitting, Notified
<1> HIDE DEF k
<1> QED
  BY <1>1, <1>3, <1>4, <1>5 DEF Whole

\* No other commit makes a project of a checklist, or answers its submission.
LEMMA TracesStay ==
  ASSUME Held, Answered, Unmade, [Next]_vars, NEW c \in Checklists,
         ~\E a \in Attempts : Writes(a) /\ Req(a).op = "submit" /\ Req(a).checklist = c
  PROVE  /\ SubmittedBy(c)' = SubmittedBy(c) /\ CreatedFrom(c)' = CreatedFrom(c)
         /\ \A k \in SubmittedBy(c) : db'.stored[k] = db.stored[k]
<1>1. ASSUME NEW k \in Keys
      PROVE  /\ k \in SubmittedBy(c)' <=> k \in SubmittedBy(c)
             /\ k \in SubmittedBy(c) => db'.stored[k] = db.stored[k]
  <2>1. CASE request[k] = Nothing
    <3>1. db.stored[k] = Nothing
      BY <2>1 DEF Answered
    <3>2. db'.stored[k] = Nothing
      BY <2>1, <3>1, StoredMoves, WriterIs DEF Req
    <3> QED
      BY <3>1, <3>2 DEF SubmittedBy
  <2>2. CASE request[k] # Nothing
    <3>1. request'[k] = request[k]
      BY <2>2, AskedKept DEF RequestsStay
    <3>2. CASE db'.stored[k] = db.stored[k]
      BY <3>1, <3>2 DEF SubmittedBy
    <3>3. ASSUME NEW a \in Attempts, Writes(a), a[1] = k, db.stored[k] = Nothing
          PROVE  k \notin SubmittedBy(c)' /\ k \notin SubmittedBy(c)
      <4>1. ~(request[k].op = "submit" /\ request[k].checklist = c)
        BY <3>3 DEF Req
      <4> QED
        BY <3>1, <4>1 DEF SubmittedBy
    <3> QED
      BY <3>2, <3>3, StoredMoves
  <2> QED
    BY <2>1, <2>2
<1>2. SubmittedBy(c)' = SubmittedBy(c) /\ \A k \in SubmittedBy(c) : db'.stored[k] = db.stored[k]
  <2>1. SubmittedBy(c)' \subseteq Keys /\ SubmittedBy(c) \subseteq Keys
    BY DEF SubmittedBy
  <2> QED
    BY <1>1, <2>1
<1>3. ASSUME NEW p \in Projects
      PROVE  db'.project[p].from = c <=> db.project[p].from = c
  <2>0. c # None
    BY StoreAssumption
  <2>1. CASE db'.project[p].from = db.project[p].from
    BY <2>1
  <2>2. ASSUME NEW a \in Attempts, Writes(a), Born(p)
        PROVE  db'.project[p].from # c /\ db.project[p].from # c
    <3>1. db.project[p].from = None
      BY <2>2 DEF Unmade, Born
    <3>2. db.project = [q \in Projects |-> db.project[q]]
      BY DEF Held, Tables
    <3>3. CASE Is(a, "submit", "tell") /\ Submitting(a)
      <4>1. Req(a).checklist # c
        BY <2>2, <3>3 DEF Is
      <4>2. db'.project[p] = db.project[p] \/ db'.project[p].from = Req(a).checklist
        BY <3>2, <3>3 DEF Submitting
      <4> QED
        BY <2>0, <3>1, <4>1, <4>2
    <3>4. CASE Importing(a)
      <4>1. db'.project[p] = db.project[p] \/ db'.project[p].from = None
        BY <3>4 DEF Importing, WithMade
      <4> QED
        BY <2>0, <3>1, <4>1
    <3>5. CASE Deleting(a)
      <4>1. db'.project[p].state = db.project[p].state \/ db'.project[p].state = "deleted"
        BY <3>2, <3>5 DEF Deleting
      <4> QED
        BY <2>2, <4>1 DEF Born
    <3>6. CASE ProjectsAs(db, db')
      BY <2>2, <3>6 DEF ProjectsAs, Born
    <3> QED
      BY <2>2, <3>3, <3>4, <3>5, <3>6
         DEF Writes, Booking, Releasing, Saving, Linking, BulkLinking, Tidies
  <2> QED
    BY <2>1, <2>2, DbMoves DEF Under, ProjectsUnder, Dies
<1>4. CreatedFrom(c)' = CreatedFrom(c)
  BY <1>3 DEF CreatedFrom
<1> QED
  BY <1>2, <1>4

\* No step leaves a submission in part.
LEMMA WholeKept ==
  ASSUME Held, Answered, Unmade, Announced, NEW c \in Checklists, Whole(c), [Next]_vars
  PROVE  Whole(c)'
<1>1. CASE \E a \in Attempts : Writes(a) /\ Req(a).op = "submit" /\ Req(a).checklist = c
  BY <1>1, SubmissionMakesWhole
<1>2. CASE ~\E a \in Attempts : Writes(a) /\ Req(a).op = "submit" /\ Req(a).checklist = c
  <2>1. /\ SubmittedBy(c)' = SubmittedBy(c) /\ CreatedFrom(c)' = CreatedFrom(c)
        /\ \A k \in SubmittedBy(c) : db'.stored[k] = db.stored[k]
    BY <1>2, TracesStay
  <2>2. \/ db'.checklist[c] = db.checklist[c]
        \/ db.checklist[c].status # "submitted" /\ db'.checklist[c].status # "submitted"
    BY <1>2, DbMoves, ChecklistsMove DEF Is
  <2>3. /\ db.told \subseteq db'.told
        /\ \A n \in db'.told : n \in db.told \/ n[2] # ChecklistRow(c)
    BY <1>2, DbMoves, ToldMoves DEF Is
  <2>4. CASE db.checklist[c].status = "submitted"
    <3>1. db'.checklist[c] = db.checklist[c]
      BY <2>2, <2>4
    <3>2. PICK k \in Keys :
            /\ SubmittedBy(c) = {k}
            /\ CreatedFrom(c) = {db.checklist[c].project}
            /\ db.stored[k] = Done(db.checklist[c].project)
            /\ \A u \in Subscribers \ {Actor[k]} : <<u, ChecklistRow(c)>> \in db.told
      BY <2>4 DEF Whole
    <3> QED
      BY <2>1, <2>3, <2>4, <3>1, <3>2 DEF Whole
  <2>5. CASE db.checklist[c].status # "submitted"
    <3>1. db'.checklist[c].status # "submitted"
      BY <2>2, <2>5
    <3>2. /\ SubmittedBy(c) = {} /\ CreatedFrom(c) = {}
          /\ \A note \in db.told : note[2] # ChecklistRow(c)
      BY <2>5 DEF Whole
    <3>3. \A note \in db'.told : note[2] # ChecklistRow(c)
      BY <2>3, <3>2
    <3> QED
      BY <2>1, <3>1, <3>2, <3>3 DEF Whole
  <2> QED
    BY <2>4, <2>5
<1> QED
  BY <1>1, <1>2

\* A submission happens as a whole and once: checklist, project, slot, answer and
\* notifications, however its sends, its rivals and its deadlocks fall.
THEOREM SubmissionsAreWhole == Spec => []SubmissionIsWhole
<1> DEFINE Base == Held /\ Answered /\ Unmade /\ Announced /\ BookedWhenDone
           Inv == Base /\ (\A c \in Checklists : Whole(c)) /\ \A k \in Keys : BookedOnce(k)
<1>1. Init => Inv
  <2> SUFFICES ASSUME Init PROVE Inv
    OBVIOUS
  <2>1. Held /\ Answered
    BY HeldAtFirst DEF Init, Answered
  <2>2. Unmade
    BY StoreAssumption DEF Init, Unmade
  <2>3. Announced
    <3>1. \A n \in Earlier : n.about[1] = "earlier"
      BY StoreAssumption
    <3> QED
      BY <3>1, RowsDiffer DEF Init, Announced
  <2>4. \A k : \A s \in Slots : BookedBy(k, s) = {}
    BY DEF Init, BookedBy
  <2>5. BookedWhenDone
    BY <2>4 DEF BookedWhenDone
  <2>6. ASSUME NEW c \in Checklists PROVE Whole(c)
    <3>1. db.checklist[c].status # "submitted" /\ c # None
      BY StoreAssumption DEF Init
    <3>2. SubmittedBy(c) = {} /\ CreatedFrom(c) = {} /\ db.told = {}
      BY <3>1 DEF Init, SubmittedBy, CreatedFrom
    <3> QED
      BY <3>1, <3>2 DEF Whole
  <2>7. ASSUME NEW k \in Keys PROVE BookedOnce(k)
    BY DEF Init, BookedOnce
  <2> QED
    BY <2>1, <2>2, <2>3, <2>5, <2>6, <2>7
<1>2. Inv /\ [Next]_vars => Inv'
  <2>1. Base /\ [Next]_vars => Base'
    BY HeldKept, AnsweredKept, UnmadeKept, AnnouncedKept, BookedWhenDoneKept
  <2>2. ASSUME Base, [Next]_vars, NEW c \in Checklists, Whole(c) PROVE Whole(c)'
    BY <2>2, WholeKept
  <2>3. ASSUME Base, [Next]_vars, NEW k \in Keys, BookedOnce(k) PROVE BookedOnce(k)'
    BY <2>3, BookedOnceKept
  <2> HIDE DEF Base
  <2> QED
    BY <2>1, <2>2, <2>3
<1>3. Inv => SubmissionIsWhole
  <2> SUFFICES ASSUME Inv PROVE SubmissionIsWhole
    OBVIOUS
  <2>1. \A c \in Checklists : Whole(c)
    OBVIOUS
  <2>2. \A k \in Keys : BookedOnce(k)
    OBVIOUS
  <2> QED
    BY <2>1, <2>2 DEF SubmissionIsWhole, Whole, BookedOnce
<1> QED
  BY <1>1, <1>2, <1>3, PTL DEF Spec
===============================================================================
