-------------------------- MODULE ProjectWritesProofs --------------------------
(***************************************************************************)
(* Proofs about the write path for every number of users, projects,        *)
(* retries and faults, and every window of the conflict report.            *)
(*                                                                         *)
(* The inductive invariant IInv says why an action takes effect once.      *)
(* ClientSound: an action is asked once and its attempts are numbered.     *)
(* LocksSound: an open transaction holds its key alone, no answer is       *)
(* stored under that key, and past the row lock it holds a live row alone. *)
(* LedgerSound: the events of a project are numbered from 1, an event is   *)
(* the change its key asked for on top of the version it named, and the    *)
(* answer stored under that key is this event's.  Replayed: the row holds  *)
(* the last value its events give each field.  AnswersSound: an answer     *)
(* once given can never become false, since versions only grow, deleted    *)
(* projects stay deleted and stored answers stay.                          *)
(***************************************************************************)
EXTENDS ProjectWrites, FiniteSetTheorems, FunctionTheorems, SequenceTheorems, TLAPS

Rows == [state : {"absent", "live", "deleted"}, version : Nat, val : [Fields -> Values]]
Ops == {"update", "create", "delete"}
EventRecords == [key : Keys \cup {NoKey}, version : Nat, op : Ops,
                 field : Fields \cup {"none"}, to : Values]
Answers ==      [kind : {"nothing", "refused", "failed"}]
           \cup [kind : {"ok", "noop"}, version : Nat]
           \cup [kind : {"conflict"}, version : Nat, disjoint : BOOLEAN]
Requests ==     [op : {"create"}, base : {0}, field : Fields, to : Values]
           \cup [op : {"update"}, project : Projects, base : Nat \ {0}, field : Fields, to : Values]
           \cup [op : {"delete"}, project : Projects, base : Nat \ {0}, field : {"none"}, to : {Default}]

Typed ==
  /\ row \in [Projects -> Rows]
  /\ events \in [Projects -> Seq(EventRecords)]
  /\ stored \in [Keys -> Answers]
  /\ tx \in [Attempts -> {"none", "claim", "lock", "write", "ended", "gone"}]
  /\ answer \in [Attempts -> Answers]
  /\ request \in [Keys -> Requests \cup {Nothing}]
  /\ client \in [Keys -> [pc : {"idle", "waiting", "done"}, n : 0..MaxAttempts, result : Answers]]
  /\ faults \in 0..MaxFaults

\* Attempts are numbered in the order of sending, and only an ended one has an answer.
ClientSound ==
  /\ \A k \in Keys : client[k].pc = "idle" <=> client[k].n = 0
  /\ \A k \in Keys : client[k].pc = "idle" <=> request[k] = Nothing
  /\ \A a \in Attempts : tx[a] # "none" => a[2] <= client[a[1]].n
  /\ \A a \in Attempts : tx[a] # "ended" => answer[a] = Nothing

\* What an open transaction may rely on.
LocksSound ==
  /\ \A a, b \in Attempts : HoldsClaim(a) /\ HoldsClaim(b) /\ a[1] = b[1] => a = b
  /\ \A a \in Attempts : HoldsClaim(a) => stored[a[1]] = Nothing
  /\ \A a \in Attempts : tx[a] = "lock" => request[a[1]].op # "create"
  /\ \A a, b \in Attempts :
       HoldsRow(a) /\ HoldsRow(b) /\ request[a[1]].project = request[b[1]].project => a = b
  /\ \A a \in Attempts :
       HoldsRow(a) => /\ row[request[a[1]].project].state = "live"
                      /\ request[a[1]].op = "delete" => a[1] \in Admins

\* The events, the stored answers and the requests agree.
Numbered ==
  \A p \in Projects : /\ row[p].version = Len(events[p])
                      /\ row[p].state = "absent" <=> row[p].version = 0

\* An event is what its key asked for, on top of the version it named, and is answered for.
Fits(p, i, e) ==
  \/ i = 1 /\ e = Seed
  \/ /\ e.key \in Keys /\ request[e.key] # Nothing
     /\ e = Event(e.key, i, request[e.key])
     /\ i = request[e.key].base + 1
     /\ e.op # "create" => p = request[e.key].project
     /\ stored[e.key] = [kind |-> "ok", version |-> i]

EventsFit == \A p \in Projects : \A i \in 1..Len(events[p]) : Fits(p, i, events[p][i])

\* No action creates two projects.
OneBirth ==
  \A p, q \in Projects :
    Len(events[p]) # 0 /\ Len(events[q]) # 0 /\ events[p][1].key = events[q][1].key =>
      p = q \/ events[p][1].key = NoKey

StoredFits ==
  \A k \in Keys :
    /\ stored[k].kind \in {"nothing", "noop", "ok"}
    /\ stored[k].kind = "ok" =>
         \E p \in Projects : \E i \in 1..Len(events[p]) : events[p][i].key = k

\* An edit names a version that exists.
BasesExist ==
  \A k \in Keys : request[k] # Nothing /\ request[k].op # "create" =>
    request[k].base <= row[request[k].project].version

LedgerSound == Numbered /\ EventsFit /\ OneBirth /\ StoredFits /\ BasesExist

\* Event i of project p is the last one that sets field f.
LastOn(p, f, i) ==
  /\ events[p][i].field = f
  /\ \A j \in 1..Len(events[p]) : i < j => events[p][j].field # f

Replayed ==
  \A p \in Projects :
    /\ \A f \in Fields :
         \/ /\ \A i \in 1..Len(events[p]) : events[p][i].field # f
            /\ row[p].val[f] = Default
         \/ \E i \in 1..Len(events[p]) : LastOn(p, f, i) /\ row[p].val[f] = events[p][i].to
    /\ row[p].state = "deleted" <=> \E i \in 1..Len(events[p]) : events[p][i].op = "delete"

\* Answer t of key k is true, and nothing can make it false.
Stands(k, t) ==
  LET r == request[k] IN
  /\ t.kind \in {"ok", "noop"} => stored[k] = t
  /\ t.kind = "conflict" =>
       /\ stored[k] = Nothing
       /\ r # Nothing /\ r.op # "create"
       /\ r.base < t.version /\ t.version <= row[r.project].version
       /\ t.disjoint => \A i \in (r.base + 1)..t.version :
                          i <= r.base + ConflictWindow => events[r.project][i].field # r.field
  /\ t.kind = "refused" =>
       /\ stored[k] = Nothing
       /\ r # Nothing /\ r.op # "create"
       /\ row[r.project].state = "deleted" \/ (r.op = "delete" /\ k \notin Admins)

AnswersSound ==
  /\ \A a \in Attempts : Stands(a[1], answer[a])
  /\ \A k \in Keys : Stands(k, client[k].result)

IInv == Typed /\ ClientSound /\ LocksSound /\ LedgerSound /\ Replayed /\ AnswersSound

-----------------------------------------------------------------------------
(* Attempts, histories and locks *)

\* An attempt is a key and a number.
LEMMA AttemptParts ==
  /\ \A a \in Attempts : a[1] \in Keys /\ a[2] \in 1..MaxAttempts /\ a = <<a[1], a[2]>>
  /\ \A k \in Keys, n \in 1..MaxAttempts : <<k, n>> \in Attempts
  BY DEF Attempts

\* A commit adds one event behind the others.
LEMMA AppendedEvents ==
  ASSUME NEW s \in Seq(EventRecords), NEW e \in EventRecords
  PROVE  /\ Append(s, e) \in Seq(EventRecords)
         /\ Len(s) \in Nat /\ Len(Append(s, e)) = Len(s) + 1
         /\ \A i \in 1..Len(s) : Append(s, e)[i] = s[i]
         /\ Append(s, e)[Len(s) + 1] = e
  BY AppendProperties, LenProperties

\* Whoever may ask for a change asks for one that makes sense.
LEMMA AsksAreRequests ==
  ASSUME Typed, NEW k \in Keys, NEW r \in Asks(k)
  PROVE  /\ r \in Requests
         /\ r.op # "create" => r.base <= row[r.project].version
         /\ r # Nothing
<1> USE WritesAssumption
<1>1. \A w \in Wants[k] :
        \/ w.op \in {"update", "create"} /\ w.field \in Fields /\ w.to \in Values
        \/ w.op = "delete" /\ w.field = "none" /\ w.to = Default
  OBVIOUS
<1>2. CASE r \in {[op |-> w.op, base |-> 0, field |-> w.field, to |-> w.to] :
                    w \in {u \in Wants[k] : u.op = "create" /\ u.to # Default}}
  BY <1>1, <1>2 DEF Requests, Nothing
<1>3. CASE r \in {[op |-> w.op, project |-> t[1], base |-> t[2], field |-> w.field, to |-> w.to] :
                    w \in {u \in Wants[k] : u.op # "create"}, t \in Versions}
  <2>1. PICK w \in Wants[k], t \in Versions :
          /\ w.op # "create"
          /\ r = [op |-> w.op, project |-> t[1], base |-> t[2], field |-> w.field, to |-> w.to]
    BY <1>3
  <2>2. t[1] \in Projects /\ t[2] \in Nat \ {0} /\ t[2] <= row[t[1]].version
    BY DEF Versions, Typed, Rows
  <2> QED
    BY <1>1, <2>1, <2>2 DEF Requests, Nothing
<1> QED
  BY <1>2, <1>3 DEF Asks

-----------------------------------------------------------------------------
(* The invariant *)

\* The invariant holds at the start.
LEMMA InitInv == Init => IInv
<1> SUFFICES ASSUME Init PROVE IInv
  OBVIOUS
<1> USE WritesAssumption DEF Init
<1>1. Seed \in EventRecords /\ Nothing \in Answers
  BY DEF Seed, EventRecords, Ops, Nothing, Answers
<1>2. <<Seed>> \in Seq(EventRecords) /\ Len(<<Seed>>) = 1 /\ <<Seed>>[1] = Seed
  BY <1>1
<1>3. \A p \in Projects :
        \/ events[p] = <<>> /\ Len(events[p]) = 0 /\ row[p].version = 0 /\ row[p].state = "absent"
        \/ /\ Len(events[p]) = 1 /\ events[p][1] = Seed /\ row[p].version = 1
           /\ row[p].state = "live"
  BY <1>2
<1>4. \A p \in Projects, f \in Fields : row[p].val[f] = Default
  OBVIOUS
<1>5. Typed
  <2>1. row \in [Projects -> Rows]
    BY DEF Rows
  <2>2. events \in [Projects -> Seq(EventRecords)]
    BY <1>2
  <2>3. client \in [Keys -> [pc : {"idle", "waiting", "done"}, n : 0..MaxAttempts, result : Answers]]
    BY <1>1
  <2> QED
    BY <1>1, <2>1, <2>2, <2>3 DEF Typed
<1>6. ClientSound
  BY AttemptParts DEF ClientSound
<1>7. LocksSound
  BY DEF LocksSound, HoldsClaim, HoldsRow
<1>8. LedgerSound
  <2>1. Numbered
    BY <1>3 DEF Numbered
  <2>2. EventsFit
    BY <1>3 DEF EventsFit, Fits
  <2>3. OneBirth
    BY <1>3 DEF OneBirth, Seed
  <2>4. StoredFits
    BY DEF StoredFits, Nothing
  <2>5. BasesExist
    BY DEF BasesExist
  <2> QED
    BY <2>1, <2>2, <2>3, <2>4, <2>5 DEF LedgerSound
<1>9. Replayed
  BY <1>3, <1>4 DEF Replayed, Seed
<1>10. AnswersSound
  BY AttemptParts DEF AnswersSound, Stands, Nothing
<1> QED
  BY <1>5, <1>6, <1>7, <1>8, <1>9, <1>10 DEF IInv

-----------------------------------------------------------------------------
(* Commits *)

\* What a commit of attempt a does, as version new of project p.
Commits(a, p, new) ==
  LET r == request[a[1]] IN
  /\ CommitVersion(a, p, new)
  /\ tx[a] = "write" /\ r \in Requests
  /\ new.version = Len(events[p]) + 1 /\ new.version = r.base + 1
  /\ new.state = IF r.op = "delete" THEN "deleted" ELSE "live"
  /\ new.val = IF r.op = "delete" THEN row[p].val ELSE [row[p].val EXCEPT ![r.field] = r.to]
  /\ IF r.op = "create" THEN row[p].state = "absent" ELSE p = r.project /\ row[p].state = "live"
  /\ r.op = "delete" => a[1] \in Admins

\* An open transaction's user has asked for something.
LEMMA ClaimedIsRequested ==
  ASSUME IInv, NEW a \in Attempts, tx[a] # "none"
  PROVE  request[a[1]] \in Requests /\ request[a[1]] # Nothing /\ client[a[1]].pc # "idle"
<1> USE AttemptParts DEF IInv, Typed, ClientSound
<1>1. a[1] \in Keys /\ a[2] >= 1 /\ a[2] <= client[a[1]].n /\ client[a[1]].n \in 0..MaxAttempts
  OBVIOUS
<1>2. client[a[1]].pc # "idle"
  BY <1>1
<1> QED
  BY <1>1, <1>2

\* Update, deletion and creation are commits of the requested change.
LEMMA CommitEffect ==
  ASSUME IInv, NEW a \in Attempts, Update(a) \/ Delete(a) \/ Create(a)
  PROVE  \E p \in Projects, new \in Rows : Commits(a, p, new)
<1> DEFINE r == request[a[1]]
<1> USE AttemptParts, WritesAssumption
<1>1. tx[a] = "write" /\ r \in Requests
  BY ClaimedIsRequested DEF Update, Delete, Create
<1>2. ASSUME r.op # "create"
      PROVE  /\ r.project \in Projects /\ row[r.project] \in Rows
             /\ row[r.project].state = "live" /\ row[r.project].version = Len(events[r.project])
             /\ r.op = "delete" => a[1] \in Admins
  BY <1>1, <1>2 DEF IInv, Typed, Requests, LocksSound, HoldsRow, LedgerSound, Numbered
<1>3. CASE Update(a)
  <2> DEFINE new == [state |-> row[r.project].state, version |-> NextVersion(row[r.project].version),
                     val |-> [row[r.project].val EXCEPT ![r.field] = r.to]]
  <2>1. r.op = "update" /\ CommitVersion(a, r.project, new) /\ row[r.project].version = r.base
    BY <1>3 DEF Update, ExpectedVersion
  <2>2. r.field \in Fields /\ r.to \in Values
    BY <1>1, <2>1 DEF Requests
  <2>3. /\ new.version = row[r.project].version + 1 /\ new.state = "live"
        /\ new.val = [row[r.project].val EXCEPT ![r.field] = r.to] /\ new \in Rows
    <3>1. [row[r.project].val EXCEPT ![r.field] = r.to] \in [Fields -> Values]
      BY <1>2, <2>1, <2>2 DEF Rows
    <3>2. row[r.project].version \in Nat
      BY <1>2, <2>1 DEF Rows
    <3>3. NextVersion(row[r.project].version) = row[r.project].version + 1
      BY DEF NextVersion
    <3>4. row[r.project].version + 1 \in Nat /\ row[r.project].state = "live"
      <4>1. row[r.project].state = "live"
        BY <1>2, <2>1
      <4>2. row[r.project].version + 1 \in Nat
        BY <3>2
      <4> QED
        BY <4>1, <4>2
    <3>5. new = [state |-> "live", version |-> row[r.project].version + 1,
                 val |-> [row[r.project].val EXCEPT ![r.field] = r.to]]
      BY <3>3, <3>4
    <3>6. "live" \in {"absent", "live", "deleted"}
      OBVIOUS
    <3> DEFINE v == row[r.project].version + 1  val == [row[r.project].val EXCEPT ![r.field] = r.to]
    <3>7. v \in Nat /\ val \in [Fields -> Values] /\ new = [state |-> "live", version |-> v, val |-> val]
      BY <3>1, <3>4, <3>5
    <3>8. v = row[r.project].version + 1 /\ val = [row[r.project].val EXCEPT ![r.field] = r.to]
      OBVIOUS
    <3> HIDE DEF new, v, val
    <3>9. new \in Rows /\ new.version = v /\ new.state = "live" /\ new.val = val
      BY <3>6, <3>7 DEF Rows
    <3> QED
      BY <3>8, <3>9
  <2> HIDE DEF new
  <2> QED
    BY <1>1, <1>2, <2>1, <2>3 DEF Commits
<1>4. CASE Delete(a)
  <2> DEFINE new == [state |-> "deleted", version |-> NextVersion(row[r.project].version),
                     val |-> row[r.project].val]
  <2>1. r.op = "delete" /\ CommitVersion(a, r.project, new) /\ row[r.project].version = r.base
    BY <1>4 DEF Delete, ExpectedVersion
  <2>2. /\ new.version = row[r.project].version + 1 /\ new.state = "deleted"
        /\ new.val = row[r.project].val /\ new \in Rows
    <3> DEFINE v == row[r.project].version + 1  val == row[r.project].val
    <3>1. row[r.project] \in Rows
      BY <1>2, <2>1
    <3>2. v \in Nat /\ val \in [Fields -> Values]
      BY <3>1 DEF Rows
    <3>3. new = [state |-> "deleted", version |-> v, val |-> val]
      BY DEF NextVersion
    <3>4. v = row[r.project].version + 1 /\ val = row[r.project].val
      OBVIOUS
    <3> HIDE DEF new, v, val
    <3>5. new \in Rows /\ new.version = v /\ new.state = "deleted" /\ new.val = val
      BY <3>2, <3>3 DEF Rows
    <3> QED
      BY <3>4, <3>5
  <2> HIDE DEF new
  <2> QED
    BY <1>1, <1>2, <2>1, <2>2 DEF Commits
<1>5. CASE Create(a)
  <2> DEFINE new == [state |-> "live", version |-> 1,
                     val |-> [[f \in Fields |-> Default] EXCEPT ![r.field] = r.to]]
  <2>1. PICK p \in Projects : row[p].state = "absent" /\ CommitVersion(a, p, new)
    BY <1>5 DEF Create, NewId
  <2>2. r.op = "create" /\ r.base = 0 /\ r.field \in Fields /\ r.to \in Values
    BY <1>1, <1>5 DEF Create, Requests
  <2>3. Len(events[p]) = 0
    BY <2>1 DEF IInv, LedgerSound, Numbered
  <2>4. row[p].val = [f \in Fields |-> Default]
    BY <2>3 DEF IInv, Typed, Rows, Replayed
  <2>5. new \in Rows
    BY <2>2 DEF Rows
  <2>6. new.version = 1 /\ new.state = "live" /\ new.val = [row[p].val EXCEPT ![r.field] = r.to]
    BY <2>4
  <2> HIDE DEF new
  <2> QED
    BY <1>1, <2>1, <2>2, <2>3, <2>5, <2>6 DEF Commits
<1> QED
  BY <1>3, <1>4, <1>5

\* A commit takes effect in every part of the state, and nowhere else.
Committed(a, p, new) ==
  LET k == a[1]  m == Len(events[p]) IN
  /\ m \in Nat /\ Event(k, m + 1, request[k]) \in EventRecords
  /\ row' = [row EXCEPT ![p] = new]
  /\ events' \in [Projects -> Seq(EventRecords)]
  /\ Len(events'[p]) = m + 1
  /\ \A i \in 1..m : events'[p][i] = events[p][i]
  /\ events'[p][m + 1] = Event(k, m + 1, request[k])
  /\ \A q \in Projects : q # p => events'[q] = events[q]
  /\ stored[k] = Nothing
  /\ stored' = [stored EXCEPT ![k] = [kind |-> "ok", version |-> m + 1]]
  /\ tx' = [tx EXCEPT ![a] = "ended"]
  /\ answer' = [answer EXCEPT ![a] = [kind |-> "ok", version |-> m + 1]]
  /\ UNCHANGED <<request, client, faults>>

\* A commit writes its own row, its own events and its own answer.
LEMMA CommitParts ==
  ASSUME IInv, NEW a \in Attempts, NEW p \in Projects, NEW new \in Rows, Commits(a, p, new)
  PROVE  Committed(a, p, new)
<1> DEFINE k == a[1]  m == Len(events[p])  e == Event(k, m + 1, request[k])
<1> USE AttemptParts DEF IInv, Typed
<1>1. k \in Keys /\ request[k] \in Requests /\ events[p] \in Seq(EventRecords) /\ m \in Nat
  BY LenProperties DEF Commits
<1>2. e \in EventRecords
  BY <1>1, WritesAssumption DEF Event, EventRecords, Requests, Ops
<1>3. /\ row' = [row EXCEPT ![p] = new]
      /\ events' = [events EXCEPT ![p] = Append(@, e)]
      /\ stored' = [stored EXCEPT ![k] = [kind |-> "ok", version |-> m + 1]]
      /\ UNCHANGED <<request, client, faults>>
  BY DEF Commits, CommitVersion
<1>4. stored'[k] = [kind |-> "ok", version |-> m + 1]
  BY <1>1, <1>3
<1>5. /\ tx' = [tx EXCEPT ![a] = "ended"]
      /\ answer' = [answer EXCEPT ![a] = [kind |-> "ok", version |-> m + 1]]
  BY <1>4 DEF Commits, CommitVersion, EndWith
<1>6. stored[k] = Nothing
  BY DEF Commits, LocksSound, HoldsClaim
<1> HIDE DEF e
<1>7. events'[p] = Append(events[p], e) /\ \A q \in Projects : q # p => events'[q] = events[q]
  BY <1>3
<1>8. /\ Append(events[p], e) \in Seq(EventRecords)
      /\ Len(Append(events[p], e)) = m + 1
      /\ \A i \in 1..m : Append(events[p], e)[i] = events[p][i]
      /\ Append(events[p], e)[m + 1] = e
  BY <1>1, <1>2, AppendedEvents
<1>9. events' \in [Projects -> Seq(EventRecords)]
  BY <1>3, <1>7, <1>8
<1> QED
  BY <1>1, <1>2, <1>3, <1>5, <1>6, <1>7, <1>8, <1>9 DEF e, Committed

-----------------------------------------------------------------------------
(* The browser's side of a step *)

Clients == [pc : {"idle", "waiting", "done"}, n : 0..MaxAttempts, result : Answers]

\* An action is sent (again), or its user is told how it ended.
ClientMoves(k) ==
  \/ \E n \in 1..MaxAttempts : n = client[k].n + 1 /\ Send(k, n)
  \/ /\ UNCHANGED tx
     /\ \/ Tell(k, Failed)
        \/ \E a \in Attempts : a[1] = k /\ Tell(k, answer[a])

\* What the browser does with an action that has been sent.
LEMMA ClientEffect ==
  ASSUME IInv, NEW k \in Keys, Receive(k) \/ Disconnect(k)
  PROVE  /\ client[k].pc = "waiting" /\ ClientMoves(k)
         /\ UNCHANGED <<row, events, stored, answer, request>>
         /\ faults' \in 0..MaxFaults
<1> USE WritesAssumption, AttemptParts DEF IInv, Typed
<1>1. client[k].pc = "waiting" /\ UNCHANGED <<row, events, stored, answer, request>>
  BY DEF Receive, Disconnect
<1>2. client[k].n \in 0..MaxAttempts
  OBVIOUS
<1>3. client[k].n # 0
  BY <1>1 DEF ClientSound
<1>4. <<k, client[k].n>> \in Attempts
  BY <1>2, <1>3
<1>5. TryAgain(k) => ClientMoves(k)
  BY <1>2, <1>3 DEF TryAgain, SendsAgain, ClientMoves
<1>6. CASE Receive(k)
  BY <1>1, <1>4, <1>5, <1>6 DEF Receive, ClientMoves
<1>7. CASE Disconnect(k)
  BY <1>1, <1>5, <1>7 DEF Disconnect
<1> QED
  BY <1>1, <1>6, <1>7

\* Every variable keeps its type.
LEMMA TypedStep == IInv /\ [Next]_vars => Typed'
<1> SUFFICES ASSUME IInv, [Next]_vars PROVE Typed'
  OBVIOUS
<1> USE WritesAssumption, AttemptParts DEF Typed
<1>0. Typed
  BY DEF IInv
<1>a. Nothing \in Answers /\ Refused \in Answers /\ Failed \in Answers
  BY DEF Nothing, Refused, Failed, Answers
<1>b. ASSUME NEW a \in Attempts, NEW t \in Answers, EndWith(a, t)
      PROVE  /\ tx' \in [Attempts -> {"none", "claim", "lock", "write", "ended", "gone"}]
             /\ answer' \in [Attempts -> Answers]
  BY <1>0, <1>b DEF EndWith
<1>1. ASSUME NEW a \in Attempts, Claim(a) PROVE Typed'
  <2>1. CASE EndWith(a, stored[a[1]])
    <3>1. stored[a[1]] \in Answers
      BY <1>0
    <3>2. /\ tx' \in [Attempts -> {"none", "claim", "lock", "write", "ended", "gone"}]
          /\ answer' \in [Attempts -> Answers]
      BY <1>b, <2>1, <3>1
    <3> QED
      BY <1>0, <1>1, <3>2 DEF Claim
  <2>2. CASE tx' = [tx EXCEPT ![a] = IF request[a[1]].op = "create" THEN "write" ELSE "lock"]
             /\ UNCHANGED answer
    <3>1. tx' \in [Attempts -> {"none", "claim", "lock", "write", "ended", "gone"}]
      BY <1>0, <2>2
    <3> QED
      BY <1>0, <1>1, <2>2, <3>1 DEF Claim
  <2> QED
    BY <1>1, <2>1, <2>2 DEF Claim
<1>2. ASSUME NEW a \in Attempts, Lock(a) PROVE Typed'
  <2>1. CASE EndWith(a, Refused)
    BY <1>0, <1>a, <1>b, <1>2, <2>1 DEF Lock
  <2>2. CASE tx' = [tx EXCEPT ![a] = "write"] /\ UNCHANGED answer
    BY <1>0, <1>2, <2>2 DEF Lock
  <2> QED
    BY <1>2, <2>1, <2>2 DEF Lock
<1>3. ASSUME NEW a \in Attempts, RefuseStale(a) PROVE Typed'
  <2>1. request[a[1]] \in Requests
    BY <1>3, ClaimedIsRequested DEF RefuseStale
  <2>2. row[request[a[1]].project] \in Rows
    BY <1>0, <1>3, <2>1 DEF RefuseStale, Requests
  <2>3. [kind |-> "conflict", version |-> row[request[a[1]].project].version,
         disjoint |-> request[a[1]].field \notin ChangedSince(request[a[1]])] \in Answers
    BY <2>2 DEF Rows, Answers
  <2> QED
    BY <1>0, <1>3, <2>3 DEF RefuseStale, EndWith
<1>4. ASSUME NEW a \in Attempts, FindNothingToDo(a) PROVE Typed'
  <2>1. request[a[1]] \in Requests
    BY <1>4, ClaimedIsRequested DEF FindNothingToDo
  <2>2. row[request[a[1]].project] \in Rows
    BY <1>0, <1>4, <2>1 DEF FindNothingToDo, Requests
  <2>3. [kind |-> "noop", version |-> row[request[a[1]].project].version] \in Answers
    BY <2>2 DEF Rows, Answers
  <2>4. stored' \in [Keys -> Answers] /\ a[1] \in Keys
    BY <1>0, <1>4, <2>3 DEF FindNothingToDo
  <2> QED
    BY <1>0, <1>4, <2>4 DEF FindNothingToDo, EndWith
<1>5. ASSUME NEW a \in Attempts, Update(a) \/ Delete(a) \/ Create(a) PROVE Typed'
  <2>1. PICK p \in Projects, new \in Rows : Commits(a, p, new)
    BY <1>5, CommitEffect
  <2> DEFINE ok == [kind |-> "ok", version |-> Len(events[p]) + 1]
  <2>2. /\ Len(events[p]) \in Nat
        /\ row' = [row EXCEPT ![p] = new]
        /\ events' \in [Projects -> Seq(EventRecords)]
        /\ stored' = [stored EXCEPT ![a[1]] = ok]
        /\ tx' = [tx EXCEPT ![a] = "ended"]
        /\ answer' = [answer EXCEPT ![a] = ok]
        /\ UNCHANGED <<request, client, faults>>
    BY <2>1, CommitParts DEF Committed
  <2>3. ok \in Answers
    BY <2>2 DEF Answers
  <2> HIDE DEF ok
  <2> QED
    BY <1>0, <2>2, <2>3
<1>6. ASSUME NEW a \in Attempts, Deadlock(a) PROVE Typed'
  <2>1. CASE EndWith(a, Failed)
    BY <1>0, <1>a, <1>b, <1>6, <2>1 DEF Deadlock
  <2>2. CASE tx' = [tx EXCEPT ![a] = "claim"] /\ UNCHANGED answer
    BY <1>0, <1>6, <2>2 DEF Deadlock
  <2> QED
    BY <1>6, <2>1, <2>2 DEF Deadlock
<1>7. ASSUME NEW a \in Attempts, Kill(a) PROVE Typed'
  BY <1>0, <1>7 DEF Kill
<1>8. ASSUME NEW k \in Keys, Submit(k) PROVE Typed'
  <2>1. PICK r \in Asks(k) : request' = [request EXCEPT ![k] = r]
    BY <1>8 DEF Submit
  <2>2. request' \in [Keys -> Requests \cup {Nothing}]
    BY <1>0, <2>1, AsksAreRequests
  <2>3. Send(k, 1) /\ 1 \in 1..MaxAttempts /\ UNCHANGED <<row, events, stored, answer, faults>>
    BY <1>8 DEF Submit
  <2>4. [pc |-> "waiting", n |-> 1, result |-> Nothing] \in Clients
    BY <1>a, <2>3 DEF Clients
  <2> QED
    BY <1>0, <2>2, <2>3, <2>4 DEF Send, Clients
<1>9. ASSUME NEW k \in Keys, Receive(k) \/ Disconnect(k) PROVE Typed'
  <2>1. ClientMoves(k) /\ UNCHANGED <<row, events, stored, answer, request>> /\ faults' \in 0..MaxFaults
    BY <1>9, ClientEffect
  <2>2. ASSUME NEW n \in 1..MaxAttempts, Send(k, n) PROVE Typed'
    <3>1. [pc |-> "waiting", n |-> n, result |-> Nothing] \in Clients
      BY <1>a DEF Clients
    <3> QED
      BY <1>0, <2>1, <2>2, <3>1 DEF Send, Clients
  <2>3. ASSUME NEW t \in Answers, UNCHANGED tx, Tell(k, t) PROVE Typed'
    <3>1. [pc |-> "done", n |-> client[k].n, result |-> t] \in Clients
      BY <1>0 DEF Clients
    <3> QED
      BY <1>0, <2>1, <2>3, <3>1 DEF Tell, Clients
  <2> QED
    BY <1>0, <1>a, <2>1, <2>2, <2>3 DEF ClientMoves
<1>10. CASE UNCHANGED vars
  BY <1>0, <1>10 DEF vars
<1> QED
  BY <1>1, <1>2, <1>3, <1>4, <1>5, <1>6, <1>7, <1>8, <1>9, <1>10 DEF Next, Server, Fault

-----------------------------------------------------------------------------
(* Attempts *)

\* A step of attempt a: it was under way, moves on, and is answered when it ends.
AttemptMoves(a) ==
  /\ tx[a] \in {"claim", "lock", "write"}
  /\ UNCHANGED <<request, client>>
  /\ \/ \E s \in {"claim", "lock", "write", "gone"} : tx' = [tx EXCEPT ![a] = s] /\ UNCHANGED answer
     \/ \E t \in Answers : EndWith(a, t)

\* What one attempt does to the tables and to itself.
LEMMA AttemptEffect ==
  ASSUME IInv, NEW a \in Attempts, Server(a) \/ Deadlock(a) \/ Kill(a)
  PROVE  AttemptMoves(a)
<1> USE AttemptParts
<1>1. Typed /\ Typed'
  BY TypedStep DEF IInv, Next, Fault
<1>2. ASSUME NEW t, EndWith(a, t) PROVE t \in Answers
  BY <1>1, <1>2 DEF EndWith, Typed
<1>3. CASE Claim(a)
  BY <1>2, <1>3 DEF Claim, AttemptMoves
<1>4. CASE Lock(a)
  BY <1>2, <1>4 DEF Lock, AttemptMoves
<1>5. CASE RefuseStale(a)
  BY <1>2, <1>5 DEF RefuseStale, AttemptMoves
<1>6. CASE FindNothingToDo(a)
  BY <1>2, <1>6 DEF FindNothingToDo, AttemptMoves
<1>7. CASE Update(a) \/ Delete(a) \/ Create(a)
  <2>1. PICK p \in Projects, new \in Rows : Commits(a, p, new)
    BY <1>7, CommitEffect
  <2> QED
    BY <1>2, <2>1 DEF Commits, CommitVersion, AttemptMoves
<1>8. CASE Deadlock(a)
  BY <1>2, <1>8 DEF Deadlock, HoldsClaim, AttemptMoves
<1>9. CASE Kill(a)
  BY <1>9 DEF Kill, AttemptMoves
<1> QED
  BY <1>3, <1>4, <1>5, <1>6, <1>7, <1>8, <1>9 DEF Server

\* Attempts stay numbered in the order of sending.
LEMMA ClientStep == IInv /\ [Next]_vars => ClientSound'
<1> SUFFICES ASSUME IInv, [Next]_vars PROVE ClientSound'
  OBVIOUS
<1> USE WritesAssumption, AttemptParts
<1>0. Typed /\ ClientSound
  BY DEF IInv
<1>1. ASSUME NEW a \in Attempts, Server(a) \/ Deadlock(a) \/ Kill(a) PROVE ClientSound'
  <2>1. AttemptMoves(a)
    BY <1>1, AttemptEffect
  <2>2. \A b \in Attempts : b # a => tx'[b] = tx[b] /\ answer'[b] = answer[b]
    BY <1>0, <2>1 DEF AttemptMoves, EndWith, Typed
  <2>3. tx[a] # "none" /\ (tx'[a] # "ended" => answer'[a] = Nothing)
    BY <1>0, <2>1 DEF AttemptMoves, EndWith, Typed, ClientSound
  <2> QED
    BY <1>0, <2>1, <2>2, <2>3 DEF AttemptMoves, ClientSound
<1>2. ASSUME NEW k \in Keys, NEW n \in 1..MaxAttempts, n = client[k].n + 1, Send(k, n),
             UNCHANGED answer, \A j \in Keys : j # k => request'[j] = request[j],
             request'[k] # Nothing
      PROVE  ClientSound'
  <2>1. /\ client'[k] = [pc |-> "waiting", n |-> n, result |-> Nothing]
        /\ \A j \in Keys : j # k => client'[j] = client[j]
        /\ \A b \in Attempts : b # <<k, n>> => tx'[b] = tx[b]
    BY <1>0, <1>2 DEF Send, Typed
  <2>2. tx[<<k, n>>] = "none" /\ tx'[<<k, n>>] = "claim"
    BY <1>0, <1>2 DEF Send, Typed, ClientSound
  <2>3. answer[<<k, n>>] = Nothing
    BY <1>0, <2>2 DEF ClientSound
  <2>4. \A b \in Attempts : tx'[b] # "none" => b[2] <= client'[b[1]].n
    <3> SUFFICES ASSUME NEW b \in Attempts, tx'[b] # "none" PROVE b[2] <= client'[b[1]].n
      OBVIOUS
    <3>1. CASE b = <<k, n>>
      BY <2>1, <3>1
    <3>2. CASE b # <<k, n>>
      <4>1. b[2] <= client[b[1]].n /\ b[2] \in Nat /\ n \in Nat
        BY <1>0, <2>1, <3>2 DEF ClientSound
      <4>2. client[k].n \in Nat /\ client[k].n <= n
        BY <1>0, <1>2 DEF Typed
      <4>3. b[1] = k => b[2] <= n
        BY <4>1, <4>2, <2>1
      <4> QED
        BY <2>1, <4>1, <4>3
    <3> QED
      BY <3>1, <3>2
  <2>5. \A b \in Attempts : tx'[b] # "ended" => answer'[b] = Nothing
    BY <1>0, <1>2, <2>1, <2>2, <2>3 DEF ClientSound
  <2>6. \A j \in Keys : /\ client'[j].pc = "idle" <=> client'[j].n = 0
                        /\ client'[j].pc = "idle" <=> request'[j] = Nothing
    BY <1>0, <1>2, <2>1 DEF ClientSound
  <2> QED
    BY <2>4, <2>5, <2>6 DEF ClientSound
<1>3. ASSUME NEW k \in Keys, NEW t, Tell(k, t), client[k].pc = "waiting",
             UNCHANGED <<tx, answer, request>>
      PROVE  ClientSound'
  <2>1. client'[k].pc = "done" /\ client'[k].n = client[k].n
        /\ \A j \in Keys : j # k => client'[j] = client[j]
    BY <1>0, <1>3 DEF Tell, Typed
  <2> QED
    BY <1>0, <1>3, <2>1 DEF ClientSound
<1>4. ASSUME NEW k \in Keys, Submit(k) PROVE ClientSound'
  <2>1. PICK r \in Asks(k) : request' = [request EXCEPT ![k] = r]
    BY <1>4 DEF Submit
  <2>2. request'[k] # Nothing /\ \A j \in Keys : j # k => request'[j] = request[j]
    BY <1>0, <2>1, AsksAreRequests DEF Typed
  <2>3. client[k].n = 0
    BY <1>0, <1>4 DEF Submit, ClientSound
  <2> QED
    BY <1>2, <1>4, <2>2, <2>3 DEF Submit
<1>5. ASSUME NEW k \in Keys, Receive(k) \/ Disconnect(k) PROVE ClientSound'
  <2>1. client[k].pc = "waiting" /\ ClientMoves(k) /\ UNCHANGED <<answer, request>>
    BY <1>5, ClientEffect
  <2>2. request[k] # Nothing
    BY <1>0, <2>1 DEF ClientSound
  <2> QED
    BY <1>2, <1>3, <2>1, <2>2 DEF ClientMoves
<1>6. CASE UNCHANGED vars
  BY <1>0, <1>6 DEF vars, ClientSound
<1> QED
  BY <1>1, <1>4, <1>5, <1>6 DEF Next, Fault

-----------------------------------------------------------------------------
(* Locks *)

\* Whatever an attempt did before it let go of its locks disturbs nobody else's.
LEMMA ReleaseKeepsLocks ==
  ASSUME IInv, NEW a \in Attempts, NEW s \in {"claim", "ended", "gone"},
         tx' = [tx EXCEPT ![a] = s], UNCHANGED request,
         stored' = stored \/ (HoldsClaim(a) /\ \A k \in Keys : k # a[1] => stored'[k] = stored[k]),
         \A b \in Attempts : b # a /\ HoldsRow(b) =>
           row'[request[b[1]].project].state = row[request[b[1]].project].state
  PROVE  LocksSound'
<1> USE AttemptParts DEF IInv, Typed
<1>1. ~HoldsClaim(a)' /\ ~HoldsRow(a)' /\ tx'[a] # "lock"
  BY DEF HoldsClaim, HoldsRow
<1>2. ASSUME NEW b \in Attempts, b # a
      PROVE  tx'[b] = tx[b] /\ (HoldsClaim(b)' <=> HoldsClaim(b)) /\ (HoldsRow(b)' <=> HoldsRow(b))
  BY <1>2 DEF HoldsClaim, HoldsRow
<1>3. ASSUME NEW b \in Attempts, b # a, HoldsClaim(b) PROVE stored'[b[1]] = stored[b[1]]
  BY <1>3 DEF LocksSound
<1>4. \A b, c \in Attempts : HoldsClaim(b)' /\ HoldsClaim(c)' /\ b[1] = c[1] => b = c
  BY <1>1, <1>2 DEF LocksSound
<1>5. \A b \in Attempts : HoldsClaim(b)' => stored'[b[1]] = Nothing
  BY <1>1, <1>2, <1>3 DEF LocksSound
<1>6. \A b \in Attempts : tx'[b] = "lock" => request'[b[1]].op # "create"
  BY <1>1, <1>2 DEF LocksSound
<1>7. \A b, c \in Attempts :
        HoldsRow(b)' /\ HoldsRow(c)' /\ request'[b[1]].project = request'[c[1]].project => b = c
  BY <1>1, <1>2 DEF LocksSound
<1>8. \A b \in Attempts :
        HoldsRow(b)' => /\ row'[request'[b[1]].project].state = "live"
                        /\ request'[b[1]].op = "delete" => b[1] \in Admins
  BY <1>1, <1>2 DEF LocksSound
<1> QED
  BY <1>4, <1>5, <1>6, <1>7, <1>8 DEF LocksSound

\* A commit changes no row that another attempt holds.
LEMMA CommitOnOwnRow ==
  ASSUME IInv, NEW a \in Attempts, NEW p \in Projects, NEW new \in Rows, Commits(a, p, new),
         NEW b \in Attempts, b # a, HoldsRow(b)
  PROVE  request[b[1]].project \in Projects /\ request[b[1]].project # p
<1> USE AttemptParts DEF IInv
<1>1. request[b[1]] \in Requests /\ request[b[1]].op # "create"
  BY ClaimedIsRequested DEF HoldsRow
<1>2. request[b[1]].project \in Projects /\ row[request[b[1]].project].state = "live"
  BY <1>1 DEF Requests, LocksSound
<1>3. CASE request[a[1]].op = "create"
  BY <1>2, <1>3 DEF Commits
<1>4. CASE request[a[1]].op # "create"
  <2>1. HoldsRow(a) /\ p = request[a[1]].project
    BY <1>4 DEF Commits, HoldsRow
  <2> QED
    BY <1>2, <2>1 DEF LocksSound
<1> QED
  BY <1>3, <1>4

\* No step lets two attempts hold one row.
LEMMA LocksStep == IInv /\ [Next]_vars => LocksSound'
<1> SUFFICES ASSUME IInv, [Next]_vars PROVE LocksSound'
  OBVIOUS
<1> USE WritesAssumption, AttemptParts
<1>0. Typed /\ LocksSound /\ ClientSound
  BY DEF IInv
<1>1. ASSUME NEW a \in Attempts, Claim(a) PROVE LocksSound'
  <2>1. UNCHANGED <<row, stored, request>>
    BY <1>1 DEF Claim
  <2>2. CASE Replays(a[1])
    BY <1>1, <2>1, <2>2, ReleaseKeepsLocks DEF Claim, EndWith
  <2>3. CASE ~Replays(a[1])
    <3>1. PICK s \in {"lock", "write"} :
            /\ tx' = [tx EXCEPT ![a] = s]
            /\ s = "write" <=> request[a[1]].op = "create"
      BY <1>1, <2>3 DEF Claim
    <3>2. \A b \in Attempts : b[1] = a[1] => ~HoldsClaim(b)
      BY <1>1 DEF Claim, ClaimFree
    <3>3. stored[a[1]] = Nothing /\ ~HoldsRow(a)' /\ tx'[a] = s
      BY <1>0, <2>1, <2>3, <3>1 DEF Replays, HoldsRow, Typed
    <3>4. ASSUME NEW b \in Attempts, b # a
          PROVE  tx'[b] = tx[b] /\ (HoldsClaim(b)' <=> HoldsClaim(b)) /\ (HoldsRow(b)' <=> HoldsRow(b))
      BY <1>0, <2>1, <3>1, <3>4 DEF HoldsClaim, HoldsRow, Typed
    <3> QED
      BY <1>0, <2>1, <3>1, <3>2, <3>3, <3>4 DEF LocksSound
  <2> QED
    BY <2>2, <2>3
<1>2. ASSUME NEW a \in Attempts, Lock(a) PROVE LocksSound'
  <2>1. UNCHANGED <<row, stored, request>> /\ tx[a] = "lock"
    BY <1>2 DEF Lock
  <2>2. CASE EndWith(a, Refused)
    BY <2>1, <2>2, ReleaseKeepsLocks DEF EndWith
  <2>3. CASE /\ row[request[a[1]].project].state = "live"
             /\ request[a[1]].op = "delete" => a[1] \in Admins
             /\ tx' = [tx EXCEPT ![a] = "write"]
    <3>1. \A b \in Attempts : HoldsRow(b) => request[b[1]].project # request[a[1]].project
      BY <1>2 DEF Lock, RowFree
    <3>2. HoldsClaim(a) /\ HoldsClaim(a)' /\ tx'[a] = "write"
      BY <1>0, <2>1, <2>3 DEF HoldsClaim, Typed
    <3>3. ASSUME NEW b \in Attempts, b # a
          PROVE  tx'[b] = tx[b] /\ (HoldsClaim(b)' <=> HoldsClaim(b)) /\ (HoldsRow(b)' <=> HoldsRow(b))
      BY <1>0, <2>1, <2>3, <3>3 DEF HoldsClaim, HoldsRow, Typed
    <3> QED
      BY <1>0, <2>1, <2>3, <3>1, <3>2, <3>3 DEF LocksSound
  <2> QED
    BY <1>2, <2>2, <2>3 DEF Lock
<1>3. ASSUME NEW a \in Attempts, RefuseStale(a) PROVE LocksSound'
  BY <1>3, ReleaseKeepsLocks DEF RefuseStale, EndWith
<1>4. ASSUME NEW a \in Attempts, FindNothingToDo(a) PROVE LocksSound'
  <2>1. HoldsClaim(a) /\ \A k \in Keys : k # a[1] => stored'[k] = stored[k]
    BY <1>0, <1>4 DEF FindNothingToDo, HoldsClaim, Typed
  <2> QED
    BY <1>4, <2>1, ReleaseKeepsLocks DEF FindNothingToDo, EndWith
<1>5. ASSUME NEW a \in Attempts, Update(a) \/ Delete(a) \/ Create(a) PROVE LocksSound'
  <2>1. PICK p \in Projects, new \in Rows : Commits(a, p, new)
    BY <1>5, CommitEffect
  <2>2. /\ row' = [row EXCEPT ![p] = new] /\ UNCHANGED request
        /\ stored' = [stored EXCEPT ![a[1]] = [kind |-> "ok", version |-> Len(events[p]) + 1]]
        /\ tx' = [tx EXCEPT ![a] = "ended"]
    BY <2>1, CommitParts DEF Committed
  <2>3. HoldsClaim(a) /\ \A k \in Keys : k # a[1] => stored'[k] = stored[k]
    BY <1>0, <2>1, <2>2 DEF Commits, HoldsClaim, Typed
  <2>4. ASSUME NEW b \in Attempts, b # a, HoldsRow(b)
        PROVE  row'[request[b[1]].project].state = row[request[b[1]].project].state
    <3>1. request[b[1]].project \in Projects /\ request[b[1]].project # p
      BY <2>1, <2>4, CommitOnOwnRow
    <3> QED
      BY <1>0, <2>2, <3>1 DEF Typed
  <2> QED
    BY <2>2, <2>3, <2>4, ReleaseKeepsLocks
<1>6. ASSUME NEW a \in Attempts, Deadlock(a) PROVE LocksSound'
  BY <1>6, ReleaseKeepsLocks DEF Deadlock, EndWith
<1>7. ASSUME NEW a \in Attempts, Kill(a) PROVE LocksSound'
  BY <1>7, ReleaseKeepsLocks DEF Kill
<1>8. ASSUME NEW k \in Keys, Submit(k) PROVE LocksSound'
  <2>1. \A n \in 1..MaxAttempts : tx[<<k, n>>] = "none"
    BY <1>0, <1>8 DEF Submit, ClientSound
  <2>2. /\ UNCHANGED <<row, stored>>
        /\ \A j \in Keys : j # k => request'[j] = request[j]
        /\ tx' = [tx EXCEPT ![<<k, 1>>] = "claim"]
    BY <1>0, <1>8 DEF Submit, Send, Typed
  <2>3. \A b \in Attempts : b[1] = k => ~HoldsClaim(b)' /\ ~HoldsRow(b)' /\ tx'[b] # "lock"
    BY <1>0, <2>1, <2>2 DEF HoldsClaim, HoldsRow, Typed
  <2>4. ASSUME NEW b \in Attempts, b[1] # k
        PROVE  tx'[b] = tx[b] /\ (HoldsClaim(b)' <=> HoldsClaim(b)) /\ (HoldsRow(b)' <=> HoldsRow(b))
    BY <1>0, <2>2, <2>4 DEF HoldsClaim, HoldsRow, Typed
  <2> QED
    BY <1>0, <2>2, <2>3, <2>4 DEF LocksSound
<1>9. ASSUME NEW k \in Keys, Receive(k) \/ Disconnect(k) PROVE LocksSound'
  <2>1. ClientMoves(k) /\ UNCHANGED <<row, stored, request>>
    BY <1>9, ClientEffect
  <2>2. CASE UNCHANGED tx
    BY <1>0, <2>1, <2>2 DEF LocksSound, HoldsClaim, HoldsRow
  <2>3. ASSUME NEW n \in 1..MaxAttempts, Send(k, n) PROVE LocksSound'
    BY <2>1, <2>3, ReleaseKeepsLocks DEF Send
  <2> QED
    BY <2>1, <2>2, <2>3 DEF ClientMoves
<1>10. CASE UNCHANGED vars
  BY <1>0, <1>10 DEF vars, LocksSound, HoldsClaim, HoldsRow
<1> QED
  BY <1>1, <1>2, <1>3, <1>4, <1>5, <1>6, <1>7, <1>8, <1>9, <1>10 DEF Next, Server, Fault

-----------------------------------------------------------------------------
(* The ledger *)

\* No event carries the key of an action that has not succeeded.
LEMMA NoEventYet ==
  ASSUME IInv, NEW k \in Keys, stored[k].kind # "ok"
  PROVE  \A p \in Projects : \A i \in 1..Len(events[p]) : events[p][i].key # k
<1> SUFFICES ASSUME NEW p \in Projects, NEW i \in 1..Len(events[p]), events[p][i].key = k
             PROVE  FALSE
  OBVIOUS
<1>1. Seed.key # k
  BY WritesAssumption DEF Seed
<1>2. Fits(p, i, events[p][i])
  BY DEF IInv, LedgerSound, EventsFit
<1>3. stored[k] = [kind |-> "ok", version |-> i]
  BY <1>1, <1>2 DEF Fits
<1> QED
  BY <1>3

\* After a commit the events are the old ones and one more.
LEMMA EventsAfterCommit ==
  ASSUME IInv, NEW a \in Attempts, NEW p \in Projects, NEW new \in Rows, Commits(a, p, new),
         NEW q \in Projects, NEW i \in 1..Len(events'[q])
  PROVE  \/ /\ q = p /\ i = Len(events[p]) + 1
            /\ events'[q][i] = Event(a[1], Len(events[p]) + 1, request[a[1]])
         \/ i \in 1..Len(events[q]) /\ events'[q][i] = events[q][i]
<1> DEFINE m == Len(events[p])
<1>1. /\ m \in Nat /\ Len(events'[p]) = m + 1
      /\ \A j \in 1..m : events'[p][j] = events[p][j]
      /\ events'[p][m + 1] = Event(a[1], m + 1, request[a[1]])
      /\ q # p => events'[q] = events[q]
  BY CommitParts DEF Committed
<1>2. CASE q = p /\ i = m + 1
  BY <1>1, <1>2
<1>3. CASE q = p /\ i # m + 1
  BY <1>1, <1>3
<1>4. CASE q # p
  BY <1>1, <1>4
<1> QED
  BY <1>2, <1>3, <1>4

\* The ledger after a commit.
LEMMA LedgerCommit ==
  ASSUME IInv, NEW a \in Attempts, NEW p \in Projects, NEW new \in Rows, Commits(a, p, new)
  PROVE  LedgerSound'
<1>e. ASSUME NEW q \in Projects, NEW i \in 1..Len(events'[q])
      PROVE  \/ /\ q = p /\ i = Len(events[p]) + 1
                /\ events'[q][i] = Event(a[1], Len(events[p]) + 1, request[a[1]])
             \/ i \in 1..Len(events[q]) /\ events'[q][i] = events[q][i]
  BY EventsAfterCommit
<1> DEFINE k == a[1]  m == Len(events[p])  e == Event(k, m + 1, request[k])
<1> USE WritesAssumption, AttemptParts
<1>0. Typed /\ LedgerSound /\ k \in Keys /\ k # NoKey /\ request[k] # Nothing
  BY ClaimedIsRequested DEF IInv, Commits
<1>1. /\ m \in Nat /\ row' = [row EXCEPT ![p] = new]
      /\ Len(events'[p]) = m + 1 /\ events'[p][m + 1] = e
      /\ \A i \in 1..m : events'[p][i] = events[p][i]
      /\ \A q \in Projects : q # p => events'[q] = events[q]
      /\ stored[k] = Nothing /\ UNCHANGED request
      /\ stored' = [stored EXCEPT ![k] = [kind |-> "ok", version |-> m + 1]]
  <2>1. Committed(a, p, new)
    BY CommitParts
  <2> QED
    BY <2>1 DEF Committed
<1>2. \A q \in Projects : \A i \in 1..Len(events[q]) : events[q][i].key # k
  <2>1. stored[k].kind # "ok" /\ k \in Keys
    BY <1>0, <1>1 DEF Nothing
  <2> QED
    BY <2>1, NoEventYet
<1>3. /\ new.version = m + 1 /\ m + 1 = request[k].base + 1 /\ new.state # "absent"
      /\ request[k].op # "create" => p = request[k].project
  BY DEF Commits
<1>4. /\ stored'[k] = [kind |-> "ok", version |-> m + 1]
      /\ \A j \in Keys : j # k => stored'[j] = stored[j]
      /\ row'[p] = new /\ \A q \in Projects : q # p => row'[q] = row[q]
  BY <1>0, <1>1 DEF Typed
<1>5. e.key = k /\ e.op = request[k].op /\ e = Event(k, m + 1, request[k])
  BY DEF Event
<1>6. ASSUME NEW q \in Projects, NEW i \in 1..Len(events'[q])
      PROVE  \/ q = p /\ i = m + 1 /\ events'[q][i] = e
             \/ i \in 1..Len(events[q]) /\ events'[q][i] = events[q][i]
  <2>1. \/ /\ q = p /\ i = Len(events[p]) + 1
           /\ events'[q][i] = Event(a[1], Len(events[p]) + 1, request[a[1]])
        \/ i \in 1..Len(events[q]) /\ events'[q][i] = events[q][i]
    BY <1>e
  <2>2. e = Event(a[1], Len(events[p]) + 1, request[a[1]]) /\ m = Len(events[p])
    OBVIOUS
  <2> HIDE DEF e, m
  <2> QED
    BY <2>1, <2>2
<1> HIDE DEF e, m, k
<1>7. Numbered'
  <2>1. \A q \in Projects : q # p => row'[q] = row[q] /\ events'[q] = events[q]
    BY <1>1, <1>4
  <2> QED
    BY <1>0, <1>1, <1>3, <1>4, <2>1 DEF LedgerSound, Numbered
<1>8. EventsFit'
  <2> SUFFICES ASSUME NEW q \in Projects, NEW i \in 1..Len(events'[q])
               PROVE  Fits(q, i, events[q][i])'
    BY DEF EventsFit
  <2>1. CASE q = p /\ i = m + 1 /\ events'[q][i] = e
    <3>1. /\ e.key \in Keys /\ request'[e.key] # Nothing
          /\ e = Event(e.key, i, request'[e.key]) /\ i = request'[e.key].base + 1
          /\ e.op # "create" => q = request'[e.key].project
          /\ stored'[e.key] = [kind |-> "ok", version |-> i]
      <4>1. e.key = k /\ k \in Keys /\ request' = request /\ request[k] # Nothing
        BY <1>0, <1>1, <1>5
      <4>2. e = Event(e.key, i, request'[e.key]) /\ i = request'[e.key].base + 1
        BY <1>3, <1>5, <2>1, <4>1
      <4>3. e.op # "create" => q = request'[e.key].project
        BY <1>3, <1>5, <2>1, <4>1
      <4>4. stored'[e.key] = [kind |-> "ok", version |-> i]
        BY <1>4, <2>1, <4>1
      <4> QED
        BY <4>1, <4>2, <4>3, <4>4
    <3> QED
      BY <2>1, <3>1 DEF Fits
  <2>2. CASE i \in 1..Len(events[q]) /\ events'[q][i] = events[q][i]
    <3>1. Fits(q, i, events[q][i]) /\ events[q][i].key # k
      BY <1>0, <1>2, <2>2 DEF LedgerSound, EventsFit
    <3>2. /\ UNCHANGED request
          /\ \A j \in Keys : j # k => stored'[j] = stored[j]
      BY <1>1, <1>4
    <3>3. Fits(q, i, events[q][i])'
      <4> DEFINE d == events[q][i]
      <4>1. Fits(q, i, d) /\ d.key # k /\ events'[q][i] = d
        BY <2>2, <3>1
      <4> HIDE DEF d
      <4> QED
        BY <3>2, <4>1 DEF Fits
    <3> QED
      BY <3>3
  <2> QED
    BY <1>6, <2>1, <2>2
<1>9. OneBirth'
  <2>1. ASSUME NEW q \in Projects, Len(events'[q]) # 0
        PROVE  \/ q = p /\ events'[q][1].key = k
               \/ Len(events[q]) # 0 /\ events'[q][1] = events[q][1] /\ events[q][1].key # k
    <3>0. Len(events[q]) \in Nat /\ Len(events'[q]) \in Nat
      BY <1>0, <1>1, LenProperties DEF Typed
    <3>1. 1 \in 1..Len(events'[q])
      BY <2>1, <3>0
    <3> QED
      BY <1>2, <1>5, <1>6, <3>0, <3>1
  <2>2. OneBirth
    BY <1>0 DEF LedgerSound
  <2> QED
    BY <2>1, <2>2 DEF OneBirth
<1>10. StoredFits'
  <2> SUFFICES ASSUME NEW j \in Keys
               PROVE  /\ stored'[j].kind \in {"nothing", "noop", "ok"}
                      /\ stored'[j].kind = "ok" =>
                           \E q \in Projects : \E i \in 1..Len(events'[q]) : events'[q][i].key = j
    BY DEF StoredFits
  <2>1. CASE j = k
    <3>1. m + 1 \in 1..Len(events'[p]) /\ events'[p][m + 1].key = k
      BY <1>1, <1>5
    <3> QED
      BY <1>4, <2>1, <3>1
  <2>2. CASE j # k /\ stored[j].kind = "ok"
    <3>1. PICK q \in Projects : \E i \in 1..Len(events[q]) : events[q][i].key = j
      BY <1>0, <2>2 DEF LedgerSound, StoredFits
    <3>2. PICK i \in 1..Len(events[q]) : events[q][i].key = j
      BY <3>1
    <3>3. i \in 1..Len(events'[q]) /\ events'[q][i] = events[q][i]
      <4>1. CASE q = p
        <5>1. i \in 1..m
          BY <3>2, <4>1 DEF m
        <5>2. m \in Nat /\ Len(events'[p]) = m + 1 /\ \A l \in 1..m : events'[p][l] = events[p][l]
          BY <1>1
        <5> QED
          BY <4>1, <5>1, <5>2
      <4>2. CASE q # p
        BY <1>1, <3>2, <4>2
      <4> QED
        BY <4>1, <4>2
    <3>4. \E o \in Projects : \E l \in 1..Len(events'[o]) : events'[o][l].key = j
      BY <3>2, <3>3
    <3> QED
      BY <1>4, <2>2, <3>4
  <2>3. CASE j # k /\ stored[j].kind # "ok"
    BY <1>0, <1>4, <2>3 DEF LedgerSound, StoredFits
  <2> QED
    BY <2>1, <2>2, <2>3
<1>11. BasesExist'
  <2> SUFFICES ASSUME NEW j \in Keys, request[j] # Nothing, request[j].op # "create"
               PROVE  request[j].base <= row'[request[j].project].version
    BY <1>1 DEF BasesExist
  <2>1. request[j] \in Requests
    BY <1>0 DEF Typed
  <2>2. request[j].project \in Projects /\ request[j].base \in Nat
    BY <2>1 DEF Requests
  <2>3. request[j].base <= row[request[j].project].version
    BY <1>0 DEF LedgerSound, BasesExist
  <2>4. row[p].version = m
    BY <1>0 DEF LedgerSound, Numbered, m
  <2> QED
    BY <1>1, <1>3, <1>4, <2>2, <2>3, <2>4
<1> QED
  BY <1>7, <1>8, <1>9, <1>10, <1>11 DEF LedgerSound

\* No step breaks the ledger of answers.
LEMMA LedgerStep == IInv /\ [Next]_vars => LedgerSound'
<1> SUFFICES ASSUME IInv, [Next]_vars PROVE LedgerSound'
  OBVIOUS
<1> USE WritesAssumption, AttemptParts
<1>0. Typed /\ LedgerSound /\ ClientSound
  BY DEF IInv
<1>1. ASSUME UNCHANGED <<row, events, stored, request>> PROVE LedgerSound'
  <2>1. Numbered' /\ OneBirth'
    BY <1>0, <1>1 DEF LedgerSound, Numbered, OneBirth
  <2>2. ASSUME NEW p \in Projects, NEW i \in 1..Len(events[p])
        PROVE  Fits(p, i, events[p][i])'
    <3>1. Fits(p, i, events[p][i])
      BY <1>0 DEF LedgerSound, EventsFit
    <3> QED
      BY <1>1, <3>1 DEF Fits
  <2>3. EventsFit'
    BY <1>1, <2>2 DEF EventsFit
  <2>4. StoredFits'
    BY <1>0, <1>1 DEF LedgerSound, StoredFits
  <2>5. BasesExist'
    BY <1>0, <1>1 DEF LedgerSound, BasesExist
  <2> QED
    BY <2>1, <2>3, <2>4, <2>5 DEF LedgerSound
<1>2. ASSUME NEW a \in Attempts, FindNothingToDo(a) PROVE LedgerSound'
  <2>1. /\ UNCHANGED <<row, events, request>> /\ stored'[a[1]].kind = "noop"
        /\ \A k \in Keys : k # a[1] => stored'[k] = stored[k]
        /\ stored[a[1]].kind # "ok" /\ a[1] \in Keys
    <3> DEFINE t == [kind |-> "noop", version |-> row[request[a[1]].project].version]
    <3>1. stored' = [stored EXCEPT ![a[1]] = t] /\ tx[a] = "write" /\ UNCHANGED <<row, events, request>>
      BY <1>2 DEF FindNothingToDo
    <3>2. t.kind = "noop"
      OBVIOUS
    <3> HIDE DEF t
    <3>3. a[1] \in Keys /\ stored \in [Keys -> Answers]
      BY <1>0 DEF Typed
    <3>4. stored[a[1]] = Nothing
      BY <3>1 DEF IInv, LocksSound, HoldsClaim
    <3>5. stored[a[1]].kind # "ok"
      BY <3>4 DEF Nothing
    <3> QED
      BY <3>1, <3>2, <3>3, <3>5
  <2>2. \A p \in Projects : \A i \in 1..Len(events[p]) : events[p][i].key # a[1]
    BY <2>1, NoEventYet
  <2>3. Numbered' /\ OneBirth' /\ BasesExist'
    BY <1>0, <2>1 DEF LedgerSound, Numbered, OneBirth, BasesExist
  <2>4. ASSUME NEW p \in Projects, NEW i \in 1..Len(events[p])
        PROVE  Fits(p, i, events[p][i])'
    <3>1. Fits(p, i, events[p][i]) /\ events[p][i].key # a[1]
      BY <1>0, <2>2 DEF LedgerSound, EventsFit
    <3> QED
      BY <2>1, <3>1 DEF Fits
  <2>5. EventsFit'
    BY <2>1, <2>4 DEF EventsFit
  <2>6. StoredFits'
    BY <1>0, <2>1 DEF LedgerSound, StoredFits
  <2> QED
    BY <2>3, <2>5, <2>6 DEF LedgerSound
<1>3. ASSUME NEW a \in Attempts, Update(a) \/ Delete(a) \/ Create(a) PROVE LedgerSound'
  BY <1>3, CommitEffect, LedgerCommit
<1>4. ASSUME NEW k \in Keys, Submit(k) PROVE LedgerSound'
  <2>1. PICK r \in Asks(k) : request' = [request EXCEPT ![k] = r]
    BY <1>4 DEF Submit
  <2>2. /\ UNCHANGED <<row, events, stored>> /\ request[k] = Nothing
        /\ \A j \in Keys : j # k => request'[j] = request[j]
        /\ request'[k] = r
    BY <1>0, <1>4, <2>1 DEF Submit, Typed, ClientSound
  <2>3. Numbered' /\ OneBirth' /\ StoredFits'
    BY <1>0, <2>2 DEF LedgerSound, Numbered, OneBirth, StoredFits
  <2>4. r.op # "create" => r.base <= row[r.project].version
    BY <1>0, AsksAreRequests
  <2>5. BasesExist'
    BY <1>0, <2>2, <2>4 DEF LedgerSound, BasesExist
  <2>6. ASSUME NEW p \in Projects, NEW i \in 1..Len(events[p]), Fits(p, i, events[p][i])
        PROVE  Fits(p, i, events[p][i])'
    BY <2>2, <2>6 DEF Fits
  <2>7. EventsFit'
    BY <1>0, <2>2, <2>6 DEF LedgerSound, EventsFit
  <2> QED
    BY <2>3, <2>5, <2>7 DEF LedgerSound
<1>5. ASSUME NEW k \in Keys, Receive(k) \/ Disconnect(k) PROVE LedgerSound'
  BY <1>1, <1>5, ClientEffect
<1>6. CASE UNCHANGED vars
  BY <1>1, <1>6 DEF vars
<1>7. ASSUME NEW a \in Attempts, Claim(a) \/ Lock(a) \/ RefuseStale(a) \/ Deadlock(a) \/ Kill(a)
      PROVE  LedgerSound'
  BY <1>1, <1>7 DEF Claim, Lock, RefuseStale, Deadlock, Kill
<1> QED
  BY <1>2, <1>3, <1>4, <1>5, <1>6, <1>7 DEF Next, Server, Fault

-----------------------------------------------------------------------------
(* The replay *)

\* Rows and events change by commits alone.
LEMMA CommitsAlone ==
  ASSUME IInv, [Next]_vars
  PROVE  \/ UNCHANGED <<row, events>>
         \/ \E a \in Attempts, p \in Projects, new \in Rows : Commits(a, p, new)
<1>1. ASSUME NEW a \in Attempts, Update(a) \/ Delete(a) \/ Create(a)
      PROVE  \E p \in Projects, new \in Rows : Commits(a, p, new)
  BY <1>1, CommitEffect
<1>2. ASSUME NEW a \in Attempts,
             Claim(a) \/ Lock(a) \/ RefuseStale(a) \/ FindNothingToDo(a) \/ Deadlock(a) \/ Kill(a)
      PROVE  UNCHANGED <<row, events>>
  BY <1>2 DEF Claim, Lock, RefuseStale, FindNothingToDo, Deadlock, Kill
<1>3. ASSUME NEW k \in Keys, Submit(k) \/ Receive(k) \/ Disconnect(k)
      PROVE  UNCHANGED <<row, events>>
  BY <1>3 DEF Submit, Receive, Disconnect
<1>4. CASE UNCHANGED vars
  BY <1>4 DEF vars
<1> QED
  BY <1>1, <1>2, <1>3, <1>4 DEF Next, Server, Fault

\* No step makes the row differ from the replay of its events.
LEMMA ReplayedStep == IInv /\ [Next]_vars => Replayed'
<1> SUFFICES ASSUME IInv, [Next]_vars PROVE Replayed'
  OBVIOUS
<1>0. Typed /\ Replayed
  BY DEF IInv
<1>1. CASE UNCHANGED <<row, events>>
  BY <1>0, <1>1 DEF Replayed, LastOn
<1>2. ASSUME NEW a \in Attempts, NEW p \in Projects, NEW new \in Rows, Commits(a, p, new)
      PROVE  Replayed'
  <2> DEFINE r == request[a[1]]  m == Len(events[p])  e == Event(a[1], m + 1, r)
  <2>1. /\ m \in Nat /\ row' = [row EXCEPT ![p] = new]
        /\ Len(events'[p]) = m + 1 /\ events'[p][m + 1] = e
        /\ \A i \in 1..m : events'[p][i] = events[p][i]
        /\ \A q \in Projects : q # p => events'[q] = events[q]
    <3>1. Committed(a, p, new)
      BY <1>2, CommitParts
    <3> QED
      BY <3>1 DEF Committed
  <2>2. row'[p] = new /\ \A q \in Projects : q # p => row'[q] = row[q]
    BY <1>0, <2>1 DEF Typed
  <2>3. e.op = r.op /\ e.field = r.field /\ e.to = r.to
    BY DEF Event
  <2>4. /\ new.state = "deleted" <=> r.op = "delete"
        /\ row[p].state # "deleted"
        /\ r \in Requests
    BY <1>2 DEF Commits
  <2>5. ASSUME NEW f \in Fields
        PROVE  /\ f = r.field => new.val[f] = r.to
               /\ f # r.field => new.val[f] = row[p].val[f]
    <3>1. CASE r.op = "delete"
      BY <1>2, <2>4, <3>1, WritesAssumption DEF Commits, Requests
    <3>2. CASE r.op # "delete"
      <4>1. new.val = [row[p].val EXCEPT ![r.field] = r.to]
        BY <1>2, <3>2 DEF Commits
      <4>2. row[p].val \in [Fields -> Values]
        BY <1>0 DEF Typed, Rows
      <4> QED
        BY <4>1, <4>2
    <3> QED
      BY <3>1, <3>2
  <2> HIDE DEF r, m, e
  <2>6. ASSUME NEW f \in Fields
        PROVE  \/ /\ \A i \in 1..(m + 1) : events'[p][i].field # f
                  /\ new.val[f] = Default
               \/ \E i \in 1..(m + 1) :
                    /\ events'[p][i].field = f /\ new.val[f] = events'[p][i].to
                    /\ \A j \in 1..(m + 1) : i < j => events'[p][j].field # f
    <3>0. /\ \/ /\ \A i \in 1..m : events[p][i].field # f
                /\ row[p].val[f] = Default
             \/ \E i \in 1..m : LastOn(p, f, i) /\ row[p].val[f] = events[p][i].to
      BY <1>0 DEF Replayed, m
    <3>1. CASE f = r.field
      <4>1. /\ m + 1 \in 1..(m + 1) /\ events'[p][m + 1].field = f
            /\ new.val[f] = events'[p][m + 1].to
            /\ \A j \in 1..(m + 1) : ~(m + 1 < j)
        BY <2>1, <2>3, <2>5, <3>1
      <4> QED
        BY <4>1
    <3>2. CASE f # r.field /\ (\A i \in 1..m : events[p][i].field # f) /\ row[p].val[f] = Default
      <4>1. new.val[f] = Default
        BY <2>5, <3>2
      <4>2. \A i \in 1..(m + 1) : events'[p][i].field # f
        BY <2>1, <2>3, <3>2
      <4> QED
        BY <4>1, <4>2
    <3>3. ASSUME f # r.field,
                 NEW i \in 1..m, LastOn(p, f, i), row[p].val[f] = events[p][i].to
          PROVE  \E l \in 1..(m + 1) :
                    /\ events'[p][l].field = f /\ new.val[f] = events'[p][l].to
                    /\ \A j \in 1..(m + 1) : l < j => events'[p][j].field # f
      <4>1. events[p][i].field = f /\ \A j \in 1..m : i < j => events[p][j].field # f
        BY <3>3 DEF LastOn, m
      <4>2. /\ i \in 1..(m + 1) /\ events'[p][i].field = f
            /\ new.val[f] = events'[p][i].to
        BY <2>1, <2>5, <3>3, <4>1
      <4>3. \A j \in 1..(m + 1) : i < j => events'[p][j].field # f
        BY <2>1, <2>3, <3>3, <4>1
      <4> QED
        BY <4>2, <4>3
    <3> QED
      BY <3>0, <3>1, <3>2, <3>3
  <2>7. new.state = "deleted" <=> \E i \in 1..Len(events'[p]) : events'[p][i].op = "delete"
    <3>1. \A i \in 1..m : events[p][i].op # "delete"
      BY <1>0, <2>4 DEF Replayed, m
    <3>2. \A i \in 1..Len(events'[p]) : events'[p][i].op = "delete" <=> i = m + 1 /\ r.op = "delete"
      BY <2>1, <2>3, <3>1
    <3>3. m + 1 \in 1..Len(events'[p])
      BY <2>1
    <3> QED
      BY <2>4, <3>2, <3>3
  <2>8. ASSUME NEW q \in Projects, q # p
        PROVE  row'[q] = row[q] /\ events'[q] = events[q]
    BY <2>1, <2>2, <2>8
  <2> SUFFICES ASSUME NEW q \in Projects
               PROVE  /\ \A f \in Fields :
                           \/ /\ \A i \in 1..Len(events'[q]) : events'[q][i].field # f
                              /\ row'[q].val[f] = Default
                           \/ \E i \in 1..Len(events'[q]) :
                                /\ events'[q][i].field = f
                                /\ \A j \in 1..Len(events'[q]) : i < j => events'[q][j].field # f
                                /\ row'[q].val[f] = events'[q][i].to
                      /\ row'[q].state = "deleted" <=>
                           \E i \in 1..Len(events'[q]) : events'[q][i].op = "delete"
    BY DEF Replayed, LastOn
  <2>9. CASE q = p
    <3>1. Len(events'[p]) = m + 1 /\ row'[p] = new
      BY <2>1, <2>2
    <3>2. row'[p].state = "deleted" <=> \E i \in 1..Len(events'[p]) : events'[p][i].op = "delete"
      BY <2>7, <3>1
    <3>3. ASSUME NEW f \in Fields
          PROVE  \/ /\ \A i \in 1..Len(events'[p]) : events'[p][i].field # f
                    /\ row'[p].val[f] = Default
                 \/ \E i \in 1..Len(events'[p]) :
                      /\ events'[p][i].field = f
                      /\ \A j \in 1..Len(events'[p]) : i < j => events'[p][j].field # f
                      /\ row'[p].val[f] = events'[p][i].to
      <4>1. CASE (\A i \in 1..(m + 1) : events'[p][i].field # f) /\ new.val[f] = Default
        BY <3>1, <4>1
      <4>2. ASSUME NEW i \in 1..(m + 1), events'[p][i].field = f, new.val[f] = events'[p][i].to,
                   \A j \in 1..(m + 1) : i < j => events'[p][j].field # f
            PROVE  \E l \in 1..Len(events'[p]) :
                      /\ events'[p][l].field = f
                      /\ \A j \in 1..Len(events'[p]) : l < j => events'[p][j].field # f
                      /\ row'[p].val[f] = events'[p][l].to
        <5>1. i \in 1..Len(events'[p]) /\ row'[p].val[f] = events'[p][i].to
          BY <3>1, <4>2
        <5>2. \A j \in 1..Len(events'[p]) : i < j => events'[p][j].field # f
          BY <3>1, <4>2
        <5> QED
          BY <4>2, <5>1, <5>2
      <4> QED
        BY <2>6, <4>1, <4>2
    <3> QED
      BY <2>9, <3>2, <3>3
  <2>10. CASE q # p
    <3>1. row'[q] = row[q] /\ events'[q] = events[q]
      BY <2>8, <2>10
    <3>2. /\ \A f \in Fields :
               \/ /\ \A i \in 1..Len(events[q]) : events[q][i].field # f
                  /\ row[q].val[f] = Default
               \/ \E i \in 1..Len(events[q]) :
                    /\ events[q][i].field = f
                    /\ \A j \in 1..Len(events[q]) : i < j => events[q][j].field # f
                    /\ row[q].val[f] = events[q][i].to
          /\ row[q].state = "deleted" <=> \E i \in 1..Len(events[q]) : events[q][i].op = "delete"
      BY <1>0 DEF Replayed, LastOn
    <3> QED
      BY <3>1, <3>2
  <2> QED
    BY <2>9, <2>10
<1> QED
  BY <1>1, <1>2, CommitsAlone

-----------------------------------------------------------------------------
(* Answers *)

\* Nothing that was true of the past becomes false: requests and stored answers stay, projects
\* only gain versions, and a deleted one stays deleted.
LEMMA Monotone ==
  ASSUME IInv, [Next]_vars
  PROVE  /\ \A k \in Keys : request[k] # Nothing => request'[k] = request[k]
         /\ \A k \in Keys : stored[k] # Nothing => stored'[k] = stored[k]
         /\ \A p \in Projects :
              /\ row[p].version <= row'[p].version
              /\ Len(events[p]) <= Len(events'[p])
              /\ \A i \in 1..Len(events[p]) : events'[p][i] = events[p][i]
              /\ row[p].state = "deleted" => row'[p].state = "deleted"
<1> USE AttemptParts
<1>0. Typed /\ ClientSound /\ LocksSound /\ LedgerSound
  BY DEF IInv
<1>1. ASSUME NEW k \in Keys, request[k] # Nothing PROVE request'[k] = request[k]
  <2>1. ASSUME NEW j \in Keys, Submit(j) PROVE request'[k] = request[k]
    BY <1>0, <1>1, <2>1 DEF Submit, ClientSound, Typed
  <2>2. ASSUME NEW a \in Attempts, Server(a) \/ Deadlock(a) \/ Kill(a) PROVE UNCHANGED request
    BY <2>2, AttemptEffect DEF AttemptMoves
  <2>3. ASSUME NEW j \in Keys, Receive(j) \/ Disconnect(j) PROVE UNCHANGED request
    BY <2>3 DEF Receive, Disconnect
  <2>4. CASE UNCHANGED vars
    BY <2>4 DEF vars
  <2> QED
    BY <2>1, <2>2, <2>3, <2>4 DEF Next, Fault
<1>2. ASSUME NEW k \in Keys, stored[k] # Nothing PROVE stored'[k] = stored[k]
  <2>1. ASSUME NEW a \in Attempts, Update(a) \/ Delete(a) \/ Create(a) PROVE stored'[k] = stored[k]
    <3>1. PICK p \in Projects, new \in Rows : Commits(a, p, new)
      BY <2>1, CommitEffect
    <3>2. /\ stored[a[1]] = Nothing
          /\ stored' = [stored EXCEPT ![a[1]] = [kind |-> "ok", version |-> Len(events[p]) + 1]]
      BY <3>1, CommitParts DEF Committed
    <3> QED
      BY <1>0, <1>2, <3>2 DEF Typed
  <2>2. ASSUME NEW a \in Attempts, FindNothingToDo(a) PROVE stored'[k] = stored[k]
    <3>1. stored[a[1]] = Nothing
      BY <1>0, <2>2 DEF FindNothingToDo, LocksSound, HoldsClaim
    <3> QED
      BY <1>0, <1>2, <2>2, <3>1 DEF FindNothingToDo, Typed
  <2>3. ASSUME NEW a \in Attempts, Claim(a) \/ Lock(a) \/ RefuseStale(a) \/ Deadlock(a) \/ Kill(a)
        PROVE  UNCHANGED stored
    BY <2>3 DEF Claim, Lock, RefuseStale, Deadlock, Kill
  <2>4. ASSUME NEW j \in Keys, Submit(j) \/ Receive(j) \/ Disconnect(j) PROVE UNCHANGED stored
    BY <2>4 DEF Submit, Receive, Disconnect
  <2>5. CASE UNCHANGED vars
    BY <2>5 DEF vars
  <2> QED
    BY <2>1, <2>2, <2>3, <2>4, <2>5 DEF Next, Server, Fault
<1>3. ASSUME NEW p \in Projects
      PROVE  /\ row[p].version <= row'[p].version
             /\ Len(events[p]) <= Len(events'[p])
             /\ \A i \in 1..Len(events[p]) : events'[p][i] = events[p][i]
             /\ row[p].state = "deleted" => row'[p].state = "deleted"
  <2>0. Len(events[p]) \in Nat /\ row[p].version = Len(events[p])
    BY <1>0, LenProperties DEF Typed, LedgerSound, Numbered
  <2>1. CASE row'[p] = row[p] /\ events'[p] = events[p]
    BY <2>0, <2>1
  <2>2. ASSUME NEW a \in Attempts, NEW new \in Rows, Commits(a, p, new)
        PROVE  /\ row[p].version <= row'[p].version
               /\ Len(events[p]) <= Len(events'[p])
               /\ \A i \in 1..Len(events[p]) : events'[p][i] = events[p][i]
               /\ row[p].state = "deleted" => row'[p].state = "deleted"
    <3>0. Committed(a, p, new)
      BY <2>2, CommitParts
    <3>1. /\ row' = [row EXCEPT ![p] = new] /\ Len(events'[p]) = Len(events[p]) + 1
          /\ \A i \in 1..Len(events[p]) : events'[p][i] = events[p][i]
      BY <3>0 DEF Committed
    <3>2. new.version = Len(events[p]) + 1 /\ row[p].state # "deleted"
      BY <2>2 DEF Commits
    <3> QED
      BY <1>0, <2>0, <3>1, <3>2 DEF Typed
  <2>3. ASSUME NEW a \in Attempts, NEW q \in Projects, NEW new \in Rows, Commits(a, q, new), q # p
        PROVE  row'[p] = row[p] /\ events'[p] = events[p]
    <3>0. Committed(a, q, new)
      BY <2>3, CommitParts
    <3>1. row' = [row EXCEPT ![q] = new] /\ events'[p] = events[p]
      BY <2>3, <3>0 DEF Committed
    <3> QED
      BY <1>0, <2>3, <3>1 DEF Typed
  <2> QED
    BY <2>1, <2>2, <2>3, CommitsAlone
<1> QED
  BY <1>1, <1>2, <1>3

\* An answer is stored only on top of the version its action named, by whoever may do it.
LEMMA StoresAtBase ==
  ASSUME IInv, [Next]_vars, NEW k \in Keys, stored'[k] # stored[k], request[k].op # "create"
  PROVE  /\ row[request[k].project].version = request[k].base
         /\ row[request[k].project].state = "live"
         /\ request[k].op = "delete" => k \in Admins
<1> USE AttemptParts
<1>0. Typed /\ LocksSound /\ LedgerSound
  BY DEF IInv
<1>1. ASSUME NEW a \in Attempts, Update(a) \/ Delete(a) \/ Create(a)
      PROVE  /\ row[request[k].project].version = request[k].base
             /\ row[request[k].project].state = "live"
             /\ request[k].op = "delete" => k \in Admins
  <2>1. PICK p \in Projects, new \in Rows : Commits(a, p, new)
    BY <1>1, CommitEffect
  <2>2. Committed(a, p, new)
    BY <2>1, CommitParts
  <2>3. a[1] = k
    BY <1>0, <2>2 DEF Committed, Typed
  <2>4. /\ p = request[k].project /\ row[p].state = "live"
        /\ Len(events[p]) + 1 = request[k].base + 1
        /\ request[k].op = "delete" => k \in Admins
    BY <2>1, <2>3 DEF Commits
  <2>5. request[k] \in Requests
    BY <2>1, <2>3 DEF Commits
  <2>6. request[k].base \in Nat /\ row[p].version = Len(events[p]) /\ Len(events[p]) \in Nat
    BY <1>0, <2>2, <2>5 DEF Requests, LedgerSound, Numbered, Committed
  <2> QED
    BY <2>4, <2>6
<1>2. ASSUME NEW a \in Attempts, FindNothingToDo(a)
      PROVE  /\ row[request[k].project].version = request[k].base
             /\ row[request[k].project].state = "live"
             /\ request[k].op = "delete" => k \in Admins
  <2>1. a[1] = k /\ HoldsRow(a)
    BY <1>0, <1>2 DEF FindNothingToDo, Typed, HoldsRow
  <2> QED
    BY <1>0, <1>2, <2>1 DEF FindNothingToDo, ExpectedVersion, LocksSound
<1>3. ASSUME NEW a \in Attempts, Claim(a) \/ Lock(a) \/ RefuseStale(a) \/ Deadlock(a) \/ Kill(a)
      PROVE  FALSE
  BY <1>3 DEF Claim, Lock, RefuseStale, Deadlock, Kill
<1>4. ASSUME NEW j \in Keys, Submit(j) \/ Receive(j) \/ Disconnect(j) PROVE FALSE
  BY <1>4 DEF Submit, Receive, Disconnect
<1>5. CASE UNCHANGED vars
  BY <1>5 DEF vars
<1> QED
  BY <1>1, <1>2, <1>3, <1>4, <1>5 DEF Next, Server, Fault

\* The project of an edit that was asked for.
LEMMA EditsNameProjects ==
  ASSUME IInv, NEW k \in Keys, request[k] # Nothing, request[k].op # "create"
  PROVE  LET r == request[k] IN
         /\ r.project \in Projects /\ r.base \in Nat \ {0}
         /\ r.base <= row[r.project].version
         /\ row[r.project].version = Len(events[r.project]) /\ Len(events[r.project]) \in Nat
         /\ row[r.project].state \in {"live", "deleted"}
<1>1. request[k] \in Requests /\ Typed /\ LedgerSound
  BY DEF IInv, Typed
<1>2. request[k].project \in Projects /\ request[k].base \in Nat \ {0}
  BY <1>1 DEF Requests
<1>3. /\ request[k].base <= row[request[k].project].version
      /\ row[request[k].project].version = Len(events[request[k].project])
      /\ row[request[k].project].state = "absent" <=> row[request[k].project].version = 0
  BY <1>1, <1>2 DEF LedgerSound, BasesExist, Numbered
<1>4. row[request[k].project] \in Rows /\ events[request[k].project] \in Seq(EventRecords)
  BY <1>1, <1>2 DEF Typed
<1>5. Len(events[request[k].project]) \in Nat
  BY <1>4, LenProperties
<1>6. row[request[k].project].state # "absent"
  BY <1>2, <1>3, <1>5
<1> QED
  BY <1>2, <1>3, <1>4, <1>5, <1>6 DEF Rows

\* A true answer stays true.
LEMMA AnswersStand ==
  ASSUME IInv, [Next]_vars, NEW k \in Keys, NEW t \in Answers, Stands(k, t)
  PROVE  Stands(k, t)'
<1> DEFINE r == request[k]
<1>1. CASE t.kind \in {"ok", "noop"}
  <2>1. stored[k] = t /\ t # Nothing
    BY <1>1 DEF Stands, Nothing
  <2> QED
    BY <1>1, <2>1, Monotone DEF Stands
<1>2. CASE t.kind = "conflict"
  <2>1. /\ stored[k] = Nothing /\ r # Nothing /\ r.op # "create"
        /\ r.base < t.version /\ t.version <= row[r.project].version
        /\ t.disjoint => \A i \in (r.base + 1)..t.version :
                           i <= r.base + ConflictWindow => events[r.project][i].field # r.field
    BY <1>2 DEF Stands
  <2>2. /\ r.project \in Projects /\ r.base \in Nat
        /\ row[r.project].version = Len(events[r.project]) /\ Len(events[r.project]) \in Nat
    BY <2>1, EditsNameProjects
  <2>3. t.version \in Nat
    BY <1>2 DEF Answers
  <2>4. stored'[k] = Nothing
    BY <2>1, <2>2, <2>3, StoresAtBase
  <2>5. /\ request'[k] = r /\ row[r.project].version <= row'[r.project].version
        /\ \A i \in 1..Len(events[r.project]) : events'[r.project][i] = events[r.project][i]
    BY <2>1, <2>2, Monotone
  <2>6. row'[r.project].version \in Nat
    BY <2>2, TypedStep DEF Typed, Rows
  <2> HIDE DEF r
  <2>7. t.version <= row'[r.project].version
    BY <2>1, <2>2, <2>3, <2>5, <2>6
  <2>8. \A i \in (r.base + 1)..t.version : events'[r.project][i] = events[r.project][i]
    BY <2>1, <2>2, <2>3, <2>5
  <2> QED
    BY <1>2, <2>1, <2>4, <2>5, <2>7, <2>8 DEF Stands
<1>3. CASE t.kind = "refused"
  <2>1. /\ stored[k] = Nothing /\ r # Nothing /\ r.op # "create"
        /\ row[r.project].state = "deleted" \/ (r.op = "delete" /\ k \notin Admins)
    BY <1>3 DEF Stands
  <2>2. r.project \in Projects
    BY <2>1, EditsNameProjects
  <2>3. stored'[k] = Nothing
    BY <2>1, StoresAtBase
  <2>4. request'[k] = r /\ (row[r.project].state = "deleted" => row'[r.project].state = "deleted")
    BY <2>1, <2>2, Monotone
  <2> QED
    BY <1>3, <2>1, <2>3, <2>4 DEF Stands
<1>4. CASE t.kind \notin {"ok", "noop", "conflict", "refused"}
  BY <1>4 DEF Stands
<1> QED
  BY <1>1, <1>2, <1>3, <1>4

\* A new answer is true when it is given.
LEMMA AnswersAreTrue ==
  ASSUME IInv, NEW a \in Attempts, NEW t \in Answers, Server(a) \/ Deadlock(a), EndWith(a, t)
  PROVE  Stands(a[1], t)'
<1> DEFINE k == a[1]  r == request[k]
<1> USE AttemptParts
<1>0. Typed /\ LocksSound /\ k \in Keys
  BY DEF IInv
<1>a. answer'[a] = t
  BY <1>0 DEF EndWith, Typed
<1>b. ASSUME tx[a] \in {"lock", "write"}, r.op # "create"
      PROVE  /\ stored[k] = Nothing /\ r # Nothing
             /\ r.project \in Projects /\ r.base \in Nat \ {0} /\ r.base <= row[r.project].version
             /\ row[r.project].version = Len(events[r.project]) /\ Len(events[r.project]) \in Nat
             /\ row[r.project].state \in {"live", "deleted"}
  BY <1>0, <1>b, ClaimedIsRequested, EditsNameProjects DEF LocksSound, HoldsClaim
<1>1. CASE Claim(a)
  <2>1. UNCHANGED stored /\ t = stored[k]
    <3>1. tx'[a] = "ended"
      BY <1>0 DEF EndWith, Typed
    <3>2. ASSUME tx' = [tx EXCEPT ![a] = IF r.op = "create" THEN "write" ELSE "lock"] PROVE FALSE
      BY <1>0, <3>1, <3>2 DEF Typed
    <3>3. EndWith(a, stored[k]) /\ UNCHANGED stored
      BY <1>1, <3>2 DEF Claim
    <3> QED
      BY <1>0, <1>a, <3>3 DEF EndWith, Typed
  <2>2. stored[k].kind \in {"nothing", "noop", "ok"}
    BY <1>0 DEF IInv, LedgerSound, StoredFits
  <2> QED
    BY <2>1, <2>2 DEF Stands
<1>2. CASE Lock(a)
  <2>1. tx'[a] = "ended"
    BY <1>0 DEF EndWith, Typed
  <2>2. ASSUME tx' = [tx EXCEPT ![a] = "write"] PROVE FALSE
    BY <1>0, <2>1, <2>2 DEF Typed
  <2>3. /\ tx[a] = "lock" /\ UNCHANGED <<stored, request, row>>
        /\ row[r.project].state # "live" \/ (r.op = "delete" /\ k \notin Admins)
        /\ EndWith(a, Refused)
    BY <1>2, <2>2 DEF Lock
  <2>4. t = Refused
    BY <1>0, <1>a, <2>3 DEF EndWith, Typed
  <2>5. r.op # "create"
    BY <1>0, <2>3 DEF LocksSound
  <2>6. stored[k] = Nothing /\ r # Nothing /\ row[r.project].state \in {"live", "deleted"}
    BY <1>b, <2>3, <2>5
  <2> QED
    BY <2>3, <2>4, <2>5, <2>6 DEF Stands, Refused
<1>3. CASE RefuseStale(a)
  <2>1. /\ tx[a] = "write" /\ r.op # "create" /\ UNCHANGED <<row, events, stored, request>>
        /\ row[r.project].version # r.base
    BY <1>3 DEF RefuseStale, ExpectedVersion
  <2>2. t = [kind |-> "conflict", version |-> row[r.project].version,
             disjoint |-> r.field \notin ChangedSince(r)]
    BY <1>0, <1>3, <1>a DEF RefuseStale, EndWith, Typed
  <2>3. /\ stored[k] = Nothing /\ r # Nothing
        /\ r.base \in Nat \ {0} /\ r.base <= row[r.project].version
        /\ row[r.project].version = Len(events[r.project]) /\ Len(events[r.project]) \in Nat
    BY <1>b, <2>1
  <2>4. t.kind = "conflict" /\ t.version = row[r.project].version
    BY <2>2
  <2>5. ASSUME t.disjoint, NEW i \in (r.base + 1)..t.version, i <= r.base + ConflictWindow
        PROVE  events[r.project][i].field # r.field
    <3>1. r.field \notin ChangedSince(r)
      BY <2>2, <2>5
    <3>2. i \in {j \in 1..Len(events[r.project]) : r.base < j /\ j <= r.base + ConflictWindow}
      BY <2>3, <2>4, <2>5
    <3> QED
      BY <3>1, <3>2 DEF ChangedSince
  <2>6. \A i \in (r.base + 1)..t.version :
          t.disjoint /\ i <= r.base + ConflictWindow => events[r.project][i].field # r.field
    BY <2>5
  <2>7. r.base < t.version /\ t.version <= row[r.project].version
    BY <2>1, <2>3, <2>4
  <2> HIDE DEF r
  <2> QED
    BY <2>1, <2>3, <2>4, <2>6, <2>7 DEF Stands, r
<1>4. CASE FindNothingToDo(a)
  <2>1. stored'[k] = t /\ t.kind = "noop"
    BY <1>0, <1>4, <1>a DEF FindNothingToDo, EndWith, Typed
  <2> QED
    BY <2>1 DEF Stands
<1>5. CASE Update(a) \/ Delete(a) \/ Create(a)
  <2>1. PICK p \in Projects, new \in Rows : Commits(a, p, new)
    BY <1>5, CommitEffect
  <2>2. Committed(a, p, new)
    BY <2>1, CommitParts
  <2>3. stored'[k] = [kind |-> "ok", version |-> Len(events[p]) + 1] /\ t = stored'[k]
    BY <1>0, <1>a, <2>2 DEF Committed, Typed
  <2> QED
    BY <2>3 DEF Stands
<1>6. CASE Deadlock(a)
  <2>1. tx'[a] = "ended"
    BY <1>0 DEF EndWith, Typed
  <2>2. ASSUME tx' = [tx EXCEPT ![a] = "claim"] PROVE FALSE
    BY <1>0, <2>1, <2>2 DEF Typed
  <2>3. EndWith(a, Failed)
    BY <1>6, <2>2 DEF Deadlock
  <2>4. t = Failed
    BY <1>0, <1>a, <2>3 DEF EndWith, Typed
  <2> QED
    BY <2>4 DEF Stands, Failed
<1> QED
  BY <1>1, <1>2, <1>3, <1>4, <1>5, <1>6 DEF Server

\* No step makes an answer wrong.
LEMMA AnswersStep == IInv /\ [Next]_vars => AnswersSound'
<1> SUFFICES ASSUME IInv, [Next]_vars PROVE AnswersSound'
  OBVIOUS
<1> USE AttemptParts
<1>0. Typed /\ AnswersSound
  BY DEF IInv
<1>1. ASSUME NEW b \in Attempts PROVE Stands(b[1], answer[b])'
  <2>1. CASE answer'[b] = answer[b]
    <3>1. PICK t \in Answers : t = answer[b]
      BY <1>0 DEF Typed
    <3>2. Stands(b[1], t)'
      BY <1>0, <3>1, AnswersStand DEF AnswersSound
    <3>3. answer'[b] = t
      BY <2>1, <3>1
    <3> QED
      BY <3>2, <3>3 DEF Stands
  <2>2. CASE answer'[b] # answer[b]
    <3>1. PICK a \in Attempts : (Server(a) \/ Deadlock(a) \/ Kill(a)) /\ AttemptMoves(a) /\ a = b
      <4>1. PICK a \in Attempts : Server(a) \/ Deadlock(a) \/ Kill(a)
        BY <2>2 DEF Next, Fault, Submit, Receive, Disconnect, vars
      <4>2. AttemptMoves(a)
        BY <4>1, AttemptEffect
      <4>3. a = b
        BY <1>0, <2>2, <4>2 DEF AttemptMoves, EndWith, Typed
      <4> QED
        BY <4>1, <4>2, <4>3
    <3>2. PICK t \in Answers : EndWith(b, t)
      BY <2>2, <3>1 DEF AttemptMoves
    <3>3. Server(b) \/ Deadlock(b)
      BY <2>2, <3>1 DEF Kill
    <3>4. Stands(b[1], t)'
      BY <3>2, <3>3, AnswersAreTrue
    <3>5. answer'[b] = t
      BY <1>0, <3>2 DEF EndWith, Typed
    <3> QED
      BY <3>4, <3>5 DEF Stands
  <2> QED
    BY <2>1, <2>2
<1>2. ASSUME NEW k \in Keys PROVE Stands(k, client[k].result)'
  <2>0. client[k].result \in Answers
    BY <1>0 DEF Typed
  <2>1. \/ client'[k].result = client[k].result \/ client'[k].result \in {Nothing, Failed}
        \/ \E a \in Attempts : a[1] = k /\ client'[k].result = answer[a]
    <3>1. ASSUME NEW j \in Keys, NEW n, Send(j, n)
          PROVE  client'[k].result = client[k].result \/ client'[k].result = Nothing
      BY <1>0, <3>1 DEF Send, Typed
    <3>2. ASSUME NEW j \in Keys, NEW t, Tell(j, t)
          PROVE  client'[k].result = client[k].result \/ (j = k /\ client'[k].result = t)
      BY <1>0, <3>2 DEF Tell, Typed
    <3>3. ASSUME NEW j \in Keys, Receive(j) \/ Disconnect(j)
          PROVE  \/ client'[k].result = client[k].result \/ client'[k].result \in {Nothing, Failed}
                 \/ \E a \in Attempts : a[1] = k /\ client'[k].result = answer[a]
      <4>1. ClientMoves(j)
        BY <3>3, ClientEffect
      <4> QED
        BY <3>1, <3>2, <4>1 DEF ClientMoves
    <3>4. ASSUME NEW a \in Attempts, Server(a) \/ Deadlock(a) \/ Kill(a) PROVE UNCHANGED client
      BY <3>4, AttemptEffect DEF AttemptMoves
    <3>5. ASSUME NEW j \in Keys, Submit(j) PROVE Send(j, 1)
      BY <3>5 DEF Submit
    <3>6. CASE UNCHANGED vars
      BY <3>6 DEF vars
    <3> QED
      BY <3>1, <3>3, <3>4, <3>5, <3>6 DEF Next, Fault
  <2>2. PICK t \in Answers : t = client'[k].result
    BY TypedStep DEF Typed
  <2>3. Stands(k, t)
    <3>1. t \in {Nothing, Failed} => Stands(k, t)
      BY DEF Stands, Nothing, Failed
    <3> QED
      BY <1>0, <2>1, <2>2, <3>1 DEF AnswersSound
  <2>4. Stands(k, t)'
    BY <2>3, AnswersStand
  <2> QED
    BY <2>2, <2>4 DEF Stands
<1> QED
  BY <1>1, <1>2 DEF AnswersSound

\* The strengthened invariant holds in every reachable state.
LEMMA Invariant == Spec => []IInv
<1>1. IInv /\ [Next]_vars => IInv'
  BY TypedStep, ClientStep, LocksStep, LedgerStep, ReplayedStep, AnswersStep DEF IInv
<1> QED
  BY InitInv, <1>1, PTL DEF Spec

-----------------------------------------------------------------------------
(* Theorems *)

\* Every variable keeps its type, and an action is sent at most MaxAttempts times.
THEOREM TypeCorrect == Spec => []TypeOK
<1>1. IInv => TypeOK
  <2> SUFFICES ASSUME IInv PROVE TypeOK
    OBVIOUS
  <2>1. \A p \in Projects : row[p] \in Rows
    BY DEF IInv, Typed
  <2>2. \A k \in Keys : client[k].pc \in {"idle", "waiting", "done"} /\ client[k].n \in 0..MaxAttempts
    BY DEF IInv, Typed
  <2> QED
    BY <2>1, <2>2 DEF IInv, Typed, ClientSound, TypeOK, Rows
<1> QED
  BY <1>1, Invariant, PTL

\* The row is what its events say (applyReviewEdits and updateProject write both in one commit):
\* gapless versions from 1, and replaying the changes in version order gives the row.
THEOREM RowFollowsEvents == Spec => []RowIsReplay
<1>1. IInv => RowIsReplay
  <2> SUFFICES ASSUME IInv, NEW p \in Projects
               PROVE  /\ row[p].version = Len(events[p])
                      /\ \A i \in 1..Len(events[p]) : events[p][i].version = i
                      /\ \A f \in Fields :
                           LET on == {i \in 1..Len(events[p]) : events[p][i].field = f}
                           IN row[p].val[f] = IF on = {} THEN Default
                                              ELSE events[p][CHOOSE i \in on : \A j \in on : j <= i].to
                      /\ row[p].state = "deleted" <=>
                           \E i \in 1..Len(events[p]) : events[p][i].op = "delete"
    BY DEF RowIsReplay
  <2>1. LedgerSound /\ Replayed
    BY DEF IInv
  <2>2. row[p].version = Len(events[p])
    BY <2>1 DEF LedgerSound, Numbered
  <2>3. ASSUME NEW i \in 1..Len(events[p]) PROVE events[p][i].version = i
    <3>1. Fits(p, i, events[p][i])
      BY <2>1 DEF LedgerSound, EventsFit
    <3> QED
      BY <3>1 DEF Fits, Seed, Event
  <2>4. ASSUME NEW f \in Fields
        PROVE  LET on == {i \in 1..Len(events[p]) : events[p][i].field = f}
               IN row[p].val[f] = IF on = {} THEN Default
                                  ELSE events[p][CHOOSE i \in on : \A j \in on : j <= i].to
    <3> DEFINE on == {i \in 1..Len(events[p]) : events[p][i].field = f}
               last == CHOOSE i \in on : \A j \in on : j <= i
    <3>1. CASE (\A i \in 1..Len(events[p]) : events[p][i].field # f) /\ row[p].val[f] = Default
      BY <3>1
    <3>2. ASSUME NEW i \in 1..Len(events[p]), LastOn(p, f, i), row[p].val[f] = events[p][i].to
          PROVE  on # {} /\ row[p].val[f] = events[p][last].to
      <4>1. i \in on /\ \A j \in on : j <= i
        BY <3>2 DEF LastOn
      <4>2. last \in on /\ \A j \in on : j <= last
        BY <4>1
      <4>3. last = i
        BY <4>1, <4>2
      <4> QED
        BY <3>2, <4>1, <4>3
    <3>3. \/ (\A i \in 1..Len(events[p]) : events[p][i].field # f) /\ row[p].val[f] = Default
          \/ \E i \in 1..Len(events[p]) : LastOn(p, f, i) /\ row[p].val[f] = events[p][i].to
      BY <2>1 DEF Replayed
    <3> QED
      BY <3>1, <3>2, <3>3
  <2>5. row[p].state = "deleted" <=> \E i \in 1..Len(events[p]) : events[p][i].op = "delete"
    BY <2>1 DEF Replayed
  <2> QED
    BY <2>2, <2>3, <2>4, <2>5
<1> QED
  BY <1>1, Invariant, PTL

\* What an event of key k says, and where it is.
LEMMA EventOfKey ==
  ASSUME IInv, NEW k \in Keys, NEW p \in Projects, NEW i \in 1..Len(events[p]), events[p][i].key = k
  PROVE  /\ request[k] # Nothing /\ i = request[k].base + 1
         /\ events[p][i] = Event(k, i, request[k])
         /\ request[k].op # "create" => p = request[k].project
         /\ request[k].op = "create" => i = 1
         /\ stored[k] = [kind |-> "ok", version |-> i]
<1>1. Seed.key # k
  BY WritesAssumption DEF Seed
<1>2. Fits(p, i, events[p][i])
  BY DEF IInv, LedgerSound, EventsFit
<1>3. request[k] \in Requests \cup {Nothing}
  BY DEF IInv, Typed
<1>4. request[k] # Nothing /\ events[p][i] = Event(k, i, request[k])
  BY <1>1, <1>2 DEF Fits
<1>5. events[p][i].op = request[k].op
  BY <1>4 DEF Event
<1>6. request[k].op = "create" => request[k].base = 0
  BY <1>3, <1>4 DEF Requests
<1> QED
  BY <1>1, <1>2, <1>4, <1>5, <1>6 DEF Fits

\* Event i of project p is what key k asked for.
IsEventOf(k, p, i) ==
  /\ events[p][i] = Event(k, i, request[k])
  /\ Len(events[p]) # 0
  /\ i = request[k].base + 1
  /\ request[k].op # "create" => p = request[k].project
  /\ request[k].op = "create" => i = 1
  /\ stored[k] = [kind |-> "ok", version |-> i]

\* An event of an action is an event of some project, at some version.
LEMMA EventAt ==
  ASSUME IInv, NEW k \in Keys
  PROVE  \A e \in EventsOf(k) : \E p \in Projects : \E i \in Nat : e = <<p, i>> /\ IsEventOf(k, p, i)
<1> SUFFICES ASSUME NEW e \in EventsOf(k)
             PROVE  \E p \in Projects : \E i \in Nat : e = <<p, i>> /\ IsEventOf(k, p, i)
  OBVIOUS
<1>1. PICK p \in Projects : e \in {p} \X (1..Len(events[p])) /\ events[e[1]][e[2]].key = k
  BY DEF EventsOf, EventIds
<1>2. PICK i \in 1..Len(events[p]) : e = <<p, i>> /\ events[p][i].key = k
  BY <1>1
<1>3. IsEventOf(k, p, i)
  BY <1>2, EventOfKey DEF IsEventOf
<1> QED
  BY <1>2, <1>3

\* An action has at most one event.
LEMMA OneEvent ==
  ASSUME IInv, NEW k \in Keys, NEW e \in EventsOf(k), NEW d \in EventsOf(k)
  PROVE  e = d
<1>1. PICK p \in Projects : \E i \in Nat : e = <<p, i>> /\ IsEventOf(k, p, i)
  BY EventAt
<1>2. PICK i \in Nat : e = <<p, i>> /\ IsEventOf(k, p, i)
  BY <1>1
<1>3. PICK q \in Projects : \E j \in Nat : d = <<q, j>> /\ IsEventOf(k, q, j)
  BY EventAt
<1>4. PICK j \in Nat : d = <<q, j>> /\ IsEventOf(k, q, j)
  BY <1>3
<1>5. i = j
  BY <1>2, <1>4 DEF IsEventOf
<1>6. CASE request[k].op # "create"
  BY <1>2, <1>4, <1>5, <1>6 DEF IsEventOf
<1>7. CASE request[k].op = "create"
  <2>1. /\ events[p][1].key = k /\ Len(events[p]) # 0
        /\ events[q][1].key = k /\ Len(events[q]) # 0
    BY <1>2, <1>4, <1>7 DEF IsEventOf, Event
  <2>2. k # NoKey
    BY WritesAssumption
  <2>3. p = q
    BY <2>1, <2>2 DEF IInv, LedgerSound, OneBirth
  <2> QED
    BY <1>2, <1>4, <1>5, <2>3
<1> QED
  BY <1>6, <1>7

\* An answer is stored under a key exactly when the action took effect.
LEMMA StoredExactly ==
  ASSUME IInv, NEW k \in Keys
  PROVE  EventsOf(k) # {} <=> stored[k].kind = "ok"
<1>1. ASSUME NEW e \in EventsOf(k) PROVE stored[k].kind = "ok"
  <2>1. PICK p \in Projects : \E i \in Nat : e = <<p, i>> /\ IsEventOf(k, p, i)
    BY <1>1, EventAt
  <2> QED
    BY <2>1 DEF IsEventOf
<1>2. ASSUME stored[k].kind = "ok" PROVE EventsOf(k) # {}
  <2>0. PICK p \in Projects : \E i \in 1..Len(events[p]) : events[p][i].key = k
    BY <1>2 DEF IInv, LedgerSound, StoredFits
  <2>1. PICK i \in 1..Len(events[p]) : events[p][i].key = k
    BY <2>0
  <2>2. <<p, i>> \in EventsOf(k)
    BY <2>1 DEF EventsOf, EventIds
  <2> QED
    BY <2>2
<1> QED
  BY <1>1, <1>2

\* However often an action is sent and however its attempts overlap, it takes effect at most
\* once, and exactly when its answer is in `idempotency_keys` (claimIdempotency, storeIdempotency).
THEOREM TakesEffectOnce == Spec => []ExactlyOnce
<1>1. IInv => ExactlyOnce
  <2> SUFFICES ASSUME IInv, NEW k \in Keys
               PROVE  Cardinality(EventsOf(k)) <= 1 /\ (EventsOf(k) # {} <=> stored[k].kind = "ok")
    BY DEF ExactlyOnce
  <2>1. CASE EventsOf(k) = {}
    BY <2>1, StoredExactly, FS_EmptySet
  <2>2. CASE EventsOf(k) # {}
    <3>1. PICK e \in EventsOf(k) : TRUE
      BY <2>2
    <3>2. EventsOf(k) = {e}
      BY <3>1, OneEvent
    <3>3. Cardinality(EventsOf(k)) = 1
      BY <3>2, FS_Singleton
    <3> QED
      BY <3>3, StoredExactly
  <2> QED
    BY <2>1, <2>2
<1> QED
  BY <1>1, Invariant, PTL

\* Nobody overwrites what they have not seen: the version check stands under the row lock, so
\* the author of version v had sent version v - 1.
THEOREM NobodyOverwritesUnseen == Spec => []NoLostUpdate
<1>1. IInv => NoLostUpdate
  <2> SUFFICES ASSUME IInv, NEW k \in Keys, NEW e \in EventsOf(k)
               PROVE  events[e[1]][e[2]].version = request[k].base + 1
    BY DEF NoLostUpdate
  <2>1. PICK p \in Projects : \E i \in Nat : e = <<p, i>> /\ IsEventOf(k, p, i)
    BY EventAt
  <2> QED
    BY <2>1 DEF IsEventOf, Event
<1> QED
  BY <1>1, Invariant, PTL

\* What the user was told is and stays true, also while attempts of the action still run on the
\* server: a success names the version of this action, a conflict or refusal means that it never
\* takes effect.
THEOREM UsersAreToldTheTruth == Spec => []AnswersHold
<1>1. IInv => AnswersHold
  <2> SUFFICES ASSUME IInv, NEW k \in Keys, client[k].pc = "done"
               PROVE  /\ client[k].result.kind = "ok" =>
                           \E e \in EventsOf(k) : events[e[1]][e[2]].version = client[k].result.version
                      /\ client[k].result.kind \in {"noop", "conflict", "refused"} => EventsOf(k) = {}
    BY DEF AnswersHold
  <2> DEFINE t == client[k].result
  <2>1. Stands(k, t)
    BY DEF IInv, AnswersSound
  <2>2. ASSUME t.kind = "ok"
        PROVE  \E e \in EventsOf(k) : events[e[1]][e[2]].version = t.version
    <3>1. stored[k] = t
      BY <2>1, <2>2 DEF Stands
    <3>2. PICK e \in EventsOf(k) : TRUE
      BY <2>2, <3>1, StoredExactly
    <3>3. PICK p \in Projects : \E i \in Nat : e = <<p, i>> /\ IsEventOf(k, p, i)
      BY <3>2, EventAt
    <3>4. events[e[1]][e[2]].version = t.version
      BY <3>1, <3>3 DEF IsEventOf, Event
    <3> QED
      BY <3>2, <3>4
  <2>3. ASSUME t.kind \in {"noop", "conflict", "refused"}
        PROVE  EventsOf(k) = {}
    <3>1. stored[k] = t \/ stored[k] = Nothing
      BY <2>1, <2>3 DEF Stands
    <3>2. stored[k].kind # "ok"
      BY <2>3, <3>1 DEF Nothing
    <3> QED
      BY <3>2, StoredExactly
  <2> QED
    BY <2>2, <2>3
<1> QED
  BY <1>1, Invariant, PTL

\* A conflict called disjoint is so in the versions that conflict() looks back over, however many
\* the writer missed and whoever writes meanwhile.  (Beyond them it need not be: MCConflictWindow.)
THEOREM DisjointIsTrueInWindow == Spec => []DisjointIsHonest
<1>1. IInv => DisjointIsHonest
  <2> SUFFICES ASSUME IInv, NEW k \in Keys,
                      client[k].result.kind = "conflict" /\ client[k].result.disjoint
               PROVE  \A i \in (request[k].base + 1)..client[k].result.version :
                        i <= request[k].base + ConflictWindow =>
                          events[request[k].project][i].field # request[k].field
    BY DEF DisjointIsHonest, ToldDisjoint, Missed, Touched
  <2> QED
    BY DEF IInv, AnswersSound, Stands
<1> QED
  BY <1>1, Invariant, PTL

\* History only grows: no step of any attempt, fault or browser takes back a committed event, an
\* answer stored under its key, a version or a deletion.
HistoryGrows ==
  /\ \A k \in Keys : stored[k] # Nothing => stored'[k] = stored[k]
  /\ \A p \in Projects :
       /\ row[p].version <= row'[p].version
       /\ \A i \in 1..Len(events[p]) : events'[p][i] = events[p][i]
       /\ row[p].state = "deleted" => row'[p].state = "deleted"

\* An event that is written is never changed or taken back.
THEOREM HistoryOnlyGrows == Spec => [][HistoryGrows]_vars
<1>1. IInv /\ [Next]_vars => HistoryGrows
  <2> SUFFICES ASSUME IInv, [Next]_vars PROVE HistoryGrows
    OBVIOUS
  <2> QED
    BY Monotone DEF HistoryGrows
<1>2. IInv /\ [Next]_vars => [HistoryGrows]_vars
  BY <1>1
<1> QED
  BY <1>2, Invariant, PTL DEF Spec
-----------------------------------------------------------------------------
(* The abstract store *)

\* Nobody has been told anything before the end.
Untold == \A k \in Keys : client[k].pc # "done" => client[k].result = Nothing

Told == [k \in Keys |-> client[k].result]

\* Sending an action (again) tells its user nothing.
LEMMA SendingTellsNothing ==
  ASSUME IInv, Untold, NEW k \in Keys, client[k].pc # "done", NEW n, Send(k, n)
  PROVE  Untold' /\ Told' = Told
<1> DEFINE c == [pc |-> "waiting", n |-> n, result |-> Nothing]
<1>1. client \in [Keys -> Clients] /\ client' = [client EXCEPT ![k] = c]
  BY DEF Send, IInv, Typed, Clients
<1>2. c.result = Nothing
  OBVIOUS
<1> HIDE DEF c
<1>3. \A j \in Keys : client'[j] = IF j = k THEN c ELSE client[j]
  BY <1>1
<1>4. \A j \in Keys : client'[j].result = client[j].result
  BY <1>2, <1>3 DEF Untold
<1> QED
  BY <1>2, <1>3, <1>4 DEF Untold, Told

\* What the browser shows changes when a user is told how the action ended, and only then.
LEMMA ToldMoves ==
  ASSUME IInv, Untold, NEW k \in Keys, client[k].pc # "done", ClientMoves(k)
  PROVE  /\ Untold'
         /\ \/ Told' = Told
            \/ \E t \in Answers :
                 /\ t = Failed \/ (\E a \in Attempts : a[1] = k /\ t = answer[a])
                 /\ Told' = [Told EXCEPT ![k] = t]
<1>1. client \in [Keys -> Clients] /\ answer \in [Attempts -> Answers]
  BY DEF IInv, Typed, Clients
<1>3. ASSUME NEW n, Send(k, n)
      PROVE  Untold' /\ Told' = Told
  BY <1>3, SendingTellsNothing
<1>4. ASSUME NEW t, Tell(k, t)
      PROVE  Untold' /\ Told' = [Told EXCEPT ![k] = t]
  <2> DEFINE c == [pc |-> "done", n |-> client[k].n, result |-> t]
  <2>1. client' = [client EXCEPT ![k] = c]
    BY <1>4 DEF Tell
  <2>2. c.result = t /\ c.pc = "done"
    OBVIOUS
  <2> HIDE DEF c
  <2>3. \A j \in Keys : client'[j] = IF j = k THEN c ELSE client[j]
    BY <1>1, <2>1
  <2>4. \A j \in Keys : client'[j].result = IF j = k THEN t ELSE client[j].result
    BY <2>2, <2>3
  <2> QED
    BY <2>2, <2>3, <2>4 DEF Untold, Told
<1>5. Failed \in Answers
  BY DEF Failed, Answers
<1>6. CASE Tell(k, Failed)
  BY <1>4, <1>5, <1>6
<1>7. ASSUME NEW a \in Attempts, a[1] = k, Tell(k, answer[a])
      PROVE  /\ Untold'
             /\ \E t \in Answers :
                  /\ t = Failed \/ (\E b \in Attempts : b[1] = k /\ t = answer[b])
                  /\ Told' = [Told EXCEPT ![k] = t]
  <2>1. answer[a] \in Answers
    BY <1>1
  <2> QED
    BY <1>4, <1>7, <2>1
<1> QED
  BY <1>3, <1>6, <1>7 DEF ClientMoves

\* A step of the browser is a step of the store: somebody asks, is told, or nothing is seen.
LEMMA AskIsAsk ==
  ASSUME IInv, Untold, NEW k \in Keys, Submit(k)
  PROVE  Untold' /\ AsStore!Ask(k)
<1>1. PICK r \in Asks(k) : request' = [request EXCEPT ![k] = r]
  BY DEF Submit
<1>2. client[k].pc = "idle" /\ Send(k, 1) /\ UNCHANGED <<row, stored>>
  BY DEF Submit
<1>3. r \in Requests /\ (r.op # "create" => r.base <= row[r.project].version)
  BY AsksAreRequests DEF IInv
<1>4. \A p \in Projects : row[p].version \in Nat
  BY DEF IInv, Typed, Rows
<1>5. r \in AsStore!Asked
  <2>1. CASE r \in [op : {"create"}, base : {0}, field : Fields, to : Values]
    BY <2>1 DEF AsStore!Asked
  <2>2. CASE r \in [op : {"update"}, project : Projects, base : Nat \ {0}, field : Fields, to : Values]
    <3>1. r.op = "update" /\ r.project \in Projects /\ r.base \in AsStore!Seen(r.project)
      BY <1>3, <1>4, <2>2 DEF AsStore!Seen
    <3> DEFINE Changes(p) == [op : {"update"}, project : {p}, base : AsStore!Seen(p),
                              field : Fields, to : Values]
    <3>2. r \in Changes(r.project)
      BY <2>2, <3>1
    <3>3. UNION {Changes(p) : p \in Projects} \subseteq AsStore!Asked
      BY DEF AsStore!Asked
    <3> HIDE DEF Changes
    <3>4. r \in UNION {Changes(p) : p \in Projects}
      BY <3>1, <3>2
    <3> QED
      BY <3>3, <3>4
  <2>3. CASE r \in [op : {"delete"}, project : Projects, base : Nat \ {0}, field : {"none"},
                    to : {Default}]
    <3>1. r.op = "delete" /\ r.project \in Projects /\ r.base \in AsStore!Seen(r.project)
      BY <1>3, <1>4, <2>3 DEF AsStore!Seen
    <3> DEFINE Deletions(p) == [op : {"delete"}, project : {p}, base : AsStore!Seen(p),
                                field : {"none"}, to : {Default}]
    <3>2. r \in Deletions(r.project)
      BY <2>3, <3>1
    <3>3. UNION {Deletions(p) : p \in Projects} \subseteq AsStore!Asked
      BY DEF AsStore!Asked
    <3> HIDE DEF Deletions
    <3>4. r \in UNION {Deletions(p) : p \in Projects}
      BY <3>1, <3>2
    <3> QED
      BY <3>3, <3>4
  <2> QED
    BY <1>3, <2>1, <2>2, <2>3 DEF Requests
<1>6. request[k] = Nothing
  BY <1>2 DEF IInv, ClientSound
<1>7. Untold' /\ Told' = Told
  BY <1>2, SendingTellsNothing
<1> QED
  BY <1>1, <1>2, <1>5, <1>6, <1>7 DEF AsStore!Ask, AsStore!Nothing, Nothing, Told

\* A user is told the effect of the action, a truth about the project, or that it failed.
LEMMA TellingIsInforming ==
  ASSUME IInv, NEW k \in Keys, NEW t \in Answers, request[k] # Nothing, Told[k] = Nothing,
         t = Failed \/ Stands(k, t), Told' = [Told EXCEPT ![k] = t],
         UNCHANGED <<row, stored, request>>
  PROVE  AsStore!Inform(k) \/ Told' = Told
<1> DEFINE r == request[k]
           Tellable == AsStore!Effects(k) \cup AsStore!Conflicts(k) \cup AsStore!Refusals(k)
                         \cup {AsStore!Failed}
<1>1. AsStore!Nothing = Nothing /\ AsStore!Failed = Failed /\ AsStore!Refused = Refused
  BY DEF AsStore!Nothing, AsStore!Failed, AsStore!Refused, Nothing, Failed, Refused
<1>2. CASE t = Nothing
  BY <1>2 DEF Told
<1>3. CASE t = Failed
  <2>1. t \in Tellable
    BY <1>1, <1>3
  <2> QED
    BY <1>1, <2>1 DEF AsStore!Inform, Told
<1>4. CASE t.kind \in {"ok", "noop"} /\ Stands(k, t)
  <2>1. stored[k] = t /\ t # Nothing
    BY <1>4 DEF Stands, Nothing
  <2>2. t \in Tellable
    BY <1>1, <2>1 DEF AsStore!Effects
  <2> QED
    BY <1>1, <2>2 DEF AsStore!Inform, Told
<1>5. CASE t.kind = "conflict" /\ Stands(k, t)
  <2>1. /\ stored[k] = Nothing /\ r.op # "create"
        /\ r.base < t.version /\ t.version <= row[r.project].version
    BY <1>5 DEF Stands
  <2>2. r.base \in Nat /\ row[r.project].version \in Nat
    BY <2>1, EditsNameProjects
  <2>3. t \in [kind : {"conflict"}, version : Nat, disjoint : BOOLEAN]
    BY <1>5 DEF Answers
  <2>4. t.version \in (r.base + 1)..row[r.project].version
    BY <2>1, <2>2, <2>3
  <2>5. t \in [kind : {"conflict"}, version : (r.base + 1)..row[r.project].version,
               disjoint : BOOLEAN]
    BY <2>3, <2>4
  <2>6. t \in AsStore!Conflicts(k)
    BY <1>1, <2>1, <2>5 DEF AsStore!Conflicts
  <2>7. t \in Tellable
    BY <2>6
  <2> QED
    BY <1>1, <2>7 DEF AsStore!Inform, Told
<1>6. CASE t.kind = "refused" /\ Stands(k, t)
  <2>1. /\ stored[k] = Nothing /\ r.op # "create"
        /\ row[r.project].state = "deleted" \/ (r.op = "delete" /\ k \notin Admins)
    BY <1>6 DEF Stands
  <2>2. t = Refused
    BY <1>6 DEF Answers, Refused
  <2>3. t \in AsStore!Refusals(k)
    BY <1>1, <2>1, <2>2 DEF AsStore!Refusals
  <2>4. t \in Tellable
    BY <2>3
  <2> QED
    BY <1>1, <2>4 DEF AsStore!Inform, Told
<1>7. t \in {Nothing, Failed} \/ t.kind \in {"ok", "noop", "conflict", "refused"}
  BY DEF Answers, Nothing, Failed
<1>8. Stands(k, t) \/ t = Failed
  OBVIOUS
<1> QED
  BY <1>2, <1>3, <1>4, <1>5, <1>6, <1>7, <1>8

\* Whoever holds the claim and the row of an action that is up to date may act on it: nobody has
\* been told that it succeeded, came too late, or is refused.
LEMMA HolderMayAct ==
  ASSUME IInv, NEW a \in Attempts, tx[a] = "write",
         request[a[1]].op # "create" => row[request[a[1]].project].version = request[a[1]].base
  PROVE  AsStore!MayAct(a[1]) /\ (request[a[1]].op # "create" => AsStore!UpToDate(request[a[1]]))
<1> DEFINE k == a[1]  r == request[k]  t == client[k].result
<1>1. k \in Keys /\ r # Nothing
  BY AttemptParts, ClaimedIsRequested
<1>2. stored[k] = Nothing
  BY <1>1 DEF IInv, LocksSound, HoldsClaim
<1>3. ASSUME r.op # "create"
      PROVE  row[r.project].state = "live" /\ (r.op = "delete" => k \in Admins)
  BY <1>3 DEF IInv, LocksSound, HoldsRow
<1>4. t \in Answers /\ Stands(k, t)
  BY <1>1 DEF IInv, Typed, AnswersSound
<1>5. t.kind \notin {"ok", "noop"}
  BY <1>2, <1>4 DEF Stands, Nothing
<1>6. t.kind # "conflict"
  <2> SUFFICES ASSUME t.kind = "conflict" PROVE FALSE
    OBVIOUS
  <2>1. r.op # "create" /\ r.base < t.version /\ t.version <= row[r.project].version
    BY <1>4 DEF Stands
  <2>2. r.base \in Nat /\ row[r.project].version = r.base
    BY <1>1, <2>1, EditsNameProjects
  <2>3. t.version \in Nat
    BY <1>4 DEF Answers
  <2> QED
    BY <2>1, <2>2, <2>3
<1>7. t.kind # "refused"
  BY <1>3, <1>4 DEF Stands
<1>8. t \in {Nothing, Failed}
  BY <1>4, <1>5, <1>6, <1>7 DEF Answers, Nothing, Failed
<1>9. AsStore!MayAct(k)
  BY <1>1, <1>2, <1>8 DEF AsStore!MayAct, AsStore!Nothing, AsStore!Failed, Nothing, Failed, Told
<1> QED
  BY <1>3, <1>9 DEF AsStore!UpToDate

\* A change that commits is the action's one effect, on the version its user had seen.
LEMMA CommitActs ==
  ASSUME IInv, NEW a \in Attempts, Update(a) \/ Delete(a) \/ Create(a)
  PROVE  AsStore!Update(a[1]) \/ AsStore!Delete(a[1]) \/ AsStore!Create(a[1])
<1> DEFINE k == a[1]  r == request[k]
<1>1. tx[a] = "write" /\ k \in Keys /\ r \in Requests /\ r # Nothing
  BY AttemptParts, ClaimedIsRequested DEF Update, Delete, Create
<1>2. Told' = Told
  BY DEF Update, Delete, Create, CommitVersion, Told
<1>3. ASSUME r.op # "create", row[r.project].version = r.base
      PROVE  /\ AsStore!MayAct(k) /\ AsStore!UpToDate(r)
             /\ row[r.project].state = "live" /\ (r.op = "delete" => k \in Admins)
  <2>1. row[r.project].state = "live" /\ (r.op = "delete" => k \in Admins)
    BY <1>1, <1>3 DEF IInv, LocksSound, HoldsRow
  <2> QED
    BY <1>1, <1>3, <2>1, HolderMayAct
<1>4. ASSUME NEW p, NEW new, CommitVersion(a, p, new)
      PROVE  AsStore!Takes(k, p, new)
  BY <1>2, <1>4 DEF CommitVersion, AsStore!Takes, Told
<1>5. CASE Update(a)
  <2>1. /\ r.op = "update" /\ row[r.project].version = r.base /\ row[r.project].val[r.field] # r.to
        /\ CommitVersion(a, r.project,
             [state |-> row[r.project].state, version |-> row[r.project].version + 1,
              val |-> [row[r.project].val EXCEPT ![r.field] = r.to]])
    BY <1>5 DEF Update, ExpectedVersion, NextVersion
  <2>2. AsStore!Takes(k, r.project, [state |-> "live", version |-> r.base + 1,
                                     val |-> [row[r.project].val EXCEPT ![r.field] = r.to]])
    BY <1>3, <1>4, <2>1
  <2> QED
    BY <1>3, <2>1, <2>2 DEF AsStore!Update
<1>6. CASE Delete(a)
  <2>1. /\ r.op = "delete" /\ row[r.project].version = r.base
        /\ CommitVersion(a, r.project,
             [state |-> "deleted", version |-> row[r.project].version + 1,
              val |-> row[r.project].val])
    BY <1>6 DEF Delete, ExpectedVersion, NextVersion
  <2>2. AsStore!Takes(k, r.project, [state |-> "deleted", version |-> r.base + 1,
                                     val |-> row[r.project].val])
    BY <1>4, <2>1
  <2> QED
    BY <1>3, <2>1, <2>2 DEF AsStore!Delete
<1>7. CASE Create(a)
  <2>1. PICK p \in Projects :
          /\ row[p].state = "absent"
          /\ CommitVersion(a, p, [state |-> "live", version |-> 1,
                                  val |-> [[f \in Fields |-> Default] EXCEPT ![r.field] = r.to]])
    BY <1>7 DEF Create, NewId
  <2>2. AsStore!Takes(k, p, [state |-> "live", version |-> 1,
                             val |-> [[f \in Fields |-> Default] EXCEPT ![r.field] = r.to]])
    BY <1>4, <2>1
  <2>3. r.op = "create"
    BY <1>7 DEF Create
  <2>4. AsStore!MayAct(k)
    BY <1>1, <2>3, HolderMayAct
  <2> QED
    BY <2>1, <2>2, <2>3, <2>4 DEF AsStore!Create
<1> QED
  BY <1>5, <1>6, <1>7

\* Finding nothing to do is an effect, too: its answer is stored for good.
LEMMA NothingToDoActs ==
  ASSUME IInv, NEW a \in Attempts, FindNothingToDo(a)
  PROVE  AsStore!FindNothingToDo(a[1])
<1> DEFINE k == a[1]  r == request[k]
<1>1. /\ tx[a] = "write" /\ r.op = "update" /\ row[r.project].version = r.base
      /\ row[r.project].val[r.field] = r.to
      /\ stored' = [stored EXCEPT ![k] = [kind |-> "noop", version |-> row[r.project].version]]
      /\ UNCHANGED <<row, request, client>>
  BY DEF FindNothingToDo, ExpectedVersion
<1>2. AsStore!MayAct(k) /\ AsStore!UpToDate(r)
  BY <1>1, HolderMayAct
<1>3. Told' = Told
  BY <1>1 DEF Told
<1> QED
  BY <1>1, <1>2, <1>3 DEF AsStore!FindNothingToDo, Told

\* Claims, locks, refusals, deadlocks and dying processes are invisible.
LEMMA RestIsInvisible ==
  ASSUME NEW a \in Attempts, Claim(a) \/ Lock(a) \/ RefuseStale(a) \/ Deadlock(a) \/ Kill(a)
  PROVE  UNCHANGED <<row, stored, request, client>>
  BY DEF Claim, Lock, RefuseStale, Deadlock, Kill

\* What the browser does with an action under way shows nothing, or tells its user the truth.
LEMMA ClientActs ==
  ASSUME IInv, Untold, NEW k \in Keys, Receive(k) \/ Disconnect(k)
  PROVE  Untold' /\ (AsStore!Inform(k) \/ UNCHANGED <<row, stored, request, Told>>)
<1>1. client[k].pc = "waiting" /\ ClientMoves(k) /\ UNCHANGED <<row, stored, request>>
  BY ClientEffect
<1>2. request[k] # Nothing /\ Told[k] = Nothing
  BY <1>1 DEF IInv, ClientSound, Untold, Told
<1>3. ASSUME NEW a \in Attempts, a[1] = k PROVE Stands(k, answer[a])
  BY <1>3 DEF IInv, AnswersSound
<1>4. /\ Untold'
      /\ \/ Told' = Told
         \/ \E t \in Answers :
              /\ t = Failed \/ (\E a \in Attempts : a[1] = k /\ t = answer[a])
              /\ Told' = [Told EXCEPT ![k] = t]
  BY <1>1, ToldMoves
<1>5. ASSUME NEW t \in Answers, t = Failed \/ (\E a \in Attempts : a[1] = k /\ t = answer[a]),
             Told' = [Told EXCEPT ![k] = t]
      PROVE  AsStore!Inform(k) \/ Told' = Told
  <2>1. t = Failed \/ Stands(k, t)
    BY <1>3, <1>5
  <2> QED
    BY <1>1, <1>2, <1>5, <2>1, TellingIsInforming
<1> QED
  BY <1>1, <1>4, <1>5

\* The write path is a versioned store: whatever attempts, locks, retries and faults do, a user
\* sees each action ask, take effect at most once and in one step on the version the user had
\* seen, and end with an answer that the store then supports for good.
THEOREM WritesImplementStore == Spec => ImplementsStore
<1>1. Init => AsStore!Init /\ Untold
  BY DEF Init, AsStore!Init, AsStore!Nothing, Nothing, Untold
<1>2. IInv /\ Untold /\ [Next]_vars => Untold' /\ [AsStore!Next]_(AsStore!vars)
  <2> SUFFICES ASSUME IInv, Untold, [Next]_vars
               PROVE  Untold' /\ [AsStore!Next]_(AsStore!vars)
    OBVIOUS
  <2>1. ASSUME UNCHANGED <<row, stored, request, client>>
        PROVE  Untold' /\ UNCHANGED AsStore!vars
    BY <2>1 DEF Untold, AsStore!vars
  <2>2. ASSUME NEW a \in Attempts, Update(a) \/ Delete(a) \/ Create(a)
        PROVE  Untold' /\ AsStore!Next
    <3>1. Untold'
      BY <2>2 DEF Update, Delete, Create, CommitVersion, Untold
    <3>2. a[1] \in Keys
      BY AttemptParts
    <3> QED
      BY <2>2, <3>1, <3>2, CommitActs DEF AsStore!Next
  <2>3. ASSUME NEW a \in Attempts, FindNothingToDo(a)
        PROVE  Untold' /\ AsStore!Next
    <3>1. Untold'
      BY <2>3 DEF FindNothingToDo, Untold
    <3>2. a[1] \in Keys
      BY AttemptParts
    <3> QED
      BY <2>3, <3>1, <3>2, NothingToDoActs DEF AsStore!Next
  <2>4. ASSUME NEW a \in Attempts, Claim(a) \/ Lock(a) \/ RefuseStale(a) \/ Deadlock(a) \/ Kill(a)
        PROVE  Untold' /\ UNCHANGED AsStore!vars
    BY <2>1, <2>4, RestIsInvisible
  <2>5. ASSUME NEW k \in Keys, Submit(k)
        PROVE  Untold' /\ AsStore!Next
    BY <2>5, AskIsAsk DEF AsStore!Next
  <2>6. ASSUME NEW k \in Keys, Receive(k) \/ Disconnect(k)
        PROVE  Untold' /\ [AsStore!Next]_(AsStore!vars)
    <3>1. Untold' /\ (AsStore!Inform(k) \/ UNCHANGED <<row, stored, request, Told>>)
      BY <2>6, ClientActs
    <3>2. UNCHANGED <<row, stored, request, Told>> => UNCHANGED AsStore!vars
      BY DEF AsStore!vars, Told
    <3> QED
      BY <3>1, <3>2 DEF AsStore!Next
  <2>7. CASE UNCHANGED vars
    BY <2>1, <2>7 DEF vars
  <2> QED
    BY <2>2, <2>3, <2>4, <2>5, <2>6, <2>7 DEF Next, Server, Fault
<1> QED
  BY <1>1, <1>2, Invariant, PTL DEF Spec, ImplementsStore, AsStore!Spec
=============================================================================
