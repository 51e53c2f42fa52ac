---------------------------- MODULE OutboxProofs ----------------------------
(***************************************************************************)
(* Proofs about the outbox for every number of nodes, aggregates, rows and *)
(* faults, and every batch size.                                           *)
(*                                                                         *)
(* The inductive invariant IInv says why the feed is in version order.     *)
(* RowOrder: the row lock makes an aggregate's ids follow its versions,    *)
(* and nothing open is older than anything committed.  SelectionSound: a   *)
(* selection about to be numbered holds only unnumbered rows and, with a   *)
(* row, every older unprocessed row of its aggregate.  NumberingSound:     *)
(* hence numbers are unique, follow ids within an aggregate, and skip no   *)
(* older row of it that can be published.  DeliverySound: what is numbered *)
(* below a row in a relay's hands is there too or was sent.  With Dense,   *)
(* that nothing is skipped, the outbox implements ChangeFeed.              *)
(***************************************************************************)
EXTENDS Outbox, FiniteSetTheorems, SequenceTheorems, TLAPS

Live(i) == phase[i] \in {"open", "committed"}

RowOrder ==
  /\ \A i \in Ids : i >= nextId => phase[i] = "free"
  /\ \A i \in Ids : Live(i) => agg[i] \in Aggregates
  /\ \A i, j \in Ids : i < j /\ Live(i) /\ Live(j) /\ agg[i] = agg[j]
                         => phase[i] = "committed" /\ ver[i] < ver[j]
  /\ \A i \in Ids : phase[i] = "committed" => ver[i] <= version[agg[i]]
  /\ \A i \in Ids : phase[i] = "open" => ver[i] = version[agg[i]] + 1

SelectionSound ==
  \A n \in Nodes :
    /\ pc[n] = "number" /\ lock = n =>
         \A j \in todo[n] :
           /\ phase[j] = "committed" /\ feedSeq[j] = 0
           /\ \A i \in Ids : i < j /\ agg[i] = agg[j] /\ phase[i] = "committed"
                               => i \in todo[n] \/ processed[i] # "no"
    /\ pc[n] = "publish" =>
         \A i \in todo[n] : Parses(i) => feedSeq[i] # 0
    /\ \A i \in done[n] : feedSeq[i] # 0 /\ i \in sent
    /\ \A i \in dead[n] : ~Parses(i)

NumberingSound ==
  /\ \A i, j \in Ids : i # j /\ feedSeq[i] # 0 => feedSeq[i] # feedSeq[j]
  /\ \A i, j \in Ids : i < j /\ agg[i] = agg[j] /\ feedSeq[i] # 0 /\ feedSeq[j] # 0
                         => feedSeq[i] < feedSeq[j]
  /\ \A i, j \in Ids :
       i < j /\ agg[i] = agg[j] /\ feedSeq[j] # 0 /\ phase[i] = "committed" /\ Parses(i)
         => feedSeq[i] # 0
  /\ \A i \in Ids : processed[i] = "published" => feedSeq[i] # 0 /\ i \in sent
  /\ \A i \in Ids : processed[i] = "dead" => ~Parses(i)

IInv == TypeOK /\ RowOrder /\ SelectionSound /\ NumberingSound

-----------------------------------------------------------------------------
(* Ranks and bounded selections *)

\* A row's rank in a selection is positive, and grows with its id.
LEMMA RankGrows ==
  ASSUME NEW S \in SUBSET Ids, NEW i \in S
  PROVE  /\ Rank(S, i) \in Nat \ {0}
         /\ \A j \in S : i < j => Rank(S, i) < Rank(S, j)
<1> DEFINE Upto(k) == {l \in S : l <= k}
<1>1. IsFiniteSet(Ids)
  BY OutboxAssumption, FS_Interval DEF Ids
<1>2. ASSUME NEW k \in S PROVE IsFiniteSet(Upto(k)) /\ Cardinality(Upto(k)) \in Nat
  BY <1>1, FS_Subset, FS_CardinalityType
<1>3. Cardinality(Upto(i)) # 0
  <2>1. i \in Upto(i)
    BY DEF Ids
  <2> QED
    BY <2>1, <1>2, FS_EmptySet
<1>4. ASSUME NEW j \in S, i < j PROVE Cardinality(Upto(i)) < Cardinality(Upto(j))
  <2>0. \A k \in S : k \in Int
    BY OutboxAssumption DEF Ids
  <2>1. Upto(i) \subseteq Upto(j) /\ j \in Upto(j) /\ j \notin Upto(i)
    BY <1>4, <2>0
  <2>2. Upto(i) # Upto(j)
    BY <2>1
  <2> HIDE DEF Upto
  <2>3. Cardinality(Upto(i)) <= Cardinality(Upto(j)) /\ Cardinality(Upto(i)) # Cardinality(Upto(j))
    BY <2>1, <2>2, <1>2, FS_Subset
  <2> QED
    BY <2>3, <1>2
<1> QED
  BY <1>2, <1>3, <1>4 DEF Rank

\* A selection by id holds, with a row, every older candidate.
LEMMA FirstByIdClosed ==
  ASSUME NEW S \in SUBSET Ids, NEW j \in FirstById(S, Batch), NEW i \in S, i < j
  PROVE  i \in FirstById(S, Batch)
<1> DEFINE Below(k) == {l \in S : l < k}
<1>1. IsFiniteSet(Ids)
  BY OutboxAssumption, FS_Interval DEF Ids
<1>2. \A k \in S : IsFiniteSet(Below(k)) /\ Cardinality(Below(k)) \in Nat
  BY <1>1, FS_Subset, FS_CardinalityType
<1>3. j \in S /\ Cardinality(Below(j)) < Batch
  BY DEF FirstById
<1>4. Below(i) \subseteq Below(j)
  <2>1. \A k \in S : k \in Int
    BY OutboxAssumption DEF Ids
  <2> QED
    BY <1>3, <2>1
<1>5. Cardinality(Below(i)) <= Cardinality(Below(j))
  <2> HIDE DEF Below
  <2> QED
    BY <1>2, <1>3, <1>4, FS_Subset
<1> QED
  BY <1>2, <1>3, <1>5, OutboxAssumption DEF FirstById

-----------------------------------------------------------------------------
(* The invariant *)

\* The invariant holds at the start.
LEMMA InitInv == Init => IInv
<1> SUFFICES ASSUME Init PROVE IInv
  OBVIOUS
<1> USE OutboxAssumption DEF Init
<1>1. TypeOK
  BY DEF TypeOK, Ids, Phases, Steps
<1>2. RowOrder
  BY DEF RowOrder, Live
<1>3. SelectionSound
  BY DEF SelectionSound
<1>4. NumberingSound
  <2>1. \A i \in Ids : feedSeq[i] = 0 /\ processed[i] \notin {"published", "dead"}
    OBVIOUS
  <2> QED
    BY <2>1 DEF NumberingSound
<1> QED
  BY <1>1, <1>2, <1>3, <1>4 DEF IInv

\* Types, and that only committed rows which parse are numbered.
LEMMA TypeStep == IInv /\ [Next]_vars => TypeOK'
<1> SUFFICES ASSUME IInv, [Next]_vars PROVE TypeOK'
  OBVIOUS
<1> USE OutboxAssumption DEF IInv, TypeOK, Ids, Phases, Steps, table, local
<1>1. ASSUME NEW a \in Aggregates, Insert(a) PROVE TypeOK'
  <2>1. nextId' \in 1..(MaxId + 1) /\ phase' \in [Ids -> Phases]
    BY <1>1 DEF Insert
  <2>2. agg' \in [Ids -> Aggregates \cup {NoAggregate}]
    BY <1>1 DEF Insert
  <2>3. ver' \in [Ids -> Nat]
    BY <1>1 DEF Insert
  <2>4. \A i \in Ids : feedSeq'[i] # 0 => phase'[i] = "committed" /\ Parses(i)
    BY <1>1 DEF Insert, RowOrder
  <2>5. UNCHANGED <<version, feedSeq, processed, lock, pc, todo, done, dead, sent, faults>>
    BY <1>1 DEF Insert
  <2> QED
    BY <2>1, <2>2, <2>3, <2>4, <2>5
<1>2. ASSUME NEW i \in Ids, Commit(i) PROVE TypeOK'
  <2>1. phase' \in [Ids -> Phases]
    BY <1>2 DEF Commit
  <2>2. version' \in [Aggregates -> Nat]
    BY <1>2 DEF Commit
  <2>3. \A j \in Ids : feedSeq'[j] # 0 => phase'[j] = "committed" /\ Parses(j)
    BY <1>2 DEF Commit
  <2>4. UNCHANGED <<nextId, agg, ver, feedSeq, processed, lock, pc, todo, done, dead, sent, faults>>
    BY <1>2 DEF Commit
  <2> QED
    BY <2>1, <2>2, <2>3, <2>4
<1>3. ASSUME NEW i \in Ids, Abort(i) PROVE TypeOK'
  <2>1. phase' \in [Ids -> Phases]
    BY <1>3 DEF Abort
  <2>2. \A j \in Ids : feedSeq'[j] # 0 => phase'[j] = "committed" /\ Parses(j)
    BY <1>3 DEF Abort
  <2>3. UNCHANGED <<nextId, agg, ver, version, feedSeq, processed, lock, pc, todo, done, dead, sent,
                    faults>>
    BY <1>3 DEF Abort
  <2> QED
    BY <2>1, <2>2, <2>3
<1>4. ASSUME NEW n \in Nodes PROVE Acquire(n) => TypeOK'
  BY DEF Acquire
<1>5. ASSUME NEW n \in Nodes, Select(n) PROVE TypeOK'
  <2>1. FirstBySeq(Pending, Batch) \subseteq Ids /\ FirstById(Unprocessed, Batch) \subseteq Ids
    BY DEF FirstBySeq, FirstById, Pending, Unprocessed
  <2>2. todo' \in [Nodes -> SUBSET Ids]
    BY <1>5, <2>1 DEF Select
  <2>3. pc' \in [Nodes -> Steps]
    BY <1>5 DEF Select
  <2> QED
    BY <1>5, <2>2, <2>3 DEF Select
<1>6. ASSUME NEW n \in Nodes, Number(n) PROVE TypeOK'
  <2>1. PICK m \in Numbers :
          feedSeq' = [i \in Ids |-> IF i \in ToNumber(todo[n])
                                   THEN m + Rank(ToNumber(todo[n]), i) ELSE feedSeq[i]]
    BY <1>6 DEF Number
  <2>2. m \in Nat /\ ToNumber(todo[n]) \in SUBSET Ids
    BY DEF Numbers, ToNumber
  <2>3. feedSeq' \in [Ids -> Nat]
    BY <2>1, <2>2, RankGrows
  <2>4. \A i \in ToNumber(todo[n]) : phase[i] = "committed" /\ Parses(i)
    BY <1>6 DEF Number, ToNumber, SelectionSound
  <2>5. \A i \in Ids : feedSeq'[i] # 0 => phase[i] = "committed" /\ Parses(i)
    BY <2>1, <2>4
  <2> QED
    BY <1>6, <2>3, <2>5 DEF Number
<1>7. ASSUME NEW n \in Nodes PROVE LoopEnds(n) \/ Release(n) \/ Restart(n) => TypeOK'
  BY DEF LoopEnds, Release, Restart
<1>7a. ASSUME NEW n \in Nodes PROVE Throw(n) => TypeOK'
  BY DEF Throw
<1>7b. ASSUME NEW n \in Nodes PROVE Crash(n) => TypeOK'
  BY DEF Crash
<1>8. ASSUME NEW n \in Nodes, NEW i \in Ids PROVE PutAside(n, i) => TypeOK'
  <2> SUFFICES ASSUME PutAside(n, i) PROVE TypeOK'
    OBVIOUS
  <2>1. todo' \in [Nodes -> SUBSET Ids] /\ dead' \in [Nodes -> SUBSET Ids]
    BY DEF PutAside
  <2> QED
    BY <2>1 DEF PutAside
<1>8c. ASSUME NEW n \in Nodes, NEW i \in Ids PROVE Bury(n, i) => TypeOK'
  <2> SUFFICES ASSUME Bury(n, i) PROVE TypeOK'
    OBVIOUS
  <2>1. processed' \in [Ids -> {"no", "published", "dead"}]
    BY DEF Bury
  <2>2. dead' \in [Nodes -> SUBSET Ids]
    BY DEF Bury
  <2>3. UNCHANGED <<nextId, phase, agg, ver, version, feedSeq, lock, pc, todo, done, sent, faults>>
    BY DEF Bury
  <2> QED
    BY <2>1, <2>2, <2>3
<1>8a. ASSUME NEW n \in Nodes, NEW i \in Ids PROVE Publish(n, i) => TypeOK'
  <2> SUFFICES ASSUME Publish(n, i) PROVE TypeOK'
    OBVIOUS
  <2>1. todo' \in [Nodes -> SUBSET Ids]
    BY DEF Publish
  <2>2. done' \in [Nodes -> SUBSET Ids]
    BY DEF Publish
  <2>3. sent' \subseteq Ids
    BY DEF Publish
  <2>4. UNCHANGED <<nextId, phase, agg, ver, version, feedSeq, processed, lock, pc, dead, faults>>
    BY DEF Publish
  <2> QED
    BY <2>1, <2>2, <2>3, <2>4
<1>8b. ASSUME NEW n \in Nodes, NEW i \in Ids PROVE PublishFails(n, i) => TypeOK'
  <2> SUFFICES ASSUME PublishFails(n, i) PROVE TypeOK'
    OBVIOUS
  <2>1. todo' \in [Nodes -> SUBSET Ids]
    BY DEF PublishFails
  <2>2. pc' \in [Nodes -> Steps]
    BY DEF PublishFails
  <2>3. sent' \subseteq Ids
    BY DEF PublishFails
  <2>4. faults' \in 0..MaxFaults
    BY DEF PublishFails
  <2>5. UNCHANGED <<nextId, phase, agg, ver, version, feedSeq, processed, lock, done, dead>>
    BY DEF PublishFails
  <2> QED
    BY <2>1, <2>2, <2>3, <2>4, <2>5
<1>9. ASSUME NEW n \in Nodes PROVE Stamp(n) => TypeOK'
  BY DEF Stamp
<1>10. LoseConnection => TypeOK'
  BY DEF LoseConnection
<1>11. UNCHANGED vars => TypeOK'
  BY DEF vars
<1> QED
  BY <1>1, <1>2, <1>3, <1>4, <1>5, <1>6, <1>7, <1>7a, <1>7b, <1>8, <1>8a, <1>8b, <1>8c,
     <1>9, <1>10, <1>11 DEF Next, Write, Relay, Fault

\* Ids follow versions within an aggregate.
LEMMA RowOrderStep == IInv /\ [Next]_vars => RowOrder'
<1> SUFFICES ASSUME IInv, [Next]_vars PROVE RowOrder'
  OBVIOUS
<1> USE OutboxAssumption DEF IInv, Live
<1>1. ASSUME NEW a \in Aggregates, Insert(a) PROVE RowOrder'
  <2> USE DEF RowOrder, TypeOK, Ids
  <2>1. /\ nextId \in Ids /\ nextId' = nextId + 1 /\ version' = version
        /\ phase'[nextId] = "open" /\ agg'[nextId] = a /\ ver'[nextId] = version[a] + 1
        /\ \A i \in Ids : i # nextId => phase'[i] = phase[i] /\ agg'[i] = agg[i] /\ ver'[i] = ver[i]
        /\ \A i \in Ids : phase[i] = "open" => agg[i] # a
    BY <1>1 DEF Insert, RowLocked
  <2>2. \A i \in Ids : i < nextId /\ Live(i) /\ agg[i] = a => phase[i] = "committed" /\ ver[i] < version[a] + 1
    <3> SUFFICES ASSUME NEW i \in Ids, Live(i), agg[i] = a PROVE phase[i] = "committed" /\ ver[i] < version[a] + 1
      OBVIOUS
    <3>1. phase[i] = "committed"
      BY <2>1
    <3>2. ver[i] <= version[a] /\ ver[i] \in Nat /\ version[a] \in Nat
      BY <3>1
    <3> QED
      BY <3>1, <3>2
  <2>3. \A i \in Ids : nextId <= i => ~Live(i)
    BY <2>1
  <2>4. \A i \in Ids : nextId < i => phase'[i] = "free"
    BY <2>1, <2>3
  <2>5. \A i \in Ids : i >= nextId' => phase'[i] = "free"
    BY <2>1, <2>4
  <2>6. \A i \in Ids : Live(i)' => agg'[i] \in Aggregates
    BY <2>1
  <2>7. ASSUME NEW i \in Ids, NEW j \in Ids, i < j, Live(i)', Live(j)', agg'[i] = agg'[j]
        PROVE  phase'[i] = "committed" /\ ver'[i] < ver'[j]
    <3>1. i # nextId
      BY <2>1, <2>4, <2>7
    <3>2. CASE j = nextId
      BY <2>1, <2>2, <2>7, <3>1, <3>2
    <3>3. CASE j # nextId
      BY <2>1, <2>7, <3>1, <3>3
    <3> QED
      BY <3>2, <3>3
  <2>8. \A i \in Ids :
          /\ phase'[i] = "committed" => ver'[i] <= version'[agg'[i]]
          /\ phase'[i] = "open" => ver'[i] = version'[agg'[i]] + 1
    BY <2>1
  <2>9. \A i, j \in Ids : i < j /\ Live(i)' /\ Live(j)' /\ agg'[i] = agg'[j]
                           => phase'[i] = "committed" /\ ver'[i] < ver'[j]
    BY <2>7
  <2> QED
    BY <2>5, <2>6, <2>8, <2>9
<1>2. ASSUME NEW i \in Ids, Commit(i) PROVE RowOrder'
  <2>1. /\ phase[i] = "open" /\ phase'[i] = "committed" /\ agg[i] \in Aggregates
        /\ \A j \in Ids : j # i => phase'[j] = phase[j]
        /\ version'[agg[i]] = ver[i] /\ ver[i] = version[agg[i]] + 1
        /\ \A b \in Aggregates : b # agg[i] => version'[b] = version[b]
        /\ UNCHANGED <<nextId, agg, ver>>
    BY <1>2 DEF Commit, RowOrder, TypeOK
  <2>2. \A j \in Ids : ver[j] \in Nat /\ (Live(j)' => Live(j))
    BY <2>1 DEF TypeOK
  <2>3. \A j \in Ids : j >= nextId' => phase'[j] = "free"
    BY <2>1 DEF RowOrder
  <2>4. \A j \in Ids : Live(j)' => agg'[j] \in Aggregates
    BY <2>1, <2>2 DEF RowOrder
  <2>5. \A j, k \in Ids : j < k /\ Live(j)' /\ Live(k)' /\ agg'[j] = agg'[k]
                           => phase'[j] = "committed" /\ ver'[j] < ver'[k]
    BY <2>1, <2>2 DEF RowOrder
  <2>6. ASSUME NEW j \in Ids, phase'[j] = "committed" PROVE ver'[j] <= version'[agg'[j]]
    <3>1. CASE agg[j] = agg[i]
      <4>1. j # i => ver[j] <= version[agg[i]]
        BY <2>1, <2>6, <3>1 DEF RowOrder
      <4>2. version[agg[i]] \in Nat
        BY <2>1 DEF TypeOK
      <4> QED
        BY <2>1, <2>2, <3>1, <4>1, <4>2
    <3>2. CASE agg[j] # agg[i]
      BY <2>1, <2>6, <3>2 DEF RowOrder
    <3> QED
      BY <3>1, <3>2
  <2>7. ASSUME NEW j \in Ids, phase'[j] = "open" PROVE ver'[j] = version'[agg'[j]] + 1
    <3>1. j # i /\ phase[j] = "open" /\ ver[j] = version[agg[j]] + 1
      BY <2>1, <2>7 DEF RowOrder
    <3>2. agg[j] # agg[i]
      <4>1. j \in Int /\ i \in Int
        BY DEF Ids
      <4> QED
        BY <2>1, <3>1, <4>1 DEF RowOrder
    <3>3. agg[j] \in Aggregates
      BY <3>1 DEF RowOrder
    <3> QED
      BY <2>1, <3>1, <3>2, <3>3
  <2> QED
    BY <2>3, <2>4, <2>5, <2>6, <2>7 DEF RowOrder
<1>3. ASSUME NEW i \in Ids, Abort(i) PROVE RowOrder'
  BY <1>3 DEF Abort, RowOrder, TypeOK, Ids
<1>4. ASSUME UNCHANGED table PROVE RowOrder'
  BY <1>4 DEF table, RowOrder
<1>5. ASSUME NEW n \in Nodes, Relay(n) PROVE UNCHANGED table
  BY <1>5 DEF Relay, Acquire, Select, Number, LoopEnds, PutAside, Publish, Bury, Stamp, Release,
     Throw, Restart
<1>6. CASE Fault
  BY <1>4, <1>6 DEF Fault, LoseConnection, Crash, PublishFails
<1> QED
  BY <1>1, <1>2, <1>3, <1>4, <1>5, <1>6 DEF Next, Write, vars

-----------------------------------------------------------------------------
\* Numbering.  The step that matters: the new numbers lie above the old ones and follow ids.
LEMMA NumberEffect ==
  ASSUME IInv, NEW n \in Nodes, Number(n)
  PROVE  /\ \A i \in Ids : feedSeq[i] # 0 => feedSeq'[i] = feedSeq[i]
         /\ \A i \in Ids : feedSeq[i] = 0 /\ feedSeq'[i] # 0 =>
              i \in ToNumber(todo[n]) /\ \A j \in Ids : feedSeq[j] < feedSeq'[i]
         /\ \A i \in ToNumber(todo[n]) : feedSeq[i] = 0 /\ feedSeq'[i] # 0
         /\ \A i, j \in ToNumber(todo[n]) : i < j => feedSeq'[i] < feedSeq'[j]
<1> USE OutboxAssumption DEF IInv
<1> DEFINE S == ToNumber(todo[n])
<1>1. PICK m \in Numbers :
        /\ IsHead(m)
        /\ feedSeq' = [i \in Ids |-> IF i \in S THEN m + Rank(S, i) ELSE feedSeq[i]]
  BY DEF Number
<1>2. m \in Nat /\ S \in SUBSET Ids
  BY DEF Numbers, TypeOK, ToNumber
<1>3. \A i \in S : feedSeq[i] = 0
  BY DEF Number, SelectionSound, ToNumber
<1>4. \A j \in Ids : feedSeq[j] <= m
  BY <1>1, <1>2 DEF IsHead, TypeOK
<1> HIDE DEF S
<1>5. \A i \in S : feedSeq'[i] = m + Rank(S, i) /\ Rank(S, i) \in Nat \ {0}
  BY <1>1, <1>2, RankGrows
<1>6. \A i \in Ids : i \notin S => feedSeq'[i] = feedSeq[i]
  BY <1>1
<1>7. \A i, j \in S : i < j => feedSeq'[i] < feedSeq'[j]
  BY <1>2, <1>5, RankGrows
<1>8. \A i \in S : feedSeq'[i] # 0 /\ \A j \in Ids : feedSeq[j] < feedSeq'[i]
  BY <1>2, <1>4, <1>5 DEF TypeOK
<1> QED
  BY <1>2, <1>3, <1>6, <1>7, <1>8 DEF S

\* Every other step leaves the numbers alone.
LEMMA NumbersUnchanged ==
  ASSUME [Next]_vars
  PROVE  (\E n \in Nodes : Number(n)) \/ UNCHANGED feedSeq
<1>1. ASSUME NEW n \in Nodes, Relay(n) PROVE Number(n) \/ UNCHANGED feedSeq
  BY <1>1 DEF Relay, Acquire, Select, LoopEnds, PutAside, Publish, Bury, Stamp, Release, Throw,
     Restart
<1>2. CASE Fault
  BY <1>2 DEF Fault, LoseConnection, Crash, PublishFails
<1>3. CASE Write
  BY <1>3 DEF Write, Insert, Commit, Abort
<1> QED
  BY <1>1, <1>2, <1>3 DEF Next, vars

\* What a node has selected, accepted and put aside stays sound.
LEMMA SelectionStep == IInv /\ [Next]_vars => SelectionSound'
<1> SUFFICES ASSUME IInv, [Next]_vars PROVE SelectionSound'
  OBVIOUS
<1> USE OutboxAssumption DEF IInv
<1>1. ASSUME NEW a \in Aggregates, Insert(a) PROVE SelectionSound'
  BY <1>1 DEF Insert, SelectionSound, RowOrder, TypeOK, local
<1>2. ASSUME NEW k \in Ids, Commit(k) PROVE SelectionSound'
  <2>1. /\ UNCHANGED <<agg, feedSeq, processed, lock, local, sent>>
        /\ phase[k] = "open" /\ phase'[k] = "committed"
        /\ \A i \in Ids : i # k => phase'[i] = phase[i]
    BY <1>2 DEF Commit, TypeOK
  <2>2. ASSUME NEW j \in Ids, k < j, agg[k] = agg[j] PROVE phase[j] # "committed"
    BY <2>1, <2>2 DEF RowOrder, Live
  <2> QED
    BY <2>1, <2>2 DEF SelectionSound, TypeOK, local
<1>3. ASSUME NEW k \in Ids, Abort(k) PROVE SelectionSound'
  BY <1>3 DEF Abort, SelectionSound, TypeOK, local
<1>4. ASSUME NEW m \in Nodes, Acquire(m) PROVE SelectionSound'
  BY <1>4 DEF Acquire, SelectionSound, TypeOK, table
<1>5. ASSUME NEW m \in Nodes, Select(m) PROVE SelectionSound'
  <2>1. /\ UNCHANGED <<table, feedSeq, processed, lock, done, dead, sent>>
        /\ \A n \in Nodes \ {m} : pc'[n] = pc[n] /\ todo'[n] = todo[n]
    BY <1>5 DEF Select, TypeOK
  <2>2. CASE Pending # {}
    <3>0. pc'[m] = "publish" /\ todo'[m] = FirstBySeq(Pending, Batch)
      BY <1>5, <2>2 DEF Select, TypeOK
    <3>1. pc'[m] = "publish" /\ \A i \in todo'[m] : feedSeq[i] # 0
      BY <3>0 DEF FirstBySeq, Pending
    <3> QED
      BY <2>1, <3>1 DEF SelectionSound, table
  <2>3. CASE Pending = {}
    <3>1. pc'[m] = "number" /\ todo'[m] = FirstById(Unprocessed, Batch)
      BY <1>5, <2>3 DEF Select, TypeOK
    <3>2. Unprocessed \in SUBSET Ids
      BY DEF Unprocessed
    <3>3. \A j \in todo'[m] : j \in Unprocessed /\ feedSeq[j] = 0
      BY <2>3, <3>1 DEF FirstById, Pending
    <3>4. \A j \in todo'[m] : \A i \in Unprocessed : i < j => i \in todo'[m]
      BY <3>1, <3>2, FirstByIdClosed
    <3>5. \A j \in todo'[m] :
            /\ phase[j] = "committed" /\ feedSeq[j] = 0
            /\ \A i \in Ids : i < j /\ agg[i] = agg[j] /\ phase[i] = "committed"
                                => i \in todo'[m] \/ processed[i] # "no"
      BY <3>3, <3>4 DEF Unprocessed
    <3> QED
      BY <2>1, <3>1, <3>5 DEF SelectionSound, table
  <2> QED
    BY <2>2, <2>3
<1>6. ASSUME NEW m \in Nodes, Number(m) PROVE SelectionSound'
  <2>1. /\ UNCHANGED <<table, processed, lock, todo, done, dead, sent>>
        /\ lock = m /\ pc'[m] = "publish"
        /\ \A n \in Nodes \ {m} : pc'[n] = pc[n]
    BY <1>6 DEF Number, TypeOK
  <2>2. \A i \in Ids : feedSeq[i] # 0 \/ i \in ToNumber(todo[m]) => feedSeq'[i] # 0
    BY <1>6, NumberEffect
  <2>3. \A n \in Nodes : todo[n] \subseteq Ids /\ done[n] \subseteq Ids
    BY DEF TypeOK
  <2> QED
    BY <2>1, <2>2, <2>3 DEF SelectionSound, table, ToNumber
<1>7. ASSUME NEW m \in Nodes, LoopEnds(m) \/ Release(m) \/ Restart(m) PROVE SelectionSound'
  BY <1>7 DEF LoopEnds, Release, Restart, SelectionSound, TypeOK, table
<1>8. ASSUME NEW m \in Nodes, Throw(m) PROVE SelectionSound'
  BY <1>8 DEF Throw, SelectionSound, TypeOK, table
<1>9. ASSUME NEW m \in Nodes, Crash(m) PROVE SelectionSound'
  BY <1>9 DEF Crash, SelectionSound, TypeOK, table
<1>10. ASSUME NEW m \in Nodes, Stamp(m) PROVE SelectionSound'
  BY <1>10 DEF Stamp, SelectionSound, TypeOK, table
<1>11. ASSUME NEW m \in Nodes, NEW k \in Ids, PutAside(m, k) PROVE SelectionSound'
  BY <1>11 DEF PutAside, IsNext, SelectionSound, TypeOK, table
<1>12. ASSUME NEW m \in Nodes, NEW k \in Ids, Publish(m, k) PROVE SelectionSound'
  BY <1>12 DEF Publish, IsNext, SelectionSound, TypeOK, table
<1>13. ASSUME NEW m \in Nodes, NEW k \in Ids, PublishFails(m, k) PROVE SelectionSound'
  BY <1>13 DEF PublishFails, SelectionSound, TypeOK, table
<1>14. ASSUME NEW m \in Nodes, NEW k \in Ids, Bury(m, k) PROVE SelectionSound'
  BY <1>14 DEF Bury, SelectionSound, TypeOK, table
<1>15. CASE LoseConnection
  BY <1>15 DEF LoseConnection, SelectionSound, TypeOK, table, local
<1>16. CASE UNCHANGED vars
  BY <1>16 DEF vars, SelectionSound, table, local
<1> QED
  BY <1>1, <1>2, <1>3, <1>4, <1>5, <1>6, <1>7, <1>8, <1>9, <1>10, <1>11, <1>12, <1>13, <1>14,
     <1>15, <1>16 DEF Next, Write, Relay, Fault

\* Numbers stay unique, in id order within an aggregate, and without omissions.
LEMMA NumberingStep == IInv /\ [Next]_vars => NumberingSound'
<1> SUFFICES ASSUME IInv, [Next]_vars PROVE NumberingSound'
  OBVIOUS
<1> USE OutboxAssumption DEF IInv
<1>1. ASSUME NEW n \in Nodes, Number(n) PROVE NumberingSound'
  <2> DEFINE S == ToNumber(todo[n])
  <2>1. UNCHANGED <<table, processed, sent>>
    BY <1>1 DEF Number
  <2>2. /\ \A i \in Ids : feedSeq[i] # 0 => feedSeq'[i] = feedSeq[i]
        /\ \A i \in Ids : feedSeq[i] = 0 /\ feedSeq'[i] # 0 =>
             i \in S /\ \A j \in Ids : feedSeq[j] < feedSeq'[i]
        /\ \A i \in S : feedSeq[i] = 0 /\ feedSeq'[i] # 0
        /\ \A i, j \in S : i < j => feedSeq'[i] < feedSeq'[j]
    BY <1>1, NumberEffect
  <2>3. \A j \in S : \A i \in Ids :
          i < j /\ agg[i] = agg[j] /\ phase[i] = "committed" /\ Parses(i)
            => i \in S \/ feedSeq[i] # 0
    BY <1>1 DEF Number, SelectionSound, NumberingSound, ToNumber, TypeOK
  <2>4. feedSeq \in [Ids -> Nat] /\ feedSeq' \in [Ids -> Nat] /\ S \subseteq Ids
    BY TypeStep DEF TypeOK, ToNumber
  <2> HIDE DEF S
  <2>5. ASSUME NEW i \in Ids, NEW j \in Ids, i < j, feedSeq'[i] # 0
        PROVE  feedSeq'[i] # feedSeq'[j]
    <3>1. CASE i \in S /\ j \in S
      BY <2>2, <2>4, <2>5, <3>1
    <3>2. CASE i \notin S \/ j \notin S
      BY <2>2, <2>4, <2>5, <3>2 DEF NumberingSound, Ids
    <3> QED
      BY <3>1, <3>2
  <2>6. ASSUME NEW i \in Ids, NEW j \in Ids, i < j, agg[i] = agg[j],
               feedSeq'[i] # 0, feedSeq'[j] # 0
        PROVE  feedSeq'[i] < feedSeq'[j]
    <3>1. CASE i \in S /\ j \in S
      BY <2>2, <2>6, <3>1
    <3>2. CASE i \notin S /\ j \in S
      BY <2>2, <2>6, <3>2
    <3>3. CASE i \in S /\ j \notin S
      <4>1. feedSeq[j] # 0 /\ feedSeq[i] = 0
        BY <2>2, <2>6, <3>3
      <4>2. phase[i] = "committed" /\ Parses(i)
        BY <2>6, <2>1, TypeStep DEF TypeOK, table
      <4> QED
        BY <4>1, <4>2, <2>6 DEF NumberingSound
    <3>4. CASE i \notin S /\ j \notin S
      BY <2>2, <2>6, <3>4 DEF NumberingSound
    <3> QED
      BY <3>1, <3>2, <3>3, <3>4
  <2>7. ASSUME NEW i \in Ids, NEW j \in Ids, i < j, agg[i] = agg[j],
               feedSeq'[j] # 0, phase[i] = "committed", Parses(i)
        PROVE  feedSeq'[i] # 0
    BY <2>2, <2>3, <2>4, <2>7 DEF NumberingSound
  <2>8. \A i, j \in Ids : i # j /\ feedSeq'[i] # 0 => feedSeq'[i] # feedSeq'[j]
    BY <2>4, <2>5 DEF Ids
  <2>9. \A i \in Ids : processed[i] = "published" => feedSeq'[i] # 0 /\ i \in sent
    BY <2>2 DEF NumberingSound
  <2> QED
    BY <2>1, <2>6, <2>7, <2>8, <2>9 DEF NumberingSound, table
<1>2. ASSUME NEW k \in Ids, Commit(k) PROVE NumberingSound'
  <2>1. /\ UNCHANGED <<agg, feedSeq, processed, sent>>
        /\ phase[k] = "open" /\ \A i \in Ids : i # k => phase'[i] = phase[i]
    BY <1>2 DEF Commit, TypeOK
  <2>2. ASSUME NEW j \in Ids, k < j, agg[k] = agg[j] PROVE feedSeq[j] = 0
    BY <2>1, <2>2 DEF RowOrder, Live, TypeOK
  <2> QED
    BY <2>1, <2>2 DEF NumberingSound
<1>3. ASSUME NEW a \in Aggregates, Insert(a) PROVE NumberingSound'
  <2>1. /\ UNCHANGED <<feedSeq, processed, sent>>
        /\ feedSeq[nextId] = 0 /\ phase'[nextId] # "committed"
        /\ \A i \in Ids : i # nextId => phase'[i] = phase[i] /\ agg'[i] = agg[i]
    BY <1>3 DEF Insert, TypeOK, RowOrder
  <2> QED
    BY <2>1 DEF NumberingSound
<1>4. ASSUME NEW k \in Ids, Abort(k) PROVE NumberingSound'
  BY <1>4 DEF Abort, NumberingSound, TypeOK
<1>5. ASSUME UNCHANGED <<table, feedSeq, processed>>, sent \subseteq sent' PROVE NumberingSound'
  BY <1>5 DEF NumberingSound, table
<1>6. ASSUME NEW n \in Nodes, Stamp(n) PROVE NumberingSound'
  BY <1>6 DEF Stamp, Acknowledged, NumberingSound, SelectionSound, TypeOK, table
<1>7. ASSUME NEW n \in Nodes, NEW k \in Ids, Bury(n, k) PROVE NumberingSound'
  BY <1>7 DEF Bury, NumberingSound, SelectionSound, TypeOK, table
<1>8. ASSUME NEW n \in Nodes, Relay(n)
      PROVE  \/ Number(n) \/ Stamp(n) \/ \E k \in Ids : Bury(n, k)
             \/ UNCHANGED <<table, feedSeq, processed>> /\ sent \subseteq sent'
  BY <1>8 DEF Relay, Acquire, Select, LoopEnds, PutAside, Publish, Release, Throw, Restart
<1>9. CASE Fault
  BY <1>5, <1>9 DEF Fault, LoseConnection, Crash, PublishFails
<1> QED
  BY <1>1, <1>2, <1>3, <1>4, <1>5, <1>6, <1>7, <1>8, <1>9 DEF Next, Write, vars

\* The strengthened invariant holds in every reachable state.
LEMMA Invariant == Spec => []IInv
<1>1. IInv /\ [Next]_vars => IInv'
  BY TypeStep, RowOrderStep, SelectionStep, NumberingStep DEF IInv
<1> QED
  BY InitInv, <1>1, PTL DEF Spec

-----------------------------------------------------------------------------
(* Theorems *)

\* Every variable keeps its type, and no number is given to a row that is uncommitted or that
\* clients could not parse.
THEOREM TypeCorrect == Spec => []TypeOK
<1>1. IInv => TypeOK
  BY DEF IInv
<1> QED
  BY <1>1, Invariant, PTL

\* Unique numbers that follow ids follow versions too.
LEMMA FeedOrdered == IInv => FeedOrder
<1> SUFFICES ASSUME IInv, NEW i \in Ids, NEW j \in Ids, i # j, feedSeq[i] # 0, feedSeq[j] # 0
             PROVE  /\ feedSeq[i] # feedSeq[j]
                    /\ agg[i] = agg[j] => (feedSeq[i] < feedSeq[j] <=> ver[i] < ver[j])
  BY DEF FeedOrder
<1> USE OutboxAssumption DEF IInv, TypeOK, Ids
<1>1. phase[i] = "committed" /\ phase[j] = "committed"
  OBVIOUS
<1>2. feedSeq[i] # feedSeq[j]
  BY DEF NumberingSound
<1>3. CASE i < j
  BY <1>1, <1>2, <1>3 DEF NumberingSound, RowOrder, Live
<1>4. CASE j < i
  BY <1>1, <1>2, <1>4 DEF NumberingSound, RowOrder, Live
<1> QED
  BY <1>3, <1>4

\* Feed numbers are unique and follow aggregate versions (drain: numbering oldest id first),
\* for any number of relays, crashes, lost locks and failed publications.
THEOREM FeedInVersionOrder == Spec => []FeedOrder
  BY FeedOrdered, Invariant, PTL

\* At least once: only rows that were on the bus are stamped as published (drain: done), and
\* only rows that can never be parsed are dead-lettered.
THEOREM StampedOnlyAfterSending == Spec => []StampedWasSent
<1>1. IInv => StampedWasSent
  BY DEF IInv, NumberingSound, StampedWasSent
<1> QED
  BY <1>1, Invariant, PTL

\* The feed is append-only: no number is ever changed, and a new one is above all others, so
\* nothing ever appears below a cursor (feedHead, changesSince).
THEOREM FeedIsAppendOnly == Spec => FeedAppendOnly
<1>1. IInv /\ [Next]_vars =>
        [\A i \in Ids :
           /\ feedSeq[i] # 0 => feedSeq'[i] = feedSeq[i]
           /\ feedSeq[i] = 0 /\ feedSeq'[i] # 0 => \A j \in Ids : feedSeq[j] < feedSeq'[i]]_vars
  BY NumbersUnchanged, NumberEffect
<1> QED
  BY <1>1, Invariant, PTL DEF Spec, FeedAppendOnly

-----------------------------------------------------------------------------
(* First deliveries.  A row numbered below one that a node is about to publish was published *)
(* before or is still in the node's selection; while new rows are being numbered everything  *)
(* that has a number was published.                                                          *)

DeliverySound ==
  /\ \A i \in sent : feedSeq[i] # 0
  /\ FirstDeliveryInOrder
  /\ \A n \in Nodes :
       /\ pc[n] = "publish" =>
            \A i \in todo[n] : \A j \in Ids :
              feedSeq[j] # 0 /\ feedSeq[j] < feedSeq[i] => j \in sent \cup todo[n]
       /\ pc[n] = "number" /\ lock = n => \A j \in Ids : feedSeq[j] # 0 => j \in sent

\* A selection by feedSeq holds, with a row, every candidate numbered below it.
LEMMA FirstBySeqClosed ==
  ASSUME TypeOK, NEW S \in SUBSET Ids, NEW j \in FirstBySeq(S, Batch), NEW i \in S,
         feedSeq[i] < feedSeq[j]
  PROVE  i \in FirstBySeq(S, Batch)
<1> DEFINE Below(k) == {l \in S : feedSeq[l] < feedSeq[k]}
<1>1. IsFiniteSet(Ids)
  BY OutboxAssumption, FS_Interval DEF Ids
<1>2. \A k \in S : IsFiniteSet(Below(k)) /\ Cardinality(Below(k)) \in Nat
  BY <1>1, FS_Subset, FS_CardinalityType
<1>3. j \in S /\ Cardinality(Below(j)) < Batch
  BY DEF FirstBySeq
<1>4. Below(i) \subseteq Below(j)
  <2>1. \A k \in S : feedSeq[k] \in Int
    BY DEF TypeOK
  <2> QED
    BY <1>3, <2>1
<1>5. Cardinality(Below(i)) <= Cardinality(Below(j))
  <2> HIDE DEF Below
  <2> QED
    BY <1>2, <1>3, <1>4, FS_Subset
<1> QED
  BY <1>2, <1>3, <1>5, OutboxAssumption DEF FirstBySeq

\* At the start nothing is numbered, let alone delivered.
LEMMA DeliveryInit == Init => DeliverySound
  BY DEF Init, DeliverySound, FirstDeliveryInOrder

\* A numbered row that is no longer unprocessed was published.
LEMMA NumberedIsPendingOrSent ==
  ASSUME IInv, NEW j \in Ids, feedSeq[j] # 0
  PROVE  j \in Pending \/ j \in sent
  BY DEF IInv, TypeOK, NumberingSound, Pending, Unprocessed

\* No step delivers a row for the first time after a later one.
LEMMA DeliveryStep == IInv /\ DeliverySound /\ [Next]_vars => DeliverySound'
<1> SUFFICES ASSUME IInv, DeliverySound, [Next]_vars PROVE DeliverySound'
  OBVIOUS
<1> USE OutboxAssumption DEF FirstDeliveryInOrder
<1>0. TypeOK
  BY DEF IInv
<1>1. ASSUME NEW m \in Nodes, Select(m) PROVE DeliverySound'
  <2>1. /\ UNCHANGED <<feedSeq, lock, sent>>
        /\ \A n \in Nodes \ {m} : pc'[n] = pc[n] /\ todo'[n] = todo[n]
    BY <1>0, <1>1 DEF Select, TypeOK
  <2>2. CASE Pending # {}
    <3>1. pc'[m] = "publish" /\ todo'[m] = FirstBySeq(Pending, Batch)
      BY <1>0, <1>1, <2>2 DEF Select, TypeOK
    <3>2. Pending \in SUBSET Ids
      BY DEF Pending, Unprocessed
    <3>3. ASSUME NEW i \in todo'[m], NEW j \in Ids, feedSeq[j] # 0, feedSeq[j] < feedSeq[i]
          PROVE  j \in sent \cup todo'[m]
      BY <1>0, <3>1, <3>2, <3>3, NumberedIsPendingOrSent, FirstBySeqClosed
    <3> QED
      BY <2>1, <3>1, <3>3 DEF DeliverySound
  <2>3. CASE Pending = {}
    <3>1. pc'[m] = "number"
      BY <1>0, <1>1, <2>3 DEF Select, TypeOK
    <3>2. \A j \in Ids : feedSeq[j] # 0 => j \in sent
      BY <2>3, NumberedIsPendingOrSent
    <3> QED
      BY <2>1, <3>1, <3>2 DEF DeliverySound
  <2> QED
    BY <2>2, <2>3
<1>2. ASSUME NEW m \in Nodes, Number(m) PROVE DeliverySound'
  <2>1. /\ UNCHANGED <<todo, lock, sent>>
        /\ lock = m /\ pc[m] = "number" /\ pc'[m] = "publish"
        /\ \A n \in Nodes \ {m} : pc'[n] = pc[n]
    BY <1>0, <1>2 DEF Number, TypeOK
  <2>2. /\ \A i \in Ids : feedSeq[i] # 0 => feedSeq'[i] = feedSeq[i]
        /\ \A i \in Ids : feedSeq[i] = 0 /\ feedSeq'[i] # 0 =>
             i \in ToNumber(todo[m]) /\ \A j \in Ids : feedSeq[j] < feedSeq'[i]
    BY <1>2, NumberEffect
  <2>3. /\ feedSeq \in [Ids -> Nat] /\ feedSeq' \in [Ids -> Nat] /\ sent \subseteq Ids
        /\ \A n \in Nodes : todo[n] \subseteq Ids
    BY TypeStep, <1>0 DEF TypeOK
  <2>4. \A j \in Ids : feedSeq[j] # 0 => j \in sent
    BY <2>1 DEF DeliverySound
  <2>5. \A i \in sent : feedSeq'[i] # 0 /\ feedSeq'[i] = feedSeq[i]
    BY <2>2, <2>3 DEF DeliverySound
  <2>6. \A i \in sent : \A j \in Ids : feedSeq'[j] # 0 /\ feedSeq'[j] < feedSeq'[i] => j \in sent
    <3> SUFFICES ASSUME NEW i \in sent, NEW j \in Ids, feedSeq'[j] # 0, feedSeq'[j] < feedSeq'[i],
                        feedSeq[j] = 0
                 PROVE  FALSE
      BY <2>4
    <3> QED
      BY <2>2, <2>3, <2>5
  <2>7. \A j \in Ids : feedSeq'[j] # 0 => j \in sent \cup todo[m]
    BY <2>2, <2>4 DEF ToNumber
  <2>8. ASSUME NEW n \in Nodes \ {m}, pc[n] = "publish", NEW i \in todo[n], NEW j \in Ids,
               feedSeq'[j] # 0, feedSeq'[j] < feedSeq'[i]
        PROVE  j \in sent \cup todo[n]
    <3>1. CASE Parses(i)
      <4>1. feedSeq[i] # 0 /\ i \in Ids
        BY <2>3, <2>8, <3>1 DEF IInv, SelectionSound
      <4>2. feedSeq[j] # 0
        BY <2>2, <2>3, <2>8, <4>1
      <4> QED
        BY <2>4, <4>2
    <3>2. CASE ~Parses(i)
      <4>1. i \in Ids /\ feedSeq[i] = 0
        BY <1>0, <2>3, <3>2 DEF TypeOK
      <4>2. feedSeq'[i] = 0
        BY <2>2, <3>2, <4>1 DEF ToNumber
      <4> QED
        BY <2>3, <2>8, <4>2
    <3> QED
      BY <3>1, <3>2
  <2> QED
    BY <2>1, <2>5, <2>6, <2>7, <2>8 DEF DeliverySound
<1>3. ASSUME NEW m \in Nodes, NEW k \in Ids, Publish(m, k) \/ PublishFails(m, k)
      PROVE  DeliverySound'
  <2>1. /\ UNCHANGED <<feedSeq, lock>>
        /\ pc[m] = "publish" /\ IsNext(m, k) /\ Parses(k) /\ pc'[m] \in {"publish", "stamp"}
        /\ sent' \in {sent, sent \cup {k}}
        /\ pc'[m] = "publish" => sent' = sent \cup {k} /\ todo'[m] = todo[m] \ {k}
        /\ \A n \in Nodes \ {m} : pc'[n] = pc[n] /\ todo'[n] = todo[n]
    BY <1>0, <1>3 DEF Publish, PublishFails, TypeOK
  <2>2. feedSeq[k] # 0 /\ k \in todo[m]
    BY <2>1 DEF IInv, SelectionSound, IsNext
  <2>3. \A j \in Ids : feedSeq[j] # 0 /\ feedSeq[j] < feedSeq[k] => j \in sent
    <3> SUFFICES ASSUME NEW j \in Ids, feedSeq[j] # 0, feedSeq[j] < feedSeq[k], j \in todo[m]
                 PROVE  FALSE
      BY <2>1, <2>2 DEF DeliverySound
    <3>1. j # k /\ feedSeq[k] < feedSeq[j]
      BY <1>0, <2>1, <2>2 DEF IsNext, Before, TypeOK
    <3> QED
      BY <1>0, <3>1 DEF TypeOK
  <2> QED
    BY <2>1, <2>2, <2>3 DEF DeliverySound
<1>4. ASSUME NEW m \in Nodes, NEW k \in Ids, PutAside(m, k) PROVE DeliverySound'
  <2>1. /\ UNCHANGED <<feedSeq, lock, sent, pc>>
        /\ ~Parses(k) /\ pc[m] = "publish" /\ todo'[m] = todo[m] \ {k}
        /\ \A n \in Nodes \ {m} : todo'[n] = todo[n]
    BY <1>0, <1>4 DEF PutAside, TypeOK
  <2>2. feedSeq[k] = 0
    BY <1>0, <2>1 DEF TypeOK
  <2> QED
    BY <2>1, <2>2 DEF DeliverySound
<1>5. ASSUME UNCHANGED <<feedSeq, lock, sent, pc, todo>> PROVE DeliverySound'
  BY <1>5 DEF DeliverySound
<1>6. ASSUME NEW m \in Nodes, UNCHANGED <<feedSeq, sent>>, pc'[m] \notin {"publish", "number"},
             lock' \in {lock, m, NoNode},
             \A n \in Nodes \ {m} : pc'[n] = pc[n] /\ todo'[n] = todo[n]
      PROVE  DeliverySound'
  BY <1>6 DEF DeliverySound
<1>7. ASSUME NEW m \in Nodes,
             Acquire(m) \/ LoopEnds(m) \/ Stamp(m) \/ Release(m) \/ Throw(m) \/ Restart(m) \/ Crash(m)
      PROVE  DeliverySound'
  <2>1. UNCHANGED <<feedSeq, sent>>
    BY <1>7 DEF Acquire, LoopEnds, Stamp, Release, Throw, Restart, Crash
  <2>2. pc'[m] \in {"select", "stamp", "bury", "idle", "down"} /\ lock' \in {lock, m, NoNode}
    BY <1>0, <1>7 DEF Acquire, LoopEnds, Stamp, Release, Throw, Restart, Crash, TypeOK
  <2>3. \A n \in Nodes \ {m} : pc'[n] = pc[n] /\ todo'[n] = todo[n]
    BY <1>0, <1>7 DEF Acquire, LoopEnds, Stamp, Release, Throw, Restart, Crash, TypeOK
  <2> QED
    BY <1>6, <2>1, <2>2, <2>3
<1>8. CASE LoseConnection
  BY <1>8 DEF LoseConnection, DeliverySound, local
<1>9. CASE Write
  BY <1>5, <1>9 DEF Write, Insert, Commit, Abort, local
<1>10. ASSUME NEW m \in Nodes, NEW k \in Ids, Bury(m, k) PROVE DeliverySound'
  BY <1>5, <1>10 DEF Bury
<1>11. CASE UNCHANGED vars
  BY <1>5, <1>11 DEF vars, local
<1> QED
  BY <1>1, <1>2, <1>3, <1>4, <1>7, <1>8, <1>9, <1>10, <1>11 DEF Next, Relay, Fault

\* A row reaches the transport for the first time only after every row numbered below it
\* (drain: pending rows first, publish in feedSeq order, stop at the first failure), also
\* while a node that lost GET_LOCK is still publishing its old selection.
THEOREM DeliversInFeedOrder == Spec => []FirstDeliveryInOrder
<1>1. Init => DeliverySound
  BY DeliveryInit
<1>2. IInv /\ DeliverySound /\ [Next]_vars => DeliverySound'
  BY DeliveryStep
<1>3. DeliverySound => FirstDeliveryInOrder
  BY DEF DeliverySound
<1> QED
  BY <1>1, <1>2, <1>3, Invariant, PTL DEF Spec

-----------------------------------------------------------------------------
(* The refinement of ChangeFeed.  Two things have to be known of the table as a whole:       *)
(* numbers leave no gap, and neither do the versions of an aggregate.                        *)

Dense ==
  /\ \A i \in Ids : feedSeq[i] <= Cardinality(Numbered)
  /\ \A i \in Ids : phase[i] = "committed" => ver[i] # 0
  /\ \A a \in Aggregates : \A v \in 1..version[a] :
       \E i \in Ids : phase[i] = "committed" /\ agg[i] = a /\ ver[i] = v

\* A table has finitely many rows.
LEMMA IdsFinite == IsFiniteSet(Ids) /\ \A S \in SUBSET Ids : IsFiniteSet(S) /\ Cardinality(S) \in Nat
<1>1. IsFiniteSet(Ids)
  BY OutboxAssumption, FS_Interval DEF Ids
<1>2. \A S \in SUBSET Ids : IsFiniteSet(S)
  BY <1>1, FS_Subset
<1> QED
  BY <1>1, <1>2, FS_CardinalityType

\* So has the feed.
LEMMA NumberedCount == Numbered \in SUBSET Ids /\ IsFiniteSet(Numbered) /\ Cardinality(Numbered) \in Nat
  BY IdsFinite DEF Numbered

\* The values of a function that is injective on a set are as many as its members.
LEMMA ImageCount ==
  ASSUME NEW S, IsFiniteSet(S), NEW f, \A x, y \in S : f[x] = f[y] => x = y
  PROVE  /\ IsFiniteSet({f[x] : x \in S})
         /\ Cardinality({f[x] : x \in S}) = Cardinality(S)
<1> DEFINE T == {f[x] : x \in S}
           g == [x \in S |-> f[x]]
<1>1. g \in Bijection(S, T)
  <2>1. g \in [S -> T]
    OBVIOUS
  <2>2. \A x, y \in S : g[x] = g[y] => x = y
    OBVIOUS
  <2>3. \A t \in T : \E x \in S : g[x] = t
    OBVIOUS
  <2> HIDE DEF g, T
  <2> QED
    BY <2>1, <2>2, <2>3 DEF Bijection, Injection, Surjection, IsInjective
<1> HIDE DEF g, T
<1>2. ExistsBijection(S, T)
  BY <1>1 DEF ExistsBijection
<1> QED
  BY <1>2, FS_Bijection DEF T

\* Distinct rows have distinct ranks, so that the ranks of a selection are 1, 2, ... up to its size.
LEMMA RankBounded ==
  ASSUME NEW S \in SUBSET Ids, NEW i \in S
  PROVE  Rank(S, i) \in 1..Cardinality(S)
<1>1. {j \in S : j <= i} \in SUBSET S /\ IsFiniteSet(S) /\ Cardinality(S) \in Nat
  BY IdsFinite
<1>2. Rank(S, i) <= Cardinality(S)
  BY <1>1, FS_Subset DEF Rank
<1> QED
  BY <1>1, <1>2, RankGrows

\* A number belongs to one row.
LEMMA RowAtNumber ==
  ASSUME TypeOK, NumberingSound, NEW j \in Numbered
  PROVE  RowAt(feedSeq[j]) = j
  BY DEF RowAt, NumberingSound, Numbered

\* Every number up to the count of numbered rows is given.
LEMMA NumbersWithoutGap ==
  ASSUME TypeOK, NumberingSound, Dense, NEW m \in 1..Cardinality(Numbered)
  PROVE  RowAt(m) \in Numbered /\ feedSeq[RowAt(m)] = m
<1> DEFINE T == {feedSeq[j] : j \in Numbered}
<1>1. \A x, y \in Numbered : feedSeq[x] = feedSeq[y] => x = y
  BY DEF NumberingSound, Numbered
<1>2. IsFiniteSet(T) /\ Cardinality(T) = Cardinality(Numbered)
  BY <1>1, NumberedCount, ImageCount
<1>3. T \in SUBSET (1..Cardinality(Numbered))
  <2> SUFFICES ASSUME NEW j \in Numbered PROVE feedSeq[j] \in 1..Cardinality(Numbered)
    OBVIOUS
  <2> QED
    BY NumberedCount DEF Dense, Numbered, TypeOK
<1>4. IsFiniteSet(1..Cardinality(Numbered))
      /\ Cardinality(1..Cardinality(Numbered)) = Cardinality(Numbered)
  BY NumberedCount, FS_Interval
<1> HIDE DEF T
<1>5. T = 1..Cardinality(Numbered)
  BY <1>2, <1>3, <1>4, FS_Subset
<1>6. PICK j \in Numbered : feedSeq[j] = m
  BY <1>5 DEF T
<1> QED
  BY <1>6, RowAtNumber

\* The feed is a sequence of events, as long as there are numbered rows.
LEMMA FeedLength ==
  ASSUME TypeOK, NumberingSound, Dense
  PROVE  /\ NumberedEvents \in Seq(CommittedEvents)
         /\ Len(NumberedEvents) = Cardinality(Numbered)
         /\ \A m \in 1..Cardinality(Numbered) : NumberedEvents[m] = <<agg[RowAt(m)], ver[RowAt(m)]>>
<1> DEFINE N == Cardinality(Numbered)
<1>1. N \in Nat
  BY NumberedCount
<1>2. \A m \in 1..N : <<agg[RowAt(m)], ver[RowAt(m)]>> \in CommittedEvents
  BY NumbersWithoutGap DEF CommittedEvents, TypeOK, Numbered
<1>3. NumberedEvents \in [1..N -> CommittedEvents]
      /\ \A m \in 1..N : NumberedEvents[m] = <<agg[RowAt(m)], ver[RowAt(m)]>>
  BY <1>2 DEF NumberedEvents
<1> HIDE DEF N
<1>4. NumberedEvents \in Seq(CommittedEvents)
  BY <1>1, <1>3, SeqDef
<1>5. DOMAIN NumberedEvents = 1..N /\ DOMAIN NumberedEvents = 1..Len(NumberedEvents)
      /\ Len(NumberedEvents) \in Nat
  BY <1>3, <1>4, LenProperties
<1>6. Len(NumberedEvents) = N
  BY <1>1, <1>5
<1> QED
  BY <1>3, <1>4, <1>6 DEF N

-----------------------------------------------------------------------------
(* Density is kept *)

\* What one UPDATE adds to the numbered rows.
LEMMA NumberCounts ==
  ASSUME IInv, Dense, NEW n \in Nodes, Number(n)
  PROVE  /\ Numbered' = Numbered \cup ToNumber(todo[n])
         /\ ToNumber(todo[n]) \subseteq Ids /\ Numbered \cap ToNumber(todo[n]) = {}
         /\ Cardinality(Numbered') = Cardinality(Numbered) + Cardinality(ToNumber(todo[n]))
         /\ \A i \in Ids : feedSeq'[i] <= Cardinality(Numbered')
<1> DEFINE S == ToNumber(todo[n])
<1>1. TypeOK /\ S \in SUBSET Ids /\ IsFiniteSet(S) /\ Cardinality(S) \in Nat
  BY IdsFinite DEF IInv, TypeOK, ToNumber
<1>2. /\ \A i \in Ids : feedSeq[i] # 0 => feedSeq'[i] = feedSeq[i]
      /\ \A i \in Ids : feedSeq[i] = 0 /\ feedSeq'[i] # 0 => i \in S
      /\ \A i \in S : feedSeq[i] = 0 /\ feedSeq'[i] # 0
  BY NumberEffect
<1>3. PICK m \in Numbers :
        feedSeq' = [i \in Ids |-> IF i \in S THEN m + Rank(S, i) ELSE feedSeq[i]]
  BY DEF Number
<1> HIDE DEF S
<1>4. Numbered' = Numbered \cup S /\ Numbered \cap S = {}
  BY <1>1, <1>2 DEF Numbered
<1>5. Cardinality(Numbered') = Cardinality(Numbered) + Cardinality(S)
  <2>1. Cardinality(Numbered \cap S) = 0
    BY <1>4, FS_EmptySet
  <2>2. Cardinality(Numbered \cup S) = Cardinality(Numbered) + Cardinality(S) - Cardinality(Numbered \cap S)
    BY <1>1, NumberedCount, FS_Union
  <2> QED
    BY <1>1, <1>4, <2>1, <2>2, NumberedCount
<1>6. m \in Nat /\ m <= Cardinality(Numbered)
  BY <1>1, <1>3, NumberedCount DEF Numbers, Dense, TypeOK
<1>7. \A i \in Ids : feedSeq'[i] <= Cardinality(Numbered')
  <2> SUFFICES ASSUME NEW i \in Ids PROVE feedSeq'[i] <= Cardinality(Numbered) + Cardinality(S)
    BY <1>5
  <2>1. CASE i \in S
    <3>1. Rank(S, i) \in 1..Cardinality(S)
      BY <1>1, <2>1, RankBounded
    <3>2. feedSeq'[i] = m + Rank(S, i)
      BY <1>3, <2>1
    <3> QED
      BY <1>1, <1>6, <3>1, <3>2, NumberedCount
  <2>2. CASE i \notin S
    <3>1. feedSeq'[i] = feedSeq[i] /\ feedSeq[i] \in Nat /\ feedSeq[i] <= Cardinality(Numbered)
      BY <1>1, <1>3, <2>2 DEF Dense, TypeOK
    <3> QED
      BY <1>1, <3>1, NumberedCount
  <2> QED
    BY <2>1, <2>2
<1> QED
  BY <1>1, <1>4, <1>5, <1>7 DEF S

\* What changes nothing of the table but rows that no reader sees.
Unseen ==
  /\ UNCHANGED <<version, feedSeq>>
  /\ \A i \in Ids : phase'[i] = "committed" <=> phase[i] = "committed"
  /\ \A i \in Ids : phase[i] = "committed" => agg'[i] = agg[i] /\ ver'[i] = ver[i]

\* Only a commit and an UPDATE of feedSeq are seen by readers of the table.
LEMMA WhatIsSeen ==
  ASSUME IInv, [Next]_vars
  PROVE  Unseen \/ (\E i \in Ids : Commit(i)) \/ (\E n \in Nodes : Number(n))
<1>1. CASE UNCHANGED <<table, feedSeq>>
  BY <1>1 DEF Unseen, table
<1>2. ASSUME NEW a \in Aggregates, Insert(a) PROVE Unseen
  <2>1. UNCHANGED <<version, feedSeq>> /\ phase[nextId] = "free" /\ phase'[nextId] = "open"
        /\ \A i \in Ids : i # nextId => phase'[i] = phase[i] /\ agg'[i] = agg[i] /\ ver'[i] = ver[i]
    BY <1>2 DEF Insert, IInv, TypeOK, RowOrder
  <2> QED
    BY <2>1 DEF Unseen
<1>3. ASSUME NEW i \in Ids, Abort(i) PROVE Unseen
  BY <1>3 DEF Abort, Unseen, IInv, TypeOK
<1>4. ASSUME NEW n \in Nodes, Relay(n) PROVE Number(n) \/ UNCHANGED <<table, feedSeq>>
  BY <1>4 DEF Relay, Acquire, Select, LoopEnds, PutAside, Publish, Bury, Stamp, Release,
     Throw, Restart
<1>5. Fault => UNCHANGED <<table, feedSeq>>
  BY DEF Fault, LoseConnection, Crash, PublishFails
<1> QED
  BY <1>1, <1>2, <1>3, <1>4, <1>5 DEF Next, Write, vars

\* A commit makes the next version of its aggregate visible.
LEMMA CommitEffect ==
  ASSUME IInv, NEW k \in Ids, Commit(k)
  PROVE  /\ agg[k] \in Aggregates /\ ver[k] = version[agg[k]] + 1
         /\ phase[k] = "open" /\ phase'[k] = "committed"
         /\ UNCHANGED <<agg, ver, feedSeq, sent>>
         /\ \A i \in Ids \ {k} : phase'[i] = phase[i]
         /\ version'[agg[k]] = ver[k]
         /\ \A a \in Aggregates \ {agg[k]} : version'[a] = version[a]
<1>1. phase[k] = "open" /\ agg[k] \in Aggregates /\ ver[k] = version[agg[k]] + 1
  BY DEF Commit, IInv, RowOrder, Live
<1> QED
  BY <1>1 DEF Commit, IInv, TypeOK

\* At the start there is neither a number nor a version.
LEMMA DenseInit == Init => Dense
<1> SUFFICES ASSUME Init PROVE Dense
  OBVIOUS
<1>1. \A a \in Aggregates : version[a] = 0
  BY DEF Init
<1>2. \A i \in Ids : feedSeq[i] = 0 /\ phase[i] # "committed"
  BY DEF Init
<1> QED
  BY <1>1, <1>2, NumberedCount DEF Dense

\* No step leaves a gap.
LEMMA DenseStep == IInv /\ Dense /\ [Next]_vars => Dense'
<1> SUFFICES ASSUME IInv, Dense, [Next]_vars PROVE Dense'
  OBVIOUS
<1>0. TypeOK
  BY DEF IInv
<1>1. CASE Unseen
  <2>1. Numbered' = Numbered
    BY <1>1 DEF Unseen, Numbered
  <2> QED
    BY <1>1, <2>1 DEF Unseen, Dense
<1>2. ASSUME NEW k \in Ids, Commit(k) PROVE Dense'
  <2>1. /\ agg[k] \in Aggregates /\ ver[k] = version[agg[k]] + 1 /\ phase'[k] = "committed"
        /\ UNCHANGED <<agg, ver, feedSeq>>
        /\ \A i \in Ids : phase[i] = "committed" => phase'[i] = "committed"
        /\ \A i \in Ids \ {k} : phase'[i] = phase[i]
        /\ version'[agg[k]] = ver[k]
        /\ \A a \in Aggregates \ {agg[k]} : version'[a] = version[a]
    BY <1>2, CommitEffect
  <2>2. Numbered' = Numbered
    BY <2>1 DEF Numbered
  <2>3. \A i \in Ids : phase'[i] = "committed" => ver'[i] # 0
    BY <1>0, <2>1 DEF Dense, TypeOK
  <2>4. ASSUME NEW a \in Aggregates, NEW v \in 1..version'[a]
        PROVE  \E i \in Ids : phase'[i] = "committed" /\ agg'[i] = a /\ ver'[i] = v
    <3>1. CASE a = agg[k] /\ v = ver[k]
      BY <2>1, <3>1
    <3>2. CASE ~(a = agg[k] /\ v = ver[k])
      <4>1. v \in 1..version[a]
        BY <1>0, <2>1, <2>4, <3>2 DEF TypeOK
      <4> QED
        BY <2>1, <4>1 DEF Dense
    <3> QED
      BY <3>1, <3>2
  <2> QED
    BY <2>1, <2>2, <2>3, <2>4 DEF Dense
<1>3. ASSUME NEW n \in Nodes, Number(n) PROVE Dense'
  <2>1. UNCHANGED <<phase, agg, ver, version>>
    BY <1>3 DEF Number, table
  <2> QED
    BY <1>3, <2>1, NumberCounts DEF Dense
<1> QED
  BY <1>1, <1>2, <1>3, WhatIsSeen

-----------------------------------------------------------------------------
(* The events of the table *)

\* Row and number determine each other, and the feed is the sequence of the numbered events.
FeedKnown ==
  /\ \A j \in Numbered : RowAt(feedSeq[j]) = j
  /\ \A m \in 1..Cardinality(Numbered) : RowAt(m) \in Numbered /\ feedSeq[RowAt(m)] = m
  /\ NumberedEvents \in Seq(CommittedEvents)
  /\ Len(NumberedEvents) = Cardinality(Numbered)
  /\ \A m \in 1..Cardinality(Numbered) : NumberedEvents[m] = <<agg[RowAt(m)], ver[RowAt(m)]>>
  /\ FeedOrder

\* What the lemmas above say of the numbers, in one place ...
LEMMA FeedIsKnown == IInv /\ Dense => FeedKnown
  BY RowAtNumber, NumbersWithoutGap, FeedLength, FeedOrdered DEF IInv, FeedKnown

\* ... and of the state after a step.
LEMMA FeedKnownNext == (IInv /\ Dense)' => FeedKnown'
  BY FeedIsKnown, PTL

\* An aggregate has as many committed events as its version says.
LEMMA VersionsCount ==
  ASSUME IInv, Dense, NEW a \in Aggregates
  PROVE  Cardinality({e \in CommittedEvents : e[1] = a}) = version[a]
<1> DEFINE f == [v \in 1..version[a] |-> <<a, v>>]
           T == {f[v] : v \in 1..version[a]}
<1>1. version[a] \in Nat /\ IsFiniteSet(1..version[a]) /\ Cardinality(1..version[a]) = version[a]
  BY FS_Interval DEF IInv, TypeOK
<1>2. {e \in CommittedEvents : e[1] = a} = T
  <2>1. ASSUME NEW e \in CommittedEvents, e[1] = a PROVE e \in T
    <3>1. PICK i \in Ids : phase[i] = "committed" /\ e = <<agg[i], ver[i]>>
      BY DEF CommittedEvents
    <3>2. agg[i] = a /\ ver[i] \in 1..version[a]
      BY <1>1, <2>1, <3>1 DEF IInv, TypeOK, RowOrder, Dense
    <3> QED
      BY <3>1, <3>2
  <2>2. ASSUME NEW v \in 1..version[a] PROVE <<a, v>> \in CommittedEvents /\ <<a, v>>[1] = a
    BY <2>2 DEF Dense, CommittedEvents
  <2>3. \A e \in T : e \in CommittedEvents /\ e[1] = a
    BY <2>2
  <2> HIDE DEF T
  <2> QED
    BY <2>1, <2>3
<1>3. \A v, w \in 1..version[a] : f[v] = f[w] => v = w
  OBVIOUS
<1> HIDE DEF f
<1>4. Cardinality(T) = Cardinality(1..version[a])
  BY <1>1, <1>3, ImageCount
<1> QED
  BY <1>1, <1>2, <1>4

\* A step that changes nothing seen, and no number, leaves the feed as it is.
LEMMA FeedUnchanged ==
  ASSUME IInv, Dense, UNCHANGED feedSeq,
         \A i \in Ids : feedSeq[i] # 0 => agg'[i] = agg[i] /\ ver'[i] = ver[i]
  PROVE  NumberedEvents' = NumberedEvents
<1>1. Numbered' = Numbered /\ \A m : RowAt(m)' = RowAt(m)
  BY DEF Numbered, RowAt
<1>2. \A m \in 1..Cardinality(Numbered) :
        agg'[RowAt(m)] = agg[RowAt(m)] /\ ver'[RowAt(m)] = ver[RowAt(m)]
  BY FeedIsKnown DEF FeedKnown, Numbered
<1> QED
  BY <1>1, <1>2 DEF NumberedEvents

\* What has been sent is a prefix of the feed, all of it in order.
SentIsPrefix == SentInOrder = sent /\ sent \subseteq Numbered

\* Nothing sent is left out of the prefix.
LEMMA SentSound == TypeOK /\ DeliverySound => SentIsPrefix
  BY DEF SentIsPrefix, TypeOK, DeliverySound, FirstDeliveryInOrder, SentInOrder, Numbered

\* The same of the state after a step.
LEMMA SentSoundNext == (TypeOK /\ DeliverySound)' => SentIsPrefix'
  BY SentSound, PTL

\* ChangeFeed counts as FiniteSets does.
LEMMA SameCardinality == \A S : Feed!Cardinality(S) = Cardinality(S)
  BY DEF Feed!Cardinality, Cardinality

-----------------------------------------------------------------------------
(* Every step is a step of the feed, or none *)

\* A commit adds the next version of its aggregate.
LEMMA CommitMaps ==
  ASSUME IInv, Dense, NEW k \in Ids, Commit(k), SentInOrder' = sent', SentInOrder = sent
  PROVE  Feed!Commit
<1>1. /\ agg[k] \in Aggregates /\ ver[k] = version[agg[k]] + 1
      /\ phase[k] = "open" /\ phase'[k] = "committed"
      /\ UNCHANGED <<agg, ver, feedSeq, sent>>
      /\ \A i \in Ids \ {k} : phase'[i] = phase[i]
  BY CommitEffect
<1>2. CommittedEvents' = CommittedEvents \cup {<<agg[k], ver[k]>>}
  BY <1>1 DEF CommittedEvents
<1>3. ver[k] = Cardinality({e \in CommittedEvents : e[1] = agg[k]}) + 1
  BY <1>1, VersionsCount
<1>4. NumberedEvents' = NumberedEvents
  BY <1>1, FeedUnchanged
<1>5. Cardinality(SentInOrder)' = Cardinality(SentInOrder)
  BY <1>1
<1> QED
  BY <1>1, <1>2, <1>3, <1>4, <1>5, SameCardinality DEF Feed!Commit

\* The UPDATE of feedSeq extends the feed, unless no row of the selection parses.
LEMMA NumberMaps ==
  ASSUME IInv, Dense, IInv', Dense', NEW n \in Nodes, Number(n), SentInOrder' = sent',
         SentInOrder = sent
  PROVE  Feed!Extend \/ UNCHANGED Feed!vars
<1> DEFINE S == ToNumber(todo[n])
           N == Cardinality(Numbered)
<1>1. UNCHANGED <<agg, ver, phase, sent>>
  BY DEF Number, table
<1>2. CommittedEvents' = CommittedEvents /\ Cardinality(SentInOrder)' = Cardinality(SentInOrder)
  BY <1>1 DEF CommittedEvents
<1>3. FeedKnown /\ FeedKnown'
  BY FeedIsKnown, FeedKnownNext
<1>4. /\ Numbered' = Numbered \cup S
      /\ Cardinality(Numbered') = N + Cardinality(S) /\ Cardinality(S) \in Nat /\ N \in Nat
  BY NumberCounts, NumberedCount, IdsFinite
<1>5. /\ \A i \in Ids : feedSeq[i] # 0 => feedSeq'[i] = feedSeq[i]
      /\ \A i \in S : feedSeq'[i] # 0
  BY NumberEffect
<1>6. CASE S = {}
  <2>1. Numbered' = Numbered /\ \A i \in Ids : feedSeq'[i] = feedSeq[i]
    BY <1>4, <1>5, <1>6 DEF Numbered
  <2>2. feedSeq' = feedSeq
    BY <2>1 DEF IInv, TypeOK
  <2>3. NumberedEvents' = NumberedEvents
    BY <1>1, <2>2, FeedUnchanged
  <2> QED
    BY <1>2, <2>3 DEF Feed!vars
<1>7. CASE S # {}
  <2>1. Cardinality(S) > 0
    BY <1>4, <1>7, IdsFinite, NumberCounts, FS_EmptySet
  <2>2. Len(NumberedEvents) = N /\ Len(NumberedEvents') = N + Cardinality(S)
    BY <1>3, <1>4 DEF FeedKnown
  <2>3. \A m \in 1..N : RowAt(m)' = RowAt(m)
    <3> SUFFICES ASSUME NEW m \in 1..N PROVE RowAt(m)' = RowAt(m)
      OBVIOUS
    <3>1. RowAt(m) \in Numbered' /\ feedSeq'[RowAt(m)] = m
      BY <1>3, <1>4, <1>5 DEF FeedKnown, Numbered
    <3> QED
      BY <1>3, <3>1 DEF FeedKnown
  <2>4. \A m \in 1..N : NumberedEvents'[m] = NumberedEvents[m]
    <3> SUFFICES ASSUME NEW m \in 1..N PROVE NumberedEvents'[m] = NumberedEvents[m]
      OBVIOUS
    <3>1. m \in 1..Cardinality(Numbered')
      BY <1>4
    <3>2. NumberedEvents'[m] = <<agg'[RowAt(m)'], ver'[RowAt(m)']>>
      BY <1>3, <3>1 DEF FeedKnown
    <3>3. NumberedEvents[m] = <<agg[RowAt(m)], ver[RowAt(m)]>>
      BY <1>3 DEF FeedKnown
    <3> QED
      BY <1>1, <2>3, <3>2, <3>3
  <2>5. NumberedEvents' \in Seq(CommittedEvents) /\ NumberedEvents \in Seq(CommittedEvents)
    BY <1>2, <1>3 DEF FeedKnown
  <2>6. SubSeq(NumberedEvents', 1, N) = NumberedEvents
    <3>1. \A i \in 1..N : NumberedEvents'[i] \in CommittedEvents
      BY <2>2, <2>4, <2>5, ElementOfSeq
    <3>2. /\ SubSeq(NumberedEvents', 1, N) \in Seq(CommittedEvents)
          /\ Len(SubSeq(NumberedEvents', 1, N)) = N
          /\ \A i \in 1..N : SubSeq(NumberedEvents', 1, N)[i] = NumberedEvents'[i]
      BY <1>4, <3>1, SubSeqProperties
    <3> QED
      BY <2>2, <2>4, <2>5, <3>2, SeqEqual
  <2>7. Feed!Fed(NumberedEvents') \subseteq CommittedEvents
    BY <2>5, ElementOfSeq DEF Feed!Fed
  <2>8. ASSUME NEW l \in 1..Len(NumberedEvents'), NEW m \in 1..Len(NumberedEvents'), l < m,
               NumberedEvents'[l][1] = NumberedEvents'[m][1]
        PROVE  NumberedEvents'[l][2] < NumberedEvents'[m][2]
    <3>1. /\ RowAt(l)' \in Ids /\ feedSeq'[RowAt(l)'] = l /\ feedSeq'[RowAt(l)'] # 0
          /\ RowAt(m)' \in Ids /\ feedSeq'[RowAt(m)'] = m /\ feedSeq'[RowAt(m)'] # 0
          /\ NumberedEvents'[l] = <<agg'[RowAt(l)'], ver'[RowAt(l)']>>
          /\ NumberedEvents'[m] = <<agg'[RowAt(m)'], ver'[RowAt(m)']>>
      BY <1>3 DEF FeedKnown, Numbered
    <3>2. FeedOrder'
      BY <1>3 DEF FeedKnown
    <3> QED
      BY <2>8, <3>1, <3>2 DEF FeedOrder
  <2> QED
    BY <1>2, <1>4, <2>1, <2>2, <2>6, <2>7, <2>8 DEF Feed!Extend
<1> QED
  BY <1>6, <1>7

\* A row reaches the transport for the first time, or no row does.
LEMMA SendMaps ==
  ASSUME IInv, Dense, [Next]_vars, Unseen, SentInOrder' = sent', SentInOrder = sent,
         sent \subseteq Numbered, sent' \subseteq Numbered'
  PROVE  Feed!Deliver \/ UNCHANGED Feed!vars
<1>1. CommittedEvents' = CommittedEvents
  BY DEF Unseen, CommittedEvents
<1>2. NumberedEvents' = NumberedEvents /\ Numbered' = Numbered
  <2>1. \A i \in Ids : feedSeq[i] # 0 => agg'[i] = agg[i] /\ ver'[i] = ver[i]
    BY DEF Unseen, IInv, TypeOK
  <2> QED
    BY <2>1, FeedUnchanged DEF Unseen, Numbered
<1>3. sent' = sent \/ \E k \in Ids : sent' = sent \cup {k}
  BY DEF Next, vars, table, local, Write, Insert, Commit, Abort, Relay, Acquire, Select, Number,
     LoopEnds, PutAside, Publish, Bury, Stamp, Release, Throw, Restart,
     Fault, LoseConnection, Crash, PublishFails
<1>4. CASE sent' = sent
  BY <1>1, <1>2, <1>4 DEF Feed!vars
<1>5. ASSUME NEW k \in Ids, sent' = sent \cup {k}, k \notin sent PROVE Feed!Deliver
  <2>1. k \in Numbered /\ IsFiniteSet(sent)
    BY <1>2, <1>5, NumberedCount, FS_Subset
  <2>2. Cardinality(sent') = Cardinality(sent) + 1
    BY <1>5, <2>1, FS_AddElement
  <2>3. Cardinality(sent') <= Cardinality(Numbered)
    BY <1>2, NumberedCount, FS_Subset
  <2>4. Cardinality(sent) \in Nat
    BY <2>1, FS_CardinalityType
  <2>5. Cardinality(sent) < Len(NumberedEvents)
    BY <2>2, <2>3, <2>4, FeedIsKnown, NumberedCount DEF FeedKnown
  <2> QED
    BY <1>1, <1>2, <2>2, <2>5 DEF Feed!Deliver
<1> QED
  BY <1>3, <1>4, <1>5

\* The table and its relays are an append-only feed: whatever a transaction, a relay or a fault
\* does is the commit of an aggregate's next version, an extension of the feed by committed
\* events in version order, the first delivery of the next event of the feed, or invisible.
THEOREM OutboxImplementsFeed == Spec => ImplementsFeed
<1>1. Init => Feed!Init
  <2> SUFFICES ASSUME Init PROVE Feed!Init
    OBVIOUS
  <2>1. CommittedEvents = {} /\ Numbered = {} /\ SentInOrder = {}
    BY DEF Init, CommittedEvents, Numbered, SentInOrder
  <2>2. Cardinality(Numbered) = 0 /\ Cardinality(SentInOrder) = 0
    BY <2>1, FS_EmptySet
  <2>3. NumberedEvents = <<>>
    BY <2>2 DEF NumberedEvents
  <2> QED
    BY <2>1, <2>2, <2>3 DEF Feed!Init
<1>2. IInv /\ DeliverySound /\ Dense /\ [Next]_vars => (IInv /\ DeliverySound /\ Dense)'
  BY TypeStep, RowOrderStep, SelectionStep, NumberingStep, DeliveryStep, DenseStep DEF IInv
<1>3. IInv /\ DeliverySound /\ Dense /\ [Next]_vars => [Feed!Next]_(Feed!vars)
  <2> SUFFICES ASSUME IInv, DeliverySound, Dense, [Next]_vars PROVE [Feed!Next]_(Feed!vars)
    OBVIOUS
  <2>1. (IInv /\ DeliverySound /\ Dense)'
    BY <1>2
  <2>2. /\ SentInOrder = sent /\ sent \subseteq Numbered
        /\ SentInOrder' = sent' /\ sent' \subseteq Numbered'
    BY <2>1, SentSound, SentSoundNext DEF IInv, SentIsPrefix
  <2>3. CASE Unseen
    BY <2>2, <2>3, SendMaps DEF Feed!Next
  <2>4. ASSUME NEW k \in Ids, Commit(k) PROVE Feed!Next
    BY <2>2, <2>4, CommitMaps DEF Feed!Next
  <2>5. ASSUME NEW n \in Nodes, Number(n) PROVE [Feed!Next]_(Feed!vars)
    BY <2>1, <2>2, <2>5, NumberMaps DEF Feed!Next
  <2> QED
    BY <2>3, <2>4, <2>5, WhatIsSeen
<1>4. Init => IInv /\ DeliverySound /\ Dense
  BY InitInv, DeliveryInit, DenseInit
<1> QED
  BY <1>1, <1>2, <1>3, <1>4, PTL DEF Spec, ImplementsFeed, Feed!Spec
=============================================================================
