---------------------------- MODULE ProjectStore ----------------------------
(***************************************************************************)
(* What the write path of projects promises to its users: a store of       *)
(* versioned rows in which every user action takes effect at most once, in *)
(* one indivisible step, on the version of the row that its user has seen. *)
(*                                                                         *)
(* There are no transactions here, no attempts, no locks and no retries.   *)
(* An action is asked for, has its effect or has none, and its user is     *)
(* told how it ended, in two steps of their own.  An action that came too  *)
(* late is told so only while that is true, and it stays true; only        *)
(* "failed" leaves open whether the action has had its effect, or will.    *)
(***************************************************************************)
EXTENDS Naturals

CONSTANTS Keys, Projects, Existing, Fields, Values, Default, Admins

VARIABLES
  project,   \* project -> [state, version, val]
  request,   \* key -> what its user asked for, or Nothing
  effect,    \* key -> what the action has done, once, or Nothing
  told       \* key -> how its user was told it ended, or Nothing

vars == <<project, request, effect, told>>

Nothing == [kind |-> "nothing"]
Refused == [kind |-> "refused"]
Failed  == [kind |-> "failed"]

Init ==
  /\ project = [p \in Projects |->
                  [state |-> IF p \in Existing THEN "live" ELSE "absent",
                   version |-> IF p \in Existing THEN 1 ELSE 0,
                   val |-> [f \in Fields |-> Default]]]
  /\ request = [k \in Keys |-> Nothing]
  /\ effect = [k \in Keys |-> Nothing]
  /\ told = [k \in Keys |-> Nothing]

-----------------------------------------------------------------------------
\* A user asks for a new project, or for a change of a version that has existed.
Seen(p) == 1..project[p].version

Asked ==
       [op : {"create"}, base : {0}, field : Fields, to : Values]
  \cup (UNION {[op : {"update"}, project : {p}, base : Seen(p), field : Fields, to : Values] :
                 p \in Projects})
  \cup (UNION {[op : {"delete"}, project : {p}, base : Seen(p), field : {"none"}, to : {Default}] :
                 p \in Projects})

Ask(k) ==
  /\ request[k] = Nothing
  /\ \E r \in Asked : request' = [request EXCEPT ![k] = r]
  /\ UNCHANGED <<project, effect, told>>

-----------------------------------------------------------------------------
\* Whoever was told that an action came too late, or was refused, may rely on it.
MayAct(k) == request[k] # Nothing /\ effect[k] = Nothing /\ told[k] \in {Nothing, Failed}

\* The user has seen the row as it is.
UpToDate(r) == project[r.project].state = "live" /\ project[r.project].version = r.base

Takes(k, p, new) ==
  /\ project' = [project EXCEPT ![p] = new]
  /\ effect' = [effect EXCEPT ![k] = [kind |-> "ok", version |-> new.version]]
  /\ UNCHANGED <<request, told>>

Update(k) ==
  LET r == request[k]  val == project[r.project].val IN
  /\ MayAct(k) /\ r.op = "update" /\ UpToDate(r)
  /\ val[r.field] # r.to
  /\ Takes(k, r.project, [state |-> "live", version |-> r.base + 1,
                          val |-> [val EXCEPT ![r.field] = r.to]])

Delete(k) ==
  LET r == request[k] IN
  /\ MayAct(k) /\ r.op = "delete" /\ UpToDate(r)
  /\ k \in Admins
  /\ Takes(k, r.project, [state |-> "deleted", version |-> r.base + 1,
                          val |-> project[r.project].val])

Create(k) ==
  LET r == request[k] IN
  /\ MayAct(k) /\ r.op = "create"
  /\ \E p \in Projects :
       /\ project[p].state = "absent"
       /\ Takes(k, p, [state |-> "live", version |-> 1,
                       val |-> [[f \in Fields |-> Default] EXCEPT ![r.field] = r.to]])

\* The row has the value already: that is an effect, too, and the only one.
FindNothingToDo(k) ==
  LET r == request[k] IN
  /\ MayAct(k) /\ r.op = "update" /\ UpToDate(r)
  /\ project[r.project].val[r.field] = r.to
  /\ effect' = [effect EXCEPT ![k] = [kind |-> "noop", version |-> r.base]]
  /\ UNCHANGED <<project, request, told>>

-----------------------------------------------------------------------------
\* The user is told the effect,
Effects(k) == {effect[k]} \ {Nothing}

\* ... or, of an action without one, that the row has moved on: to which version the row had
\* come, and whether others had touched the field (which this store does not keep),
Conflicts(k) ==
  LET r == request[k] IN
  IF effect[k] # Nothing \/ r.op = "create" THEN {}
  ELSE [kind : {"conflict"}, version : (r.base + 1)..project[r.project].version, disjoint : BOOLEAN]

\* ... or that it is not allowed, now and for ever,
Refusals(k) ==
  LET r == request[k] IN
  IF effect[k] # Nothing \/ r.op = "create" THEN {}
  ELSE IF project[r.project].state = "deleted" \/ (r.op = "delete" /\ k \notin Admins)
       THEN {Refused} ELSE {}

\* ... or, at any time, that it is not known.
Inform(k) ==
  /\ request[k] # Nothing /\ told[k] = Nothing
  /\ \E t \in Effects(k) \cup Conflicts(k) \cup Refusals(k) \cup {Failed} :
       told' = [told EXCEPT ![k] = t]
  /\ UNCHANGED <<project, request, effect>>

Next == \E k \in Keys :
          Ask(k) \/ Update(k) \/ Delete(k) \/ Create(k) \/ FindNothingToDo(k) \/ Inform(k)

Spec == Init /\ [][Next]_vars
=============================================================================
