---------------------------- MODULE MCSyncEngine -----------------------------
EXTENDS SyncEngine

CONSTANTS p1, p2

(* Safety: a project that stays as it is, and one that is edited, leaves the view and returns. *)
MCProjects == {p1, p2}
MCShown == [p \in MCProjects |-> IF p = p1 THEN <<TRUE>> ELSE <<TRUE, TRUE, FALSE, TRUE>>]
MCFirst == [p \in MCProjects |-> 1]

(* Safety, further: two projects that change, one of which leaves the view and returns. *)
TwoShown == [p \in MCProjects |-> IF p = p1 THEN <<TRUE, TRUE>> ELSE <<TRUE, FALSE, TRUE>>]

(* Liveness: a project that stays as it is, and one that is created and edited. *)
LiveShown == [p \in MCProjects |-> IF p = p1 THEN <<TRUE>> ELSE <<TRUE, TRUE>>]
LiveFirst == [p \in MCProjects |-> IF p = p1 THEN 1 ELSE 0]

(* The counterexamples: one project, created and edited. *)
OneProject == {p1}
OneShown == [p \in OneProject |-> <<TRUE, TRUE>>]
OneFirst == [p \in OneProject |-> 0]

(* One project that is edited and then moved out of view. *)
MovedShown == [p \in OneProject |-> <<TRUE, TRUE, FALSE>>]
MovedFirst == [p \in OneProject |-> 1]
=============================================================================
