------------------------------ MODULE MCOutbox ------------------------------
(* Two nodes and two aggregates: the smallest instance in which commits leave id order, *)
(* relays compete for the lock, and two of them publish at once after one lost it.       *)
EXTENDS Outbox

CONSTANTS n1, n2, a1, a2

MCNodes == {n1, n2}
MCAggregates == {a1, a2}
=============================================================================
