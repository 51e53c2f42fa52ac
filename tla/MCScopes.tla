------------------------------- MODULE MCScopes ------------------------------
(* A page that scrolls over four rows, one of which its user may not read. *)
EXTENDS Scopes, TLC

CONSTANTS r1, r2, r3, r4

MCWanted == {{r1, r2}, {r1, r2, r3, r4}, {r3, r4}}
MCTurned == {{r1}, {r2, r3}, {r3}}
=============================================================================
