----------------------------- MODULE MCPresence ------------------------------
EXTENDS Presence

CONSTANTS n1, n2, a, b

TwoNodes == {n1, n2}
OneNode == {n1}
TwoTabs == {a, b}
OneGuest == {b}
=============================================================================
