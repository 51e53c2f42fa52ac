------------------------------- MODULE MCHub --------------------------------
(* Two streams of one process, two channels, one break of the connection.    *)
EXTENDS Hub, TLC

CONSTANTS s1, s2, a, b

MCStreams == {s1, s2}
MCChannels == {a, b}

\* An edit goes to one channel, a creation to two.
MCRoutes == {{a}, {a, b}}

\* bound: a refusal or a break of the connection in one behaviour, not both.
OneMishap == refusals + outages <= 1

\* The streams are interchangeable.  The channels are not: SetToSeq puts them in an order.
Symmetry == Permutations(MCStreams)
=============================================================================
