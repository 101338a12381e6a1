------------------------------ MODULE MCFeedIndex ------------------------------
(* FeedIndex with its constants as model values.                            *)
EXTENDS FeedIndexPromise, TLC

CONSTANTS a, b, c, d, p1, p2, r1

MCKeys == {a, b, c}
FourKeys == {a, b, c, d}
MCPushers == {p1, p2}
OnePusher == {p1}
MCReaders == {r1}
NoReaders == {}

\* keys are interchangeable
Symmetry == Permutations(FourKeys)
=============================================================================
