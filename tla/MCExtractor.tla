---------------------------- MODULE MCExtractor ----------------------------
(* Model-checking instance of Extractor: addresses are model values.       *)
EXTENDS Extractor

CONSTANTS u1, u2, c1, p1, zero, none

\* one tx, at block 1 and index 0
FeedOne == {[blk |-> 1, idx |-> 0]}

\* it makes up to three calls
CallsThree == [t \in FeedOne |-> 3]

\* c1 is a USD stablecoin; every other token, ether included, has no record
Stable == [t \in Users \cup Contracts \cup {Zero} |-> IF t = c1 THEN "usd" ELSE "others"]
=============================================================================
