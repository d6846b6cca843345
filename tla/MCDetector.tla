----------------------------- MODULE MCDetector -----------------------------
(* Model-checking instance of Detector: users and tokens are model values. *)
EXTENDS Detector, TLC

CONSTANTS u1, u2, u3, tA, tB

\* no stable token, no rate file: only the ETH token is priced
NoStableTokens == [t \in {} |-> [x |-> "USD", dec |-> 0]]
NoRateFiles == [a \in {} |-> [k \in {} |-> 0]]

\* tB has a rate file priced at 2 in bucket 0
TBPricedAtTwo == tB :> (0 :> 2)

\* tA is a USD stable token of no decimals, with its own rate file; tB
\* is priced at 2 in bucket 0 and has no rate in bucket 2
StableUsdTA == tA :> [x |-> "USD", dec |-> 0]
TablesDaiAndTB == (tA :> [k \in {} |-> 0]) @@ (Dai :> (0 :> 1 @@ 2 :> 2)) @@ (tB :> (0 :> 2))

MCSymmetry == Permutations(Users)
=============================================================================
