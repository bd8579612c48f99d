---------------------------- MODULE MCTradeOrder ----------------------------
(* Instances of TradeOrder for TLC.                                         *)
EXTENDS TradeOrder, TLC

CONSTANTS b1, b2, r1, r2, r3

\* The buyers are alike, and so are the requests.
MCSymmetry == Permutations({b1, b2}) \cup Permutations(Request)

=============================================================================
