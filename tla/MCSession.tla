------------------------------ MODULE MCSession ------------------------------
(* Instances of Session for TLC.                                            *)
EXTENDS Session, TLC

CONSTANTS t1, t2, s1, s2

\* The tabs are alike, and so are the places for their requests.
MCSymmetry == Permutations({t1, t2}) \cup Permutations({s1, s2})

=============================================================================
