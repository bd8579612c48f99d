------------------------------- MODULE MCChat -------------------------------
(* Instances of Chat for TLC.                                               *)
EXTENDS Chat, TLC

CONSTANTS r1, r2, k1, k2, book, lamp

\* Both products are the same seller's.
MCSellerOf == [p \in {book, lamp} |-> "sue"]

\* The requests are alike, and so are the products and the places for a page's
\* clicks.
MCSymmetry ==
    Permutations({r1, r2}) \cup Permutations({k1, k2}) \cup Permutations({book, lamp})

=============================================================================
