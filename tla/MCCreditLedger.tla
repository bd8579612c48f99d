--------------------------- MODULE MCCreditLedger ---------------------------
(* Instances of CreditLedger for TLC: one seller, a buyer per trade.        *)
EXTENDS CreditLedger, TLC

CONSTANTS t1, t2, s, b1, b2, r1, r2

MCUser == {s, b1, b2}
MCTrade == {t1, t2}
MCBuyerOf == (t1 :> b1) @@ (t2 :> b2)
MCSellerOf == [t \in MCTrade |-> s]
MCOneBuyer == (t1 :> b1)
MCOneSeller == (t1 :> s)

\* Both buyers review the seller; appeals and decisions follow from these.
MCRace == {<<t1, b1>>, <<t2, b2>>} \X {"good", "bad"}

\* Both parties of one trade review each other.
MCMutual ==
    {<< <<t1, b1>>, "bad">>, << <<t1, b1>>, "medium">>,
     << <<t1, s>>, "good">>, << <<t1, s>>, "bad">>}

\* Scores stay multiples of 5 from the default of 100 on; these start next to
\* the bounds.
MCLow == {[u \in MCUser |-> 5]}
MCNear == {[u \in MCUser |-> 15]}
MCMixed == {[u \in MCUser |-> IF u = s THEN 5 ELSE 295]}

\* The requests are alike, and so are the two trades with their buyers.
MCSymmetry ==
    {p @@ q : p \in Permutations({r1, r2}),
              q \in {(t1 :> t1) @@ (t2 :> t2) @@ (b1 :> b1) @@ (b2 :> b2),
                     (t1 :> t2) @@ (t2 :> t1) @@ (b1 :> b2) @@ (b2 :> b1)}}

=============================================================================
