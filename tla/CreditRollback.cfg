\* One request at a time: a good review, a bad one, an appeal of the good one.
CONSTANTS
    t1 = t1
    t2 = t2
    s = s
    b1 = b1
    b2 = b2
    r1 = r1
    r2 = r2
    User <- MCUser
    Trade <- MCTrade
    BuyerOf <- MCBuyerOf
    SellerOf <- MCSellerOf
    Request = {r1}
    MaxTxRetries = 1
    Submitted <- MCRace
    Seeds <- MCLow
SPECIFICATION Spec
INVARIANT RollbackIsApplied
CHECK_DEADLOCK FALSE
