\* Two overlapping reviews of the seller, who stands next to the floor.
CONSTANTS
    t1 = t1
    t2 = t2
    s = s
    b1 = b1
    b2 = b2
    r1 = r1
    r2 = r2
    User <- MCUser
    Trade <- MCTrade
    BuyerOf <- MCBuyerOf
    SellerOf <- MCSellerOf
    Request = {r1, r2}
    MaxTxRetries = 1
    Submitted <- MCRace
    Seeds <- MCNear
SPECIFICATION Spec
INVARIANT RecordedIsActual
CHECK_DEADLOCK FALSE
