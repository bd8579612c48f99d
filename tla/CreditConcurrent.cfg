\* Two requests race on two trades that share the seller.
CONSTANTS
    t1 = t1
    t2 = t2
    s = s
    b1 = b1
    b2 = b2
    r1 = r1
    r2 = r2
    User <- MCUser
    Trade <- MCTrade
    BuyerOf <- MCBuyerOf
    SellerOf <- MCSellerOf
    Request = {r1, r2}
    MaxTxRetries = 2
    Submitted <- MCRace
    Seeds <- MCLow
SYMMETRY MCSymmetry
SPECIFICATION Spec
INVARIANTS
    TypeOK
    LocksExclude
    ReadsStayTrue
    AppealRowsSound
    EffectWithinRecorded
    ScoreExplained
    NoLockCycle
CHECK_DEADLOCK FALSE
PROPERTIES
    SettledForGood
    ImplementsBook
