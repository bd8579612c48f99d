\* Two requests on one trade whose parties review each other.
CONSTANTS
    t1 = t1
    t2 = t2
    s = s
    b1 = b1
    b2 = b2
    r1 = r1
    r2 = r2
    User <- MCUser
    Trade = {t1}
    BuyerOf <- MCOneBuyer
    SellerOf <- MCOneSeller
    Request = {r1, r2}
    MaxTxRetries = 2
    Submitted <- MCMutual
    Seeds <- MCMixed
SPECIFICATION FairSpec
INVARIANT RecordedIsActual
PROPERTIES
    CallsFinish
CHECK_DEADLOCK FALSE
