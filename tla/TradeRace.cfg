\* Two buyers, one product, two orders, three requests at once.
CONSTANTS
    b1 = b1
    b2 = b2
    r1 = r1
    r2 = r2
    r3 = r3
    Product = {p1}
    Buyer = {b1, b2}
    MaxOrders = 2
    Request = {r1, r2, r3}
    MaxTxRetries = 2
SYMMETRY MCSymmetry
SPECIFICATION Spec
INVARIANTS
    TypeOK
    StatusTellsConfirmations
    EverySaleSells
    DuplicatesExplained
    SellerReadsStayTrue
PROPERTIES
    ImplementsMarketplace
CHECK_DEADLOCK FALSE
