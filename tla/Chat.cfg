\* A buyer and the seller talk about two products; the buyer's page is open.
CONSTANTS
    r1 = r1
    r2 = r2
    k1 = k1
    k2 = k2
    book = book
    lamp = lamp
    User = {"bob", "sue"}
    Product = {book, lamp}
    SellerOf <- MCSellerOf
    Request = {r1, r2}
    Reader = {"bob"}
    Click = {k1, k2}
    MaxThreads = 2
    MaxMessages = 3
    MaxTime = 1
    MaxClicks = 2
SYMMETRY MCSymmetry
SPECIFICATION Spec
INVARIANTS
    TypeOK
    OneThread
    ShownIsActive
    ShownStaysInPlace
CHECK_DEADLOCK FALSE
