\* A buyer cancels while the seller confirms.
CONSTANTS
    b1 = b1
    b2 = b2
    r1 = r1
    r2 = r2
    r3 = r3
    Product = {p1}
    Buyer = {b1, b2}
    MaxOrders = 1
    Request = {r1, r2}
    MaxTxRetries = 1
SPECIFICATION Spec
PROPERTY CancelOnlyPending
CHECK_DEADLOCK FALSE
