\* Two requests publish and close posts over two titles.
CONSTANTS
    r1 = r1
    r2 = r2
    Request = {r1, r2}
    algebra = algebra
    physics = physics
    Book = {algebra, physics}
    MaxPosts = 3
    MaxTxRetries = 2
    Boards <- MCBoards
SYMMETRY MCSymmetry
SPECIFICATION Spec
INVARIANTS
    TypeOK
    PartnersSound
    MissedOnlyByOverlap
    StolenOnlyByOverlap
PROPERTIES
    ImplementsBoard
CHECK_DEADLOCK FALSE
