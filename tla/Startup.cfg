\* Two servers start, crash and are restarted over every past.
CONSTANTS
    Server = {"s1", "s2"}
    Users = 2
    Pasts <- MCPasts
    Posted = {"good", "bad"}
    MaxPosted = 2
    MaxCrashes = 2
SPECIFICATION FairSpec
INVARIANTS
    TypeOK
    BackfillAtomic
    ExactForRegistered
    SeededOnce
PROPERTIES
    DeltasSettled
    ServesEventually
CHECK_DEADLOCK FALSE
