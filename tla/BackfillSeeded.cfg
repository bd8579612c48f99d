\* One server backfills the reviews of seeded users, who did not start at 100.
CONSTANTS
    Server = {"s1"}
    Users = 2
    Pasts <- MCSeededOnly
    Posted = {}
    MaxPosted = 0
    MaxCrashes = 0
SPECIFICATION Spec
INVARIANT BackfillIsActual
CHECK_DEADLOCK FALSE
