\* Two tabs of one browser, used by an administrator and another user.
CONSTANTS
    t1 = t1
    t2 = t2
    Tab = {t1, t2}
    s1 = s1
    s2 = s2
    Slot = {s1, s2}
    MaxInFlight = 2
    Account = {"ada", "bob"}
    Admin = {"ada"}
    None = None
    MaxTokens = 2
SYMMETRY MCSymmetry
SPECIFICATION Spec
INVARIANTS
    TypeOK
    SessionCoherent
    AdminPageHonest
PROPERTIES
    NeverThrownOut
CHECK_DEADLOCK FALSE
