\* Two requests behind one address register, sign in and change a profile.
CONSTANTS
    r1 = r1
    r2 = r2
    Request = {r1, r2}
    Client = {"nat"}
    Limit = 2
    Window = 2
    MaxTime = 5
    Phone = {"p"}
    Password = {"u", "v"}
    Name = {"x", "y"}
    Forms <- MCForms
    Puts <- MCPuts
SYMMETRY MCSymmetry
SPECIFICATION Spec
INVARIANTS
    TypeOK
    LimiterHonest
    RegistrantSignsIn
    ChangesKept
CHECK_DEADLOCK FALSE
