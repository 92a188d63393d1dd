SPECIFICATION Spec
CONSTANTS
    Key = {k1, k2}
    Client = {c1}
    Request = {r1, r2}
    Principal <- Principals
    Limit = 2
    Window = 1
    MaxTracked = 2
    SweepInterval = 2
    MaxTime = 3
SYMMETRY Interchangeable
INVARIANT TypeOK
INVARIANT ChargedWereLetIn
INVARIANT WindowBound
INVARIANT TrackedWithinCap
PROPERTY RevokedIsCutOff
PROPERTY KeysChangeByAdminOnly
PROPERTY ImplementsWindow
