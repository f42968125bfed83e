SPECIFICATION Spec
CONSTANTS
    Calls = {c1, c2}
    Refreshes = {r1, r2}
    Shutdown = Shutdown
    Keys = {k1, k2}
    None = None
    SlotLimit = 1
    CallLimit = 2
SYMMETRY Symmetry
INVARIANTS
    TypeOK
    FailClosed
    RevokedLeaves
PROPERTIES
    RefreshSparesKept
