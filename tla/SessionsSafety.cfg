SPECIFICATION Spec
CONSTANTS
    Opens = {o1, o2, o3, o4}
    Default = Default
    Projects = {home, p1}
    Home = home
    None = None
    SessionLimit = 3
    OpeningLimit = 2
    OwnerLimit = 3
SYMMETRY Symmetry
INVARIANTS
    TypeOK
    SessionsAreWhole
    NothingIsStranded
