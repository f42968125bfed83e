SPECIFICATION FairSpec
CONSTANTS
    Jobs = {j1, j2}
    None = None
    UpLimit = 2
    OutLimit = 1
INVARIANTS
    TypeOK
    NothingLeft
PROPERTIES
    ServerDeathEndsTree
