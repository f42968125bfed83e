SPECIFICATION Spec
CONSTANTS
    s1 = s1
    s2 = s2
    r1 = r1
    r2 = r2
    Sessions = {s1, s2}
    Runs = {r1, r2}
    Home <- HomeOf
    Jobs = {j1, j2, j3}
    None = None
    JobLimit = 2
    UploadLimit = 1
    ItemLimit = 2
    CountLimit = 2
    TotalLimit = 3
SYMMETRY Symmetry
INVARIANTS
    TypeOK
    OwnedByOpenSession
    UploadsOfLiveRuns
    Sealed
    PublishedOnce
PROPERTIES
    AbortIsFinal
    EvictsOldestFirst
