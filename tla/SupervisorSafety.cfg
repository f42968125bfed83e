SPECIFICATION Spec
CONSTANTS
    Runs = {r1, r2}
    NoRun = NoRun
    Closer = Closer
    Requests <- AllShapes
    Events = {"cancel", "drop", "exit"}
    HistoryLimit = 1
SYMMETRY Symmetry
INVARIANTS
    TypeOK
    SingleFlight
    NoOrphanWorker
    NoLostWakeup
    ExpectedGenerationHonoured
    TruthfulState
PROPERTIES
    ImplementsLane
