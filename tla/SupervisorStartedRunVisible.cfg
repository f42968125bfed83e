SPECIFICATION Spec
CONSTANTS
    Runs = {r1, r2}
    NoRun = NoRun
    Closer = Closer
    Requests <- PlainShapes
    Events = {"cancel"}
    HistoryLimit = 2
INVARIANT StartedRunVisible
