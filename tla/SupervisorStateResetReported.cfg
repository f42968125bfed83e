SPECIFICATION Spec
CONSTANTS
    Runs = {r1, r2}
    NoRun = NoRun
    Closer = Closer
    Requests <- InspectedShapes
    Events = {}
    HistoryLimit = 2
INVARIANT StateResetReported
