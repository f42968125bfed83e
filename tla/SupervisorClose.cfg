SPECIFICATION FairSpec
CONSTANTS
    Runs = {r1, r2}
    NoRun = NoRun
    Closer = Closer
    Requests <- PlainShapes
    Events = {"close"}
    HistoryLimit = 2
INVARIANTS
    SlotExclusive
    CompletedRunRetained
PROPERTIES
    NoExecutionAfterClose
    RequestsEnd
    CloseReaps
