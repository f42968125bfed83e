SPECIFICATION Spec
CONSTANTS
    r1 = r1
    Runs = {r1, r2}
    Calls = {c1, c2}
    Home <- HomeOf
    NoRun = NoRun
    NoCall = NoCall
    Limit = 1
    QueueLimit = 1
    PipeLimit = 2
INVARIANT GoneMeansExited
