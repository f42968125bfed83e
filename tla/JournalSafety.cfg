SPECIFICATION Spec
CONSTANTS
    Calls = {c1, c0, heavy}
    Old = {c0}
    Plain = {c0, c1}
    heavy = heavy
    Limit = 2
    Fits <- WithinBudget
    MaxCrashes = 2
INVARIANTS
    TypeOK
    EffectsAreRecorded
    NoInventedOutcome
    DispatchedIsInFlight
    ToldOutcomeIsDurable
    FileWithinLimits
    NoLostNotice
