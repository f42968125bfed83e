SPECIFICATION Spec
CONSTANTS
    Calls = {c1, c2, c3}
    Refreshes = {}
    Shutdown = Shutdown
    Keys = {k1}
    None = None
    SlotLimit = 1
    CallLimit = 3
PROPERTY HealthyPeersSurvive
