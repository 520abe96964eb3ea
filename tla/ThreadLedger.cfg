CONSTANTS
    None = None
    Cell = {"c"}
    Local = {"l"}
    Mutex = {"m"}
    Payload <- mcPayload
    Task = {"writer", "reader"}
    Takes <- mcTakes
    Views <- mcViews
    Uses <- mcUses
    Value = {0, 1}
    MaxHandles = 2
    MaxDeltas = 2
    MaxSteps = 5

SPECIFICATION Spec
CHECK_DEADLOCK FALSE

INVARIANTS
    NoDataRace
    MemoryAgrees
    WitnessIsThreadSteps

PROPERTIES
    JoinsReturn
