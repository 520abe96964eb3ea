CONSTANTS
    None = None
    Pid = {1, 2, 3}
    Limit = 1
    PipeSize = 1
    BufferSize = 1
    MaxReads = 2
    MaxRetries = 1

SPECIFICATION Spec
CHECK_DEADLOCK FALSE

INVARIANTS
    SuccessIsComplete
    NoSurvivors

PROPERTIES
    AlwaysReturns
