CONSTANTS
    None = None
    Mutex = {"auto", "heap"}
    Automatic = {"auto"}
    Instance = {"cell"}
    Protects <- mcProtects
    Content = {0, 1}
    Lendable = {"heap"}
    Foldable = {"live", "guard"}
    HasLoop = TRUE
    MaxInit = 2
    MaxEpoch = 2

SPECIFICATION Spec
VIEW Readable
CHECK_DEADLOCK FALSE

INVARIANTS
    PayloadInOnePlace
    AuthorityIsCurrent
    LedgerTellsRuntime
    ExitsCovered
