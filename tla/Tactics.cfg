CONSTANTS
    Absent = Absent
    Sidecar = {"a"}
    PathHash <- mcPathHash
    Fn = {"f", "g"}
    IncludesHeader = {}
    CallsIn <- mcCallsIn
    File <- mcEdits
    Exe = {"e"}
    AllowSorry = {FALSE}
    Switches = {0}
    Verifier = {"v"}
    ExeByPath = FALSE
    MaxCommits = 2
    MaxRuns = 2

SPECIFICATION IncrementalSpec
CHECK_DEADLOCK FALSE

INVARIANTS
    VerdictsAreProved
