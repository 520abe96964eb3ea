CONSTANTS
    Absent = Absent
    Sidecar = {"a"}
    PathHash <- mcPathHash
    Fn = {"f", "g"}
    IncludesHeader = {"f"}
    CallsIn <- mcCallsIn
    File <- mcEdits
    Exe = {"e1", "e2"}
    AllowSorry = {TRUE, FALSE}
    Switches = {0}
    Verifier = {"v"}
    ExeByPath = FALSE
    MaxCommits = 2
    MaxRuns = 2
    Contexts = {c1, c2}
    Cells = {k1, k2, k3}
    Conditions = {p, q}
    Expressible = {p}
    None = None
    Bits8 = 1
    Bits32 = 2
    Bits64 = 4
    Variables32 = {"x", "y"}
    Variables64 = {"u"}
    EdgeLimit = 2
    MaxFacts = 3

SPECIFICATION Spec
CHECK_DEADLOCK FALSE

INVARIANTS
    MarkersAttestProofs
    VerdictsAreProvedUpToTactics
    BranchesReadTheirFacts
    GraphAnswersFollow

PROPERTIES
    BuiltGraphsStay
