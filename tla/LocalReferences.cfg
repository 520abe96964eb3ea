CONSTANTS
    None = None
    Participant = {"caller", "callee"}
    Support = {"x", "y", "z"}
    OwnerOf <- mcOwnerOf
    PlanKey = {"plan"}
    ScopeKey = {"loop", "branch"}
    MaxRefs = 5
    MaxFrames = 2
    MaxRest = 1

SPECIFICATION Spec

INVARIANTS
    BalancedScopeIsEntry
    OneLeasePerOwner
    EndedLeasesStayUnusable
