CONSTANTS
    ana = ana
    bo = bo
    None = None
    Participant <- mcParticipant
    Resource <- mcResource
    Kind <- mcKind
    Frontier <- mcFrontier
    Covers <- mcCovers
    Overlaps <- mcOverlaps
    Concrete <- mcConcrete
    Indexed <- mcIndexed
    LocalBlock <- mcLocalBlock
    Owned = {"ownList", "ownToken", "ownMutex"}
    Input = {"inMutex", "inBuf"}
    LocalView = {"stack"}
    Head <- mcHead
    MaxLoans = 3
    MaxShares = 4
    MaxHolds = 1

SPECIFICATION Spec
CONSTRAINT Small
CHECK_DEADLOCK FALSE

INVARIANTS
    TypeOK
    ShareConservation
    ReborrowPinsParent
    HoldsKeepScopesOpen
    OwnerExcludesReaders
    EscrowConserved
    BarrierCountsExact
    BarrierCoversViews
    MutexUseRooted

PROPERTIES
    ReaderStability
    ImplementsStableViews
