CONSTANTS
    ana = ana
    bo = bo
    None = None
    Participant <- mcParticipant
    Resource <- mcResource
    Kind <- mcKind
    Frontier <- mcFrontier
    Covers <- mcCovers
    Overlaps <- mcOverlaps
    Concrete <- mcConcrete
    Indexed <- mcIndexed
    LocalBlock <- mcLocalBlock
    Owned = {"ownToken"}
    Input = {"inBuf"}
    LocalView = {}
    Head <- mcHead
    MaxLoans = 3
    MaxShares = 5
    MaxHolds = 1

SPECIFICATION WindSpec
CHECK_DEADLOCK FALSE

PROPERTIES
    OwnersComeBack
