CONSTANTS
    root = root
    mid = mid
    leaf = leaf
    None = None
    Participant <- mcParticipant
    Root = root
    Support = {"bytes", "header"}
    MaxCalls = 3
    MaxStates = 6

SPECIFICATION Spec
SYMMETRY sym
CHECK_DEADLOCK FALSE

INVARIANTS
    StateNamesLedger
    ReceiptNamesOneCall
    ReservationsHeld
