CONSTANTS
    None = None
    Arm = {left, right}
    Block = {heap}
    Automatic = {}
    Request = {malloc}
    Family = {list}
    CountLimit = 1
    MaxIds = 5
    MaxFrames = 1

SPECIFICATION Spec
SYMMETRY Arms
CHECK_DEADLOCK FALSE

INVARIANTS
    CountsExact
    NoMemberUncounted
    JoinedArmsAgree
