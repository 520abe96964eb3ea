SPECIFICATION Spec
CONSTANTS
    Main = Main
    w1 = w1
    w2 = w2
    None = None
    Thread <- mcThread
    Flag = {f1, f2}
    Payload = {p1, p2}
    Value = {0, 1}
    Ready = 1
SYMMETRY Workers
CHECK_DEADLOCK FALSE

INVARIANTS
    PayloadInOnePlace
    ReceivedFactsHold
    KnowledgeIsCurrent
