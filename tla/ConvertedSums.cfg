CONSTANTS
    None = None
    Bits8 = 1
    Bits32 = 2
    Bits64 = 4
    Variables32 = {"x"}
    Variables64 = {"u"}
    EdgeLimit = 2
    Conditions <- OrderFacts
    Asked <- Questions
    MaxFacts = 2

SPECIFICATION Spec
CHECK_DEADLOCK FALSE

INVARIANTS
    AnswersFollow
