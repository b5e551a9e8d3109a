\* The documentation of is_required, for every question.
SPECIFICATION Spec
CONSTANTS
    Entities <- E
    Items <- I
    Files <- F
    None = None
    Documents <- D
CHECK_DEADLOCK FALSE
INVARIANTS RequiredIsKnown
