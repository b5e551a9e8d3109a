\* Two workers, two documents.
SPECIFICATION Spec
CONSTANTS
    Workers = {w1, w2}
    Documents = {d1, d2}
    NoWorker = NoWorker
    NoDocument = NoDocument
    MaxAttempts = 2
    Sizes = {2, 3, 4}
    MaxDocSize = 3
    Limit = 3
    FaultKinds = {"crash", "connection", "sql", "stall"}
    MaxFaults = 1
SYMMETRY Symmetry
INVARIANTS ProcessingNeverCommitted FinishedHasFile OvershootBounded
PROPERTIES FinishedStays
