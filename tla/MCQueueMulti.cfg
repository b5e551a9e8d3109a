\* Two processes that listen and a lambda invocation on one command; no
\* connection is lost.
SPECIFICATION Spec
CONSTANTS
    Workers = {w1, w2, w3}
    Commands = {c1}
    NoWorker = NoWorker
    NoCommand = NoCommand
    MaxAttempts = 2
    QueueTries = 2
    Timed = TRUE
    OneShot = {w3}
    FaultKinds = {"crash", "sql", "late"}
    MaxFaults = 2
    Horizon = 3
SYMMETRY Symmetry
INVARIANTS OverlapOnlyAfterBackoff RunsWithinDoubling
PROPERTIES DoneReopenedOnlyByOverlap
