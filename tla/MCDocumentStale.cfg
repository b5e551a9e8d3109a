\* One worker, two documents: whose document a timeout marks.
SPECIFICATION Spec
CONSTANTS
    Workers = {w1}
    Documents = {d1, d2}
    NoWorker = NoWorker
    NoDocument = NoDocument
    MaxAttempts = 2
    Sizes = {1}
    MaxDocSize = 2
    Limit = 3
    FaultKinds = {"connection", "stall"}
    MaxFaults = 2
INVARIANTS TimeoutBlamesItsDocument
