\* One worker, two documents, fewer faults than attempts.
SPECIFICATION FairSpec
CONSTANTS
    Workers = {w1}
    Documents = {d1, d2}
    NoWorker = NoWorker
    NoDocument = NoDocument
    MaxAttempts = 3
    Sizes = {1, 2, 3}
    MaxDocSize = 2
    Limit <- SignedLimit
    FaultKinds = {"crash", "connection", "sql", "stall"}
    MaxFaults = 2
INVARIANTS TypeOK DoneMeansReported FileMatchesRow
PROPERTIES DocumentsSettle
