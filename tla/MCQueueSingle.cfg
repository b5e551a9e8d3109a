\* One process that listens, two commands, one fault of any kind.
SPECIFICATION FairSpec
CONSTANTS
    Workers = {w1}
    Commands = {c1, c2}
    NoWorker = NoWorker
    NoCommand = NoCommand
    MaxAttempts = 2
    QueueTries = 2
    Timed = TRUE
    OneShot = {}
    FaultKinds = {"crash", "connection", "sql", "late"}
    MaxFaults = 1
    Horizon = 3
INVARIANTS RepeatsNeedFaults
PROPERTIES ImplementsLifecycle CommandsSettle FailedTransactionEnds InterruptedProcessEnds
