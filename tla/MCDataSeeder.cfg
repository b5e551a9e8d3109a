\* Three recipes, two extra databases, fewer faults than attempts.
SPECIFICATION FairSpec
CONSTANTS
    c1 = c1
    c2 = c2
    c3 = c3
    x1 = x1
    x2 = x2
    other = other
    Commands = {c1, c2, c3}
    Default = Default
    Extra = {x1, x2}
    Targets = {Default, x1, x2, other}
    RecipeOf <- MCRecipeOf
    NoRun = NoRun
    MaxAttempts = 3
    FaultKinds = {"crash", "connection", "sql", "storage", "timeout"}
    MaxFaults = 2
INVARIANTS TypeOK DoneMeansSeeded SeedsAreWhole
PROPERTIES SeedsSettle
