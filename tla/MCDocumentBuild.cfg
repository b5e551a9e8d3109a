\* Contexts of three families with one format, one context with every format.
SPECIFICATION FairSpec
CONSTANTS
    Entities <- E
    Items <- I
    Files <- F
    None = None
    Documents <- D
CHECK_DEADLOCK FALSE
INVARIANTS TypeOK RequiredFollowsPhases LiveItemsAreTitled TitlesAgree RepliesAreExtracted DocumentFitsItsFormat
PROPERTIES BuildEnds
