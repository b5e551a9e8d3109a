\* One file and one asset on two paths, two faults of any kind.
SPECIFICATION FairSpec
CONSTANTS
    Files = {f1}
    Assets = {a1}
    Paths = {p, q}
    NoPath = NoPath
    NoFile = NoFile
    MaxVersion = 2
    MaxFaults = 2
INVARIANTS TypeOK TemplateIsFresh DeletedIsGone
PROPERTIES DirectoryHeals
