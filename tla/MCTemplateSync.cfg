\* One file, two coordinates, four steps of the user, one fault.
SPECIFICATION Spec
CONSTANTS
    Names = {n1}
    Foreign = x
    TemplateIds = {i1, i2}
    Descriptor = Descriptor
    Readme = Readme
    None = None
    MaxEdits = 4
    MaxFaults = 1
    MaxItems = 9
INVARIANTS TypeOK EveryFileIsUploaded FilesAreLinked ReadmeIsCurrent
CHECK_DEADLOCK FALSE
