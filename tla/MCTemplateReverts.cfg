\* No fault: what a change of the README does to the metadata.
SPECIFICATION Spec
CONSTANTS
    Names = {n1}
    Foreign = x
    TemplateIds = {i1}
    Descriptor = Descriptor
    Readme = Readme
    None = None
    MaxEdits = 4
    MaxFaults = 0
    MaxItems = 9
INVARIANTS MetadataIsCurrent
CHECK_DEADLOCK FALSE
