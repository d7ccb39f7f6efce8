\* One replacing and one create-only writer on a file system that may report
\* an error for a rename it has carried out.
CONSTANTS
    Publishers = {w1, c1}
    Replacers = {w1}
    Directories = {}
    LateErrors = TRUE
    MaxCrashes = 0
    None = None
    Old = Old
SPECIFICATION Spec
INVARIANTS
    FailedLeavesNothing
