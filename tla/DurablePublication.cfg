\* Two replacing writers, a create-only writer and a directory publisher
\* contend for one name on a local file system; power fails up to once.
CONSTANTS
    Publishers = {w1, w2, c1, d1}
    Replacers = {w1, w2}
    Directories = {d1}
    LateErrors = FALSE
    MaxCrashes = 1
    None = None
    Old = Old
SYMMETRY Symmetry
SPECIFICATION Spec
INVARIANTS
    NoTornFile
    CommittedIsDurable
    FailedLeavesNothing
PROPERTIES
    NameIsKept
