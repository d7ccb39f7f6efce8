\* Two ranks, two checkpoints, a reader that may start at any time, a process
\* that is killed, and either a power failure or a file the user copies.
CONSTANTS
    NumRanks = 2
    NumCheckpoints = 2
    MaxKills = 1
    MaxDisturbances = 1
SPECIFICATION Spec
INVARIANTS
    ProofsMeanWhole
    ResumedIsWhole
PROPERTIES
    PublishedIsFinal
