\* The configuration file is edited, and disables MPI, between the reading of
\* the entry and that of the program.
CONSTANTS
    NumRanks = 2
    CommandLines = {"plain"}
    Contents = {"one", "serial"}
    MaxEdits = 1
    NumNames = 2
SPECIFICATION Spec
INVARIANTS
    NobodyRunsAlone
