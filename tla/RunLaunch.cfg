\* Three ranks; the configuration may be edited between any two reads.
CONSTANTS
    NumRanks = 3
    CommandLines = {"plain", "restart", "serial", "wrong"}
    Contents = {"one", "exact", "broken"}
    MaxEdits = 1
    NumNames = 2
SPECIFICATION FairSpec
INVARIANTS
    OneProgram
    CompleteMeansEveryRankRan
PROPERTIES
    EveryProcessEnds
