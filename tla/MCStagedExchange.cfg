\* Three ranks, three stages: one rank can be a stage ahead of another while
\* a third is still in the work of the stage behind.  Three ranks, two
\* exchanges in a row, two records per message.  One to three ranks with two
\* contexts at a time and up to five calls.
CONSTANTS
    Ranks = {r1, r2, r3}
    NumStages = 3
    NumRanks = 3
    NumExchanges = 2
    Limit = 2
    Loads <- MCLoads
    Machines = {"stages", "rounds", "leases"}
    Hosts <- MCHosts
    Settings <- MCSettings
    Slots = {"c", "d"}
SPECIFICATION BenchSpec
INVARIANTS
    NoRunAhead
    BlameIsTrue
    ReturnsEveryRecord
    LeasesAreWhole
PROPERTIES
    EverybodyLeaves
    ImplementsAgreedOutcome
