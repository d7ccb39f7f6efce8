\* The comment on the manifest in restart_checkpoint_io.hpp, against the code.
CONSTANTS
    NumRanks = 2
    NumCheckpoints = 1
    MaxKills = 1
    MaxDisturbances = 1
SPECIFICATION Spec
INVARIANTS
    ShardsDurableBeforeManifest
