\* Three ranks, two identities per chunk, up to two particles per batch, one
\* storage error that nobody reports; identities compared by buckets with chunks
\* of two; a file of 27 particles read nine at a time while another program writes
\* once.
CONSTANTS
    NumRanks = 3
    Chunk = 2
    BatchLimit = 3
    Worlds <- MCWorlds
    MaxLost = 1
    None = None
SPECIFICATION MCSpec
INVARIANTS
    PublishedHoldsEveryParticle
    IdCheckIsExact
    IngestedIsSound
PROPERTIES
    EveryWriterLeaves
