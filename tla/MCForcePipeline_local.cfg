CONSTANTS
    Setups <- MCSetups
    Mesh = 3
    Owned <- MCOwned
    Workers = 2
    ChunksPerWorker = 1
    Unprotected = {"materialize", "set_up", "emit"}
    MaxFailures = 1
    DepositCalls <- MCDepositCalls
    Available = 3
    CompactLimit = 3
    Problems <- MCProblems
    NoCutoff = 0
    Width = 4
    Digits = 3
    ExponentBits = 3
    Subnormal = 2
    LimbCount = 3
    MaxFactors = 2
    ProductLimbs = 2
    ProductSumLimbs = 5
    Requests <- MCRequests
    Machines = {"force"}
SPECIFICATION BenchSpec
INVARIANTS
    CollectivesMeet
