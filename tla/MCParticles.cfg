\* Five planes on four ranks, one of them with two planes, or on one rank; a
\* search radius of half a plane; three particles that may cross several slabs
\* at once.  Halo finders on two to nine particles.
\* Analyses of seven particles in three candidates, with two threads, a batch of
\* two shapes, a buffer of two rows and three members, one failure.
CONSTANTS
    NumPlanes = 5
    Cell = 2
    Search = 1
    Starts <- MCStarts
    Moves <- MCMoves
    ApertureCalls <- MCApertureCalls
    FofCalls <- MCFofCalls
    LinkCalls <- MCLinkCalls
    DeblendCalls <- MCDeblendCalls
    SoCalls <- MCSoCalls
    Machines = {"partition", "halos", "analysis"}
    AnalysisCalls <- MCAnalysisCalls
    Threads = 2
    ShapeRoom = 2
    MaxFaults = 1
    RowRoom = 2
    MemberRoom = 3
    NoResult = NoResult
SPECIFICATION BenchSpec
INVARIANTS
    PartitionIsCanonical
    GhostsAreExact
    NothingLostOnTheWay
    MembershipsAreComponents
    LinksAreOrderFree
    HostsFollowTheDensity
    SpheresAreExact
    PublishedProductsAgree
