\* Five configurations, three launches, each stopped anywhere; steppers of 9 or
\* 10 representable places, eight cadences, up to two requested stops, turned
\* round or restored twice.  Fields of 3 to 6 particles per axis by two threads.
CONSTANTS
    Configs <- MCConfigs
    MaxSegments = 3
    Inputs <- MCInputs
    MaxTurns = 2
    Machines = {"run", "stepper", "realisation"}
    Requests <- MCRequests
    Threads = 2
    BlockSize = 8
SPECIFICATION BenchSpec
INVARIANTS
    TrajectoryIsKDK
    OutputsHoldTheirEpoch
    EveryOutputOnce
    HitsEveryTarget
    FieldIsOfItsSeed
    RealisationIsWhole
CHECK_DEADLOCK FALSE
