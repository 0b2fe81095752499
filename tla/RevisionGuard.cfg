SPECIFICATION AccessSpec
CONSTANTS
    MaxMicros = 63
    MaxSeconds = 7
    MicrosPerSecond = 4
    EpochOffset = 12
    Times <- ScaledTimes
    TimeSources = {"kAdmin", "kNodeTimeCluster"}
    kNone = "kNone"
    Absent = "absent"
    NoTime = NoTime
INVARIANTS
    SanityListHolds
