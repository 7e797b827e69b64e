\* The clock: NTP against the MBB's stamps, a fix that ages and wraps, sleeps
\* that run long.
SPECIFICATION FairSpec
CONSTANTS
    TOL = 2
    FRESH = 2
    WRAP = 4
    Live <- LiveStamps
    False <- FalseStamps
    UNSET = 8
    MAX_DRIFT = 2
    LOWEST <- Lowest
INVARIANTS
    ClockTrusted
PROPERTIES
    ComesRight
