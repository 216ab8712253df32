\* A fast and a slow callback, on a bus above the main thread (SPI, 14) and on
\* one below it (I2C, 78); the longest sleep lies between the two periods.
CONSTANTS
    NoThread = "none"
    Callbacks = {"imu", "compass"}
    Period <- Periods
    Adjusting = {"compass"}
    MaxDelay = 3
    MinDelay = 1
    MaxLate = 3
    BusPrios = {14, 78}
    MainPrio = 76
SPECIFICATION FairSpec
INVARIANTS MutexConsistent PriorityInherited PriorityRestored PhaseKept WakesInTime
PROPERTY EveryCallbackRuns
