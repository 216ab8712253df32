\* Delays shorter and longer than the boost, an overrun longer than both.
CONSTANTS
    Overtime = 4
    BoostTime = 2
    Delays = {1, 3}
    GapDelay = 1
    DriverPrio = 198
    NoThread = "none"
SPECIFICATION FairSpec
INVARIANT WakerArmed
PROPERTIES BoostEnds TightLoopYields
