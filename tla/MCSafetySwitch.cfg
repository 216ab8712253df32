\* Periods and timeouts in the order of the real ones, a few ticks each.
CONSTANTS
    ButtonPeriod = 2
    CheckPeriod = 2
    PressTimeout = 3
    FeedPeriod = 1
    WdtLoad = 2
    SlowTimeout = 3
    TickWrap = 7
    blink_init <- ShortInit
    blink_disarmed <- ShortDisarmed
    blink_armed <- ShortArmed
SPECIFICATION FairSpec
INVARIANTS PinsFollowSwitch ErrorStaysLocked
PROPERTIES ToggleNeedsLongPress SteadyLightMeansArmed HangLocks
