\* Two turns of the counter.  The delays lie within the keep-alive interval,
\* and no thread but the timers' own reads the clock in time for certain
\* (ReadGap exceeds MaxTime).
CONSTANTS
    Timers = {"tune", "blink"}
    NoTimer = "none"
    Rearm = {"tune"}
    Periodic = {"blink"}
    Delays = {3}
    Period = 6
    IntervalMax = 4
    IntervalMin = 1
    MaxLatency = 1
    ReadGap = 30
    MaxTime = 13
SPECIFICATION Spec
INVARIANT ClockExact
CHECK_DEADLOCK FALSE
