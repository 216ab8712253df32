\* A call its callback restarts (a tune) and a plain one, each with its thread.
\* A delay of zero makes threads and interrupts meet at every point; the other
\* is longer than a turn of the counter, as the loop overrun call is.
CONSTANTS
    Timers = {"tune", "call"}
    NoTimer = "none"
    Rearm = {"tune"}
    Periodic = {}
    Delays = {0, 5}
    Period = 4
    IntervalMax = 2
    IntervalMin = 1
    MaxLatency = 1
    ReadGap = 3
    MaxTime = 5
SPECIFICATION Spec
INVARIANTS ListSorted FlagTellsQueued CancelledStaysOut WakeupArmed
PROPERTY NotEarly
CHECK_DEADLOCK FALSE
