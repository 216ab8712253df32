\* Frames of one channel, one late edge, one silence: a frame is published, the
\* signal is lost and comes back.
CONSTANTS
    ChNum = 2
    Sent = 1
    EndPulse = 4
    LostDelay = 6
    TickMax = 2
    TimeWrap = 1000
    Gap = 5
    MaxHold = 1
    MaxLate = 1
    MaxBreaks = 1
    MaxTime = 32
SPECIFICATION Spec
INVARIANTS NewInputIsFresh NewInputSeen
CHECK_DEADLOCK FALSE
