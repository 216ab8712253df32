\* Four frames of two channels, two late edges, one silence.
CONSTANTS
    ChNum = 3
    Sent = 2
    EndPulse = 4
    LostDelay = 6
    TickMax = 1
    TimeWrap = 1000
    Gap = 5
    MaxHold = 1
    MaxLate = 2
    MaxBreaks = 1
    MaxTime = 42
SPECIFICATION DecoderSpec
INVARIANT EverySecondFrame
PROPERTY PublishesSentFrame
CHECK_DEADLOCK FALSE
