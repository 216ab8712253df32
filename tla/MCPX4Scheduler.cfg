\* Two processes; the clock wraps after five seconds, a stall is one of three
\* or more.
CONSTANTS
    Procs = {"button", "camera"}
    MaxProcs = 2
    NoProc = "none"
    Trouble = 2
    Again = 1
    TimeWrap = 5
    CountWrap = 3
    MaxSuspends = 2
SPECIFICATION FairSpec
INVARIANT SuspendHolds
PROPERTIES  LockupDisarms ProcsKeepRunning
