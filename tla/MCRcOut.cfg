\* Two outputs on one generator, a change of period up and down.
CONSTANTS
    NumOut = 2
    Generator <- SharedGenerator
    DefaultPeriod = 12
    DefaultPulse = 3
    Periods = {8, 16, 40}
    LoadMax = 30
    MaxWrites = 3
    MaxFreqs = 1
    MaxDisables = 1
    MaxWraps = 1
SPECIFICATION FairSpec
INVARIANTS WidthsAreAsked NothingSentWhileCorked
PROPERTY EventuallySent
