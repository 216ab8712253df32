\* Three lines of two words sharing one word of the mask; writes cross from
\* the first line into the second, and one power loss.
CONSTANTS
    NumLines = 3
    LineCells = 2
    BitsPerWord = 4
    LayoutEnd = 3
    Values = {0, 1}
    Zero = 0
    MaxWrites = 2
    MaxCrashes = 1
SPECIFICATION FairSpec
INVARIANTS ForgottenOnlyByRace SearchFindsLine IInv
PROPERTY EventuallySaved
CHECK_DEADLOCK FALSE
