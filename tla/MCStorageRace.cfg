\* The smallest instance with two lines in one word of the mask.
CONSTANTS
    NumLines = 3
    LineCells = 1
    BitsPerWord = 4
    LayoutEnd = 2
    Values = {0, 1}
    Zero = 0
    MaxWrites = 2
    MaxCrashes = 0
SPECIFICATION Spec
INVARIANT NoLineForgotten
CHECK_DEADLOCK FALSE
