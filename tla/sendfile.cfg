CONSTANTS
    BufSize = 3
    FileSizes <- SizesUpTo7
    MayFail = TRUE
SPECIFICATION Spec
INVARIANT ResultExplained
INVARIANT FileArrives
