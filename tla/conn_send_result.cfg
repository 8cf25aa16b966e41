CONSTANTS
    MaxRequests = 2
    MaxLen = 3
    Chunk = 2
    NumResps = 0
    SendMayFail = FALSE
    SigPipe = FALSE
SPECIFICATION Spec
INVARIANT SendFailureNoticed
