CONSTANTS
    MaxRequests = 2
    MaxLen = 3
    Chunk = 2
    NumResps = 2
    SendMayFail = TRUE
    SigPipe = TRUE
SPECIFICATION Spec
INVARIANT ZerosExplained
INVARIANT FramingKept
INVARIANT OneResponsePerRequest
PROPERTY WorkerReleased
