CONSTANTS
    u1 = u1
    u2 = u2
    c1 = c1
    c2 = c2
    r1 = r1
    Users <- OneUser
    Conns <- TwoConns
    Resps <- NoResps
    Nobody = Nobody
    LoopThread = LoopThread
    InitPort = 80
    PortArgs <- NoPorts
    ThreadArgs <- NoThreadArgs
    DefaultThreads = 1
    BlockArgs <- ThreadOnly
    CloseWakesAccept = TRUE
    MaxFailures = 1
    MaxFd = 3
    Free = Free
    App = App
    Listening = Listening
SPECIFICATION DSpec
PROPERTY StopReturns
PROPERTY ClientAnswered
INVARIANT NoStaleNumber
INVARIANT NothingLeaks
