\* The demo on Linux, with a client that need not come.
CONSTANTS
    main = main
    resp = resp
    u1 = main
    u2 = u2
    c1 = c1
    c2 = c2
    r1 = resp
    Users <- OneUser
    Conns <- OneConn
    Resps <- OneResp
    Nobody = Nobody
    LoopThread = LoopThread
    InitPort = 0
    PortArgs <- NoPorts
    ThreadArgs <- NoThreadArgs
    DefaultThreads = 10
    BlockArgs <- ThreadOnly
    CloseWakesAccept = FALSE
    MaxFailures = 1
SPECIFICATION DemoSpec
PROPERTY DemoEnds
