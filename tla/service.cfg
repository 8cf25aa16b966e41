CONSTANTS
    u1 = u1
    u2 = u2
    c1 = c1
    c2 = c2
    r1 = r1
    Users <- TwoUsers
    Conns <- TwoConns
    Resps <- OneResp
    Nobody = Nobody
    LoopThread = LoopThread
    InitPort = 80
    PortArgs <- Ports
    ThreadArgs <- ThreadCounts
    DefaultThreads = 1
    BlockArgs <- Either
    CloseWakesAccept = FALSE
    MaxFailures = 1
SPECIFICATION Spec
INVARIANT TypeOK
INVARIANT RunningMeansServing
INVARIANT StoppedMeansGone
INVARIANT NobodyOutlivesServer
INVARIANT BlockingRunIsNeverStopped
INVARIANT DeathsExplained
PROPERTY ConfigStableWhileServing
PROPERTY ImplementsReception
SYMMETRY Symmetry
