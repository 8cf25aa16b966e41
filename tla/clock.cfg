CONSTANTS
    w1 = w1
    w2 = w2
    Workers <- TwoWorkers
    MaxTime = 2
SPECIFICATION Spec
 
INVARIANT StampIsRight
