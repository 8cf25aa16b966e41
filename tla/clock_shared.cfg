CONSTANTS
    w1 = w1
    w2 = w2
    Workers <- TwoWorkers
    MaxTime = 1
SPECIFICATION Spec
INVARIANT TimeIsWhatWasAsked
