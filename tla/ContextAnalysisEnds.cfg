CONSTANTS
    b1 = b1
    b2 = b2
    w1 = w1
    w2 = w2
    Batches <- OneBatch
    NoBatch = NoBatch
    Workers <- TwoWorkers
    MaxRequeues = 1
    MaxReady = 1
    MaxPolls = 1
    MaxFaults = 1
SPECIFICATION FairSpec
PROPERTIES FinalizerStops EndsForGood
CHECK_DEADLOCK FALSE
