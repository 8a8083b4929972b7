CONSTANTS
    b1 = b1
    b2 = b2
    w1 = w1
    w2 = w2
    Batches <- TwoBatches
    NoBatch = NoBatch
    Workers <- TwoWorkers
    MaxRequeues = 0
    MaxReady = 1
    MaxPolls = 1
    MaxFaults = 1
SPECIFICATION Spec
SYMMETRY Interchangeable
INVARIANTS TypeOK FinalizesAll
CHECK_DEADLOCK FALSE
