CONSTANTS
    w1 = w1
    w2 = w2
    Workers <- OneWorker
    MaxMails = 2
    MaxRetries = 2
    RetryLimit = 0
    MaxFaults = 1
SPECIFICATION FairSpec
INVARIANT TypeOK
PROPERTY RefinementEnds
CHECK_DEADLOCK FALSE
