CONSTANTS
    s1 = s1
    s2 = s2
    h1 = h1
    h2 = h2
    j1 = j1
    j2 = j2
    k1 = k1
    k2 = k2
    Sends <- OneSend
    NewSends <- OneSend
    NoSend = NoSend
    Handlers <- TwoHandlers
    Sweepers <- OneSweeper
    Jobs <- TwoJobs
    NoJob = NoJob
    RetryLimit = 3
    MaxAttempts = 3
    SweepBatch = 1
    MaxFaults = 2
    Timely = TRUE
SPECIFICATION Spec
SYMMETRY Interchangeable
INVARIANTS TypeOK ExclusiveClaim
PROPERTIES NeverResentOnceRecorded RefinesLedger
