CONSTANTS
    t1 = t1
    t2 = t2
    s1 = s1
    h1 = h1
    h2 = h2
    k1 = k1
    k2 = k2
    j1 = j1
    j2 = j2
    Threads <- OneThread
    NoThread = NoThread
    Senders <- OneSender
    SenderOf <- SameSender
    Handlers <- TwoHandlers
    Savers <- OneSaver
    Jobs <- TwoJobs
    NoJob = NoJob
    RetryLimit = 0
    MaxMails = 2
    MaxLost = 2
    MaxLapses = 1
    MaxFaults = 1
SPECIFICATION FairSpec
INVARIANT TypeOK
PROPERTIES RefinesReplies OptOutHolds ClaimSettles
