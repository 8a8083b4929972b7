CONSTANTS
    m1 = m1
    m2 = m2
    r1 = r1
    r2 = r2
    w1 = w1
    w2 = w2
    Mails <- OneMail
    Requests <- OneRequest
    Workers <- OneWorker
    Depth = 1
    NoJob = NoJob
    RetryLimit = 1
    MaxRequests = 2
    MaxNewMails = 1
    MaxFaults = 1
SPECIFICATION FairSpec
CHECK_DEADLOCK FALSE
INVARIANT TypeOK
PROPERTIES EndsOnlyWhenDue SnoozeEnds ComesHome
