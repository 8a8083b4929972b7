CONSTANTS
    j1 = j1
    j2 = j2
    Levels <- OneLevel
    Jobs <- OneJob
    NoJob = NoJob
    RetryLimit = 0
    MaxArchives = 1
    MaxStars = 0
    MaxMails = 2
    MaxMoves = 1
    MaxFaults = 0
SPECIFICATION FairSpec
PROPERTY Settles
PROPERTY UnsyncedIsBrief
