CONSTANTS
    j1 = j1
    j2 = j2
    Levels <- TwoLevels
    Jobs <- OneJob
    NoJob = NoJob
    RetryLimit = 0
    MaxArchives = 1
    MaxStars = 1
    MaxMails = 1
    MaxMoves = 0
    MaxFaults = 1
SPECIFICATION Spec
INVARIANT TypeOK
PROPERTY ArchiveIsAuthoritative
