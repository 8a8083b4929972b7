CONSTANTS
    c1 = c1
    c2 = c2
    c3 = c3
    Calls <- TwoCalls
    Kinds <- SomeKinds
    FreeLimit = 1
    PaidLimit = 2
    MaxUsed = 2
    MaxWrites = 2
    MaxFaults = 1
SPECIFICATION FairSpec
INVARIANTS
    TypeOK
    CountsEveryMail
    AllowedWithinLimit
PROPERTIES
    OverLimitIsBrief
    TrialEnds
