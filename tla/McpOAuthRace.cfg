CONSTANTS
    r1 = r1
    r2 = r2
    t1 = t1
    t2 = t2
    t3 = t3
    c1 = c1
    c2 = c2
    Requests <- OneRequest
    NoRequest = NoRequest
    Tokens <- ThreeTokens
    NoToken = NoToken
    Calls <- TwoCalls
    MaxTokens = 1
    MaxSecrets = 3
    MaxFaults = 1
SPECIFICATION Spec
SYMMETRY Interchangeable
INVARIANTS TypeOK OneGrantPerRequest ExchangedOnce LimitOvershoot
PROPERTIES RevokedForGood RefinesGrants
CHECK_DEADLOCK FALSE
