SPECIFICATION Spec
CONSTANTS
    k1 = k1
    k2 = k2
    Kids = {k1, k2}
    Requests = {r1, r2}
    Tokens <- TokenSet
    JWKSCacheTTL = 1
    ClockSkew = 0
    MaxTime = 3
    MaxFailures = 1
CHECK_DEADLOCK FALSE
PROPERTIES
    PublishedKeyFound
    WithdrawnKeyExpires
    CacheMovesForward
    FetchRetiresKey
