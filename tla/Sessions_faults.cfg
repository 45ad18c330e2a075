SPECIFICATION FairSpec
CONSTANTS
    Req = {r1, r2}
    Token = {t1, t2, t3}
    NoToken = none
    Initial = {t1}
    Legacy = {t1}
    Offered = {"refresh"}
    MaxVersion = 0
    PollAttempts = 1
    Aborts = TRUE
    FaultyRedis = TRUE
INVARIANTS
    TypeOK
    ClaimExclusive
PROPERTIES
    RequestsTerminate
