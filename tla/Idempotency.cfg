SPECIFICATION FairSpec
CONSTANTS
    Req = {r1, r2}
    Key = {k1}
    Body = {b1, b2}
    NoReq = noreq
    NoKey = nokey
    NoBody = nobody
    MaxNewKeys = 1
    PollAttempts = 2
    RetainHours = 1
    Crashes = TRUE
    SlowHandlers = FALSE
    FaultyRedis = TRUE
INVARIANTS
    TypeOK
    HandlersExclusive
    AnswersOwnBody
    
PROPERTIES
    LockReleased
    RequestsAnswered
