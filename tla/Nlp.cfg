SPECIFICATION FairSpec
CHECK_DEADLOCK FALSE
CONSTANTS
    Req = {r1, r2}
    MaxJobs = 2
    Worker = {w1, w2}
    Limit = 1
    MaxReceive = 2
    MaxFaults = 2
INVARIANTS
    LimitBound
    AckedIsSettled
PROPERTIES
    NeverReopened
    AnsweredJobEnds
