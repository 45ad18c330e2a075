SPECIFICATION Spec
CHECK_DEADLOCK FALSE
CONSTANTS
    Req = {r1}
    MaxJobs = 1
    Worker = {w1, w2}
    Limit = 1
    MaxReceive = 2
    MaxFaults = 1
INVARIANTS
    FailedIsRetried
