SPECIFICATION FairSpec
CHECK_DEADLOCK FALSE
CONSTANTS
    Req = {r1, r2}
    Code = {c1, c2}
    NoCode = nocode
    Wrong = wrong
    MaxFails = 1
    OtpTtl = 2
    CoolTtl = 1
    Attempts = 2
    MaxCrashes = 1
INVARIANTS
    TypeOK
    GuessesBounded
    SpentIsGone

    
