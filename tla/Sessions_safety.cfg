SPECIFICATION Spec
CONSTANTS
    Req = {r1, r2}
    Token = {t1, t2, t3}
    NoToken = none
    Initial = {t1}
    Legacy = {t1}
    Offered = {"login", "refresh", "logout", "change", "delete"}
    MaxVersion = 1
    PollAttempts = 2
    Aborts = FALSE
    FaultyRedis = FALSE
SYMMETRY SlotsAndFresh
INVARIANTS
    OneSuccessor
    OnlyCurrentCredentialAccepted
PROPERTIES
    ImplementsRegistry
