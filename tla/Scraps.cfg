SPECIFICATION FairSpec
CONSTANTS
    Req = {r1, r2}
    Worker = {w1}
    NoWork = nowork
    MaxRow = 2
    MaxStamp = 3
    Debounce = 1
    Attempts = 2
    Crashes = TRUE

    
PROPERTIES
    OnlyStableCounted
    QueuedChangeSettles
