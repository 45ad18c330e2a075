SPECIFICATION FairSpec
CONSTANTS
    Slot = {x1, x2}
    User = {u1, u2}
    Section = {g, v}
    Grammar = {g}
    Level = {easy, hard}
    NoUser = nouser
    NoSection = nosection
    NoLevel = nolevel
    MaxSaves = 2
    MaxJobs = 1
INVARIANTS
    TypeOK
    RatersCounted
    CourseCountedOnce
    
PROPERTIES
    TransactionsEnd
