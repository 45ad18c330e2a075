SPECIFICATION Spec
CONSTANTS
    Slot = {x1, x2}
    Zone = {0, 1}
    Goal = {0, 1}
    Stay = {1, 2}
    Minute = 2
    DayLen = 1
    WeekLen = 2
    StreakRows = 2
    StreakGoal = 2
    MaxTime = 2
    MaxSaves = 3
SYMMETRY Symmetric
CHECK_DEADLOCK FALSE
INVARIANTS
    MinutesCounted
    StreakDeserved
    BestStreakKept
    
