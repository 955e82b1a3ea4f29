SPECIFICATION SchedulerSpec
CONSTANTS
    Entries = {"e1", "e2", "e3"}
    FirstTable <- MCTable
    RowPlans <- MCPlans
    NoPlan = NoPlan
    LastDay <- MCLastDay
    HoursPerDay = 2
    MinutesPerHour = 2
    MaxIters = 5
    Pre = 1
    MaxScheduled = 2
    Pause = 1
    FirstMinute = 7
    Horizon = 11
    MaxActs = 1
INVARIANTS NextIsEarliest DueIsQueued CastingIsCast EndsInTube
PROPERTIES CastOnce
CHECK_DEADLOCK FALSE
