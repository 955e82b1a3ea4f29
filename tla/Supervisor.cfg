SPECIFICATION SupervisorSpec
CONSTANTS
    Others <- MCOthers
    MaxFaults = 4
INVARIANTS OneScheduler
PROPERTIES SchedulerRuns ClientsCome
CHECK_DEADLOCK FALSE
