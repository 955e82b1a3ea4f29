SPECIFICATION CastFairSpec
CONSTANTS
    Surface = 2
    Slowdown = 3
    Deepest = 6
    Grounds = {3, 5}
    Drifts <- MCDrifts
    Probes = {"good", "none"}
    OtherTargets = {4}
    MaxEvents = 1
    Plans <- MCPlans
    Soundings = {3}
    Cal = 1
    Over = 1
    Rev = 2
    Shallow = 3
    MaxRaises = 1
    MaxCasts = 1
INVARIANTS QuietWhenDone Watched
PROPERTIES StaysPut ZeroedInAir CastReturns
CHECK_DEADLOCK FALSE
