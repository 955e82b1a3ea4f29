SPECIFICATION FairSpec
CONSTANTS
    c1 = c1
    r1 = r1
    r2 = r2
    s1 = s1
    s2 = s2
    s3 = s3
    Nothing = Nothing
    Callers = {c1}
    Readers = {r1, r2}
    Sockets = {s1, s2, s3}
    MaxFaults = 1
INVARIANTS ConnectedHasReader
PROPERTIES AllClosed StopIsHeeded
CHECK_DEADLOCK FALSE
