SPECIFICATION FairSpec
CONSTANTS
    l1 = l1
    l2 = l2
    a = a
    b = b
    s1 = s1
    s2 = s2
    NoSub = NoSub
    Listeners = {l1, l2}
    Params = {a, b}
    Subs = {s1, s2}
    MaxList = 2
    MayAsk <- Asks
INVARIANTS EmptyIsStopped Stoppable
PROPERTIES ThreadsEnd
CHECK_DEADLOCK FALSE
