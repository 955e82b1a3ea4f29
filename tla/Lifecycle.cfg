SPECIFICATION FairSpec
CONSTANTS
    c1 = c1
    c2 = c2
    Controllers = {c1, c2}
    Watchdog = Watchdog
    MaxFaults = 2
PROPERTIES SerialFlagsInSync Settles
