SPECIFICATION Spec
CONSTANTS
    MaxStatements = 5
    Bad = {2, 4}
    MaxFaults = 4
INVARIANTS NothingLost InOrder FewDuplicates
CHECK_DEADLOCK FALSE
