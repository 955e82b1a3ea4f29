SPECIFICATION Spec
CONSTANTS
    Params <- MCParams
    Aliases <- MCAliases
    AliasOf <- MCAliasOf
    Stale = 1
    MaxTime = 3
    MaxFaults = 1
INVARIANTS FreshRead NoOldNews BooksAgree
CHECK_DEADLOCK FALSE
