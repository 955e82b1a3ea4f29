SPECIFICATION Spec
CONSTANTS
    Callers = {c1, c2}
    WithParams <- MCWithParams
    MaxCalls = 2
    MaxLosses = 2
INVARIANTS StopsOnlyAfterLoss
PROPERTIES ImplementsCalls Recovers
CHECK_DEADLOCK FALSE
