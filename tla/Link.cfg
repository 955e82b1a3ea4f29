SPECIFICATION FairSpec
CONSTANTS
    position = position
    status = status
    None = None
    Placeholder = Placeholder
    Garbage = Garbage
    Registers = {position, status}
    MaxRetries = 2
    MaxVersion = 1
    MaxFaults = 1
INVARIANTS Acknowledged RegisterIsCurrent ReadIsCurrent
PROPERTIES CallsEnd
