SPECIFICATION SerialSpec
CONSTANTS
    h1 = h1
    h2 = h2
    h3 = h3
    Handlers = {h1, h2, h3}
    MayForce = {h2, h3}
    MayVanish = {h2, h3}
    NoHandler = NoHandler
SYMMETRY Symmetry
INVARIANTS FlagIsOwner
PROPERTIES ImplementsService
CHECK_DEADLOCK FALSE
