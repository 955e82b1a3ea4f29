SPECIFICATION FairSpec
CONSTANTS
    h1 = h1
    h2 = h2
    h3 = h3
    Handlers = {h1, h2, h3}
    MayForce = {h3}
    MayVanish = {h1}
    NoHandler = NoHandler
INVARIANTS OwnerHoldsFlag DepartedNeverOwns
PROPERTIES CommandsExclude TokenComesBack
CHECK_DEADLOCK FALSE
