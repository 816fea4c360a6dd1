SPECIFICATION FairSpec
CONSTANTS
    MaxVersions = 2
    MaxToggles = 1
    MaxFaults = 1
    Required = TRUE
    AnyTime = {}
INVARIANT TypeOK
INVARIANT ReadyIsOwnTree
INVARIANT OpenShowsOwnTree
INVARIANT NoUseAfterClose
PROPERTY ImplementsRegistration
PROPERTY GateDecides
PROPERTY Converges
CHECK_DEADLOCK FALSE
