\* The refresh setting changes between the row's "ready" and the opening of the gate.
CONSTANTS
    MaxVersions = 2
    MaxToggles = 1
    MaxFaults = 1
    Required = TRUE
    AnyTime = {"refresh"}
SPECIFICATION FairSpec
PROPERTY GateDecides
CHECK_DEADLOCK FALSE
