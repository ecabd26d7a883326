SPECIFICATION Spec
CONSTANTS
    Apps = {"first", "second", "bare", "wild", "alike"}
    Malformed = {}
    Written <- Configurations
    Name <- TheName
    Requests <- AllRequests
    Reverts = FALSE
    MaxEdits = 3
    MaxFaults = 1
    MaxPods = 2
    None = None
INVARIANTS
    ObjectsCurrent
    TypeOK
    PodsRunConfig
    WritesAccepted
    Routing
    Connected
    NilSafe
PROPERTIES
    OperatorKeepsSpec
