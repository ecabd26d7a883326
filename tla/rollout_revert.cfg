SPECIFICATION Spec
CONSTANTS
    Apps = {"first", "second", "bare", "wild", "alike"}
    Malformed = {}
    Written <- Configurations
    Name <- TheName
    Requests <- FewRequests
    Reverts = TRUE
    MaxEdits = 3
    MaxFaults = 1
    MaxPods = 1
    None = None
INVARIANTS
    PodsRunConfig
