SPECIFICATION Spec
CONSTANTS
    Apps = {"A", "B", "bad"}
    Malformed = {"bad"}
    Kind = "Executor"
    CRs <- TwoNamespaces
    SpecChoices <- OnePlainSpec
    Tracked = {"clusterRole", "binding"}
    Deletable = {}
    MaxChanges = 4
    MaxFaults = 1
    NoCR = NoCR
    NoObj = NoObj
INVARIANTS
    LInv
    NoClusterLeak
PROPERTIES
    KeepsPromise
