SPECIFICATION Spec
CONSTANTS
    Apps = {"A", "B", "bad"}
    Malformed = {"bad"}
    Kind = "Scheduler"
    CRs <- OneCR
    SpecChoices <- PruningOnOff
    Tracked = {"migration", "deployment", "cronJob", "serviceProfiling"}
    Deletable = {}
    MaxChanges = 2
    MaxFaults = 1
    NoCR = NoCR
    NoObj = NoObj
INVARIANTS
    NoPrunerAtRest
    IInv
PROPERTIES
    KeepsPromise
