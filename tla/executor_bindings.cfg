SPECIFICATION Spec
CONSTANTS
    Apps = {"A", "B", "bad"}
    Malformed = {"bad"}
    Kind = "Executor"
    CRs <- OneCR
    SpecChoices <- BindingSpecs
    Tracked = {"binding", "extraBinding"}
    Deletable = {}
    MaxChanges = 3
    MaxFaults = 0
    NoCR = NoCR
    NoObj = NoObj
INVARIANTS
    NoBindingLeak
