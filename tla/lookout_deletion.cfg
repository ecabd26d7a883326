SPECIFICATION FairSpec
CONSTANTS
    Apps = {"A", "B", "bad"}
    Malformed = {"bad"}
    Kind = "Lookout"
    CRs <- TwoNames
    SpecChoices <- SpecsOneBad
    Tracked = {"migration"}
    Deletable = {}
    MaxChanges = 3
    MaxFaults = 0
    NoCR = NoCR
    NoObj = NoObj
PROPERTIES
    DeletionCompletes
