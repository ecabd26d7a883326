SPECIFICATION FairSpec
CONSTANTS
    Apps = {"A", "B", "bad"}
    Malformed = {"bad"}
    Kind = "Binoculars"
    CRs <- OneCR
    SpecChoices <- BinocularsSpecs
    Tracked = {"clusterRole"}
    Deletable = {}
    MaxChanges = 3
    MaxFaults = 0
    NoCR = NoCR
    NoObj = NoObj
PROPERTIES
    DeletionCompletes
