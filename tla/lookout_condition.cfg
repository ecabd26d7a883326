SPECIFICATION Spec
CONSTANTS
    Apps = {"A", "B", "bad"}
    Malformed = {"bad"}
    Kind = "Lookout"
    CRs <- OneCR
    SpecChoices <- PartitionOnOff
    Tracked = {"migration", "partition"}
    Deletable = {}
    MaxChanges = 2
    MaxFaults = 0
    NoCR = NoCR
    NoObj = NoObj
INVARIANTS
    RunningMeansUnfinished
