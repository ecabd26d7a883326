SPECIFICATION FairSpecWithJobs
CONSTANTS
    Apps = {"A", "B", "bad"}
    Malformed = {"bad"}
    Kind = "Lookout"
    CRs <- OneCR
    SpecChoices <- PartitionSpecs
    Tracked = {"migration", "deployment", "partition"}
    Deletable = {}
    MaxChanges = 2
    MaxFaults = 1
    NoCR = NoCR
    NoObj = NoObj
PROPERTIES
    VerdictComes
    Converges
