SPECIFICATION FairSpec
CONSTANTS
    Apps = {"A", "B", "bad"}
    Malformed = {"bad"}
    Kind = "SchedulerIngester"
    CRs <- TwoNames
    SpecChoices <- MixedSpecs
    Tracked = {"secret"}
    Deletable = {}
    MaxChanges = 3
    MaxFaults = 1
    NoCR = NoCR
    NoObj = NoObj
PROPERTIES
    Converges
