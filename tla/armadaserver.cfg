SPECIFICATION FairSpecWithJobs
CONSTANTS
    Apps = {"A"}
    Malformed = {}
    Kind = "ArmadaServer"
    CRs <- TwoNames
    SpecChoices <- PulsarSpecs
    Tracked = {"initPulsar", "deployment"}
    Deletable = {}
    MaxChanges = 3
    MaxFaults = 1
    NoCR = NoCR
    NoObj = NoObj
INVARIANTS
    InstalledAtRest
    JobsGate
PROPERTIES
    Converges
