SPECIFICATION Spec
CONSTANTS
    Apps = {"A", "B", "bad"}
    Malformed = {"bad"}
    Kind = "Lookout"
    CRs <- OneCR
    SpecChoices <- LookoutSpecs
    Tracked = {"migration", "deployment", "partition"}
    Deletable = {"migration", "partition"}
    MaxChanges = 3
    MaxFaults = 1
    NoCR = NoCR
    NoObj = NoObj
INVARIANTS
    TypeOK
    JobsGate
    PartitionGate
    VerdictHonest
    InstalledAtRest
    GuardedAtRest
    VerdictReported
PROPERTIES
    NoOrphanIsBorn
    VerdictStable
    EditsStand
