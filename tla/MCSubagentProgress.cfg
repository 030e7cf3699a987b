SPECIFICATION FairSpec
CONSTANTS
    Agents = {a1}
    Launches = {l1, l2}
    Packages = {}
    Cap = 1
    MaxResumes = 1
    MaxSuspended = 1
    RecoveryConcurrency = 1
    None = None
PROPERTIES
    RecordsSettle
    SlotsReturn
