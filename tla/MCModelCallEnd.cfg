SPECIFICATION FairSpec
CONSTANTS
    None = None
    t1 = t1
    t2 = t2
    key = key
    other = other
    big = big
    small = small
    Confs <- MCConfs
    Candidates <- MCCandidates
    DefaultConf = "mock"
    ManagerSlug = None
    Threshold = 2
    CandidateCool = 1
    CredentialCool = 1
    CircuitOpen = 1
    Threads <- MCThread
    Outcomes <- MCOutcomes
    Calls <- MCCalls
    MaxRetries = 1
    MaxRepairs = 1
    RepairExtra = 3
    MaxJobs = 1
    MaxChunks = 2
    MaxSwitches = 1
PROPERTY CallsReturn
CHECK_DEADLOCK FALSE
