\* Two consumers and two jobs of one tenant; recovery passes take one receipt.
CONSTANTS
    j1 = j1  j2 = j2  d1 = d1
    o1 = o1  w1 = w1  w2 = w2
    NoJob = NoJob
    Jobs <- OneTenant
    Owners <- MCOwners
    OwnerOf <- MCOwnerOf
    DeleteJobs = {}
    Cancellable = {}
    Workers <- TwoWorkers
    MaxRecoveries = 1
    RecoverLimit = 1
    EngineRows = 1
    MaxFaults = 2
SPECIFICATION Spec
INVARIANTS OwnerExclusion AttemptsCostFaults
PROPERTY ImplementsMutex
SYMMETRY PairSymmetry
