\* One consumer: an index job that may be cancelled and a deletion, two faults.
CONSTANTS
    j1 = j1  j2 = j2  d1 = d1
    o1 = o1  w1 = w1  w2 = w2
    NoJob = NoJob
    Jobs <- WithDelete
    Owners <- MCOwners
    OwnerOf <- MCOwnerOf
    DeleteJobs <- OneDelete
    Cancellable <- OneCancel
    Workers <- OneWorker
    MaxRecoveries = 1
    RecoverLimit = 25
    EngineRows = 2
    MaxFaults = 2
SPECIFICATION FairSpec
INVARIANTS TypeOK NoOtherOrphan
PROPERTIES DoneIsFinal EverythingSettles
