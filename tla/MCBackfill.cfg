CONSTANTS
    d1 = d1  d2 = d2  d3 = d3
    Listed <- MCListed
    Workers = {w1, w2}
    BatchSize = 2
    Deletable = {d1}
    MaxFaults = 1
SPECIFICATION FairSpec
INVARIANTS CardIsTrue JobsAreSound
PROPERTY BackfillEnds
CHECK_DEADLOCK FALSE
