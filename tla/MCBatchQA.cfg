\* Three questions, two concurrent polls or one thread, a cancellation, one crash.
CONSTANTS
    p1 = p1  p2 = p2
    Size = 3
    Threads <- TwoThreads
    MaxCrashes = 1
SPECIFICATION FairBatchSpec
INVARIANT BatchIsOrderly
PROPERTY BatchSettles
CHECK_DEADLOCK FALSE
