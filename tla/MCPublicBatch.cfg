\* Two questions, one page, the background runner and two faults.
CONSTANTS
    page = page  runner = runner
    Total = 2
    Pollers <- PageAndRunner
    Runner = runner
    MaxFaults = 2
SPECIFICATION FairSpec
INVARIANTS OneLiveClaim AskedAtMostOnce
PROPERTIES ShownIsFinal BatchEnds
CHECK_DEADLOCK FALSE
