CONSTANTS
    Selections <- MCSelections
    Default = "mix"
    Visits <- MCVisits
    NoSession = NoSession
SPECIFICATION FairSpec
INVARIANTS SpinnerIsTrue SessionsAreTrue
PROPERTIES LatestSelectionOfPage ThinkingEnds
CHECK_DEADLOCK FALSE
