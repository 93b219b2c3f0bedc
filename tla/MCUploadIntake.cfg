\* A callback, its redelivery and a start by hand, with one fault.
CONSTANTS
    first = first  again = again  click = click
    Deliveries <- Callbacks
    Clicks <- ByHand
    Casts <- Redelivered
    Keyed = Keyed
    None = None
    MaxFaults = 1
SPECIFICATION FairSpec
INVARIANTS RowsAreSound RowTellsTheJob NothingLeft
PROPERTY IndexSettles
CHECK_DEADLOCK FALSE
