\* API and worker apart, a LightRAG job cancelled and its document deleted.
CONSTANTS
    NoCopy = NoCopy
    Scenarios <- CancelledAndDeleted
SPECIFICATION HistorySpec
INVARIANT LightGone
CHECK_DEADLOCK FALSE
