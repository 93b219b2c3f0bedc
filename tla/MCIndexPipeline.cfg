\* Four jobs: one process, two processes, LightRAG alone, both engines.
CONSTANTS
    NoCopy = NoCopy
    Scenarios <- Jobs
SPECIFICATION HistorySpec
INVARIANTS GraphGone EnginesApart
PROPERTY PipelineEnds
CHECK_DEADLOCK FALSE
