\* Two documents, three parses, four operations; the documents are interchangeable.
CONSTANTS
    d1 = d1  d2 = d2
    Docs <- MCDocs
    Parses <- MCParses
    MaxOps = 4
    CliqueLimit = 2
    MaxNeighbors = 1
SPECIFICATION Spec
SYMMETRY Swap
INVARIANTS SharesKept RemovedIsGone CopyIsCurrent ViewsAreTrue
CHECK_DEADLOCK FALSE
