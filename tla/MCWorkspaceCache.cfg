\* Two requests over two workspaces with room for one, one interruption.
CONSTANTS
    t1 = t1  t2 = t2  a = a  b = b
    None = None
    Tasks <- TwoTasks
    Workspaces <- TwoWorkspaces
    Objects <- ThreeObjects
    Limit = 1
    MaxFaults = 1
SPECIFICATION Spec
INVARIANTS TypeOK LeasedIsLive OneUser ExactUsage NothingLeaks
SYMMETRY CacheSymmetry
