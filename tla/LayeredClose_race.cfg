\* Two tasks, the fix of the header comment: test and set are apart, both tasks release the same layer.
SPECIFICATION Spec
CONSTANTS
    t1 = t1
    t2 = t2
    N = 3
    Tasks <- MCTasks
    MaxCalls = 1
SYMMETRY TaskSymmetry
PROPERTY AbsSpec
\* Every task has made its bounded number of close() calls: the callers stop.
CHECK_DEADLOCK FALSE
