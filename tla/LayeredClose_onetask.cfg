\* One task, the fix exactly as the comment writes it (test, _close, then
\* set): nested and repeated close() calls on any layer release each layer
\* once, and a quiescent stack is released from the closed layer down.
SPECIFICATION Spec
CONSTANTS
    t1 = t1
    t2 = t2
    N = 3
    Tasks <- MCOneTask
    MaxCalls = 5
INVARIANT ClosedStackReleased
PROPERTY AbsSpec
\* The task stops after its bounded number of close() calls.
CHECK_DEADLOCK FALSE
