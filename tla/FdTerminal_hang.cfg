\* Linux build: a task that never saw START is never woken, so the join never returns.
SPECIFICATION Spec
CONSTANTS
    Build = "linux"
    MaxSets = 2

PROPERTIES DestructionCompletes
\* The terminal really stops: the object is released and the task has ended.
CHECK_DEADLOCK FALSE
