\* Linux build: destruction joins the task, which closes the fd.
SPECIFICATION Spec
CONSTANTS
    Build = "linux"
    MaxSets = 2
INVARIANTS FdReleased
PROPERTIES StartedDestructionCompletes
\* The terminal really stops: the object is released and the task has ended.
CHECK_DEADLOCK FALSE
