\* A set_read_cb() during the task's hand-over is lost.
SPECIFICATION Spec
CONSTANTS
    Build = "linux"
    MaxSets = 2
INVARIANTS CallbackCurrent

\* The terminal really stops: the object is released and the task has ended.
CHECK_DEADLOCK FALSE
