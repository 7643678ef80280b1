\* FreeRTOS build: after task() returns, Task::Delete() never returns, so the
\* lambda never reaches close(t->fd).
SPECIFICATION Spec
CONSTANTS
    Build = "freertos"
    MaxSets = 2
INVARIANTS TaskEndClosesFd

\* The terminal really stops: the object is released and the task has ended.
CHECK_DEADLOCK FALSE
