\* A quiet cycle whose sends all succeed outlasts the shutdown timer.
SPECIFICATION Spec
INVARIANT FullQuietCycleSignalled
\* websocket_app_start() returns after destroying the client: the program really stops.
CHECK_DEADLOCK FALSE
