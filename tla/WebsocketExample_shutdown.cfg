\* Without data, the application eventually shuts down.
SPECIFICATION Spec
PROPERTY NoDataShutdown
\* websocket_app_start() returns after destroying the client: the program really stops.
CHECK_DEADLOCK FALSE
