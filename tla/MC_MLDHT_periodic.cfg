\* Two routers, at most two replies in flight.
CONSTANTS
    Router = {r1, r2}
    MaxInFlight = 2
SPECIFICATION Spec
PROPERTY PeriodicKeepsRunning
\* After deinit the provider does nothing more.
CHECK_DEADLOCK FALSE
