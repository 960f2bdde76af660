SPECIFICATION Spec
CONSTANTS
    NetchangeReconnect = TRUE
    MaxEvents = 4
CHECK_DEADLOCK FALSE
INVARIANTS
    PauseReachesSession
