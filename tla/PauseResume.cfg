SPECIFICATION FairSpec
CONSTANTS
    NetchangeReconnect = TRUE
    MaxEvents = 4
CHECK_DEADLOCK FALSE
INVARIANTS
    TypeOK
    CancelNotLost
    PauseNotLost
    NoLostWakeup
    RunsWhenWanted
    KeepaliveInStep
PROPERTIES
    ImplementsHeld
    CancelEnds
    PauseTakesHold
