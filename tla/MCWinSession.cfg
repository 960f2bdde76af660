SPECIFICATION FairSpec
CONSTANTS
    home = home
    work = work
    None = None
    Profiles <- MCProfiles
    CachedExit <- MCCachedExit
    LookupPublicIp = {1}
    MaxSessions = 2
    MaxSwitches = 1
    MaxDisconnects = 1
CHECK_DEADLOCK FALSE
INVARIANTS
    TypeOK
    ConnectedIsBacked
    ConnectingIsBacked
    GapHidesExit
    LoneStatusExact
    LonePipeExact
PROPERTIES
    CancelEndsSession
