SPECIFICATION Spec
CONSTANTS
    home = home
    work = work
    None = None
    Profiles <- MCProfiles
    CachedExit <- MCCachedExit
    LookupPublicIp = {1}
    MaxSessions = 1
    MaxSwitches = 1
    MaxDisconnects = 0
CHECK_DEADLOCK FALSE
INVARIANTS
    GapStaysHidden
