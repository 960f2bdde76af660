SPECIFICATION Spec
CONSTANTS
    home = home
    work = work
    None = None
    Profiles <- MCProfiles
    CachedExit <- MCCachedExit
    LookupPublicIp = {}
    MaxSessions = 2
    MaxSwitches = 0
    MaxDisconnects = 1
CHECK_DEADLOCK FALSE
PROPERTIES
    LateEndSparesNewer
