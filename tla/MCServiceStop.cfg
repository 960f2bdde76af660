SPECIFICATION Spec
CONSTANTS
    p1 = p1
    p2 = p2
    None = None
    Profiles <- MCProfiles
    Deletable <- MCDeletable
    MaxThreads = 4
    MaxRequests = 2
    MaxStops = 1
CHECK_DEADLOCK FALSE
PROPERTIES
    DisconnectStands
