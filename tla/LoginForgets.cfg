SPECIFICATION Spec
CONSTANTS
    p1 = p1
    p2 = p2
    good = good
    old = old
    None = None
    Nobody = Nobody
    s1 = s1
    s2 = s2
    Sessions <- MCSessions
    Profiles <- MCProfiles
    Passwords = {good, old}
    Good = {good}
    InitStores <- MCInitStores
    Asks <- MCAsks
    OpenError <- MCOpenError
    Lines <- MCLines
    WriteFails = TRUE
    RemoveFails = FALSE
    BufSize = 7
SYMMETRY Symmetry
CHECK_DEADLOCK FALSE
INVARIANTS
    UnreachedKeepsLogin
