SPECIFICATION Spec
CONSTANTS
    p1 = p1
    p2 = p2
    ui = ui
    worker = worker
    geo = geo
    Absent = Absent
    NoOp = NoOp
    Missing = Missing
    Torn = Torn
    Nobody = Nobody
    Ids <- MCIds
    DomainIds <- MCDomainIds
    Threads <- MCThreads
    Calls <- MCCalls
    ReplaceRefused = TRUE
    MaxCrashes = 1
CHECK_DEADLOCK FALSE
INVARIANTS
    TypeOK
    NeverTorn
PROPERTIES
    ImplementsTable
