SPECIFICATION Spec
CONSTANTS
    W = 2
    Grace = 1
    SeqMod = 5
    MaxKeys = 3
CHECK_DEADLOCK FALSE
INVARIANTS
    TypeOK
    NoReplay
    BacklogExact
PROPERTIES
    ImplementsAntiReplay
