SPECIFICATION Spec
CONSTANTS
    Dpd = 3
    Keepalive = 2
    Rekey = 8
    Delay = 1
    Answer = 1
    MaxTime = 11
INVARIANTS
    TypeOK
    DeathInTime
    DeadIsDead
    RekeyInTime
    NeverSilent
    NoProbeStorm
CHECK_DEADLOCK FALSE
