SPECIFICATION Spec
CONSTANTS
    c1 = c1
    c2 = c2
    c3 = c3
    old = old
    new = new
    Nobody = Nobody
    Conn <- MCThree
    ByHand = {c3}
    Build <- MCUpgrade
    IdleExit = TRUE
    MaxKills = 1
    MaxStops = 1
    MaxStatus = 0
INVARIANTS
    TypeOK
    OneServer
    OwnControl
    LockNotOrphaned
    ServedOnce
PROPERTIES
    ImplementsService
CHECK_DEADLOCK FALSE
