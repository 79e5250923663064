SPECIFICATION FairSpec
CONSTANTS
    c1 = c1
    c2 = c2
    c3 = c3
    old = old
    new = new
    Nobody = Nobody
    Conn <- MCTwo
    ByHand = {}
    Build <- MCSameBuild
    IdleExit = FALSE
    MaxKills = 0
    MaxStops = 0
    MaxStatus = 1
PROPERTIES
    SettlesWhileServersStay
    ServedWhileServersStay
CHECK_DEADLOCK FALSE
