SPECIFICATION Spec
CONSTANTS
    None = None
    Launches = {l1, l2, l3}
    Elders = {1, 7}
    LastVersion = 7
    Founder = elder
INVARIANTS
    SoloOpens
    OwnerAuthorized
CHECK_DEADLOCK FALSE
