SPECIFICATION FairSpec
CONSTANTS
    u1 = u1
    u2 = u2
    Users = {u1, u2}
    Limit = 3
    Week = 1
    Day = 2
    MaxFailures = 1
INVARIANTS DeactivationWasAnnounced IInv
PROPERTIES IdleIsDeactivated
CHECK_DEADLOCK FALSE
