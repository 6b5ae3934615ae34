\* Two handlers and one form whose end date and OMB number they may tear apart.
SPECIFICATION FairSpec
CONSTANTS
    r1 = r1
    r2 = r2
    Forms = {1}
    Requests = {r1, r2}
    MaxDay = 2
    MaxKills = 0
    EndDates = {1, 2}
    OmbNumbers = {1}
    EditableStates = {}
    ApprovalSettings = {TRUE}
    Tracked = {"submitted"}
SYMMETRY RequestSymmetry
INVARIANTS AnnouncedStatusReached
CHECK_DEADLOCK FALSE
