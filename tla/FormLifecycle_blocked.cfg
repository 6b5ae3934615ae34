\* The daily job and one form that waits for its approval.
SPECIFICATION FairSpec
CONSTANTS
    r1 = r1
    r2 = r2
    Forms = {1}
    Requests = {r1}
    MaxDay = 1
    MaxKills = 0
    EndDates = {1}
    OmbNumbers = {1}
    EditableStates = {}
    ApprovalSettings = {TRUE}
    Tracked = {}
PROPERTIES OverdueIsArchived
CHECK_DEADLOCK FALSE
