\* Two forms that end on the second day, the first perhaps refused by its validations;
\* the daily job may be killed.
SPECIFICATION TornFairSpec
CONSTANTS
    r1 = r1
    r2 = r2
    Forms = {1, 2}
    Requests = {r1}
    MaxDay = 2
    MaxKills = 1
    EndDates = {2}
    OmbNumbers = {1}
    EditableStates = {}
    ApprovalSettings = {FALSE}
    Tracked = {"archived"}
INVARIANTS IInv
PROPERTIES ValidOverdueIsArchived
ACTION_CONSTRAINT SecondIsQuiet
CHECK_DEADLOCK FALSE
