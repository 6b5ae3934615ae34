\* Two handlers on one form, with and without the approval process.
SPECIFICATION TornSpec
CONSTANTS
    r1 = r1
    r2 = r2
    Forms = {1}
    Requests = {r1, r2}
    MaxDay = 1
    MaxKills = 1
    EndDates = {}
    OmbNumbers = {1}
    EditableStates = {"published"}
    ApprovalSettings = {TRUE, FALSE}
    Tracked = {"submitted", "approved", "archived"}
SYMMETRY RequestSymmetry
INVARIANTS ApprovalChain RetentionFindsArchived MailTruthful Audited
CHECK_DEADLOCK FALSE
