SPECIFICATION FairSpec
CONSTANTS
    r1 = r1
    r2 = r2
    d1 = d1
    d2 = d2
    Readers = {r1, r2}
    Editors = {d1, d2}
    MaxCommits = 2
INVARIANTS EditsStayVisible IInv
PROPERTIES EditsShow
CHECK_DEADLOCK FALSE
