\* Two requests, two Turnstile tokens and one edit of the form.
SPECIFICATION Spec
CONSTANTS
    a1 = a1
    a2 = a2
    t1 = t1
    t2 = t2
    Attempts = {a1, a2}
    Fields = {"radio", "old", "new"}
    Values = {"x", "y"}
    Blank = "blank"
    Tokens = {t1, t2}
    NoToken = "no token"
    Form <- MCForm
    MaxVersion = 2
    Payloads <- MCPayloads
    EnableTurnstile = TRUE
    VerifyCsrf = TRUE
    SilentlyReject = TRUE
SYMMETRY AttemptSymmetry
INVARIANTS BaitSwallowed OneResponsePerToken IInv
PROPERTIES KeepsPromise HonestKept
CHECK_DEADLOCK FALSE
