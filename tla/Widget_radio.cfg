\* The same form with two radio buttons.
SPECIFICATION Spec
CONSTANTS
    MaxAttempts = 4
    Options = {"yes", "no"}
    First = "yes"
    None = "none"
    LastPage = 2
    EarlySubmission = FALSE
    Turnstile = TRUE
    VerifyCsrf = TRUE
    Hosted = TRUE
    MaxTexts = 2
    MaxMishaps = 2
INVARIANTS SentAsChosen
CHECK_DEADLOCK FALSE
