\* A form of two pages that is hosted, with Turnstile and verify_csrf; two texts and two mishaps.
SPECIFICATION FairSpec
CONSTANTS
    MaxAttempts = 4
    Options = {"yes"}
    First = "yes"
    None = "none"
    LastPage = 2
    EarlySubmission = FALSE
    Turnstile = TRUE
    VerifyCsrf = TRUE
    Hosted = TRUE
    MaxTexts = 2
    MaxMishaps = 2
INVARIANTS IInv StoresOnce NotStuckByRefusal
PROPERTIES ThankedNotResent Thankful
CHECK_DEADLOCK FALSE
