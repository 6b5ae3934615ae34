------------------------------- MODULE Intake -------------------------------
(***************************************************************************)
(* A visitor's response on its way into the database:                      *)
(* submissions_controller.rb create, services/spam_checker.rb with its     *)
(* three checks, and the validation and callbacks of submission.rb.        *)
(*                                                                         *)
(* The questions come from the copy of the form in FormCache, while the    *)
(* choices of radio buttons and dropdowns are read from the database, and  *)
(* administrators go on editing.  A request is a sequence of steps, any of *)
(* which may raise or be killed.                                           *)
(***************************************************************************)
EXTENDS Naturals

CONSTANTS
    Attempts,        \* POST requests
    Fields,          \* answer fields
    Values,          \* what can be answered
    Blank,           \* no answer
    Tokens,          \* answers of Turnstile to a challenge
    NoToken,         \* the visitor has solved none
    Form,            \* the successive versions of the form's questions
    MaxVersion,      \* bound on the edits
    Payloads,        \* what visitors send
    EnableTurnstile, \* form.enable_turnstile?
    VerifyCsrf,      \* form.verify_csrf?
    SilentlyReject   \* config.x.silently_reject_spam

Versions == 1 .. MaxVersion

Answers == [Fields -> Values \cup {Blank}]

\* chosen: the fields with radio buttons or a dropdown; accepts: the values that
\* the type and the options of a question admit.
FormVersion == [asked : SUBSET Fields, required : SUBSET Fields, chosen : SUBSET Fields,
                accepts : [Fields -> SUBSET Values]]

\* page: the version that the visitor answered; bait: the hidden field is filled;
\* foreign: the referer is on no allowlist; authentic: the CSRF token is good.
Payload == [page : Versions, answers : Answers, bait : BOOLEAN, foreign : BOOLEAN,
            token : Tokens \cup {NoToken}, authentic : BOOLEAN]

ASSUME VersionsAssumption == MaxVersion \in Nat \ {0} /\ Form \in [Versions -> FormVersion]
ASSUME PayloadsAssumption == Payloads \subseteq Payload /\ Payloads # {}
ASSUME AbsentAssumption == Blank \notin Values /\ NoToken \notin Tokens
ASSUME SettingsAssumption == {EnableTurnstile, VerifyCsrf, SilentlyReject} \subseteq BOOLEAN

VARIABLES
    now,         \* the version in the database
    floor,       \* no copy older than this one is served any more
    request,     \* the attempts
    row,         \* the responses stored
    spent,       \* tokens that Turnstile has verified once
    failedOpen,  \* attempts that Turnstile was too broken to verify (history)
    events       \* attempts whose touchpoint_form_submitted event is recorded

vars == <<now, floor, request, row, spent, failedOpen, events>>

NoRow == [answers |-> [f \in Fields |-> Blank], spam |-> FALSE, kept |-> FALSE]

Stages == {"unsent", "received", "screened", "saved", "announced",
           "thanked", "fooled", "refused", "failed"}

AnyPayload == CHOOSE p \in Payloads : TRUE

\* fresh: the page showed the current version and no older copy was about (history).
Unsent == [stage |-> "unsent", payload |-> AnyPayload, copy |-> 1, spam |-> FALSE, fresh |-> FALSE]

Request == [stage : Stages, payload : Payloads, copy : Versions, spam : BOOLEAN, fresh : BOOLEAN]

TypeOK ==
    /\ now \in Versions
    /\ floor \in 1 .. now
    /\ request \in [Attempts -> Request]
    /\ row \in [Attempts -> [answers : Answers, spam : BOOLEAN, kept : BOOLEAN]]
    /\ spent \subseteq Tokens
    /\ failedOpen \subseteq Attempts
    /\ events \subseteq Attempts

Init ==
    /\ now = 1
    /\ floor = 1
    /\ request = [a \in Attempts |-> Unsent]
    /\ row = [a \in Attempts |-> NoRow]
    /\ spent = {}
    /\ failedOpen = {}
    /\ events = {}

Kept == {a \in Attempts : row[a].kept}

Stage(a) == request[a].stage

Advance(a, stage) == request' = [request EXCEPT ![a].stage = stage]

-----------------------------------------------------------------------------
(* The form *)

\* A builder's commit changes the questions.
EditForm ==
    /\ now < MaxVersion
    /\ now' = now + 1
    /\ UNCHANGED <<floor, request, row, spent, failedOpen, events>>

\* Copies older than v are gone: a callback has dropped them, a stored response
\* has (it updates the form), or their day is over.  FormCache has the details.
OldCopiesGone(v) ==
    /\ v \in floor + 1 .. now
    /\ floor' = v
    /\ UNCHANGED <<now, request, row, spent, failedOpen, events>>

-----------------------------------------------------------------------------
(* The request *)

\* Mutant: edits never drop the copy.
Receive_anyCopy(a, p, v) ==
    /\ Stage(a) = "unsent"
    /\ v \in 1 .. now
    /\ p.page <= now
    /\ request' = [request EXCEPT ![a] =
          [stage |-> IF VerifyCsrf /\ ~p.authentic THEN "refused" ELSE "received",
           payload |-> p, copy |-> v, spam |-> FALSE,
           fresh |-> p.page = now /\ floor = now]]
    /\ UNCHANGED <<now, floor, row, spent, failedOpen, events>>

\* set_form and verify_authenticity_token, whose exception is a 422.
Receive(a, p, v) ==
    /\ Stage(a) = "unsent"
    /\ v \in floor .. now
    /\ p.page <= now
    /\ request' = [request EXCEPT ![a] =
          [stage |-> IF VerifyCsrf /\ ~p.authentic THEN "refused" ELSE "received",
           payload |-> p, copy |-> v, spam |-> FALSE,
           fresh |-> p.page = now /\ floor = now]]
    /\ UNCHANGED <<now, floor, row, spent, failedOpen, events>>

\* Mutant: a token used before is one of the "other" errors.
Healthy_duplicatePasses(token) == IF token = NoToken THEN "surface" ELSE "pass"

\* siteverify accepts a token once.
Healthy(token) == IF token = NoToken \/ token \in spent THEN "surface" ELSE "pass"

\* Each check's result; broken: siteverify misbehaves, times out or is misconfigured.
Results(p, broken) ==
    {IF p.bait THEN "reject" ELSE "pass",
     IF p.foreign THEN "flag" ELSE "pass",
     CASE ~EnableTurnstile                -> "not_applied"
       [] EnableTurnstile /\ broken /\ p.token # NoToken -> "pass"
       [] OTHER                           -> Healthy(p.token)}

\* Mutant: the retry that Turnstile asks for comes first.
Verdict_surfaceFirst(results) ==
    IF "surface" \in results THEN "surface"
    ELSE IF "reject" \in results THEN "reject"
    ELSE IF "flag" \in results THEN "flag" ELSE "pass"

Verdict(results) ==
    IF "reject" \in results THEN "reject"
    ELSE IF "surface" \in results THEN "surface"
    ELSE IF "flag" \in results THEN "flag" ELSE "pass"

\* All checks run before the verdict, so a token is spent on a rejected response, too.
\* broken: siteverify fails; taken: it has used the token up, broken or not.
Screen(a, broken, taken) ==
    LET p == request[a].payload
        asked == EnableTurnstile /\ p.token # NoToken
        verdict == Verdict(Results(p, broken))
    IN  /\ Stage(a) = "received"
        /\ broken \/ taken => asked
        /\ asked => broken \/ taken
        /\ spent' = IF taken THEN spent \cup {p.token} ELSE spent
        /\ failedOpen' = IF broken THEN failedOpen \cup {a} ELSE failedOpen
        /\ request' = [request EXCEPT
              ![a].stage = CASE verdict = "reject"  -> IF SilentlyReject THEN "fooled" ELSE "refused"
                             [] verdict = "surface" -> "refused"
                             [] OTHER               -> "screened",
              ![a].spam = verdict = "flag"]
        /\ UNCHANGED <<now, floor, row, events>>

\* submission_params: fields that the copy does not ask for are dropped.
Permitted(copy, answers) ==
    [f \in Fields |-> IF f \in Form[copy].asked THEN answers[f] ELSE Blank]

\* validate_answers: the copy's questions, but the database's options where the
\* code asks with where(...).
Valid(copy, answers) ==
    \A f \in Form[copy].asked :
        /\ f \in Form[copy].required => answers[f] # Blank
        /\ answers[f] # Blank =>
              answers[f] \in Form[IF f \in Form[copy].chosen THEN now ELSE copy].accepts[f]

\* Mutant: the row is inserted without validation (save(validate: false)), and the
\* errors are looked at afterwards.
Save_first(a) ==
    LET answers == Permitted(request[a].copy, request[a].payload.answers)
    IN  /\ Stage(a) = "screened"
        /\ row' = [row EXCEPT ![a] = [answers |-> answers, spam |-> request[a].spam, kept |-> TRUE]]
        /\ Advance(a, IF Valid(request[a].copy, answers) THEN "saved" ELSE "refused")
        /\ UNCHANGED <<now, floor, spent, failedOpen, events>>

\* save: validation, then one transaction with the counter cache, update_form and
\* set_preview.
Save(a) ==
    LET answers == Permitted(request[a].copy, request[a].payload.answers)
    IN  /\ Stage(a) = "screened"
        /\ IF Valid(request[a].copy, answers)
           THEN /\ row' = [row EXCEPT ![a] =
                      [answers |-> answers, spam |-> request[a].spam, kept |-> TRUE]]
                /\ Advance(a, "saved")
           ELSE Advance(a, "refused") /\ UNCHANGED row
        /\ UNCHANGED <<now, floor, spent, failedOpen, events>>

\* send_notifications, after the commit: the event first ...
LogEvent(a) ==
    /\ Stage(a) = "saved"
    /\ events' = events \cup {a}
    /\ Advance(a, "announced")
    /\ UNCHANGED <<now, floor, row, spent, failedOpen>>

\* Mutant: an exception of send_notifications is rescued.
Reply_rescued(a) ==
    /\ Stage(a) \in {"saved", "announced"}
    /\ Advance(a, "thanked")
    /\ UNCHANGED <<now, floor, row, spent, failedOpen, events>>

\* ... then the mail to whom it may concern, and the 201.
Reply(a) ==
    /\ Stage(a) = "announced"
    /\ Advance(a, "thanked")
    /\ UNCHANGED <<now, floor, row, spent, failedOpen, events>>

\* Any step raises, the query times out, the worker is killed or the line breaks.
Fail(a) ==
    /\ Stage(a) \in {"received", "screened", "saved", "announced"}
    /\ Advance(a, "failed")
    /\ UNCHANGED <<now, floor, row, spent, failedOpen, events>>

-----------------------------------------------------------------------------

AttemptStep(a) ==
    \/ \E p \in Payloads, v \in Versions : Receive(a, p, v)
    \/ \E broken, taken \in BOOLEAN : Screen(a, broken, taken)
    \/ Save(a) \/ LogEvent(a) \/ Reply(a) \/ Fail(a)

Next ==
    \/ EditForm
    \/ \E v \in Versions : OldCopiesGone(v)
    \/ \E a \in Attempts : AttemptStep(a)

Spec == Init /\ [][Next]_vars

-----------------------------------------------------------------------------
(* Properties *)

\* The pages' view of an attempt.
Shown(stage) == IF stage \in {"received", "screened", "saved", "announced"} THEN "open" ELSE stage

Promise == INSTANCE ResponseIntake WITH
    status <- [a \in Attempts |-> Shown(request[a].stage)],
    stored <- Kept,
    announced <- events

\* Whoever is thanked has a response that is stored and announced; whoever is
\* refused or fooled has none, however steps overlap and wherever they break off.
KeepsPromise == Promise!Spec

\* A bot that fills the hidden field never learns of it and leaves nothing, whatever
\* the other checks say and whether or not Turnstile works.
BaitSwallowed ==
    SilentlyReject => \A a \in Attempts :
        request[a].payload.bait /\ ~(VerifyCsrf /\ ~request[a].payload.authentic) =>
            Stage(a) \in {"unsent", "received", "fooled", "failed"} /\ a \notin Kept

\* With Turnstile, pressing twice stores once: two responses with one token are
\* there only if Turnstile could not be asked about one of them.
OneResponsePerToken ==
    EnableTurnstile => \A a, b \in Kept \ failedOpen :
        request[a].payload.token = request[b].payload.token => a = b

\* The visitor answered what the page asked for, as it asked for it.
Honest(p) ==
    /\ \A f \in Fields \ Form[p.page].asked : p.answers[f] = Blank
    /\ \A f \in Form[p.page].required \cap Form[p.page].asked : p.answers[f] # Blank
    /\ \A f \in Form[p.page].asked : p.answers[f] \in Form[p.page].accepts[f] \cup {Blank}

\* Who answers the form as it is, with no older copy about, is not refused for the
\* answers, and none of them is dropped, unless somebody edits in between.
HonestKept ==
    [][\A a \in Attempts :
          /\ Stage(a) = "screened" /\ request[a].fresh
          /\ request[a].payload.page = now
          /\ Honest(request[a].payload)
          /\ request'[a].stage \notin {"screened", "failed"}
          => a \in Kept' /\ row'[a].answers = request[a].payload.answers]_vars

\* The spam checks are behind the attempt.
Passed(a) == Stage(a) \in {"screened", "saved", "announced", "thanked"} \/ a \in Kept

\* How far a request has got tells what it has left behind.
Trace(a) ==
    /\ a \in Kept => Stage(a) \in {"saved", "announced", "thanked", "failed"}
    /\ Stage(a) \in {"saved", "announced", "thanked"} => a \in Kept
    /\ a \in events => a \in Kept /\ Stage(a) \in {"announced", "thanked", "failed"}
    /\ Stage(a) \in {"announced", "thanked"} => a \in events

\* A bait never gets past the checks.
Caught(a) ==
    request[a].payload.bait =>
        /\ ~Passed(a)
        /\ SilentlyReject /\ ~(VerifyCsrf /\ ~request[a].payload.authentic) => Stage(a) # "refused"

Vouched(a) == EnableTurnstile /\ Passed(a) /\ a \notin failedOpen

\* A token that vouched for an attempt is spent, and vouches for no other.
TokensApart ==
    /\ \A a \in Attempts : Vouched(a) => request[a].payload.token \in spent
    /\ \A a, b \in Attempts : Vouched(a) /\ Vouched(b) =>
          (request[a].payload.token = request[b].payload.token => a = b)

IInv ==
    /\ TypeOK
    /\ \A a \in Attempts : Trace(a) /\ Caught(a)
    /\ TokensApart

=============================================================================
