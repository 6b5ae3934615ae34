------------------------------- MODULE Widget -------------------------------
(***************************************************************************)
(* A form in a visitor's browser: views/components/widget/_fba.js.erb.     *)
(* The page validates, disables a button, posts, and waits for one of the  *)
(* endings that ResponseIntake promises; the draft of the answers is kept  *)
(* in the browser's local storage and outlives the page; with Turnstile    *)
(* every request needs a token that is good for one verification; with     *)
(* verify_csrf it needs the session that the form was made for, and the    *)
(* draft keeps that session's token with the answers.                      *)
(*                                                                         *)
(* The form has two required questions: radio buttons on its first page    *)
(* and a text on its last.                                                 *)
(***************************************************************************)
EXTENDS Naturals, FiniteSets

CONSTANTS
    MaxAttempts,      \* bound on the requests of one visitor
    Options,          \* the radio buttons
    First,            \* the first of them in the document
    None,             \* none of them
    LastPage,         \* 1 or 2 pages
    EarlySubmission,  \* form.early_submission: a submit button on page 1, too
    Turnstile,        \* form.enable_turnstile?
    VerifyCsrf,       \* form.verify_csrf?
    Hosted,           \* hosted_mode: the form is a page of its own
    MaxTexts,         \* bound on what the visitor types
    MaxMishaps        \* bound on refusals that are not about the token, failures, losses,
                      \* tokens and sessions that expire, emptied fields and needless
                      \* reloads together

ASSUME OptionsAssumption == First \in Options /\ None \notin Options
ASSUME LayoutAssumption ==
    LastPage \in {1, 2} /\ {EarlySubmission, Turnstile, VerifyCsrf, Hosted} \subseteq BOOLEAN
ASSUME WidgetBounds == {MaxAttempts, MaxTexts, MaxMishaps} \subseteq Nat

Attempts == 1 .. MaxAttempts

VARIABLES
    page,     \* the document: what is filled in, shown and enabled
    draft,    \* the entry in local storage
    token,    \* the Turnstile widget: no challenge, one under way, or a token
    xhr,      \* the requests, as the current document sees them
    sent,     \* what they carried
    count,    \* events so far, for the bounds
    acked,    \* texts whose response was acknowledged to the visitor (history)
    spent,    \* tokens that siteverify accepts no more
    status, stored, announced    \* the server's side: ResponseIntake

browser == <<page, draft, token, xhr, sent, count, acked>>
server == <<status, stored, announced>>
vars == <<browser, spent, server>>

Server == INSTANCE ResponseIntake

\* The submit buttons in document order.
Buttons == IF EarlySubmission /\ LastPage = 2 THEN {1, 2} ELSE {1}

FirstButton == 1

PageOf(b) == IF Cardinality(Buttons) = 2 /\ b = 1 THEN 1 ELSE LastPage

NoText == 0

\* choice: the button that is checked; value: the value of each; reopened: an error
\* message has enabled a button that a request had disabled (history); session: the one
\* that the hidden authenticity_token is of.
Page == [choice : Options \cup {None}, value : [Options -> Options], text : 0 .. MaxTexts,
         visible : 1 .. LastPage, enabled : [Buttons -> BOOLEAN], hidden : BOOLEAN,
         reopened : BOOLEAN, session : Nat]

NewPage == [choice |-> None, value |-> [o \in Options |-> o], text |-> NoText,
            visible |-> 1, enabled |-> [b \in Buttons |-> TRUE], hidden |-> FALSE,
            reopened |-> FALSE, session |-> 1]

NoSession == 0

NoDraft == [radio |-> None, text |-> NoText, session |-> NoSession]

NoRequest == [radio |-> None, shown |-> None, text |-> NoText, token |-> 0, load |-> 0,
              fresh |-> FALSE]

\* A form that has a page of its own starts the challenge at once.
Unchallenged == [pc |-> IF Turnstile /\ Hosted THEN "pending" ELSE "none", id |-> 0]

Counters == {"texts", "mishaps", "tokens", "loads", "sessions"}

TypeOK ==
    /\ page \in Page
    /\ draft \in [radio : Options \cup {None}, text : 0 .. MaxTexts, session : Nat]
    /\ token \in [pc : {"none", "pending", "held"}, id : Nat]
    /\ xhr \in [Attempts -> {"none", "flying", "answered", "lost", "dropped"}]
    /\ sent \in [Attempts -> [radio : Options \cup {None}, shown : Options \cup {None},
                              text : 0 .. MaxTexts, token : Nat, load : Nat, fresh : BOOLEAN]]
    /\ count \in [Counters -> Nat]
    /\ acked \subseteq 1 .. MaxTexts
    /\ spent \subseteq Nat
    /\ status \in [Attempts -> {"unsent", "open"} \cup Server!Endings]
    /\ stored \subseteq Attempts /\ announced \subseteq stored

Init ==
    /\ page = NewPage
    /\ draft = NoDraft
    /\ token = Unchallenged
    /\ xhr = [a \in Attempts |-> "none"]
    /\ sent = [a \in Attempts |-> NoRequest]
    /\ count = [c \in Counters |-> IF c \in {"loads", "sessions"} THEN 1 ELSE 0]
    /\ acked = {}
    /\ spent = {}
    /\ Server!Init

Flying == {a \in Attempts : xhr[a] = "flying"}

Mishap ==
    /\ count["mishaps"] < MaxMishaps
    /\ count' = [count EXCEPT !["mishaps"] = @ + 1]

-----------------------------------------------------------------------------
(* Filling in *)

\* The 'input' event: local storage gets FormData(form), the hidden fields included, and
\* in an embedded form the first one starts the challenge.
OnInput(new) ==
    /\ draft' = [radio |-> IF new.choice = None THEN None ELSE new.value[new.choice],
                 text |-> new.text, session |-> new.session]
    /\ token' = IF Turnstile /\ token.pc = "none" THEN [token EXCEPT !.pc = "pending"] ELSE token

Choose(o) ==
    /\ ~page.hidden
    /\ page.visible = 1
    /\ page.choice # o
    /\ page' = [page EXCEPT !.choice = o]
    /\ OnInput(page')
    /\ UNCHANGED <<xhr, sent, count, acked, spent, server>>

\* The visitor types something new, or empties the field.
Type(text) ==
    /\ ~page.hidden
    /\ page.visible = LastPage
    /\ \/ /\ text = count["texts"] + 1
          /\ text <= MaxTexts
          /\ count' = [count EXCEPT !["texts"] = text]
       \/ /\ text = NoText
          /\ page.text # NoText
          /\ count["texts"] < MaxTexts
          /\ Mishap
    /\ page' = [page EXCEPT !.text = text]
    /\ OnInput(page')
    /\ UNCHANGED <<xhr, sent, acked, spent, server>>

\* checkRequired: the questions without an answer on these pages.
Missing(pages) ==
    {p \in pages : (p = 1 /\ page.choice = None) \/ (p = LastPage /\ page.text = NoText)}

\* showValidationError: to the first error, and the first button is enabled.
ShowError(missing) ==
    page' = [page EXCEPT !.visible = CHOOSE p \in missing : \A q \in missing : p <= q,
                         !.enabled[FirstButton] = TRUE,
                         !.reopened = @ \/ ~page.enabled[FirstButton]]

\* Next and Previous, if the page is in order.
Turn(to) ==
    /\ ~page.hidden
    /\ to \in (1 .. LastPage) \ {page.visible}
    /\ IF Missing({page.visible}) = {}
       THEN page' = [page EXCEPT !.visible = to]
       ELSE ShowError(Missing({page.visible}))
    /\ UNCHANGED <<draft, token, xhr, sent, count, acked, spent, server>>

-----------------------------------------------------------------------------
(* Turnstile *)

Solve ==
    /\ token.pc = "pending"
    /\ token' = [pc |-> "held", id |-> count["tokens"] + 1]
    /\ count' = [count EXCEPT !["tokens"] = @ + 1]
    /\ UNCHANGED <<page, draft, xhr, sent, acked, spent, server>>

\* expired-callback: regenerateTurnstileToken.
ExpireToken ==
    /\ token.pc = "held"
    /\ Mishap
    /\ token' = [token EXCEPT !.pc = "pending"]
    /\ spent' = spent \cup {token.id}
    /\ UNCHANGED <<page, draft, xhr, sent, acked, server>>

\* The session cookie lasts for 30 minutes without a request; what the server makes
\* after that is another session.
ExpireSession ==
    /\ VerifyCsrf
    /\ count["mishaps"] < MaxMishaps
    /\ count' = [count EXCEPT !["mishaps"] = @ + 1, !["sessions"] = @ + 1]
    /\ UNCHANGED <<page, draft, token, xhr, sent, acked, spent, server>>

-----------------------------------------------------------------------------
(* Submitting *)

IsNext(a) == xhr[a] = "none" /\ \A b \in Attempts : b < a => xhr[b] # "none"

\* Mutant: the button is disabled when the answer arrives.
Press_late(b) ==
    /\ ~page.hidden
    /\ page.enabled[b]
    /\ page.visible = PageOf(b)
    /\ IF Missing(1 .. LastPage) # {}
       THEN ShowError(Missing(1 .. LastPage)) /\ UNCHANGED <<xhr, sent>>
       ELSE /\ Turnstile => token.pc = "held"
            /\ \E a \in Attempts :
                  /\ IsNext(a)
                  /\ xhr' = [xhr EXCEPT ![a] = "flying"]
                  /\ sent' = [sent EXCEPT ![a] =
                        [radio |-> page.value[page.choice], shown |-> page.choice,
                         text |-> page.text, token |-> token.id, load |-> count["loads"],
                         fresh |-> VerifyCsrf => page.session = count["sessions"]]]
            /\ UNCHANGED page
    /\ UNCHANGED <<draft, token, count, acked, spent, server>>

\* handleSubmitClick: validateForm, validateTurnstile, one button, ajaxPost.
Press(b) ==
    /\ ~page.hidden
    /\ page.enabled[b]
    /\ page.visible = PageOf(b)
    /\ IF Missing(1 .. LastPage) # {}
       THEN ShowError(Missing(1 .. LastPage)) /\ UNCHANGED <<xhr, sent>>
       ELSE /\ Turnstile => token.pc = "held"
            /\ \E a \in Attempts :
                  /\ IsNext(a)
                  /\ xhr' = [xhr EXCEPT ![a] = "flying"]
                  /\ sent' = [sent EXCEPT ![a] =
                        [radio |-> page.value[page.choice], shown |-> page.choice,
                         text |-> page.text, token |-> token.id, load |-> count["loads"],
                         fresh |-> VerifyCsrf => page.session = count["sessions"]]]
            /\ page' = [page EXCEPT !.enabled[FirstButton] = FALSE]
    /\ UNCHANGED <<draft, token, count, acked, spent, server>>

\* Mutant: the draft is left in local storage.
Thanked_draftKept(a) ==
    /\ status[a] = "thanked"
    /\ page' = [page EXCEPT !.enabled[FirstButton] = FALSE, !.hidden = TRUE,
                            !.choice = None, !.text = NoText]
    /\ acked' = acked \cup {sent[a].text}
    /\ UNCHANGED <<draft, token>>

\* formSuccess on 201: showFormSuccess resets the form, forgets the draft and
\* hides the body.  The values of the radio buttons are no part of a reset.
Thanked(a) ==
    /\ status[a] = "thanked"
    /\ page' = [page EXCEPT !.enabled[FirstButton] = FALSE, !.hidden = TRUE,
                            !.choice = None, !.text = NoText]
    /\ draft' = NoDraft
    /\ acked' = acked \cup {sent[a].text}
    /\ UNCHANGED token

\* Mutant: the button stays as it is.
Refused_dead(a) ==
    /\ status[a] = "refused"
    /\ token' = IF Turnstile THEN [token EXCEPT !.pc = "pending"] ELSE token
    /\ UNCHANGED <<page, draft, acked>>

\* Mutant: the token is not regenerated.
Refused_oldToken(a) ==
    /\ status[a] = "refused"
    /\ page' = [page EXCEPT !.enabled[FirstButton] = TRUE]
    /\ UNCHANGED <<draft, acked, token>>

\* On 422 the first button is enabled and Turnstile started again.
Refused(a) ==
    /\ status[a] = "refused"
    /\ page' = [page EXCEPT !.enabled[FirstButton] = TRUE]
    /\ token' = IF Turnstile THEN [token EXCEPT !.pc = "pending"] ELSE token
    /\ UNCHANGED <<draft, acked>>

\* Any other answer: a message, nothing else.
Failed(a) ==
    /\ status[a] = "failed"
    /\ UNCHANGED <<page, draft, token, acked>>

\* xhr.onload
Load(a) ==
    /\ xhr[a] = "flying"
    /\ Thanked(a) \/ Refused(a) \/ Failed(a)
    /\ xhr' = [xhr EXCEPT ![a] = "answered"]
    /\ UNCHANGED <<sent, count, spent, server>>

\* The request or its answer gets lost; there is no onerror and no timeout.
Lose(a) ==
    /\ xhr[a] = "flying"
    /\ Mishap
    /\ xhr' = [xhr EXCEPT ![a] = "lost"]
    /\ UNCHANGED <<page, draft, token, sent, acked, spent, server>>

\* Nothing that the visitor presses has an effect any more.
Stuck == ~page.hidden /\ ~page.enabled[FirstButton] /\ Flying = {}

\* Mutant: an answer that was not given is restored, too.
Restored_blank ==
    [NewPage EXCEPT !.text = draft.text, !.value[First] = draft.radio,
                    !.session = IF draft = NoDraft THEN count["sessions"] ELSE draft.session]

\* The server puts a token of the session in use into the page; enableLocalStorage then
\* gives the saved value to the first element of that name, whatever it holds: to the
\* first radio button, to the text, to the hidden authenticity_token.
Restored ==
    [NewPage EXCEPT !.text = draft.text,
                    !.value[First] = IF draft.radio = None THEN @ ELSE draft.radio,
                    !.session = IF draft = NoDraft THEN count["sessions"] ELSE draft.session]

\* The visitor loads the page again, by need or on a whim; requests under way lose
\* their page, not their way.
Reload ==
    /\ Stuck \/ count["mishaps"] < MaxMishaps
    /\ count' = [count EXCEPT !["mishaps"] = IF Stuck THEN @ ELSE @ + 1, !["loads"] = @ + 1]
    /\ page' = Restored
    /\ token' = Unchallenged
    /\ xhr' = [a \in Attempts |-> IF xhr[a] = "flying" THEN "dropped" ELSE xhr[a]]
    /\ UNCHANGED <<draft, sent, acked, spent, server>>

-----------------------------------------------------------------------------
(* The server *)

\* The request reaches the server, even if its page is gone.
Arrive(a) ==
    /\ xhr[a] # "none"
    /\ Server!Arrive(a) /\ status'[a] = "open"
    /\ UNCHANGED <<browser, spent>>

Good(a) == Turnstile => sent[a].token \notin spent

\* verify_authenticity_token and Turnstile work: a response is kept only with a token of
\* the session and, for Turnstile, one that was not used before.
Accept(a) ==
    /\ sent[a].fresh /\ Good(a)
    /\ Server!Keep(a)
    /\ spent' = spent \cup {sent[a].token}
    /\ UNCHANGED browser

Confirm(a) ==
    /\ (Server!Announce(a) /\ a \notin announced) \/ Server!Thank(a)
    /\ UNCHANGED <<browser, spent>>

\* A stale session, refused before siteverify is asked; a token that is no good; or,
\* and only that is bounded, answers that no longer fit.
Decline(a) ==
    /\ Server!Decline(a) /\ status'[a] = "refused"
    /\ spent' = IF sent[a].fresh THEN spent \cup {sent[a].token} ELSE spent
    /\ IF sent[a].fresh /\ Good(a) THEN Mishap ELSE UNCHANGED count
    /\ UNCHANGED <<page, draft, token, xhr, sent, acked>>

FailAttempt(a) ==
    /\ Server!Fail(a)
    /\ Mishap
    /\ UNCHANGED <<page, draft, token, xhr, sent, acked, spent>>

Serve(a) == Accept(a) \/ Confirm(a) \/ Decline(a)

-----------------------------------------------------------------------------

Visitor ==
    \/ \E o \in Options : Choose(o)
    \/ \E text \in 0 .. MaxTexts : Type(text)
    \/ \E to \in 1 .. LastPage : Turn(to)
    \/ \E b \in Buttons : Press(b)
    \/ Reload

Network == \E a \in Attempts : Arrive(a) \/ Load(a) \/ Lose(a)

Next ==
    \/ Visitor
    \/ Solve \/ ExpireToken \/ ExpireSession
    \/ Network
    \/ \E a \in Attempts : Serve(a) \/ FailAttempt(a)

Spec == Init /\ [][Next]_vars

\* What is under way arrives, the server serves, a challenge is solved.
FairWorld ==
    /\ \A a \in Attempts : WF_vars(xhr[a] = "flying" /\ (Arrive(a) \/ Serve(a)))
    /\ \A a \in Attempts : WF_vars(Load(a))
    /\ WF_vars(Solve)

\* The visitor fills in what is missing, goes on to the last page, reloads a page
\* on which nothing works any more, and presses the button again and again.
FairVisitor ==
    /\ WF_vars(page.choice = None /\ \E o \in Options : Choose(o))
    /\ WF_vars(page.text = NoText /\ \E text \in 1 .. MaxTexts : Type(text))
    /\ WF_vars(\E to \in 1 .. LastPage : to > page.visible /\ Turn(to))
    /\ WF_vars(Stuck /\ Reload)
    /\ SF_vars(\E b \in Buttons : PageOf(b) = LastPage /\ Press(b))

FairSpec == Spec /\ FairWorld /\ FairVisitor

-----------------------------------------------------------------------------
(* Properties *)

\* A document with one button stores one response, unless an error message has
\* enabled the button that the first request disabled.
StoresOnce ==
    Buttons = {FirstButton} /\ ~page.reopened => \A a, b \in stored :
        sent[a].load = count["loads"] /\ sent[b].load = count["loads"] => a = b

\* The button is dead only while an answer is awaited or after a failure.
NotStuckByRefusal ==
    Stuck => \E a \in Attempts :
        sent[a].load = count["loads"] /\ (xhr[a] = "lost" \/ status[a] = "failed")

\* What was acknowledged to the visitor is not sent again, by no later document.
ThankedNotResent ==
    [][\A a \in Attempts : xhr[a] = "none" /\ xhr'[a] = "flying" => sent'[a].text \notin acked]_vars

\* The draft holds the token of a session that is over: every reload restores it, every
\* input saves it again, and every request that carries it is refused.
Locked == VerifyCsrf /\ draft.session \notin {NoSession, count["sessions"]}

\* A visitor who keeps trying is thanked in the end, across refusals, expired Turnstile
\* tokens, failures and reloads, unless the session ended under a draft.
Thankful == <>(page.hidden \/ Locked)

\* The answer that is sent is the one that was chosen.
SentAsChosen == \A a \in Attempts : sent[a].radio = sent[a].shown

\* The requests of the document that is on display.
Mine == {a \in Attempts : xhr[a] # "none" /\ sent[a].load = count["loads"]}

\* The page knows that nothing was stored.
Closed(a) == xhr[a] = "answered" /\ status[a] = "refused"

\* What was sent, and how far it got.
Trail(a) ==
    /\ xhr[a] = "none" => status[a] = "unsent"
    /\ xhr[a] # "none" => sent[a].load <= count["loads"] /\ sent[a].text \in 1 .. count["texts"]
    /\ xhr[a] = "flying" => sent[a].load = count["loads"]
    /\ status[a] \in {"unsent", "refused"} => a \notin stored

\* As long as no error message has enabled the button, it is enabled only when all
\* requests are closed, and at most one is not.
OneOpen ==
    Buttons = {FirstButton} /\ ~page.reopened =>
        /\ page.enabled[FirstButton] => \A a \in Mine : Closed(a)
        /\ \A a, b \in Mine : a # b => Closed(a) \/ Closed(b)

\* A dead button has a request to blame.
Blamed ==
    ~page.hidden /\ ~page.enabled[FirstButton] => \E a \in Mine :
        xhr[a] \in {"flying", "lost"} \/ status[a] = "failed"

\* Neither the page nor the draft holds a text that was acknowledged, and what will be
\* typed is new.
Forgotten ==
    /\ acked \subseteq 1 .. count["texts"]
    /\ draft.text \in (0 .. count["texts"]) \ acked
    /\ page.text \in 0 .. count["texts"]
    /\ ~page.hidden => page.text \notin acked

\* Whatever the page and the draft forget has reached the database, event and all.
AckedIsStored == \A text \in acked : \E a \in stored \cap announced : sent[a].text = text

PageInv ==
    /\ TypeOK
    /\ \A a \in Attempts : Trail(a)
    /\ OneOpen
    /\ Blamed
    /\ Forgotten

\* Who was thanked, and for what.
Vouched ==
    /\ \A a \in Attempts : status[a] = "thanked" => a \in stored \cap announced
    /\ \A text \in acked : \E a \in stored \cap announced : xhr[a] # "none" /\ sent[a].text = text

\* The inductive invariant of WidgetProofs.
IInv == PageInv /\ Vouched

=============================================================================
