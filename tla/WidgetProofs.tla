---------------------------- MODULE WidgetProofs ----------------------------
(***************************************************************************)
(* For any number of requests, texts and mishaps and every layout of the   *)
(* form: IInv is an inductive invariant of Widget, and with it a document  *)
(* stores one response, only a failure leaves the button dead, and what    *)
(* was acknowledged is stored and not sent again.  The server's side of    *)
(* Widget implements ResponseIntake.                                       *)
(***************************************************************************)
EXTENDS Widget, TLAPS

\* The submit button of the last page is there in every layout.
LEMMA ButtonsType == FirstButton \in Buttons /\ Buttons \subseteq {1, 2}
BY DEF FirstButton, Buttons

LEMMA CountersType == {"texts", "mishaps", "tokens", "loads", "sessions"} \subseteq Counters
BY DEF Counters

LEMMA NewPageType == NewPage \in Page
<1>1. 1 \in 1 .. LastPage
  BY LayoutAssumption
<1>2. QED
  BY <1>1, WidgetBounds DEF NewPage, Page, NoText

LEMMA UnchallengedType == Unchallenged \in [pc : {"none", "pending", "held"}, id : Nat]
BY DEF Unchallenged

LEMMA PageInit == Init => PageInv
<1> SUFFICES ASSUME Init PROVE PageInv
  OBVIOUS
<1>1. /\ NoRequest \in [radio : Options \cup {None}, shown : Options \cup {None},
                        text : 0 .. MaxTexts, token : Nat, load : Nat, fresh : BOOLEAN]
      /\ NoDraft \in [radio : Options \cup {None}, text : 0 .. MaxTexts, session : Nat]
  BY WidgetBounds DEF NoRequest, NoDraft, NoText, NoSession
<1>2. status = [a \in Attempts |-> "unsent"] /\ stored = {} /\ announced = {}
  BY DEF Init, Server!Init
<1>3. TypeOK
  BY <1>1, <1>2, NewPageType, UnchallengedType DEF Init, TypeOK
<1>4. \A a \in Attempts : Trail(a)
  BY <1>2 DEF Init, Trail
<1>5. Mine = {}
  BY DEF Init, Mine
<1>6. OneOpen /\ Blamed
  BY <1>5, ButtonsType DEF Init, OneOpen, Blamed, NewPage
<1>7. Forgotten
  BY CountersType DEF Init, Forgotten, NewPage, NoDraft, NoText
<1>8. QED
  BY <1>3, <1>4, <1>6, <1>7 DEF PageInv

-----------------------------------------------------------------------------
(* Steps of the page and steps of the server *)

\* A step that sends nothing, hears nothing and keeps the document leaves the requests
\* as they were; it may enable the button if it says so.
LEMMA PageStep ==
    ASSUME PageInv, TypeOK', Forgotten',
           UNCHANGED <<xhr, sent, acked, server>>,
           count'["loads"] = count["loads"], count'["texts"] >= count["texts"],
           page'.hidden = page.hidden,
           page.reopened => page'.reopened,
           page.enabled[FirstButton] => page'.enabled[FirstButton],
           page'.enabled[FirstButton] => page.enabled[FirstButton] \/ page'.reopened
    PROVE  PageInv'
<1>1. \A a \in Attempts : Trail(a)'
  <2> TAKE a \in Attempts
  <2>1. Trail(a) /\ count["texts"] \in Nat /\ count'["texts"] \in Nat
    BY CountersType DEF PageInv, TypeOK
  <2>2. QED
    BY <2>1 DEF Trail, server
<1>2. Mine' = Mine /\ \A a \in Attempts : Closed(a)' <=> Closed(a)
  BY DEF Mine, Closed, server
<1>3. OneOpen'
  BY <1>2 DEF PageInv, OneOpen, Mine
<1>4. Blamed'
  BY <1>2 DEF PageInv, Blamed, Mine, server
<1>5. QED
  BY <1>1, <1>3, <1>4 DEF PageInv

\* A step of the server that takes no ending back leaves the page as it was.
LEMMA ServerStep ==
    ASSUME PageInv, TypeOK', \A a \in Attempts : Trail(a)',
           UNCHANGED <<page, draft, token, xhr, sent, acked>>,
           count'["loads"] = count["loads"], count'["texts"] = count["texts"],
           \A a \in Attempts : status[a] \in {"refused", "failed"} => status'[a] = status[a]
    PROVE  PageInv'
<1>1. Mine' = Mine /\ \A a \in Attempts : Closed(a) => Closed(a)'
  BY DEF Mine, Closed
<1>2. OneOpen'
  BY <1>1 DEF PageInv, OneOpen, Mine
<1>3. Blamed'
  BY <1>1 DEF PageInv, Blamed, Mine
<1>4. Forgotten'
  BY DEF PageInv, Forgotten
<1>5. QED
  BY <1>2, <1>3, <1>4 DEF PageInv

-----------------------------------------------------------------------------
(* Filling in and Turnstile *)

LEMMA OnInputType ==
    ASSUME PageInv, NEW new \in Page, OnInput(new)
    PROVE  /\ draft' \in [radio : Options \cup {None}, text : 0 .. MaxTexts, session : Nat]
           /\ draft'.text = new.text
           /\ token' \in [pc : {"none", "pending", "held"}, id : Nat]
<1>1. (IF new.choice = None THEN None ELSE new.value[new.choice]) \in Options \cup {None}
  BY DEF Page
<1>2. new.text \in 0 .. MaxTexts /\ new.session \in Nat
  BY DEF Page
<1>3. token' \in [pc : {"none", "pending", "held"}, id : Nat]
  BY DEF PageInv, TypeOK, OnInput
<1>4. QED
  BY <1>1, <1>2, <1>3 DEF OnInput

LEMMA MishapCounts ==
    ASSUME PageInv, Mishap
    PROVE  /\ count' \in [Counters -> Nat]
           /\ \A c \in Counters \ {"mishaps"} : count'[c] = count[c]
BY CountersType DEF PageInv, TypeOK, Mishap

LEMMA ChooseStep == ASSUME PageInv, NEW o \in Options, Choose(o) PROVE PageInv'
<1>1. /\ page' \in Page /\ page'.text = page.text /\ page'.hidden = page.hidden /\ ~page.hidden
      /\ page'.enabled = page.enabled /\ page'.reopened = page.reopened
  BY DEF PageInv, TypeOK, Page, Choose
<1>2. OnInput(page') /\ UNCHANGED <<xhr, sent, count, acked, spent, server>>
  BY DEF Choose
<1>3. TypeOK'
  BY <1>1, <1>2, OnInputType DEF PageInv, TypeOK, server
<1>4. Forgotten'
  BY <1>1, <1>2, OnInputType DEF PageInv, Forgotten
<1>5. count["texts"] \in Nat
  BY CountersType DEF PageInv, TypeOK
<1>6. QED
  BY <1>1, <1>2, <1>3, <1>4, <1>5, PageStep

LEMMA TypeStep == ASSUME PageInv, NEW text \in 0 .. MaxTexts, Type(text) PROVE PageInv'
<1>1. /\ page' \in Page /\ page'.text = text /\ page'.hidden = page.hidden /\ ~page.hidden
      /\ page'.enabled = page.enabled /\ page'.reopened = page.reopened
  BY DEF PageInv, TypeOK, Page, Type
<1>2. OnInput(page') /\ UNCHANGED <<xhr, sent, acked, spent, server>>
  BY DEF Type
<1>3. /\ count' \in [Counters -> Nat] /\ count["texts"] \in Nat
      /\ count'["loads"] = count["loads"] /\ count'["texts"] >= count["texts"]
      /\ text \in (0 .. count'["texts"]) \ acked /\ count'["texts"] \in Nat
  <2>0. count \in [Counters -> Nat] /\ acked \subseteq 1 .. count["texts"]
    BY DEF PageInv, TypeOK, Forgotten
  <2>1. CASE text = count["texts"] + 1 /\ count' = [count EXCEPT !["texts"] = text]
    BY <2>0, <2>1, CountersType
  <2>2. CASE text = NoText /\ Mishap
    BY <2>0, <2>2, CountersType, MishapCounts DEF NoText
  <2>3. QED
    BY <2>1, <2>2 DEF Type
<1>4. TypeOK'
  BY <1>1, <1>2, <1>3, OnInputType DEF PageInv, TypeOK, server
<1>5. Forgotten'
  <2>1. draft'.text = text
    BY <1>1, <1>2, OnInputType
  <2>2. acked \subseteq 1 .. count'["texts"]
    BY <1>3 DEF PageInv, Forgotten
  <2>3. QED
    BY <2>1, <2>2, <1>1, <1>2, <1>3 DEF Forgotten
<1>6. QED
  BY <1>1, <1>2, <1>3, <1>4, <1>5, PageStep

\* The page on which an error is shown is one of the form's, and the button works.
LEMMA ShowErrorType ==
    ASSUME PageInv, NEW missing \in SUBSET (1 .. LastPage), missing # {}, ShowError(missing)
    PROVE  /\ page' \in Page /\ page'.text = page.text /\ page'.hidden = page.hidden
           /\ page'.enabled[FirstButton]
           /\ page'.reopened <=> page.reopened \/ ~page.enabled[FirstButton]
<1>1. \E p \in missing : \A q \in missing : p <= q
  <2>1. CASE 1 \in missing
    BY <2>1, LayoutAssumption
  <2>2. CASE 1 \notin missing
    <3>1. \A p \in missing : p = 2
      <4> TAKE p \in missing
      <4>1. p \in 1 .. 2 /\ p # 1
        BY <2>2, LayoutAssumption
      <4>2. QED
        BY <4>1
    <3>2. PICK p \in missing : TRUE
      OBVIOUS
    <3>3. \A q \in missing : p <= q
      BY <3>1, <3>2
    <3>4. QED
      BY <3>3
  <2>3. QED
    BY <2>1, <2>2
<1>2. (CHOOSE p \in missing : \A q \in missing : p <= q) \in 1 .. LastPage
  BY <1>1
<1>3. QED
  BY <1>2, ButtonsType DEF PageInv, TypeOK, Page, ShowError

\* An error message is a step of the page.
LEMMA ShowErrorStep ==
    ASSUME PageInv, NEW missing \in SUBSET (1 .. LastPage), missing # {}, ShowError(missing),
           UNCHANGED <<draft, token, xhr, sent, count, acked, spent, server>>
    PROVE  PageInv'
<1>1. TypeOK'
  BY ShowErrorType DEF PageInv, TypeOK, server
<1>2. Forgotten'
  BY ShowErrorType DEF PageInv, Forgotten
<1>3. count["texts"] \in Nat
  BY CountersType DEF PageInv, TypeOK
<1>4. QED
  BY <1>1, <1>2, <1>3, ShowErrorType, PageStep

LEMMA TurnStep == ASSUME PageInv, NEW to \in 1 .. LastPage, Turn(to) PROVE PageInv'
<1>0. UNCHANGED <<draft, token, xhr, sent, count, acked, spent, server>>
  BY DEF Turn
<1>1. CASE page' = [page EXCEPT !.visible = to]
  <2>1. /\ page' \in Page /\ page'.text = page.text /\ page'.hidden = page.hidden
        /\ page'.enabled = page.enabled /\ page'.reopened = page.reopened
    BY <1>1 DEF PageInv, TypeOK, Page
  <2>2. TypeOK' /\ Forgotten' /\ count["texts"] \in Nat
    BY <2>1, <1>0, CountersType DEF PageInv, TypeOK, Forgotten, server
  <2>3. QED
    BY <2>1, <2>2, <1>0, PageStep
<1>2. CASE Missing({page.visible}) # {} /\ ShowError(Missing({page.visible}))
  <2>1. Missing({page.visible}) \subseteq 1 .. LastPage
    BY DEF PageInv, TypeOK, Page, Missing
  <2>2. QED
    BY <2>1, <1>0, <1>2, ShowErrorStep
<1>3. QED
  BY <1>1, <1>2 DEF Turn

LEMMA SolveStep == ASSUME PageInv, Solve PROVE PageInv'
<1>1. /\ count' \in [Counters -> Nat] /\ count["texts"] \in Nat
      /\ count'["loads"] = count["loads"] /\ count'["texts"] = count["texts"]
      /\ token' \in [pc : {"none", "pending", "held"}, id : Nat]
      /\ UNCHANGED <<page, draft, xhr, sent, acked, spent, server>>
  BY CountersType DEF PageInv, TypeOK, Solve
<1>2. TypeOK' /\ Forgotten'
  BY <1>1 DEF PageInv, TypeOK, Forgotten, server
<1>3. QED
  BY <1>1, <1>2, PageStep

LEMMA ExpireTokenStep == ASSUME PageInv, ExpireToken PROVE PageInv'
<1>1. /\ count' \in [Counters -> Nat] /\ count["texts"] \in Nat
      /\ count'["loads"] = count["loads"] /\ count'["texts"] = count["texts"]
  BY CountersType, MishapCounts DEF PageInv, TypeOK, ExpireToken
<1>2. /\ token' \in [pc : {"none", "pending", "held"}, id : Nat] /\ spent' \subseteq Nat
      /\ UNCHANGED <<page, draft, xhr, sent, acked, server>>
  BY DEF PageInv, TypeOK, ExpireToken
<1>3. TypeOK' /\ Forgotten'
  BY <1>1, <1>2 DEF PageInv, TypeOK, Forgotten, server
<1>4. QED
  BY <1>1, <1>2, <1>3, PageStep

LEMMA ExpireSessionStep == ASSUME PageInv, ExpireSession PROVE PageInv'
<1>1. /\ count' \in [Counters -> Nat] /\ count["texts"] \in Nat
      /\ count'["loads"] = count["loads"] /\ count'["texts"] = count["texts"]
      /\ UNCHANGED <<page, draft, token, xhr, sent, acked, spent, server>>
  BY CountersType DEF PageInv, TypeOK, ExpireSession
<1>2. TypeOK' /\ Forgotten'
  BY <1>1 DEF PageInv, TypeOK, Forgotten, server
<1>3. QED
  BY <1>1, <1>2, PageStep

-----------------------------------------------------------------------------
(* Submitting *)

\* What is sent is an answer to every question, in the document on display.
LEMMA PressSends ==
    ASSUME PageInv, NEW b \in Buttons, Missing(1 .. LastPage) = {}, Press(b)
    PROVE  /\ ~page.hidden /\ page.enabled[b]
           /\ UNCHANGED <<draft, token, count, acked, spent, server>>
           /\ page' \in Page /\ page'.text = page.text /\ page'.hidden = page.hidden
           /\ ~page'.enabled[FirstButton] /\ page'.reopened = page.reopened
           /\ \E a \in Attempts :
                 /\ xhr[a] = "none" /\ xhr' = [xhr EXCEPT ![a] = "flying"]
                 /\ sent' = [sent EXCEPT ![a] = sent'[a]]
                 /\ sent'[a] \in [radio : Options \cup {None}, shown : Options \cup {None},
                                  text : 0 .. MaxTexts, token : Nat, load : Nat, fresh : BOOLEAN]
                 /\ sent'[a].text = page.text /\ sent'[a].load = count["loads"]
                 /\ page.text \in 1 .. count["texts"]
<1>1. 1 \in 1 .. LastPage /\ LastPage \in 1 .. LastPage
  BY LayoutAssumption
<1>2. page.choice # None /\ page.text # NoText
  BY <1>1 DEF Missing
<1>3. /\ page.choice \in Options /\ page.value[page.choice] \in Options
      /\ page.text \in 1 .. count["texts"] /\ page.text \in 0 .. MaxTexts
      /\ count["loads"] \in Nat /\ token.id \in Nat
  BY <1>2, CountersType DEF PageInv, TypeOK, Page, Forgotten, NoText
<1>4. /\ page' \in Page /\ page'.text = page.text /\ page'.hidden = page.hidden
      /\ ~page'.enabled[FirstButton] /\ page'.reopened = page.reopened
  <2>1. page \in Page /\ page' = [page EXCEPT !.enabled[FirstButton] = FALSE]
    BY DEF PageInv, TypeOK, Press
  <2>2. QED
    BY <2>1, ButtonsType DEF Page
<1>5. PICK a \in Attempts :
         /\ IsNext(a)
         /\ xhr' = [xhr EXCEPT ![a] = "flying"]
         /\ sent' = [sent EXCEPT ![a] =
               [radio |-> page.value[page.choice], shown |-> page.choice,
                text |-> page.text, token |-> token.id, load |-> count["loads"],
                fresh |-> VerifyCsrf => page.session = count["sessions"]]]
  BY DEF Press
<1>6. sent'[a] = [radio |-> page.value[page.choice], shown |-> page.choice,
                  text |-> page.text, token |-> token.id, load |-> count["loads"],
                  fresh |-> VerifyCsrf => page.session = count["sessions"]]
  BY <1>5 DEF PageInv, TypeOK
<1>7. /\ sent' = [sent EXCEPT ![a] = sent'[a]]
      /\ sent'[a] \in [radio : Options \cup {None}, shown : Options \cup {None},
                       text : 0 .. MaxTexts, token : Nat, load : Nat, fresh : BOOLEAN]
      /\ sent'[a].text = page.text /\ sent'[a].load = count["loads"]
  <2>1. sent' = [sent EXCEPT ![a] = sent'[a]]
    BY <1>5, <1>6
  <2>2. QED
    BY <2>1, <1>3, <1>6
<1>8. QED
  BY <1>3, <1>4, <1>5, <1>7 DEF Press, IsNext

LEMMA PressStep == ASSUME PageInv, NEW b \in Buttons, Press(b) PROVE PageInv'
<1>1. CASE Missing(1 .. LastPage) # {}
  <2>1. ShowError(Missing(1 .. LastPage)) /\ UNCHANGED <<draft, token, xhr, sent, count, acked, spent, server>>
    BY <1>1 DEF Press
  <2>2. Missing(1 .. LastPage) \subseteq 1 .. LastPage
    BY DEF Missing
  <2>3. QED
    BY <1>1, <2>1, <2>2, ShowErrorStep
<1>2. CASE Missing(1 .. LastPage) = {}
  <2>1. /\ ~page.hidden /\ page.enabled[b]
        /\ UNCHANGED <<draft, token, count, acked, spent, server>>
        /\ page' \in Page /\ page'.text = page.text /\ page'.hidden = page.hidden
        /\ ~page'.enabled[FirstButton] /\ page'.reopened = page.reopened
    BY <1>2, PressSends
  <2>2. PICK a \in Attempts :
           /\ xhr[a] = "none" /\ xhr' = [xhr EXCEPT ![a] = "flying"]
           /\ sent' = [sent EXCEPT ![a] = sent'[a]]
           /\ sent'[a] \in [radio : Options \cup {None}, shown : Options \cup {None},
                            text : 0 .. MaxTexts, token : Nat, load : Nat, fresh : BOOLEAN]
           /\ sent'[a].text = page.text /\ sent'[a].load = count["loads"]
           /\ page.text \in 1 .. count["texts"]
    BY <1>2, PressSends
  <2>3. \A c \in Attempts \ {a} : xhr'[c] = xhr[c] /\ sent'[c] = sent[c]
    BY <2>2 DEF PageInv, TypeOK
  <2>4. xhr'[a] = "flying"
    BY <2>2 DEF PageInv, TypeOK
  <2>5. TypeOK'
    BY <2>1, <2>2 DEF PageInv, TypeOK, server
  <2>6. \A c \in Attempts : Trail(c)'
    <3> TAKE c \in Attempts
    <3>0. Trail(c) /\ count["loads"] \in Nat
      BY CountersType DEF PageInv, TypeOK
    <3>1. CASE c = a
      BY <3>0, <3>1, <2>1, <2>2, <2>4 DEF Trail, server
    <3>2. CASE c # a
      BY <3>0, <3>2, <2>1, <2>3 DEF Trail, server
    <3>3. QED
      BY <3>1, <3>2
  <2>7. Mine' = Mine \cup {a} /\ a \notin Mine
    BY <2>1, <2>2, <2>3, <2>4 DEF Mine
  <2>8. \A c \in Mine : Closed(c)' <=> Closed(c)
    BY <2>1, <2>3, <2>7 DEF Closed, Mine, server
  <2>9. OneOpen'
    <3>1. SUFFICES ASSUME Buttons = {FirstButton}, ~page'.reopened
                   PROVE  \A c, d \in Mine' : c # d => Closed(c)' \/ Closed(d)'
      BY <2>1 DEF OneOpen
    <3>2. \A c \in Mine : Closed(c)
      BY <3>1, <2>1 DEF PageInv, OneOpen
    <3>3. QED
      BY <3>2, <2>7, <2>8
  <2>10. Blamed'
    BY <2>4, <2>7 DEF Blamed
  <2>11. Forgotten'
    BY <2>1 DEF PageInv, Forgotten
  <2>12. QED
    BY <2>5, <2>6, <2>9, <2>10, <2>11 DEF PageInv
<1>3. QED
  BY <1>1, <1>2

\* A request that has gone and is not closed keeps its place in Mine.
LEMMA AnswerLeaves ==
    ASSUME PageInv, NEW a \in Attempts, xhr[a] = "flying", NEW s \in {"answered", "lost"},
           xhr' = [xhr EXCEPT ![a] = s],
           UNCHANGED <<sent, stored, status>>, count'["loads"] = count["loads"],
           count'["texts"] = count["texts"]
    PROVE  /\ \A c \in Attempts : Trail(c)'
           /\ Mine' = Mine /\ a \in Mine /\ ~Closed(a)
           /\ \A c \in Mine \ {a} : (Closed(c)' <=> Closed(c)) /\ xhr'[c] = xhr[c]
           /\ xhr'[a] = s
<1>1. xhr'[a] = s /\ \A c \in Attempts \ {a} : xhr'[c] = xhr[c]
  BY DEF PageInv, TypeOK
<1>2. \A c \in Attempts : Trail(c)'
  <2> TAKE c \in Attempts
  <2>1. Trail(c)
    BY DEF PageInv
  <2>2. CASE c = a
    BY <2>1, <2>2, <1>1 DEF Trail
  <2>3. CASE c # a
    BY <2>1, <2>3, <1>1 DEF Trail
  <2>4. QED
    BY <2>2, <2>3
<1>3. Trail(a)
  BY DEF PageInv
<1>4. Mine' = Mine /\ a \in Mine /\ ~Closed(a)
  BY <1>1, <1>3 DEF Mine, Closed, Trail
<1>5. \A c \in Mine \ {a} : Closed(c)' <=> Closed(c)
  BY <1>1 DEF Closed, Mine
<1>6. QED
  BY <1>1, <1>2, <1>4, <1>5 DEF Mine

LEMMA ThankedStep ==
    ASSUME PageInv, NEW a \in Attempts, Load(a), Thanked(a) PROVE PageInv'
<1>1. /\ xhr[a] = "flying" /\ xhr' = [xhr EXCEPT ![a] = "answered"]
      /\ UNCHANGED <<sent, count, spent, server>> /\ status[a] = "thanked"
  BY DEF Load, Thanked
<1>2. /\ page' \in Page /\ page'.hidden /\ page'.text = NoText
      /\ ~page'.enabled[FirstButton] /\ page'.reopened = page.reopened
  <2>1. /\ page \in Page
        /\ page' = [page EXCEPT !.enabled[FirstButton] = FALSE, !.hidden = TRUE,
                                !.choice = None, !.text = NoText]
    BY DEF PageInv, TypeOK, Thanked
  <2>2. NoText \in 0 .. MaxTexts
    BY WidgetBounds DEF NoText
  <2>3. QED
    BY <2>1, <2>2, ButtonsType DEF Page
<1>3. draft' = NoDraft /\ acked' = acked \cup {sent[a].text} /\ token' = token
  BY DEF Thanked
<1>4. /\ \A c \in Attempts : Trail(c)'
      /\ Mine' = Mine /\ a \in Mine /\ ~Closed(a)
      /\ \A c \in Mine \ {a} : Closed(c)' <=> Closed(c)
  BY <1>1, AnswerLeaves DEF server
<1>5. sent[a].text \in 1 .. count["texts"] /\ sent[a].text \in 1 .. MaxTexts
  <2>1. Trail(a) /\ count["texts"] \in Nat /\ sent[a].text \in 0 .. MaxTexts
    BY CountersType DEF PageInv, TypeOK
  <2>2. QED
    BY <2>1, <1>1 DEF Trail
<1>6. TypeOK'
  <2>1. NoDraft \in [radio : Options \cup {None}, text : 0 .. MaxTexts, session : Nat]
    BY WidgetBounds DEF NoDraft, NoText, NoSession
  <2>2. xhr' \in [Attempts -> {"none", "flying", "answered", "lost", "dropped"}]
    BY <1>1 DEF PageInv, TypeOK
  <2>3. QED
    BY <2>1, <2>2, <1>1, <1>2, <1>3, <1>5 DEF PageInv, TypeOK, server
<1>7. OneOpen'
  BY <1>2, <1>4 DEF PageInv, OneOpen
<1>8. Blamed'
  BY <1>2 DEF Blamed
<1>9. Forgotten'
  <2>1. acked' \subseteq 1 .. count["texts"] /\ count["texts"] \in Nat
    BY <1>3, <1>5, CountersType DEF PageInv, TypeOK, Forgotten
  <2>2. NoDraft.text = 0 /\ 0 \notin acked'
    BY <2>1 DEF NoDraft, NoText
  <2>3. QED
    BY <2>1, <2>2, <1>1, <1>2, <1>3 DEF Forgotten, NoText
<1>10. QED
  BY <1>4, <1>6, <1>7, <1>8, <1>9 DEF PageInv

LEMMA RefusedStep ==
    ASSUME PageInv, NEW a \in Attempts, Load(a), Refused(a) PROVE PageInv'
<1>1. /\ xhr[a] = "flying" /\ xhr' = [xhr EXCEPT ![a] = "answered"]
      /\ UNCHANGED <<sent, count, spent, server, draft, acked>> /\ status[a] = "refused"
  BY DEF Load, Refused
<1>2. /\ page' \in Page /\ page'.hidden = page.hidden /\ page'.text = page.text
      /\ page'.enabled[FirstButton] /\ page'.reopened = page.reopened
      /\ token' \in [pc : {"none", "pending", "held"}, id : Nat]
  BY ButtonsType DEF PageInv, TypeOK, Page, Refused
<1>3. /\ \A c \in Attempts : Trail(c)'
      /\ Mine' = Mine /\ a \in Mine /\ ~Closed(a) /\ xhr'[a] = "answered"
      /\ \A c \in Mine \ {a} : Closed(c)' <=> Closed(c)
  BY <1>1, AnswerLeaves DEF server
<1>4. TypeOK'
  <2>1. xhr' \in [Attempts -> {"none", "flying", "answered", "lost", "dropped"}]
    BY <1>1 DEF PageInv, TypeOK
  <2>2. QED
    BY <2>1, <1>1, <1>2 DEF PageInv, TypeOK, server
<1>5. OneOpen'
  <2>1. Closed(a)'
    BY <1>1, <1>3 DEF Closed, server
  <2>2. SUFFICES ASSUME Buttons = {FirstButton}, ~page'.reopened
                 PROVE  \A c \in Mine : Closed(c)'
    BY <1>3 DEF OneOpen
  <2>3. \A c \in Mine \ {a} : Closed(c)
    BY <2>2, <1>2, <1>3 DEF PageInv, OneOpen
  <2>4. QED
    BY <2>1, <2>3, <1>3
<1>6. Blamed'
  BY <1>2 DEF Blamed
<1>7. Forgotten'
  BY <1>1, <1>2 DEF PageInv, Forgotten
<1>8. QED
  BY <1>3, <1>4, <1>5, <1>6, <1>7 DEF PageInv

\* An answer that changes nothing, or none at all.
LEMMA SilentStep ==
    ASSUME PageInv, NEW a \in Attempts, (Load(a) /\ Failed(a)) \/ Lose(a) PROVE PageInv'
<1>1. /\ xhr[a] = "flying"
      /\ UNCHANGED <<page, draft, token, sent, acked, spent, server>>
      /\ count' \in [Counters -> Nat]
      /\ count'["loads"] = count["loads"] /\ count'["texts"] = count["texts"]
  BY MishapCounts, CountersType DEF Load, Failed, Lose, PageInv, TypeOK
<1>2. PICK s \in {"answered", "lost"} :
         xhr' = [xhr EXCEPT ![a] = s] /\ (s = "lost" \/ status[a] = "failed")
  BY DEF Load, Failed, Lose
<1>3. /\ \A c \in Attempts : Trail(c)'
      /\ Mine' = Mine /\ a \in Mine /\ ~Closed(a) /\ xhr'[a] = s
      /\ \A c \in Mine \ {a} : (Closed(c)' <=> Closed(c)) /\ xhr'[c] = xhr[c]
  BY <1>1, <1>2, AnswerLeaves DEF server
<1>4. TypeOK'
  <2>1. xhr' \in [Attempts -> {"none", "flying", "answered", "lost", "dropped"}]
    BY <1>2 DEF PageInv, TypeOK
  <2>2. QED
    BY <2>1, <1>1 DEF PageInv, TypeOK, server
<1>5. OneOpen'
  BY <1>1, <1>3 DEF PageInv, OneOpen
<1>6. Blamed'
  BY <1>1, <1>2, <1>3 DEF PageInv, Blamed, server
<1>7. Forgotten'
  BY <1>1 DEF PageInv, Forgotten
<1>8. QED
  BY <1>3, <1>4, <1>5, <1>6, <1>7 DEF PageInv

\* A new document has sent nothing.
LEMMA ReloadStep == ASSUME PageInv, Reload PROVE PageInv'
<1>1. /\ page' = Restored /\ token' = Unchallenged
      /\ UNCHANGED <<draft, sent, acked, spent, server>>
      /\ xhr' = [a \in Attempts |-> IF xhr[a] = "flying" THEN "dropped" ELSE xhr[a]]
  BY DEF Reload
<1>2. /\ count' \in [Counters -> Nat] /\ count["loads"] \in Nat
      /\ count'["loads"] = count["loads"] + 1 /\ count'["texts"] = count["texts"]
  BY CountersType DEF PageInv, TypeOK, Reload
<1>3. /\ page' \in Page /\ page'.text = draft.text /\ ~page'.hidden
      /\ page'.enabled[FirstButton] /\ ~page'.reopened
  <2> DEFINE radio == IF draft.radio = None THEN NewPage.value[First] ELSE draft.radio
             session == IF draft = NoDraft THEN count["sessions"] ELSE draft.session
  <2>1. /\ draft.text \in 0 .. MaxTexts /\ draft.radio \in Options \cup {None}
        /\ draft.session \in Nat /\ count["sessions"] \in Nat
    BY CountersType DEF PageInv, TypeOK
  <2>2. radio \in Options /\ session \in Nat
    BY <2>1, OptionsAssumption DEF NewPage
  <2>3. page' = [NewPage EXCEPT !.text = draft.text, !.value[First] = radio, !.session = session]
    BY <1>1 DEF Restored
  <2>4. NewPage.enabled[FirstButton] /\ ~NewPage.hidden /\ ~NewPage.reopened
    BY ButtonsType DEF NewPage
  <2> HIDE DEF radio, session
  <2>5. QED
    BY <2>1, <2>2, <2>3, <2>4, NewPageType DEF Page
<1>4. \A a \in Attempts :
         /\ xhr[a] # "flying" => xhr'[a] = xhr[a]
         /\ xhr[a] = "flying" => xhr'[a] = "dropped"
  BY <1>1
<1>5. TypeOK'
  <2>1. xhr' \in [Attempts -> {"none", "flying", "answered", "lost", "dropped"}]
    BY <1>1 DEF PageInv, TypeOK
  <2>2. QED
    BY <2>1, <1>1, <1>2, <1>3, UnchallengedType DEF PageInv, TypeOK, server
<1>6. \A a \in Attempts : Trail(a)'
  <2> TAKE a \in Attempts
  <2>1. Trail(a) /\ sent[a].load \in Nat
    BY DEF PageInv, TypeOK
  <2>2. QED
    BY <2>1, <1>1, <1>2, <1>4 DEF Trail, server
<1>7. Mine' = {}
  <2>1. ASSUME NEW a \in Attempts, a \in Mine' PROVE FALSE
    <3>1. xhr[a] # "none" /\ sent[a].load = count["loads"] + 1
      BY <2>1, <1>1, <1>2, <1>4 DEF Mine
    <3>2. Trail(a) /\ sent[a].load \in Nat
      BY DEF PageInv, TypeOK
    <3>3. QED
      BY <3>1, <3>2, <1>2 DEF Trail
  <2>2. QED
    BY <2>1 DEF Mine
<1>8. OneOpen' /\ Blamed'
  BY <1>3, <1>7 DEF OneOpen, Blamed
<1>9. Forgotten'
  BY <1>1, <1>2, <1>3 DEF PageInv, Forgotten
<1>10. QED
  BY <1>5, <1>6, <1>8, <1>9 DEF PageInv

-----------------------------------------------------------------------------
(* The server *)

\* A step that changes the status of one attempt.
LEMMA StatusStep ==
    ASSUME PageInv, NEW a \in Attempts, NEW s \in {"open", "thanked", "refused", "failed"},
           xhr[a] # "none", status[a] \notin {"refused", "failed"}, s = "refused" => a \notin stored,
           status' = [status EXCEPT ![a] = s], UNCHANGED <<stored, announced>>,
           UNCHANGED <<page, draft, token, xhr, sent, acked>>,
           count' \in [Counters -> Nat], spent' \subseteq Nat,
           count'["loads"] = count["loads"], count'["texts"] = count["texts"]
    PROVE  PageInv'
<1>1. status'[a] = s /\ \A c \in Attempts \ {a} : status'[c] = status[c]
  BY DEF PageInv, TypeOK
<1>2. TypeOK'
  BY DEF PageInv, TypeOK, Server!Endings
<1>3. \A c \in Attempts : Trail(c)'
  <2> TAKE c \in Attempts
  <2>1. Trail(c) /\ Trail(a)
    BY DEF PageInv
  <2>2. CASE c = a
    BY <2>1, <2>2, <1>1 DEF Trail
  <2>3. CASE c # a
    BY <2>1, <2>3, <1>1 DEF Trail
  <2>4. QED
    BY <2>2, <2>3
<1>4. \A c \in Attempts : status[c] \in {"refused", "failed"} => status'[c] = status[c]
  BY <1>1
<1>5. QED
  BY <1>2, <1>3, <1>4, ServerStep

LEMMA ArriveStep == ASSUME PageInv, NEW a \in Attempts, Arrive(a) PROVE PageInv'
<1>1. /\ xhr[a] # "none" /\ status[a] = "unsent"
      /\ status' = [status EXCEPT ![a] = "open"] /\ UNCHANGED <<stored, announced>>
      /\ UNCHANGED <<page, draft, token, xhr, sent, count, acked, spent>>
  BY DEF PageInv, TypeOK, Arrive, Server!Arrive, browser
<1>2. count \in [Counters -> Nat] /\ spent \subseteq Nat
  BY DEF PageInv, TypeOK
<1>3. QED
  BY <1>1, <1>2, StatusStep

\* An attempt that is open has been sent.
LEMMA OpenIsSent == ASSUME PageInv, NEW a \in Attempts, status[a] = "open" PROVE xhr[a] # "none"
BY DEF PageInv, Trail

\* Storing a response, or recording its event, in an attempt that is open.
LEMMA StoreStep ==
    ASSUME PageInv, NEW a \in Attempts, status[a] = "open",
           stored' \in {stored, stored \cup {a}}, announced' \in SUBSET stored',
           UNCHANGED <<browser, status>>, spent' \subseteq Nat
    PROVE  PageInv'
<1>1. UNCHANGED <<page, draft, token, xhr, sent, count, acked>>
  BY DEF browser
<1>2. TypeOK'
  BY <1>1 DEF PageInv, TypeOK
<1>3. \A c \in Attempts : Trail(c)'
  <2> TAKE c \in Attempts
  <2>1. Trail(c)
    BY DEF PageInv
  <2>2. QED
    BY <2>1, <1>1 DEF Trail
<1>4. QED
  BY <1>1, <1>2, <1>3, ServerStep

LEMMA ServeStep == ASSUME PageInv, NEW a \in Attempts, Serve(a) PROVE PageInv'
<1>0. /\ announced \subseteq stored /\ spent \subseteq Nat /\ sent[a].token \in Nat
      /\ count \in [Counters -> Nat]
  BY DEF PageInv, TypeOK
<1>1. CASE Accept(a)
  BY <1>0, <1>1, StoreStep DEF Accept, Server!Keep
<1>2. CASE Confirm(a)
  <2>1. CASE Server!Announce(a)
    BY <1>0, <1>2, <2>1, StoreStep DEF Confirm, Server!Announce
  <2>2. CASE Server!Thank(a)
    <3>1. /\ status[a] = "open" /\ status' = [status EXCEPT ![a] = "thanked"]
          /\ UNCHANGED <<stored, announced>>
          /\ UNCHANGED <<page, draft, token, xhr, sent, count, acked, spent>>
      BY <1>2, <2>2 DEF Confirm, Server!Thank, browser
    <3>2. QED
      BY <3>1, <1>0, OpenIsSent, StatusStep
  <2>3. QED
    BY <1>2, <2>1, <2>2 DEF Confirm
<1>3. CASE Decline(a)
  <2>1. /\ status[a] = "open" /\ a \notin stored
        /\ status' = [status EXCEPT ![a] = "refused"] /\ UNCHANGED <<stored, announced>>
        /\ UNCHANGED <<page, draft, token, xhr, sent, acked>>
        /\ spent' \in {spent, spent \cup {sent[a].token}} /\ (Mishap \/ UNCHANGED count)
    BY <1>3 DEF PageInv, TypeOK, Decline, Server!Decline
  <2>2. /\ count' \in [Counters -> Nat] /\ spent' \subseteq Nat
        /\ count'["loads"] = count["loads"] /\ count'["texts"] = count["texts"]
    BY <2>1, <1>0, MishapCounts, CountersType
  <2>3. QED
    BY <2>1, <2>2, OpenIsSent, StatusStep
<1>4. QED
  BY <1>1, <1>2, <1>3 DEF Serve

LEMMA FailAttemptStep == ASSUME PageInv, NEW a \in Attempts, FailAttempt(a) PROVE PageInv'
<1>1. /\ status[a] = "open"
      /\ status' = [status EXCEPT ![a] = "failed"] /\ UNCHANGED <<stored, announced>>
      /\ UNCHANGED <<page, draft, token, xhr, sent, acked, spent>>
  BY DEF FailAttempt, Server!Fail
<1>2. /\ count' \in [Counters -> Nat] /\ spent' \subseteq Nat
      /\ count'["loads"] = count["loads"] /\ count'["texts"] = count["texts"]
  BY <1>1, MishapCounts, CountersType DEF PageInv, TypeOK, FailAttempt
<1>3. QED
  BY <1>1, <1>2, OpenIsSent, StatusStep

-----------------------------------------------------------------------------
(* Every step *)

LEMMA PageNext == PageInv /\ [Next]_vars => PageInv'
<1> SUFFICES ASSUME PageInv, [Next]_vars PROVE PageInv'
  OBVIOUS
<1>1. CASE Visitor
  BY <1>1, ChooseStep, TypeStep, TurnStep, PressStep, ReloadStep DEF Visitor
<1>2. CASE Solve \/ ExpireToken \/ ExpireSession
  BY <1>2, SolveStep, ExpireTokenStep, ExpireSessionStep
<1>3. CASE Network
  <2>1. PICK a \in Attempts : Arrive(a) \/ Load(a) \/ Lose(a)
    BY <1>3 DEF Network
  <2>2. CASE Load(a)
    BY <2>2, ThankedStep, RefusedStep, SilentStep DEF Load
  <2>3. QED
    BY <2>1, <2>2, ArriveStep, SilentStep
<1>4. CASE \E a \in Attempts : Serve(a) \/ FailAttempt(a)
  BY <1>4, ServeStep, FailAttemptStep
<1>5. CASE UNCHANGED vars
  <2>1. /\ UNCHANGED <<page, draft, token, xhr, sent, count, acked, spent>>
        /\ UNCHANGED <<status, stored, announced>>
    BY <1>5 DEF vars, browser, server
  <2>2. Mine' = Mine /\ \A a \in Attempts : (Closed(a)' <=> Closed(a)) /\ (Trail(a)' <=> Trail(a))
    BY <2>1 DEF Mine, Closed, Trail
  <2>3. TypeOK' /\ Forgotten'
    BY <2>1 DEF PageInv, TypeOK, Forgotten
  <2>4. OneOpen' /\ Blamed'
    BY <2>1, <2>2 DEF PageInv, OneOpen, Blamed, Mine
  <2>5. QED
    BY <2>2, <2>3, <2>4 DEF PageInv
<1>6. QED
  BY <1>1, <1>2, <1>3, <1>4, <1>5 DEF Next

-----------------------------------------------------------------------------
(* What is acknowledged is stored *)

\* Requests that are sent stay as they are, and nothing stored is taken back.
LEMMA VouchedStays ==
    ASSUME PageInv, Vouched,
           stored \subseteq stored', announced \subseteq announced',
           \A a \in Attempts : xhr[a] # "none" => xhr'[a] # "none" /\ sent'[a] = sent[a],
           \A a \in Attempts : status'[a] = "thanked" => status[a] = "thanked" \/ a \in stored \cap announced,
           \A text \in acked' : \/ text \in acked
                                \/ \E a \in Attempts :
                                      status[a] = "thanked" /\ xhr[a] # "none" /\ sent[a].text = text
    PROVE  Vouched'
<1>1. stored \subseteq Attempts
  BY DEF PageInv, TypeOK
<1>2. \A a \in Attempts : status'[a] = "thanked" => a \in stored' \cap announced'
  BY DEF Vouched
<1>3. ASSUME NEW text \in acked'
      PROVE  \E a \in stored' \cap announced' : xhr'[a] # "none" /\ sent'[a].text = text
  <2>1. \E a \in stored \cap announced : xhr[a] # "none" /\ sent[a].text = text
    BY <1>1, <1>3 DEF Vouched
  <2>2. QED
    BY <1>1, <2>1
<1>4. QED
  BY <1>2, <1>3 DEF Vouched

LEMMA PressVouched == ASSUME PageInv, Vouched, NEW b \in Buttons, Press(b) PROVE Vouched'
<1>0. UNCHANGED <<acked, status, stored, announced>>
  BY DEF Press, server
<1>1. \A a \in Attempts : xhr[a] # "none" => xhr'[a] # "none" /\ sent'[a] = sent[a]
  <2>1. CASE Missing(1 .. LastPage) # {}
    BY <2>1 DEF Press
  <2>2. CASE Missing(1 .. LastPage) = {}
    <3>1. PICK c \in Attempts :
             /\ xhr[c] = "none" /\ xhr' = [xhr EXCEPT ![c] = "flying"]
             /\ sent' = [sent EXCEPT ![c] = sent'[c]]
      BY <2>2, PressSends
    <3>2. QED
      BY <3>1 DEF PageInv, TypeOK
  <2>3. QED
    BY <2>1, <2>2
<1>2. QED
  BY <1>0, <1>1, VouchedStays

LEMMA ReloadVouched == ASSUME PageInv, Vouched, Reload PROVE Vouched'
<1>1. UNCHANGED <<sent, acked, status, stored, announced>>
  BY DEF Reload, server
<1>2. \A a \in Attempts : xhr[a] # "none" => xhr'[a] # "none"
  BY DEF Reload
<1>3. QED
  BY <1>1, <1>2, VouchedStays

LEMMA AnswerVouched == ASSUME PageInv, Vouched, NEW a \in Attempts, Load(a) \/ Lose(a) PROVE Vouched'
<1>1. /\ xhr[a] = "flying" /\ UNCHANGED <<sent, status, stored, announced>>
      /\ \E s \in {"answered", "lost"} : xhr' = [xhr EXCEPT ![a] = s]
  BY DEF Load, Lose, server
<1>2. \A c \in Attempts : xhr[c] # "none" => xhr'[c] # "none"
  BY <1>1 DEF PageInv, TypeOK
<1>3. \/ acked' = acked
      \/ status[a] = "thanked" /\ acked' = acked \cup {sent[a].text}
  BY DEF Load, Thanked, Refused, Failed, Lose
<1>4. QED
  BY <1>1, <1>2, <1>3, VouchedStays

LEMMA ServerVouched ==
    ASSUME PageInv, Vouched, NEW a \in Attempts, Arrive(a) \/ Serve(a) \/ FailAttempt(a)
    PROVE  Vouched'
<1>1. UNCHANGED <<xhr, sent, acked>>
  BY DEF Arrive, Serve, Accept, Confirm, Decline, FailAttempt, browser
<1>2. stored \subseteq stored' /\ announced \subseteq announced'
  BY DEF Arrive, Serve, Accept, Confirm, Decline, FailAttempt,
         Server!Arrive, Server!Keep, Server!Announce, Server!Thank, Server!Decline, Server!Fail
<1>3. \/ status' = status
      \/ \E s \in {"open", "fooled", "refused", "failed"} : status' = [status EXCEPT ![a] = s]
      \/ a \in stored \cap announced /\ status' = [status EXCEPT ![a] = "thanked"]
  BY DEF Arrive, Serve, Accept, Confirm, Decline, FailAttempt,
         Server!Arrive, Server!Keep, Server!Announce, Server!Thank, Server!Decline, Server!Fail
<1>4. \A c \in Attempts : status'[c] = "thanked" => status[c] = "thanked" \/ c \in stored \cap announced
  BY <1>3 DEF PageInv, TypeOK
<1>5. QED
  BY <1>1, <1>2, <1>4, VouchedStays

LEMMA VouchedNext == PageInv /\ Vouched /\ [Next]_vars => Vouched'
<1> SUFFICES ASSUME PageInv, Vouched, [Next]_vars PROVE Vouched'
  OBVIOUS
<1>1. ASSUME UNCHANGED <<xhr, sent, acked, status, stored, announced>> PROVE Vouched'
  BY <1>1, VouchedStays
<1>2. CASE Visitor
  BY <1>1, <1>2, PressVouched, ReloadVouched DEF Visitor, Choose, Type, Turn, server
<1>3. CASE Solve \/ ExpireToken \/ ExpireSession
  BY <1>1, <1>3 DEF Solve, ExpireToken, ExpireSession, server
<1>4. CASE Network
  BY <1>4, ServerVouched, AnswerVouched DEF Network
<1>5. CASE \E a \in Attempts : Serve(a) \/ FailAttempt(a)
  BY <1>5, ServerVouched
<1>6. CASE UNCHANGED vars
  BY <1>1, <1>6 DEF vars, browser, server
<1>7. QED
  BY <1>2, <1>3, <1>4, <1>5, <1>6 DEF Next

LEMMA InvInit == Init => IInv
<1>1. Init => Vouched
  BY DEF Init, Server!Init, Vouched
<1>2. QED
  BY <1>1, PageInit DEF IInv

LEMMA InvNext == IInv /\ [Next]_vars => IInv'
BY PageNext, VouchedNext DEF IInv

-----------------------------------------------------------------------------
(* The theorems *)

\* The requests, what became of them, the button and the texts fit together in every
\* reachable state (_fba.js.erb: handleSubmitClick, formSuccess, enableLocalStorage).
THEOREM Invariant == Spec => []IInv
BY InvInit, InvNext, PTL DEF Spec

\* A document with one button that no error message has enabled again stores one
\* response, whatever is refused, lost or retried.
THEOREM StoresOnceHolds == Spec => []StoresOnce
<1>1. ASSUME IInv PROVE StoresOnce
  <2>1. SUFFICES ASSUME Buttons = {FirstButton}, ~page.reopened,
                        NEW a \in stored, NEW b \in stored,
                        sent[a].load = count["loads"], sent[b].load = count["loads"]
                 PROVE  a = b
    BY DEF StoresOnce
  <2>2. a \in Attempts /\ b \in Attempts
    BY <1>1 DEF IInv, PageInv, TypeOK
  <2>3. Trail(a) /\ Trail(b)
    BY <1>1, <2>2 DEF IInv, PageInv
  <2>4. a \in Mine /\ b \in Mine /\ ~Closed(a) /\ ~Closed(b)
    BY <2>1, <2>2, <2>3 DEF Trail, Mine, Closed
  <2>5. QED
    BY <1>1, <2>1, <2>4 DEF IInv, PageInv, OneOpen
<1>2. QED
  BY <1>1, Invariant, PTL

\* After a refusal the button works again: it stays dead only after a lost request or a
\* server error.
THEOREM NotStuckHolds == Spec => []NotStuckByRefusal
<1>1. ASSUME IInv PROVE NotStuckByRefusal
  BY <1>1 DEF IInv, PageInv, Blamed, Mine, NotStuckByRefusal, Stuck, Flying
<1>2. QED
  BY <1>1, Invariant, PTL

\* Once the visitor has been thanked for a text, no document sends it again: the form
\* is reset and the draft forgotten together.
THEOREM NotResentHolds == Spec => ThankedNotResent
<1>1. ASSUME IInv, [Next]_vars, NEW a \in Attempts, xhr[a] = "none", xhr'[a] = "flying"
      PROVE  sent'[a].text \notin acked
  <2>1. ASSUME xhr' = xhr PROVE FALSE
    BY <1>1, <2>1
  <2>2. ASSUME NEW c \in Attempts, NEW s \in {"answered", "lost"}, xhr' = [xhr EXCEPT ![c] = s]
        PROVE  FALSE
    BY <1>1, <2>2 DEF IInv, PageInv, TypeOK
  <2>3. CASE Visitor
    <3>1. ~Reload
      BY <1>1 DEF Reload
    <3>2. PICK b \in Buttons : Press(b)
      BY <2>1, <2>3, <3>1 DEF Visitor, Choose, Type, Turn
    <3>3. Missing(1 .. LastPage) = {}
      BY <2>1, <3>2 DEF Press
    <3>4. PICK c \in Attempts :
             xhr' = [xhr EXCEPT ![c] = "flying"] /\ sent'[c].text = page.text
      BY <1>1, <3>2, <3>3, PressSends DEF IInv
    <3>5. c = a
      BY <1>1, <3>4 DEF IInv, PageInv, TypeOK
    <3>6. ~page.hidden
      BY <3>2 DEF Press
    <3>7. QED
      BY <1>1, <3>4, <3>5, <3>6 DEF IInv, PageInv, Forgotten
  <2>4. CASE Solve \/ ExpireToken \/ ExpireSession
    BY <2>1, <2>4 DEF Solve, ExpireToken, ExpireSession
  <2>5. CASE Network
    BY <2>1, <2>2, <2>5 DEF Network, Arrive, browser, Load, Lose
  <2>6. CASE \E c \in Attempts : Serve(c) \/ FailAttempt(c)
    BY <2>1, <2>6 DEF Serve, Accept, Confirm, Decline, FailAttempt, browser
  <2>7. CASE UNCHANGED vars
    BY <2>1, <2>7 DEF vars, browser
  <2>8. QED
    BY <1>1, <2>3, <2>4, <2>5, <2>6, <2>7 DEF Next
<1>2. IInv /\ [Next]_vars =>
          [\A a \in Attempts : xhr[a] = "none" /\ xhr'[a] = "flying" => sent'[a].text \notin acked]_vars
  BY <1>1
<1>3. QED
  BY <1>2, Invariant, PTL DEF Spec, ThankedNotResent

\* Every text for which the page has thanked its visitor, and which it has forgotten
\* with the draft, is in a stored response whose event is recorded.
THEOREM AckedIsStoredHolds == Spec => []AckedIsStored
<1>1. IInv => AckedIsStored
  BY DEF IInv, Vouched, AckedIsStored
<1>2. QED
  BY <1>1, Invariant, PTL

\* Whatever the browser, the network and the tokens do, the server's side of the widget
\* is a behaviour of ResponseIntake, the promise that Intake keeps.
THEOREM ServerImplements == Spec => Server!Spec
<1>1. Init => Server!Init
  BY DEF Init
<1>2. ASSUME [Next]_vars PROVE [Server!Next]_(Server!promiseVars)
  <2>1. ASSUME NEW a \in Attempts, Arrive(a) \/ Serve(a) \/ FailAttempt(a)
        PROVE  Server!Arrive(a) \/ Server!Serve(a)
    BY <2>1 DEF Arrive, Serve, Accept, Confirm, Decline, FailAttempt, Server!Serve
  <2>2. ASSUME UNCHANGED server PROVE UNCHANGED Server!promiseVars
    BY <2>2 DEF server, Server!promiseVars
  <2>3. CASE Visitor \/ Solve \/ ExpireToken \/ ExpireSession
    BY <2>2, <2>3 DEF Visitor, Choose, Type, Turn, Press, Reload, Solve, ExpireToken, ExpireSession
  <2>4. CASE Network
    <3>1. PICK a \in Attempts : Arrive(a) \/ Load(a) \/ Lose(a)
      BY <2>4 DEF Network
    <3>2. QED
      BY <2>1, <2>2, <3>1 DEF Load, Lose, Server!Next
  <2>5. CASE \E a \in Attempts : Serve(a) \/ FailAttempt(a)
    BY <2>1, <2>5 DEF Server!Next
  <2>6. CASE UNCHANGED vars
    BY <2>2, <2>6 DEF vars
  <2>7. QED
    BY <1>2, <2>3, <2>4, <2>5, <2>6 DEF Next
<1>3. QED
  BY <1>1, <1>2, PTL DEF Spec, Server!Spec

=============================================================================
