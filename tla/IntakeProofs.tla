---------------------------- MODULE IntakeProofs ----------------------------
(***************************************************************************)
(* For any number of attempts, any questions and any edits: IInv is an     *)
(* inductive invariant of Intake, and Intake implements ResponseIntake.    *)
(***************************************************************************)
EXTENDS Intake, TLAPS

LEMMA UnsentType == Unsent \in Request
<1>1. AnyPayload \in Payloads
  BY PayloadsAssumption DEF AnyPayload
<1>2. QED
  BY <1>1, VersionsAssumption DEF Unsent, Request, Stages, Versions

LEMMA NoRowType == NoRow \in [answers : Answers, spam : BOOLEAN, kept : BOOLEAN]
BY DEF NoRow, Answers

LEMMA InvInit == Init => IInv
<1> SUFFICES ASSUME Init PROVE IInv
  OBVIOUS
<1>1. TypeOK
  BY UnsentType, NoRowType, VersionsAssumption DEF Init, TypeOK, Versions
<1>2. ASSUME NEW a \in Attempts PROVE Stage(a) = "unsent" /\ a \notin Kept /\ a \notin events /\ ~Passed(a)
  BY DEF Init, Stage, Kept, NoRow, Unsent, Passed
<1>3. QED
  BY <1>1, <1>2 DEF IInv, Trace, Caught, TokensApart, Vouched

-----------------------------------------------------------------------------
(* The steps *)

\* A step of one attempt that keeps its payload and gets it no further through the
\* checks keeps IInv, if it keeps the attempt's own trace.
LEMMA OnlyForward ==
    ASSUME IInv, TypeOK', NEW a \in Attempts,
           UNCHANGED <<spent, failedOpen>>,
           request' = [request EXCEPT ![a].stage = request'[a].stage],
           \A b \in Attempts \ {a} : (b \in Kept' <=> b \in Kept) /\ (b \in events' <=> b \in events),
           Trace(a)', Passed(a)' => Passed(a),
           Stage(a)' = "refused" => ~request[a].payload.bait
    PROVE  IInv'
<1> USE DEF Stage
<1>1. \A b \in Attempts : request'[b].payload = request[b].payload
  BY DEF IInv, TypeOK, Request
<1>2. \A b \in Attempts \ {a} : request'[b] = request[b]
  BY DEF IInv, TypeOK
<1>3. \A b \in Attempts : Passed(b)' => Passed(b)
  <2> TAKE b \in Attempts
  <2>1. CASE b = a
    BY <2>1
  <2>2. CASE b # a
    BY <2>2, <1>2 DEF Passed
  <2>3. QED
    BY <2>1, <2>2
<1>4. \A b \in Attempts : Trace(b)'
  <2> TAKE b \in Attempts
  <2>1. CASE b = a
    BY <2>1
  <2>2. CASE b # a
    BY <2>2, <1>2 DEF IInv, Trace
  <2>3. QED
    BY <2>1, <2>2
<1>5. \A b \in Attempts : Caught(b)'
  <2> TAKE b \in Attempts
  <2>1. CASE b = a
    BY <2>1, <1>1, <1>3 DEF IInv, Caught
  <2>2. CASE b # a
    BY <2>2, <1>1, <1>2, <1>3 DEF IInv, Caught
  <2>3. QED
    BY <2>1, <2>2
<1>6. TokensApart'
  <2>1. \A b \in Attempts : Vouched(b)' => Vouched(b)
    BY <1>3 DEF Vouched
  <2>2. QED
    BY <2>1, <1>1 DEF IInv, TokensApart
<1>7. QED
  BY <1>4, <1>5, <1>6 DEF IInv

LEMMA ReceiveStep ==
    ASSUME IInv, NEW a \in Attempts, NEW p \in Payloads, NEW v \in Versions, Receive(a, p, v)
    PROVE  IInv'
<1> DEFINE new == request'[a]
<1>1. /\ a \notin Kept /\ Stage(a) = "unsent" /\ a \notin events
      /\ UNCHANGED <<now, floor, row, spent, failedOpen, events>>
  BY DEF IInv, Trace, Receive
<1>2. TypeOK'
  BY SettingsAssumption DEF IInv, TypeOK, Receive, Request, Stages
<1>3. /\ new.stage = IF VerifyCsrf /\ ~p.authentic THEN "refused" ELSE "received"
      /\ new.payload = p
  BY DEF IInv, TypeOK, Receive
<1>4. \A b \in Attempts \ {a} : request'[b] = request[b]
  BY DEF IInv, TypeOK, Receive
<1>5. Kept' = Kept
  BY <1>1 DEF Kept
<1>6. \A b \in Attempts : (Passed(b)' <=> Passed(b)) /\ Trace(b)' /\ Caught(b)'
  <2> TAKE b \in Attempts
  <2>1. CASE b = a
    BY <2>1, <1>1, <1>3, <1>5 DEF Passed, Trace, Caught, Stage
  <2>2. CASE b # a
    <3>1. request'[b] = request[b] /\ Trace(b) /\ Caught(b)
      BY <2>2, <1>4 DEF IInv
    <3>2. QED
      BY <3>1, <1>1, <1>5 DEF Passed, Trace, Caught, Stage
  <2>3. QED
    BY <2>1, <2>2
<1>7. TokensApart'
  <2>1. ~Passed(a)
    BY <1>1 DEF Passed
  <2>2. \A b \in Attempts : Vouched(b)' => b # a /\ Vouched(b)
    BY <1>6, <2>1, <1>1 DEF Vouched
  <2>3. QED
    BY <2>2, <1>1, <1>4 DEF IInv, TokensApart
<1>8. QED
  BY <1>2, <1>6, <1>7 DEF IInv

\* What the checks let pass is no bait and, if Turnstile worked, carries a token
\* that was good until now.
LEMMA VerdictSound ==
    ASSUME NEW p \in Payloads, NEW broken \in BOOLEAN
    PROVE  LET verdict == Verdict(Results(p, broken))
           IN  /\ p.bait => verdict = "reject"
               /\ verdict \notin {"reject", "surface"} /\ EnableTurnstile =>
                     /\ p.token # NoToken
                     /\ ~broken => p.token \notin spent
<1> DEFINE third == CASE ~EnableTurnstile -> "not_applied"
                      [] EnableTurnstile /\ broken /\ p.token # NoToken -> "pass"
                      [] OTHER -> Healthy(p.token)
<1>1. Results(p, broken) = {IF p.bait THEN "reject" ELSE "pass", IF p.foreign THEN "flag" ELSE "pass", third}
  BY DEF Results
<1>2. p.bait => "reject" \in Results(p, broken)
  BY <1>1
<1>3. EnableTurnstile /\ (p.token = NoToken \/ (~broken /\ p.token \in spent)) => third = "surface"
  BY SettingsAssumption DEF Healthy
<1>4. QED
  BY <1>1, <1>2, <1>3 DEF Verdict

LEMMA ScreenStep ==
    ASSUME IInv, NEW a \in Attempts, NEW broken \in BOOLEAN, NEW taken \in BOOLEAN,
           Screen(a, broken, taken)
    PROVE  IInv'
<1> DEFINE p == request[a].payload
           verdict == Verdict(Results(p, broken))
<1>0. p \in Payloads /\ request[a] \in Request
  BY DEF IInv, TypeOK, Request
<1>1. /\ a \notin Kept /\ Stage(a) = "received" /\ a \notin events
      /\ UNCHANGED <<now, floor, row, events>>
      /\ spent \subseteq spent'
      /\ failedOpen' = IF broken THEN failedOpen \cup {a} ELSE failedOpen
  BY DEF IInv, Trace, Screen
<1>2. /\ request'[a].stage = CASE verdict = "reject"  -> IF SilentlyReject THEN "fooled" ELSE "refused"
                               [] verdict = "surface" -> "refused"
                               [] OTHER               -> "screened"
      /\ request'[a].payload = p
      /\ \A b \in Attempts \ {a} : request'[b] = request[b]
  BY <1>0 DEF IInv, TypeOK, Screen, Request
<1>3. request'[a] \in Request
  <2>1. /\ request'[a].stage \in Stages
        /\ (verdict = "flag") \in BOOLEAN
    BY <1>2 DEF Stages
  <2>2. request'[a] = [request[a] EXCEPT !.stage = request'[a].stage, !.spam = (verdict = "flag")]
    BY <1>0 DEF IInv, TypeOK, Screen, Request
  <2>3. QED
    BY <1>0, <2>1, <2>2 DEF Request
<1>4. TypeOK'
  <2>1. request' \in [Attempts -> Request]
    <3>1. request' = [request EXCEPT ![a] = request'[a]]
      BY DEF IInv, TypeOK, Screen
    <3>2. QED
      BY <1>3, <3>1 DEF IInv, TypeOK
  <2>2. spent' \subseteq Tokens
    BY <1>0, PayloadsAssumption DEF Screen, IInv, TypeOK, Payload
  <2>3. QED
    BY <1>1, <2>1, <2>2 DEF IInv, TypeOK
<1>5. Kept' = Kept
  BY <1>1 DEF Kept
<1>6. /\ p.bait => verdict = "reject"
      /\ verdict \notin {"reject", "surface"} /\ EnableTurnstile =>
            /\ p.token # NoToken
            /\ ~broken => p.token \notin spent
  BY <1>0, VerdictSound
<1>7. \A b \in Attempts \ {a} : (Passed(b)' <=> Passed(b)) /\ Trace(b)' /\ Caught(b)'
  <2> TAKE b \in Attempts \ {a}
  <2>1. request'[b] = request[b] /\ Trace(b) /\ Caught(b)
    BY <1>2 DEF IInv
  <2>2. QED
    BY <2>1, <1>1, <1>5 DEF Passed, Trace, Caught, Stage
<1>8. Trace(a)' /\ Caught(a)'
  BY <1>1, <1>2, <1>5, <1>6 DEF Trace, Caught, Passed, Stage
<1>9. ASSUME Vouched(a)'
      PROVE  p.token \in spent' /\ p.token \notin spent
  <2>1. request'[a].stage = "screened" /\ EnableTurnstile /\ ~broken
    BY <1>1, <1>2, <1>5, <1>9 DEF Vouched, Passed, Stage
  <2>2. verdict \notin {"reject", "surface"}
    BY <1>2, <2>1
  <2>3. p.token # NoToken /\ p.token \notin spent
    BY <1>6, <2>1, <2>2
  <2>4. p.token \in spent'
    BY <2>1, <2>3 DEF Screen
  <2>5. QED
    BY <2>3, <2>4
<1>10. \A b \in Attempts \ {a} : Vouched(b)' => Vouched(b) /\ request[b].payload.token \in spent
  BY <1>1, <1>7 DEF Vouched, IInv, TokensApart
<1>11. TokensApart'
  <2>1. \A b \in Attempts : Vouched(b)' => request'[b].payload.token \in spent'
    BY <1>1, <1>2, <1>9, <1>10
  <2>2. \A b, c \in Attempts : Vouched(b)' /\ Vouched(c)' =>
           (request'[b].payload.token = request'[c].payload.token => b = c)
    <3> SUFFICES ASSUME NEW b \in Attempts, NEW c \in Attempts, Vouched(b)', Vouched(c)',
                        request'[b].payload.token = request'[c].payload.token
                 PROVE  b = c
      OBVIOUS
    <3>1. CASE a \notin {b, c}
      BY <3>1, <1>2, <1>10 DEF IInv, TokensApart
    <3>2. CASE b = a /\ c # a
      BY <3>2, <1>2, <1>9, <1>10
    <3>3. CASE c = a /\ b # a
      BY <3>3, <1>2, <1>9, <1>10
    <3>4. QED
      BY <3>1, <3>2, <3>3
  <2>3. QED
    BY <2>1, <2>2 DEF TokensApart
<1>12. QED
  BY <1>4, <1>7, <1>8, <1>11 DEF IInv

\* Advance changes one stage.
LEMMA AdvanceType ==
    ASSUME IInv, NEW a \in Attempts, NEW stage \in Stages, Advance(a, stage)
    PROVE  /\ request' \in [Attempts -> Request]
           /\ Stage(a)' = stage
           /\ request' = [request EXCEPT ![a].stage = request'[a].stage]
BY DEF IInv, TypeOK, Request, Advance, Stage

LEMMA AnswersType ==
    ASSUME IInv, NEW a \in Attempts
    PROVE  Permitted(request[a].copy, request[a].payload.answers) \in Answers
<1>1. request[a].payload.answers \in Answers
  BY PayloadsAssumption DEF IInv, TypeOK, Request, Payload
<1>2. QED
  BY <1>1 DEF Permitted, Answers

LEMMA SaveStep ==
    ASSUME IInv, NEW a \in Attempts, Save(a)
    PROVE  IInv'
<1> DEFINE answers == Permitted(request[a].copy, request[a].payload.answers)
<1>1. /\ Stage(a) = "screened" /\ a \notin Kept /\ a \notin events /\ Passed(a)
      /\ UNCHANGED <<now, floor, spent, failedOpen, events>>
  BY DEF IInv, Trace, Save, Passed
<1>2. ~request[a].payload.bait
  BY <1>1 DEF IInv, Caught
<1>3. CASE Valid(request[a].copy, answers)
  <2>1. /\ row' = [row EXCEPT ![a] = [answers |-> answers, spam |-> request[a].spam, kept |-> TRUE]]
        /\ Advance(a, "saved")
    BY <1>3 DEF Save
  <2>2. /\ request' \in [Attempts -> Request] /\ Stage(a)' = "saved"
        /\ request' = [request EXCEPT ![a].stage = request'[a].stage]
    BY <2>1, AdvanceType DEF Stages
  <2>3. request[a].spam \in BOOLEAN
    BY DEF IInv, TypeOK, Request
  <2>4. TypeOK'
    BY <1>1, <2>1, <2>2, <2>3, AnswersType DEF IInv, TypeOK
  <2>5. /\ a \in Kept'
        /\ \A b \in Attempts \ {a} : b \in Kept' <=> b \in Kept
    BY <2>1 DEF IInv, TypeOK, Kept
  <2>6. Trace(a)'
    BY <1>1, <2>2, <2>5 DEF Trace
  <2>7. QED
    BY <1>1, <2>2, <2>4, <2>5, <2>6, OnlyForward
<1>4. CASE ~Valid(request[a].copy, answers)
  <2>1. Advance(a, "refused") /\ UNCHANGED row
    BY <1>4 DEF Save
  <2>2. /\ request' \in [Attempts -> Request] /\ Stage(a)' = "refused"
        /\ request' = [request EXCEPT ![a].stage = request'[a].stage]
    BY <2>1, AdvanceType DEF Stages
  <2>3. TypeOK' /\ Kept' = Kept
    BY <1>1, <2>1, <2>2 DEF IInv, TypeOK, Kept
  <2>4. Trace(a)'
    BY <1>1, <2>2, <2>3 DEF Trace
  <2>5. QED
    BY <1>1, <1>2, <2>2, <2>3, <2>4, OnlyForward
<1>5. QED
  BY <1>3, <1>4

LEMMA LogEventStep ==
    ASSUME IInv, NEW a \in Attempts, LogEvent(a)
    PROVE  IInv'
<1>1. /\ request' \in [Attempts -> Request] /\ Stage(a)' = "announced"
      /\ request' = [request EXCEPT ![a].stage = request'[a].stage]
  BY AdvanceType DEF LogEvent, Stages
<1>2. /\ Stage(a) = "saved" /\ a \in Kept /\ Passed(a)
      /\ UNCHANGED <<now, floor, row, spent, failedOpen>> /\ Kept' = Kept
      /\ events' = events \cup {a}
  BY DEF IInv, Trace, LogEvent, Passed, Kept
<1>3. TypeOK' /\ Trace(a)'
  BY <1>1, <1>2 DEF IInv, TypeOK, Trace
<1>4. QED
  BY <1>1, <1>2, <1>3, OnlyForward

LEMMA ReplyStep ==
    ASSUME IInv, NEW a \in Attempts, Reply(a)
    PROVE  IInv'
<1>1. /\ request' \in [Attempts -> Request] /\ Stage(a)' = "thanked"
      /\ request' = [request EXCEPT ![a].stage = request'[a].stage]
  BY AdvanceType DEF Reply, Stages
<1>2. /\ Stage(a) = "announced" /\ a \in Kept /\ a \in events /\ Passed(a)
      /\ UNCHANGED <<now, floor, row, spent, failedOpen, events>> /\ Kept' = Kept
  BY DEF IInv, Trace, Reply, Passed, Kept
<1>3. TypeOK' /\ Trace(a)'
  BY <1>1, <1>2 DEF IInv, TypeOK, Trace
<1>4. QED
  BY <1>1, <1>2, <1>3, OnlyForward

LEMMA FailStep ==
    ASSUME IInv, NEW a \in Attempts, Fail(a)
    PROVE  IInv'
<1>1. /\ request' \in [Attempts -> Request] /\ Stage(a)' = "failed"
      /\ request' = [request EXCEPT ![a].stage = request'[a].stage]
  BY AdvanceType DEF Fail, Stages
<1>2. /\ UNCHANGED <<now, floor, row, spent, failedOpen, events>> /\ Kept' = Kept
      /\ a \in Kept \/ Passed(a) \/ Stage(a) = "received"
  BY DEF IInv, Trace, Fail, Passed, Kept
<1>3. TypeOK' /\ Trace(a)' /\ (Passed(a)' => Passed(a))
  BY <1>1, <1>2 DEF IInv, TypeOK, Trace, Passed
<1>4. QED
  BY <1>1, <1>2, <1>3, OnlyForward

\* What the form's editors do is none of the attempts' business.
LEMMA FormStep ==
    ASSUME IInv, EditForm \/ (\E v \in Versions : OldCopiesGone(v))
    PROVE  IInv'
<1>1. UNCHANGED <<request, row, spent, failedOpen, events>>
  BY DEF EditForm, OldCopiesGone
<1>2. TypeOK'
  BY <1>1, VersionsAssumption DEF IInv, TypeOK, EditForm, OldCopiesGone, Versions
<1>3. (\A a \in Attempts : Trace(a)' /\ Caught(a)') /\ TokensApart'
  BY <1>1 DEF IInv, Trace, Caught, TokensApart, Vouched, Passed, Stage, Kept
<1>4. QED
  BY <1>2, <1>3 DEF IInv

LEMMA InvNext ==
    ASSUME IInv, [Next]_vars
    PROVE  IInv'
<1>1. CASE UNCHANGED vars
  BY <1>1 DEF vars, IInv, TypeOK, Trace, Caught, TokensApart, Vouched, Passed, Stage, Kept
<1>2. CASE Next
  <2>1. ASSUME NEW a \in Attempts, AttemptStep(a) PROVE IInv'
    BY <2>1, ReceiveStep, ScreenStep, SaveStep, LogEventStep, ReplyStep, FailStep DEF AttemptStep
  <2>2. QED
    BY <1>2, <2>1, FormStep DEF Next
<1>3. QED
  BY <1>1, <1>2

\* The invariant that the theorems below rest on, for every request of
\* submissions_controller.rb create.
THEOREM Invariant == Spec => []IInv
<1>1. Init => IInv
  BY InvInit
<1>2. IInv /\ [Next]_vars => IInv'
  BY InvNext
<1>3. QED
  BY <1>1, <1>2, PTL DEF Spec

\* A filled honeypot is always swallowed (spam_checks/honeypot.rb).
THEOREM BaitHolds == Spec => []BaitSwallowed
<1>1. IInv => BaitSwallowed
  <2> SUFFICES ASSUME IInv, SilentlyReject, NEW a \in Attempts, request[a].payload.bait,
                      ~(VerifyCsrf /\ ~request[a].payload.authentic)
               PROVE  Stage(a) \in {"unsent", "received", "fooled", "failed"} /\ a \notin Kept
    BY DEF BaitSwallowed
  <2>1. Stage(a) \in Stages
    BY DEF IInv, TypeOK, Request, Stage
  <2>2. ~Passed(a) /\ Stage(a) # "refused"
    BY DEF IInv, Caught
  <2>3. QED
    BY <2>1, <2>2 DEF Passed, Stages
<1>2. QED
  BY <1>1, Invariant, PTL

\* One verified Turnstile token, one response (spam_checks/turnstile.rb).
THEOREM TokenHolds == Spec => []OneResponsePerToken
<1>1. IInv => OneResponsePerToken
  <2>1. Kept \subseteq Attempts
    BY DEF Kept
  <2>2. QED
    BY <2>1 DEF IInv, TokensApart, Vouched, Passed, OneResponsePerToken
<1>2. QED
  BY <1>1, Invariant, PTL

-----------------------------------------------------------------------------
(* Honest answers *)

\* A fresh attempt is judged by the version its page showed.
Current == \A a \in Attempts : request[a].fresh => request[a].copy = request[a].payload.page

LEMMA CurrentNext ==
    ASSUME IInv, Current, [Next]_vars
    PROVE  Current'
<1>1. CASE UNCHANGED request
  BY <1>1 DEF Current
<1>2. ASSUME NEW a \in Attempts, AttemptStep(a) PROVE Current'
  <2>1. ASSUME NEW p \in Payloads, NEW v \in Versions, Receive(a, p, v) PROVE Current'
    <3>1. /\ request'[a].fresh = (p.page = now /\ floor = now)
          /\ request'[a].copy = v /\ request'[a].payload = p
          /\ \A b \in Attempts \ {a} : request'[b] = request[b]
      BY <2>1 DEF IInv, TypeOK, Receive
    <3>2. floor = now => v = now
      BY <2>1, VersionsAssumption DEF Receive, IInv, TypeOK, Versions
    <3>3. QED
      BY <3>1, <3>2 DEF Current
  <2>2. ASSUME NEW broken \in BOOLEAN, NEW taken \in BOOLEAN, Screen(a, broken, taken) PROVE Current'
    BY <2>2 DEF Current, Screen, IInv, TypeOK, Request
  <2>3. ASSUME NEW stage, Advance(a, stage) PROVE Current'
    BY <2>3 DEF Current, Advance, IInv, TypeOK, Request
  <2>4. QED
    BY <1>2, <2>1, <2>2, <2>3 DEF AttemptStep, Save, LogEvent, Reply, Fail
<1>3. QED
  BY <1>1, <1>2 DEF Next, EditForm, OldCopiesGone, vars

LEMMA HonestStep ==
    ASSUME IInv, Current, [Next]_vars, NEW a \in Attempts,
           Stage(a) = "screened", request[a].fresh, request[a].payload.page = now,
           Honest(request[a].payload), request'[a].stage \notin {"screened", "failed"}
    PROVE  a \in Kept' /\ row'[a].answers = request[a].payload.answers
<1> DEFINE p == request[a].payload
           answers == Permitted(now, p.answers)
<1>1. request[a].copy = now /\ now \in Versions /\ p \in Payloads
  BY DEF Current, IInv, TypeOK, Request
<1>2. p.answers \in Answers /\ Form[now] \in FormVersion
  BY <1>1, PayloadsAssumption, VersionsAssumption DEF Payload
<1>3. answers = p.answers
  <2>1. \A f \in Fields \ Form[now].asked : p.answers[f] = Blank
    BY DEF Honest
  <2>2. QED
    BY <1>2, <2>1 DEF Permitted, Answers
<1>4. Valid(now, answers)
  BY <1>2, <1>3 DEF Valid, Honest, FormVersion
<1>5. Save(a)
  <2>1. Next /\ request'[a].stage # request[a].stage
    BY DEF vars, Stage
  <2>2. PICK b \in Attempts : AttemptStep(b)
    BY <2>1 DEF Next, EditForm, OldCopiesGone
  <2>3. b = a
    BY <2>1, <2>2 DEF AttemptStep, Receive, Screen, Save, LogEvent, Reply, Fail, Advance, IInv, TypeOK
  <2>4. Save(a) \/ Fail(a)
    BY <2>2, <2>3 DEF AttemptStep, Receive, Screen, LogEvent, Reply, Stage
  <2>5. ~Fail(a)
    BY DEF Fail, Advance, IInv, TypeOK, Request
  <2>6. QED
    BY <2>4, <2>5
<1>6. row' = [row EXCEPT ![a] = [answers |-> answers, spam |-> request[a].spam, kept |-> TRUE]]
  BY <1>1, <1>4, <1>5 DEF Save
<1>7. QED
  BY <1>3, <1>6 DEF IInv, TypeOK, Kept

\* validate_answers refuses no honest answer to the form as it is, and
\* submission_params drops none.
THEOREM HonestHolds == Spec => HonestKept
<1>1. Init => Current
  BY DEF Init, Unsent, Current
<1>2. IInv /\ Current /\ [Next]_vars => Current'
  BY CurrentNext
<1>3. IInv /\ Current /\ [Next]_vars =>
        [\A a \in Attempts :
          /\ Stage(a) = "screened" /\ request[a].fresh
          /\ request[a].payload.page = now
          /\ Honest(request[a].payload)
          /\ request'[a].stage \notin {"screened", "failed"}
          => a \in Kept' /\ row'[a].answers = request[a].payload.answers]_vars
  BY HonestStep
<1>4. QED
  BY <1>1, <1>2, <1>3, Invariant, PTL DEF Spec, HonestKept

-----------------------------------------------------------------------------
(* Intake implements ResponseIntake *)

StatusBar == [b \in Attempts |-> Shown(request[b].stage)]

\* How a step of one attempt looks from outside.
LEMMA ShownStep ==
    ASSUME IInv, NEW a \in Attempts, NEW stage \in Stages, Advance(a, stage)
    PROVE  StatusBar' = [StatusBar EXCEPT ![a] = Shown(stage)]
BY DEF IInv, TypeOK, Request, Advance, StatusBar, Shown

LEMMA ReceiveShown ==
    ASSUME IInv, NEW a \in Attempts, NEW p \in Payloads, NEW v \in Versions, Receive(a, p, v)
    PROVE  Promise!Arrive(a)
<1>1. \E stage \in {"received", "refused"} :
         request' = [request EXCEPT ![a] = [stage |-> stage, payload |-> p, copy |-> v,
                        spam |-> FALSE, fresh |-> p.page = now /\ floor = now]]
  BY DEF Receive
<1>2. StatusBar[a] = "unsent" /\ \E s \in {"open", "refused"} : StatusBar' = [StatusBar EXCEPT ![a] = s]
  BY <1>1 DEF IInv, TypeOK, StatusBar, Shown, Receive, Stage
<1>3. Kept' = Kept /\ events' = events
  BY DEF Receive, Kept
<1>4. QED
  BY <1>2, <1>3 DEF Promise!Arrive, StatusBar

LEMMA ScreenShown ==
    ASSUME IInv, NEW a \in Attempts, NEW broken \in BOOLEAN, NEW taken \in BOOLEAN,
           Screen(a, broken, taken)
    PROVE  Promise!Decline(a) \/ UNCHANGED <<StatusBar, Kept, events>>
<1>1. \E stage \in {"fooled", "refused", "screened"}, spam \in BOOLEAN :
         request' = [request EXCEPT ![a].stage = stage, ![a].spam = spam]
  <2> DEFINE verdict == Verdict(Results(request[a].payload, broken))
             stage == CASE verdict = "reject"  -> IF SilentlyReject THEN "fooled" ELSE "refused"
                        [] verdict = "surface" -> "refused"
                        [] OTHER               -> "screened"
  <2>1. stage \in {"fooled", "refused", "screened"} /\ (verdict = "flag") \in BOOLEAN
    OBVIOUS
  <2>2. request' = [request EXCEPT ![a].stage = stage, ![a].spam = (verdict = "flag")]
    BY DEF Screen
  <2>3. QED
    BY <2>1, <2>2
<1>2. StatusBar[a] = "open" /\ a \notin Kept
  BY DEF IInv, Trace, StatusBar, Shown, Screen, Stage
<1>3. Kept' = Kept /\ events' = events
  BY DEF Screen, Kept
<1>4. \/ StatusBar' = StatusBar
      \/ \E s \in {"fooled", "refused"} : StatusBar' = [StatusBar EXCEPT ![a] = s]
  <2>1. PICK stage \in {"fooled", "refused", "screened"}, spam \in BOOLEAN :
           request' = [request EXCEPT ![a].stage = stage, ![a].spam = spam]
    BY <1>1
  <2>2. StatusBar' = [StatusBar EXCEPT ![a] = Shown(stage)]
    BY <2>1 DEF IInv, TypeOK, Request, StatusBar
  <2>3. CASE stage = "screened"
    BY <2>2, <2>3, <1>2 DEF Shown, StatusBar
  <2>4. CASE stage # "screened"
    BY <2>2, <2>4 DEF Shown
  <2>5. QED
    BY <2>3, <2>4
<1>5. QED
  BY <1>2, <1>3, <1>4 DEF Promise!Decline, StatusBar

LEMMA SaveShown ==
    ASSUME IInv, NEW a \in Attempts, Save(a)
    PROVE  Promise!Decline(a) \/ Promise!Keep(a)
<1>1. StatusBar[a] = "open" /\ a \notin Kept /\ events' = events
  BY DEF IInv, Trace, StatusBar, Shown, Save, Stage
<1>2. CASE Advance(a, "refused") /\ UNCHANGED row
  <2>1. StatusBar' = [StatusBar EXCEPT ![a] = "refused"]
    BY <1>2, ShownStep DEF Stages, Shown
  <2>2. Kept' = Kept
    BY <1>2 DEF Kept
  <2>3. QED
    BY <1>1, <2>1, <2>2 DEF Promise!Decline, StatusBar
<1>3. CASE /\ Advance(a, "saved")
           /\ \E new : new.kept = TRUE /\ row' = [row EXCEPT ![a] = new]
  <2>1. StatusBar' = [StatusBar EXCEPT ![a] = "open"]
    BY <1>3, ShownStep DEF Stages, Shown
  <2>2. StatusBar' = StatusBar
    BY <1>1, <2>1 DEF StatusBar
  <2>3. Kept' = Kept \cup {a}
    BY <1>3 DEF Kept, IInv, TypeOK
  <2>4. QED
    BY <1>1, <2>2, <2>3 DEF Promise!Keep, StatusBar
<1>4. QED
  BY <1>2, <1>3 DEF Save

LEMMA LogEventShown ==
    ASSUME IInv, NEW a \in Attempts, LogEvent(a)
    PROVE  Promise!Announce(a)
<1>1. StatusBar[a] = "open" /\ a \in Kept /\ Kept' = Kept /\ events' = events \cup {a}
  BY DEF IInv, Trace, StatusBar, Shown, LogEvent, Stage, Kept
<1>2. StatusBar' = [StatusBar EXCEPT ![a] = "open"]
  BY ShownStep DEF LogEvent, Stages, Shown
<1>3. StatusBar' = StatusBar
  BY <1>1, <1>2 DEF StatusBar
<1>4. QED
  BY <1>1, <1>3 DEF Promise!Announce, StatusBar

LEMMA ReplyShown ==
    ASSUME IInv, NEW a \in Attempts, Reply(a)
    PROVE  Promise!Thank(a)
<1>1. StatusBar[a] = "open" /\ a \in Kept \cap events /\ Kept' = Kept /\ events' = events
  BY DEF IInv, Trace, StatusBar, Shown, Reply, Stage, Kept
<1>2. StatusBar' = [StatusBar EXCEPT ![a] = "thanked"]
  BY ShownStep DEF Reply, Stages, Shown
<1>3. QED
  BY <1>1, <1>2 DEF Promise!Thank, StatusBar

LEMMA FailShown ==
    ASSUME IInv, NEW a \in Attempts, Fail(a)
    PROVE  Promise!Fail(a)
<1>1. StatusBar[a] = "open" /\ Kept' = Kept /\ events' = events
  BY DEF StatusBar, Shown, Fail, Stage, Kept
<1>2. StatusBar' = [StatusBar EXCEPT ![a] = "failed"]
  BY ShownStep DEF Fail, Stages, Shown
<1>3. QED
  BY <1>1, <1>2 DEF Promise!Fail, StatusBar

LEMMA InitShown == Init => Promise!Init
BY DEF Init, Promise!Init, Unsent, NoRow, Shown, Kept

\* Every step of a request is one of the promise's, or does not show.
LEMMA NextShown ==
    ASSUME IInv, [Next]_vars
    PROVE  [Promise!Next]_(Promise!promiseVars)
<1>1. CASE UNCHANGED <<request, row, events>>
  BY <1>1 DEF Promise!promiseVars, Kept, Shown
<1>2. ASSUME NEW a \in Attempts, AttemptStep(a)
      PROVE  [Promise!Next]_(Promise!promiseVars)
  <2>1. Promise!Arrive(a) \/ Promise!Serve(a) \/ UNCHANGED <<StatusBar, Kept, events>>
    BY <1>2, ReceiveShown, ScreenShown, SaveShown, LogEventShown, ReplyShown, FailShown
       DEF AttemptStep, Promise!Serve
  <2>2. QED
    BY <2>1 DEF Promise!Next, Promise!promiseVars, StatusBar
<1>3. QED
  BY <1>1, <1>2 DEF Next, EditForm, OldCopiesGone, vars

\* submissions_controller.rb create implements what the page relies on.
THEOREM Implements == Spec => KeepsPromise
<1>1. Init => Promise!Init
  BY InitShown
<1>2. IInv /\ [Next]_vars => [Promise!Next]_(Promise!promiseVars)
  BY NextShown
<1>3. QED
  BY <1>1, <1>2, Invariant, PTL DEF Spec, KeepsPromise, Promise!Spec

=============================================================================
