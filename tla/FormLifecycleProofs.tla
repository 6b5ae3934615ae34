------------------------- MODULE FormLifecycleProofs -------------------------
(***************************************************************************)
(* For every set of forms, of handlers, of posted states and of approval   *)
(* settings: IInv is an inductive invariant of FormLifecycle, and the four *)
(* safety properties follow from it.                                       *)
(***************************************************************************)
EXTENDS FormLifecycle, TLAPS

LEMMA AnyFormType == AnyForm \in Forms
BY FormsAssumption DEF AnyForm

LEMMA NewRowType == NewRow \in FormRow
BY DEF NewRow, FormRow, States, Stamps

LEMMA IdleType == Idle \in Handler
BY AnyFormType, NewRowType DEF Idle, IdleRequest, Handler, RequestPC, AasmEvents

LEMMA IdleJobType == IdleJob \in JobRun
BY NewRowType DEF IdleJob, JobRun, JobPC

LEMMA ToType == \A e \in AasmEvents : To(e) \in States /\ StampsOf(e) \subseteq Stamps
BY DEF To, StampsOf, AasmEvents, States, Stamps

\* What a transition leaves in the row is a row.
LEMMA FiredType ==
    ASSUME NEW row \in FormRow, NEW seen \in FormRow, NEW e \in AasmEvents
    PROVE  Fired(row, seen, e) \in FormRow
BY ToType DEF Fired, Written, FormRow

LEMMA EditedType ==
    ASSUME NEW row \in FormRow, NEW seen \in FormRow, NEW s \in States, NEW x \in Expirations,
           NEW n \in Numbers
    PROVE  Edited(row, seen, s, x, n) \in FormRow
BY EndDatesAssumption DEF Edited, Written, FormRow, Expirations, Numbers

LEMMA StoreType ==
    ASSUME TypeOK, NEW f \in Forms, NEW row \in FormRow, Store(f, row)
    PROVE  form' \in [Forms -> FormRow] /\ reached' \subseteq Forms \X Tracked
BY DEF Store, Mark, TypeOK

\* Both outcomes of the save in which an event ends.
LEMMA SaveType ==
    ASSUME TypeOK, NEW f \in Forms, NEW seen \in FormRow, NEW e \in AasmEvents, Save(f, seen, e)
    PROVE  /\ form' \in [Forms -> FormRow]
           /\ reached' \subseteq Forms \X Tracked
           /\ refused' \subseteq Forms \X Tracked
<1>1. Fired(form[f], seen, e) \in FormRow
  BY FiredType DEF TypeOK
<1>2. CASE Valid(seen)
  BY <1>1, <1>2, StoreType DEF Save, TypeOK
<1>3. CASE ~Valid(seen)
  BY <1>3 DEF Save, Mark, TypeOK
<1>4. QED BY <1>2, <1>3

LEMMA FinishType ==
    ASSUME TypeOK, NEW r \in Requests, Finish(r)
    PROVE  request' \in [Requests -> Handler]
BY IdleType DEF Finish, TypeOK

-----------------------------------------------------------------------------

LEMMA TypeInit == Init => TypeOK
BY IdleType, IdleJobType, NewRowType, BoundsAssumption, ApprovalAssumption
   DEF Init, TypeOK, Days

LEMMA TypeNext == TypeOK /\ [Next]_vars => TypeOK'
<1> SUFFICES ASSUME TypeOK, [Next]_vars PROVE TypeOK'
  OBVIOUS
<1>1. ASSUME NEW f \in Forms, NEW s \in EditableStates \cup {"created"}, NEW x \in Expirations,
             NEW n \in Numbers, CreateForm(f, s, x, n)
      PROVE  TypeOK'
  <2>1. [NewRow EXCEPT !.phase = "live", !.state = s, !.expires = x, !.omb = n] \in FormRow
    BY EndDatesAssumption, EditableAssumption
       DEF NewRow, FormRow, Expirations, Numbers, States, Stamps
  <2>2. QED BY <1>1, <2>1, StoreType DEF CreateForm, TypeOK
<1>2. ASSUME NEW r \in Requests, RequestStep(r) PROVE TypeOK'
  <2>1. ASSUME NEW f \in Forms, LoadForm(r, f) PROVE TypeOK'
    BY <2>1 DEF LoadForm, TypeOK, Handler, RequestPC, AasmEvents
  <2>2. ASSUME NEW f \in Forms, CopyForm(r, f) PROVE TypeOK'
    <3>0. request[r].seen \in FormRow
      BY DEF TypeOK, Handler
    <3>1. [request[r].seen EXCEPT !.state = "created"] \in FormRow
      BY <3>0 DEF FormRow, States
    <3>2. QED BY <2>2, <3>1, StoreType, FinishType DEF CopyForm, TypeOK, Handler
  <2>3. ASSUME NEW e \in AasmEvents, LogEvent(r, e) PROVE TypeOK'
    <3>0. [request[r] EXCEPT !.pc = "logged", !.event = e] \in Handler
      BY DEF TypeOK, Handler, RequestPC
    <3>1. request' \in [Requests -> Handler]
      BY <2>3, <3>0 DEF LogEvent, TypeOK
    <3>2. QED BY <2>3, <3>1 DEF LogEvent, TypeOK, Handler, Mark
  <2>4. CASE FireEvent(r)
    <3>1. request[r].form \in Forms /\ request[r].seen \in FormRow /\ request[r].event \in AasmEvents
      BY DEF TypeOK, Handler
    <3>2a. [request[r] EXCEPT !.pc = "written", !.seen = NewRow] \in Handler
      BY NewRowType DEF TypeOK, Handler, RequestPC
    <3>2. request' \in [Requests -> Handler]
      BY <2>4, <3>2a, FinishType DEF FireEvent, TypeOK, Handler
    <3>3. /\ form' \in [Forms -> FormRow]
          /\ reached' \subseteq Forms \X Tracked /\ refused' \subseteq Forms \X Tracked
      BY <2>4, <3>1, SaveType DEF FireEvent, TypeOK
    <3>4. QED BY <2>4, <3>2, <3>3 DEF FireEvent, TypeOK, Handler
  <2>5. CASE SendStatusMail(r)
    BY <2>5, FinishType DEF SendStatusMail, Mailed, Mark, Handler, TypeOK
  <2>6. ASSUME NEW s \in States, NEW x \in Expirations, NEW n \in Numbers, UpdateForm(r, s, x, n)
        PROVE  TypeOK'
    <3>1. Edited(form[request[r].form], request[r].seen, s, x, n) \in FormRow
      BY EditedType DEF TypeOK, Handler
    <3>2. QED BY <2>6, <3>1, StoreType, FinishType DEF UpdateForm, Mark, TypeOK, Handler
  <2>7. ASSUME NEW s \in States, NEW x \in Expirations, NEW n \in Numbers, UpdateOptions(r, s, x, n)
        PROVE  TypeOK'
    <3>1. Edited(form[request[r].form], request[r].seen, s, x, n) \in FormRow
      BY EditedType DEF TypeOK, Handler
    <3>2. QED BY <2>7, <3>1, StoreType, FinishType DEF UpdateOptions, TypeOK, Handler
  <2>8. CASE DestroyForm(r)
    <3>0. request[r].form \in Forms
      BY DEF TypeOK, Handler
    <3>1. form' \in [Forms -> FormRow]
      <4>1. [form[request[r].form] EXCEPT !.phase = "gone"] \in FormRow
        BY <3>0 DEF TypeOK, FormRow
      <4>2. QED BY <2>8, <3>0, <4>1 DEF DestroyForm, TypeOK
    <3>2. QED BY <2>8, <3>1, FinishType DEF DestroyForm, TypeOK
  <2>9. CASE AbandonRequest(r)
    BY <2>9, FinishType DEF AbandonRequest, TypeOK
  <2>10. QED BY <1>2, <2>1, <2>2, <2>3, <2>4, <2>5, <2>6, <2>7, <2>8, <2>9 DEF RequestStep
<1>3. CASE JobStep
  <2>1. CASE JobSelect
    BY <2>1, NewRowType DEF JobSelect, TypeOK, JobRun, JobPC
  <2>2. ASSUME NEW f \in Forms, JobLog(f) PROVE TypeOK'
    BY <2>2 DEF JobLog, TypeOK, JobRun, JobPC, Mark
  <2>3. ASSUME NEW f \in Forms, JobArchive(f) PROVE TypeOK'
    <3>1. job.seen[f] \in FormRow /\ "archive" \in AasmEvents
      BY DEF TypeOK, JobRun, AasmEvents
    <3>2. /\ form' \in [Forms -> FormRow]
          /\ reached' \subseteq Forms \X Tracked /\ refused' \subseteq Forms \X Tracked
      BY <2>3, <3>1, SaveType DEF JobArchive, TypeOK
    <3>3. job' \in JobRun
      BY <2>3, IdleJobType DEF JobArchive, TypeOK, JobRun, JobPC
    <3>4. QED BY <2>3, <3>2, <3>3 DEF JobArchive, TypeOK
  <2>4. ASSUME NEW f \in Forms, JobMail(f) PROVE TypeOK'
    BY <2>4, IdleJobType DEF JobMail, Mailed, Mark, TypeOK, JobRun, JobPC
  <2>5. QED BY <1>3, <2>1, <2>2, <2>3, <2>4 DEF JobStep
<1>4. CASE JobCrash
  BY <1>4, IdleJobType, BoundsAssumption DEF JobCrash, TypeOK
<1>5. CASE NextDay
  BY <1>5, BoundsAssumption DEF NextDay, TypeOK, Days
<1>6. CASE SetApproval
  BY <1>6, ApprovalAssumption DEF SetApproval, TypeOK
<1>7. CASE UNCHANGED vars
  BY <1>7 DEF vars, TypeOK
<1>8. QED BY <1>1, <1>2, <1>3, <1>4, <1>5, <1>6, <1>7 DEF Next, Create

\* Every variable keeps its type.
THEOREM TypeCorrect == Spec => []TypeOK
BY TypeInit, TypeNext, PTL DEF Spec

-----------------------------------------------------------------------------
(* The inductive invariant: what one row, one handler and the job need *)

LEMMA SoundNewRow == SoundRow(NewRow)
BY DEF SoundRow, NewRow

\* A transition of a sound copy, saved over a sound row that is not behind it,
\* leaves a sound row.  Only approve looks at the timestamps of the copy.
LEMMA FiredSound ==
    ASSUME NEW row \in FormRow, NEW seen \in FormRow, NEW e \in AasmEvents,
           SoundRow(row), SoundRow(seen), MayFire(e, seen),
           e = "approve" => seen.stamps \subseteq row.stamps
    PROVE  SoundRow(Fired(row, seen, e))
<1>1. CASE row.phase # "live"
  BY <1>1 DEF Fired
<1> SUFFICES ASSUME row.phase = "live" PROVE SoundRow(Fired(row, seen, e))
  BY <1>1
<1> DEFINE new == Fired(row, seen, e)
<1>2. /\ new.state = Written(row.state, seen.state, To(e))
      /\ new.stamps = row.stamps \cup StampsOf(e)
  BY DEF Fired, FormRow
<1>3. CASE e = "submit"
  BY <1>2, <1>3 DEF SoundRow, Written, To, StampsOf, MayFire, From
<1>4. CASE e = "approve"
  BY <1>2, <1>4 DEF SoundRow, Written, To, StampsOf, MayFire, From
<1>5. CASE e = "publish"
  BY <1>2, <1>5 DEF SoundRow, Written, To, StampsOf, MayFire, From
<1>6. CASE e = "archive"
  BY <1>2, <1>6 DEF SoundRow, Written, To, StampsOf, MayFire, From
<1>7. CASE e = "reset"
  BY <1>2, <1>7 DEF SoundRow, Written, To, StampsOf
<1>8. QED BY <1>3, <1>4, <1>5, <1>6, <1>7 DEF AasmEvents

\* The phase stays, timestamps are only added, and the state is either kept or
\* the target; a live row that moves by another event than reset gets the target.
LEMMA FiredShape ==
    ASSUME NEW row \in FormRow, NEW seen \in FormRow, NEW e \in AasmEvents, MayFire(e, seen)
    PROVE  LET new == Fired(row, seen, e)
           IN  /\ new.phase = row.phase
               /\ row.stamps \subseteq new.stamps
               /\ new.state \in {row.state, To(e)}
               /\ row.phase = "live" /\ e # "reset" => new.state = To(e)
<1> DEFINE new == Fired(row, seen, e)
<1>1. CASE row.phase # "live"
  BY <1>1 DEF Fired
<1>2. CASE row.phase = "live"
  <2>1. /\ new.phase = row.phase
        /\ new.state = Written(row.state, seen.state, To(e))
        /\ new.stamps = row.stamps \cup StampsOf(e)
    BY <1>2 DEF Fired, FormRow
  <2>2. e # "reset" => seen.state # To(e)
    BY DEF MayFire, From, To, AasmEvents
  <2>3. QED BY <2>1, <2>2 DEF Written
<1>3. QED BY <1>1, <1>2

LEMMA EditedSound ==
    ASSUME NEW row \in FormRow, NEW seen \in FormRow, NEW x, NEW n,
           NEW s \in PostedStates(seen), SoundRow(row)
    PROVE  LET new == Edited(row, seen, s, x, n)
           IN  /\ SoundRow(new)
               /\ new.phase = row.phase
               /\ new.stamps = row.stamps
               /\ new.state \in {row.state} \cup EditableStates
<1> DEFINE new == Edited(row, seen, s, x, n)
<1>1. /\ new.phase = row.phase
      /\ new.stamps = row.stamps
      /\ new.state \in {row.state, Written(row.state, seen.state, s)}
  BY DEF Edited, FormRow
<1>2. Written(row.state, seen.state, s) \in {row.state} \cup EditableStates
  BY DEF Written, PostedStates
<1>3. SoundRow(new)
  BY <1>1, <1>2 DEF SoundRow
<1>4. QED BY <1>1, <1>2, <1>3

-----------------------------------------------------------------------------
(* What a step leaves alone *)

\* Every step is one of these: rows are born once, die once, and never lose a
\* timestamp; the audit log and the two histories only grow.
Grows ==
    /\ \A f \in Forms :
          /\ form[f].stamps \subseteq form'[f].stamps
          /\ form[f].phase # "unborn" =>
                /\ form'[f].phase # "unborn"
                /\ form'[f].phase = "live" => form[f].phase = "live"
    /\ log \subseteq log'
    /\ reached \subseteq reached'
    /\ refused \subseteq refused'

LEMMA StoreGrows ==
    ASSUME TypeOK, NEW f \in Forms, NEW row \in FormRow, Store(f, row),
           form[f].stamps \subseteq row.stamps, log \subseteq log', refused \subseteq refused',
           row.phase = form[f].phase \/ (form[f].phase = "unborn" /\ row.phase = "live")
    PROVE  Grows
BY DEF Grows, Store, TypeOK

LEMMA StillGrows ==
    ASSUME UNCHANGED form, log \subseteq log', reached \subseteq reached', refused \subseteq refused'
    PROVE  Grows
BY DEF Grows

LEMMA RequestFrame ==
    ASSUME TypeOK, Grows, NEW r \in Requests, SoundRequest(r), request'[r] = request[r]
    PROVE  SoundRequest(r)'
<1>1. request[r].form \in Forms
  BY DEF TypeOK, Handler
<1>2. QED BY <1>1 DEF SoundRequest, Grows

LEMMA IdleSound ==
    ASSUME NEW r \in Requests, request'[r] = Idle
    PROVE  SoundRequest(r)'
BY SoundNewRow DEF SoundRequest, Idle, IdleRequest

\* A step of handler r that ends it, or a step of someone else.
LEMMA FinishFrame ==
    ASSUME TypeOK, Grows, \A q \in Requests : SoundRequest(q), NEW r \in Requests, Finish(r)
    PROVE  \A q \in Requests : SoundRequest(q)'
<1> TAKE q \in Requests
<1>1. CASE q = r
  BY <1>1, IdleSound DEF Finish, TypeOK
<1>2. CASE q # r
  BY <1>2, RequestFrame DEF Finish, TypeOK
<1>3. QED BY <1>1, <1>2

LEMMA JobFrame ==
    ASSUME TypeOK, Grows, SoundJob, UNCHANGED job
    PROVE  SoundJob'
<1>1. job.todo \subseteq Forms
  BY DEF TypeOK, JobRun
<1>2. QED BY <1>1 DEF SoundJob, Grows, IsNext

LEMMA StoreForms ==
    ASSUME TypeOK, \A g \in Forms : SoundForm(g), NEW f \in Forms, NEW row \in FormRow,
           Store(f, row), SoundRow(row), row.phase = "unborn" => row = NewRow
    PROVE  \A g \in Forms : SoundForm(g)'
<1> TAKE g \in Forms
<1>1. CASE g = f
  BY <1>1 DEF SoundForm, Store, TypeOK
<1>2. CASE g # f
  BY <1>2 DEF SoundForm, Store, TypeOK
<1>3. QED BY <1>1, <1>2

LEMMA FormsFrame ==
    ASSUME \A g \in Forms : SoundForm(g), UNCHANGED <<form, reached>>
    PROVE  \A g \in Forms : SoundForm(g)'
BY DEF SoundForm

\* Audited survives a write when the new status is exempt, was reached before or
\* is in the log.
LEMMA StoreAudited ==
    ASSUME TypeOK, Audited, NEW f \in Forms, NEW row, Store(f, row), log \subseteq log',
           \/ row.state \in EditableStates \cup {"created"}
           \/ Mark(f, row.state) \subseteq reached
           \/ Mark(f, row.state) \subseteq log'
    PROVE  Audited'
<1> SUFFICES ASSUME NEW g \in Forms, NEW s \in Tracked \ (EditableStates \cup {"created"}),
                    <<g, s>> \in reached'
             PROVE  <<g, s>> \in log'
  BY DEF Audited
<1>1. CASE <<g, s>> \in reached
  BY <1>1 DEF Audited
<1>2. CASE <<g, s>> \in Mark(f, row.state)
  <2>1. g = f /\ s = row.state
    BY <1>2 DEF Mark
  <2>2. CASE Mark(f, row.state) \subseteq reached
    BY <1>2, <2>2 DEF Audited
  <2>3. CASE Mark(f, row.state) \subseteq log'
    BY <1>2, <2>3
  <2>4. QED BY <2>1, <2>2, <2>3
<1>3. QED BY <1>1, <1>2 DEF Store

LEMMA AuditedFrame ==
    ASSUME Audited, UNCHANGED reached, log \subseteq log'
    PROVE  Audited'
BY DEF Audited

-----------------------------------------------------------------------------
(* One lemma per action *)

USE DEF IInv

LEMMA CreateInv ==
    ASSUME IInv, NEW f \in Forms, NEW s \in EditableStates \cup {"created"},
           NEW x \in Expirations, NEW n \in Numbers, CreateForm(f, s, x, n), TypeOK'
    PROVE  IInv'
<1> DEFINE row == [NewRow EXCEPT !.phase = "live", !.state = s, !.expires = x, !.omb = n]
<1>1. /\ row \in FormRow
      /\ row.phase = "live" /\ row.state = s /\ row.stamps = {}
  BY EndDatesAssumption, EditableAssumption
     DEF NewRow, FormRow, Expirations, Numbers, States, Stamps
<1>2. form[f].stamps = {} /\ form[f].phase = "unborn"
  BY DEF CreateForm, SoundForm, NewRow
<1>3. SoundRow(row)
  BY <1>1 DEF SoundRow
<1>4. Grows
  BY <1>1, <1>2, StoreGrows DEF CreateForm
<1>5. \A g \in Forms : SoundForm(g)'
  BY <1>1, <1>3, StoreForms DEF CreateForm
<1>6. \A q \in Requests : SoundRequest(q)'
  BY <1>4, RequestFrame DEF CreateForm
<1>7. SoundJob'
  BY <1>4, JobFrame DEF CreateForm
<1>8. Audited'
  BY <1>1, StoreAudited DEF CreateForm
<1>9. MailTruthful'
  BY <1>4 DEF CreateForm, MailTruthful, Grows
<1>10. QED BY <1>5, <1>6, <1>7, <1>8, <1>9

LEMMA LoadInv ==
    ASSUME IInv, NEW r \in Requests, NEW f \in Forms, LoadForm(r, f), TypeOK'
    PROVE  IInv'
<1>1. Grows
  BY StillGrows DEF LoadForm
<1>2. \A q \in Requests : SoundRequest(q)'
  <2> TAKE q \in Requests
  <2>1. CASE q = r
    BY <2>1 DEF LoadForm, SoundRequest, SoundForm, TypeOK
  <2>2. CASE q # r
    BY <2>2, <1>1, RequestFrame DEF LoadForm, TypeOK
  <2>3. QED BY <2>1, <2>2
<1>3. SoundJob'
  BY <1>1, JobFrame DEF LoadForm
<1>4. Audited' /\ MailTruthful' /\ \A g \in Forms : SoundForm(g)'
  BY FormsFrame, AuditedFrame DEF LoadForm, MailTruthful
<1>5. QED BY <1>2, <1>3, <1>4

LEMMA LogInv ==
    ASSUME IInv, NEW r \in Requests, NEW e \in AasmEvents, LogEvent(r, e), TypeOK'
    PROVE  IInv'
<1>1. Grows
  BY StillGrows DEF LogEvent
<1>2. \A q \in Requests : SoundRequest(q)'
  <2> TAKE q \in Requests
  <2>1. CASE q = r
    <3>1. request[r] \in Handler /\ request'[r] = [request[r] EXCEPT !.pc = "logged", !.event = e]
      BY DEF LogEvent, TypeOK
    <3>2. /\ request'[r].pc = "logged"
          /\ request'[r].event = e
          /\ request'[r].form = request[r].form
          /\ request'[r].seen = request[r].seen
      BY <3>1 DEF Handler
    <3>3. QED BY <2>1, <3>2 DEF LogEvent, SoundRequest
  <2>2. CASE q # r
    BY <2>2, <1>1, RequestFrame DEF LogEvent, TypeOK
  <2>3. QED BY <2>1, <2>2
<1>3. SoundJob'
  BY <1>1, JobFrame DEF LogEvent
<1>4. Audited' /\ MailTruthful' /\ \A g \in Forms : SoundForm(g)'
  BY <1>1, FormsFrame, AuditedFrame DEF LogEvent, MailTruthful, Grows
<1>5. QED BY <1>2, <1>3, <1>4

LEMMA FireInv ==
    ASSUME IInv, NEW r \in Requests, FireEvent(r), TypeOK'
    PROVE  IInv'
<1> DEFINE f == request[r].form
           e == request[r].event
           seen == request[r].seen
           row == Fired(form[f], seen, e)
<1>1. /\ f \in Forms /\ e \in AasmEvents /\ seen \in FormRow /\ form[f] \in FormRow
      /\ SoundRow(seen) /\ SoundRow(form[f]) /\ seen.stamps \subseteq form[f].stamps
      /\ form[f].phase # "unborn"
      /\ Mark(f, To(e)) \subseteq log
  BY DEF FireEvent, TypeOK, Handler, SoundRequest, SoundForm
<1>2. CASE ~MayFire(e, seen)
  <2>1. Finish(r) /\ UNCHANGED <<form, job, log, mails, reached, refused>>
    BY <1>2 DEF FireEvent
  <2>2. Grows
    BY <2>1, StillGrows
  <2>3. QED BY <2>1, <2>2, FinishFrame, JobFrame, FormsFrame, AuditedFrame DEF MailTruthful
<1>3. CASE MayFire(e, seen) /\ Valid(seen)
  <2>1. Store(f, row) /\ UNCHANGED <<job, log, mails, refused>>
    BY <1>3 DEF FireEvent, Save
  <2>2. /\ row \in FormRow /\ SoundRow(row)
        /\ row.phase = form[f].phase /\ form[f].stamps \subseteq row.stamps
        /\ row.state \in {form[f].state, To(e)}
        /\ row.phase = "live" /\ e # "reset" => row.state = To(e)
    BY <1>1, <1>3, FiredType, FiredSound, FiredShape
  <2>3. Grows
    BY <1>1, <2>1, <2>2, StoreGrows
  <2>4. \A g \in Forms : SoundForm(g)'
    BY <1>1, <2>1, <2>2, StoreForms
  <2>5. \A q \in Requests : SoundRequest(q)'
    <3>1. CASE e = "reset"
      BY <1>3, <2>3, <3>1, FinishFrame DEF FireEvent
    <3>2. CASE e # "reset"
      <4> TAKE q \in Requests
      <4>1. CASE q = r
        <5>1. /\ request[r] \in Handler
              /\ request'[r] = [request[r] EXCEPT !.pc = "written", !.seen = NewRow]
          BY <1>3, <3>2 DEF FireEvent, TypeOK
        <5>2. /\ request'[r].pc = "written" /\ request'[r].event = e
              /\ request'[r].form = f /\ request'[r].seen = NewRow
          BY <5>1 DEF Handler
        <5>3. form'[f] = row /\ reached' = reached \cup Mark(f, row.state)
          BY <1>1, <2>1 DEF Store, TypeOK
        <5>4. NewRow.stamps = {}
          BY DEF NewRow
        <5>5. SoundRequest(r)'
          BY <1>1, <2>2, <3>2, <5>2, <5>3, <5>4, SoundNewRow DEF SoundRequest
        <5>6. QED BY <4>1, <5>5
      <4>2. CASE q # r
        BY <1>3, <2>3, <3>2, <4>2, RequestFrame DEF FireEvent, TypeOK
      <4>3. QED BY <4>1, <4>2
    <3>3. QED BY <3>1, <3>2
  <2>6. SoundJob'
    BY <2>1, <2>3, JobFrame
  <2>7. Audited'
    <3>1. Mark(f, form[f].state) \subseteq reached
      BY <1>1 DEF SoundForm
    <3>2. QED BY <1>1, <2>1, <2>2, <3>1, StoreAudited
  <2>8. MailTruthful'
    BY <2>1, <2>3 DEF MailTruthful, Grows
  <2>9. QED BY <2>4, <2>5, <2>6, <2>7, <2>8
<1>4. CASE MayFire(e, seen) /\ ~Valid(seen)
  <2>1. /\ refused' = refused \cup Mark(f, To(e))
        /\ UNCHANGED <<form, job, log, mails, reached>>
    BY <1>4 DEF FireEvent, Save
  <2>2. Grows
    BY <2>1, StillGrows
  <2>3. \A q \in Requests : SoundRequest(q)'
    <3>1. CASE e = "reset"
      BY <1>4, <2>2, <3>1, FinishFrame DEF FireEvent
    <3>2. CASE e # "reset"
      <4> TAKE q \in Requests
      <4>1. CASE q = r
        <5>1. /\ request[r] \in Handler
              /\ request'[r] = [request[r] EXCEPT !.pc = "written", !.seen = NewRow]
          BY <1>4, <3>2 DEF FireEvent, TypeOK
        <5>2. /\ request'[r].pc = "written" /\ request'[r].event = e
              /\ request'[r].form = f /\ request'[r].seen = NewRow
          BY <5>1 DEF Handler
        <5>3. NewRow.stamps = {}
          BY DEF NewRow
        <5>4. SoundRequest(r)'
          BY <1>1, <2>1, <5>2, <5>3, SoundNewRow DEF SoundRequest
        <5>5. QED BY <4>1, <5>4
      <4>2. CASE q # r
        BY <1>4, <2>2, <3>2, <4>2, RequestFrame DEF FireEvent, TypeOK
      <4>3. QED BY <4>1, <4>2
    <3>3. QED BY <3>1, <3>2
  <2>4. MailTruthful'
    BY <2>1, <2>2 DEF MailTruthful, Grows
  <2>5. QED BY <2>1, <2>2, <2>3, <2>4, JobFrame, FormsFrame, AuditedFrame
<1>5. QED BY <1>2, <1>3, <1>4

LEMMA MailInv ==
    ASSUME IInv, NEW r \in Requests, SendStatusMail(r), TypeOK'
    PROVE  IInv'
<1>1. Grows
  BY StillGrows DEF SendStatusMail
<1>2. MailTruthful'
  BY DEF SendStatusMail, Mailed, MailTruthful, SoundRequest
<1>3. QED BY <1>1, <1>2, FinishFrame, JobFrame, FormsFrame, AuditedFrame DEF SendStatusMail

\* update, update_admin_options and update_form_manager_options alike.
LEMMA EditInv ==
    ASSUME IInv, NEW r \in Requests, NEW s \in States, NEW x \in Expirations,
           NEW n \in Numbers,
           request[r].pc = "loaded", s \in PostedStates(request[r].seen),
           Store(request[r].form, Edited(form[request[r].form], request[r].seen, s, x, n)),
           Finish(r), log \subseteq log', UNCHANGED <<job, mails, refused>>, TypeOK'
    PROVE  IInv'
<1> DEFINE f == request[r].form
           row == Edited(form[f], request[r].seen, s, x, n)
<1>1. f \in Forms /\ request[r].seen \in FormRow /\ form[f] \in FormRow
  BY DEF TypeOK, Handler
<1>2. SoundForm(f) /\ form[f].phase # "unborn"
  BY <1>1 DEF SoundRequest
<1>3. /\ row \in FormRow /\ SoundRow(row) /\ row.phase = form[f].phase
      /\ row.stamps = form[f].stamps
      /\ row.state \in {form[f].state} \cup EditableStates
  BY <1>1, <1>2, EditedType, EditedSound DEF SoundForm
<1>4. Grows
  BY <1>1, <1>3, StoreGrows
<1>5. \A g \in Forms : SoundForm(g)'
  BY <1>1, <1>2, <1>3, StoreForms
<1>6. Audited'
  BY <1>1, <1>2, <1>3, StoreAudited DEF SoundForm
<1>7. MailTruthful'
  BY <1>4 DEF MailTruthful, Grows
<1>8. QED BY <1>4, <1>5, <1>6, <1>7, FinishFrame, JobFrame

\* update refused by a validation, its event inserted already.
LEMMA RefusedInv ==
    ASSUME IInv, NEW r \in Requests, Finish(r), log \subseteq log',
           UNCHANGED <<form, job, mails, reached, refused>>, TypeOK'
    PROVE  IInv'
<1>1. Grows
  BY StillGrows
<1>2. QED
  BY <1>1, FinishFrame, JobFrame, FormsFrame, AuditedFrame DEF MailTruthful

LEMMA CopyInv ==
    ASSUME IInv, NEW r \in Requests, NEW f \in Forms, CopyForm(r, f), TypeOK'
    PROVE  IInv'
<1> DEFINE row == [request[r].seen EXCEPT !.state = "created"]
<1>1. request[r].seen \in FormRow /\ SoundRow(request[r].seen) /\ request[r].seen.phase = "live"
  BY DEF CopyForm, TypeOK, Handler, SoundRequest
<1>2. /\ row \in FormRow /\ row.phase = "live" /\ row.state = "created"
      /\ row.stamps = request[r].seen.stamps
  BY <1>1 DEF FormRow, States
<1>3. SoundRow(row)
  BY <1>1, <1>2 DEF SoundRow
<1>4. form[f].phase = "unborn" /\ form[f].stamps = {}
  BY DEF CopyForm, SoundForm, NewRow
<1>5. Store(f, row) /\ Finish(r) /\ UNCHANGED <<job, log, mails, refused>>
  BY DEF CopyForm
<1>6. Grows
  BY <1>2, <1>4, <1>5, StoreGrows
<1>7. \A g \in Forms : SoundForm(g)'
  BY <1>2, <1>3, <1>5, StoreForms
<1>8. Audited'
  BY <1>2, <1>5, StoreAudited
<1>9. MailTruthful'
  BY <1>5, <1>6 DEF MailTruthful, Grows
<1>10. QED BY <1>5, <1>6, <1>7, <1>8, <1>9, FinishFrame, JobFrame

LEMMA DestroyInv ==
    ASSUME IInv, NEW r \in Requests, DestroyForm(r), TypeOK'
    PROVE  IInv'
<1> DEFINE f == request[r].form
           row == [form[f] EXCEPT !.phase = "gone"]
<1>1. f \in Forms /\ form[f] \in FormRow /\ SoundForm(f) /\ form[f].phase # "unborn"
  BY DEF DestroyForm, TypeOK, Handler, SoundRequest
<1>2. /\ form' = [form EXCEPT ![f] = row]
      /\ row.phase = "gone" /\ row.state = form[f].state /\ row.stamps = form[f].stamps
  BY <1>1 DEF DestroyForm, FormRow
<1>3. Finish(r) /\ UNCHANGED <<job, log, mails, reached, refused>>
  BY DEF DestroyForm
<1>4. Grows
  BY <1>1, <1>2, <1>3 DEF Grows, TypeOK
<1>5. \A g \in Forms : SoundForm(g)'
  <2> TAKE g \in Forms
  <2>1. CASE g = f
    BY <1>1, <1>2, <1>3, <2>1 DEF SoundForm, SoundRow, TypeOK
  <2>2. CASE g # f
    BY <1>2, <1>3, <2>2 DEF SoundForm, TypeOK
  <2>3. QED BY <2>1, <2>2
<1>6. QED BY <1>3, <1>4, <1>5, FinishFrame, JobFrame, AuditedFrame DEF MailTruthful

LEMMA AbandonInv ==
    ASSUME IInv, NEW r \in Requests, AbandonRequest(r), TypeOK'
    PROVE  IInv'
<1>1. Grows
  BY StillGrows DEF AbandonRequest
<1>2. QED
  BY <1>1, FinishFrame, JobFrame, FormsFrame, AuditedFrame DEF AbandonRequest, MailTruthful

\* A step of the job, which no handler takes part in.
LEMMA HandlersFrame ==
    ASSUME IInv, Grows, UNCHANGED request
    PROVE  \A q \in Requests : SoundRequest(q)'
BY RequestFrame

LEMMA IdleJobSound == job' = IdleJob => SoundJob'
BY DEF SoundJob, IdleJob

\* A job that was started loaded sound copies.  Its archive step reads only the
\* state of the copy, so nothing more has to be remembered of them.
LEMMA JobSelectInv ==
    ASSUME IInv, JobSelect, TypeOK'
    PROVE  IInv'
<1>1. Grows
  BY StillGrows DEF JobSelect
<1>2. SoundJob'
  BY DEF JobSelect, SoundJob, Overdue
<1>3. QED
  BY <1>1, <1>2, HandlersFrame, FormsFrame, AuditedFrame DEF JobSelect, MailTruthful

LEMMA JobLogInv ==
    ASSUME IInv, NEW f \in Forms, JobLog(f), TypeOK'
    PROVE  IInv'
<1>1. Grows
  BY StillGrows DEF JobLog
<1>2. job'.todo = job.todo /\ job'.pc = "logged"
  BY DEF JobLog, TypeOK, JobRun
<1>3. \A g \in job.todo : IsNext(g) => g = f
  BY FormsAssumption DEF JobLog, IsNext, TypeOK, JobRun
<1>4. SoundJob'
  BY <1>2, <1>3 DEF JobLog, SoundJob, IsNext
<1>5. QED
  BY <1>1, <1>4, HandlersFrame, FormsFrame, AuditedFrame DEF JobLog, MailTruthful

LEMMA JobArchiveInv ==
    ASSUME IInv, NEW f \in Forms, JobArchive(f), TypeOK'
    PROVE  IInv'
<1> DEFINE seen == job.seen[f]
           row == Fired(form[f], seen, "archive")
<1>1. /\ f \in job.todo /\ job \in JobRun
      /\ seen \in FormRow /\ form[f] \in FormRow /\ SoundForm(f) /\ form[f].phase # "unborn"
      /\ Mark(f, "archived") \subseteq log
  BY DEF JobArchive, IsNext, TypeOK, JobRun, SoundJob
<1>2. CASE ~MayFire("archive", seen)
  <2>1. job' = IdleJob /\ UNCHANGED <<form, request, log, mails, reached, refused>>
    BY <1>2 DEF JobArchive
  <2>2. Grows
    BY <2>1, StillGrows
  <2>3. QED
    BY <2>1, <2>2, IdleJobSound, HandlersFrame, FormsFrame, AuditedFrame DEF MailTruthful
<1>3. CASE MayFire("archive", seen) /\ Valid(seen)
  <2>1. /\ Store(f, row) /\ UNCHANGED <<request, log, mails, refused>>
        /\ job' = [job EXCEPT !.pc = "archived"]
    BY <1>3 DEF JobArchive, Save
  <2>2. "archive" \in AasmEvents /\ To("archive") = "archived"
    BY DEF AasmEvents, To
  <2>3. /\ row \in FormRow
        /\ row.phase = form[f].phase /\ form[f].stamps \subseteq row.stamps
        /\ row.state \in {form[f].state, "archived"}
        /\ row.phase = "live" => row.state = "archived"
    <3>1. row \in FormRow
      BY <1>1, <2>2, FiredType
    <3>2. /\ row.phase = form[f].phase /\ form[f].stamps \subseteq row.stamps
          /\ row.state \in {form[f].state, To("archive")}
          /\ row.phase = "live" => row.state = To("archive")
      BY <1>1, <1>3, <2>2, FiredShape, "archive" # "reset"
    <3>3. QED BY <2>2, <3>1, <3>2
  <2>4. SoundRow(row)
    <3>1. CASE form[f].phase # "live"
      BY <1>1, <3>1 DEF Fired, SoundForm
    <3>2. CASE form[f].phase = "live"
      <4>1. row.state = "archived" /\ row.stamps = form[f].stamps \cup {"archived_at"}
        BY <1>1, <2>3, <3>2 DEF Fired, FormRow, StampsOf
      <4>2. QED BY <1>1, <4>1 DEF SoundRow, SoundForm
    <3>3. QED BY <3>1, <3>2
  <2>5. Grows
    BY <1>1, <2>1, <2>3, StoreGrows
  <2>6. \A g \in Forms : SoundForm(g)'
    BY <1>1, <2>1, <2>3, <2>4, StoreForms
  <2>7. SoundJob'
    <3>1. job'.todo = job.todo /\ job'.pc = "archived"
      BY <1>1, <2>1 DEF JobRun
    <3>2. \A g \in job.todo : IsNext(g) => g = f
      BY <1>1, FormsAssumption DEF JobArchive, IsNext, JobRun
    <3>3. form'[f] = row /\ reached' = reached \cup Mark(f, row.state)
      BY <2>1 DEF Store, TypeOK
    <3>4. \A g \in job.todo : g \in Forms /\ form'[g].phase # "unborn"
      BY <1>1, <2>5 DEF SoundJob, Grows, JobRun
    <3>5. QED BY <2>3, <3>1, <3>2, <3>3, <3>4 DEF SoundJob, IsNext
  <2>8. Audited'
    BY <1>1, <2>1, <2>3, StoreAudited DEF SoundForm
  <2>9. MailTruthful'
    BY <2>1, <2>5 DEF MailTruthful, Grows
  <2>10. QED BY <2>1, <2>5, <2>6, <2>7, <2>8, <2>9, HandlersFrame
<1>4. CASE MayFire("archive", seen) /\ ~Valid(seen)
  <2>1. /\ refused' = refused \cup Mark(f, "archived")
        /\ UNCHANGED <<form, request, log, mails, reached>>
        /\ job' = [job EXCEPT !.pc = "archived"]
    BY <1>4 DEF JobArchive, Save, To
  <2>2. Grows
    BY <2>1, StillGrows
  <2>3. SoundJob'
    <3>1. job'.todo = job.todo /\ job'.pc = "archived"
      BY <1>1, <2>1 DEF JobRun
    <3>2. \A g \in job.todo : IsNext(g) => g = f
      BY <1>1, FormsAssumption DEF JobArchive, IsNext, JobRun
    <3>3. QED BY <2>1, <3>1, <3>2 DEF SoundJob, IsNext
  <2>4. MailTruthful'
    BY <2>1, <2>2 DEF MailTruthful, Grows
  <2>5. QED
    BY <2>1, <2>2, <2>3, <2>4, HandlersFrame, FormsFrame, AuditedFrame
<1>5. QED BY <1>2, <1>3, <1>4

LEMMA JobMailInv ==
    ASSUME IInv, NEW f \in Forms, JobMail(f), TypeOK'
    PROVE  IInv'
<1>1. Grows
  BY StillGrows DEF JobMail
<1>2. MailTruthful'
  BY DEF JobMail, Mailed, MailTruthful, SoundJob, IsNext
<1>3. SoundJob'
  <2>1. CASE job.todo = {f}
    BY <2>1, IdleJobSound DEF JobMail
  <2>2. CASE job.todo # {f}
    <3>1. job'.pc = "next" /\ job'.todo = job.todo \ {f}
      BY <2>2 DEF JobMail, TypeOK, JobRun
    <3>2. QED BY <3>1 DEF JobMail, SoundJob
  <2>3. QED BY <2>1, <2>2
<1>4. QED
  BY <1>1, <1>2, <1>3, HandlersFrame, FormsFrame, AuditedFrame DEF JobMail

LEMMA JobCrashInv ==
    ASSUME IInv, JobCrash, TypeOK'
    PROVE  IInv'
<1>1. Grows
  BY StillGrows DEF JobCrash
<1>2. QED
  BY <1>1, IdleJobSound, HandlersFrame, FormsFrame, AuditedFrame DEF JobCrash, MailTruthful

LEMMA StutterInv ==
    ASSUME IInv, UNCHANGED <<form, request, job, log, mails, reached, refused>>, TypeOK'
    PROVE  IInv'
<1>1. Grows
  BY StillGrows
<1>2. QED
  BY <1>1, HandlersFrame, JobFrame, FormsFrame, AuditedFrame DEF MailTruthful

-----------------------------------------------------------------------------

LEMMA InvInit == Init => IInv
<1> SUFFICES ASSUME Init PROVE IInv
  OBVIOUS
<1>1. TypeOK
  BY TypeInit
<1>2. \A f \in Forms : SoundForm(f)
  <2> TAKE f \in Forms
  <2>1. form[f] = NewRow
    BY DEF Init
  <2>2. Mark(f, "created") = {}
    BY TrackedAssumption DEF Mark
  <2>3. QED BY <2>1, <2>2, SoundNewRow DEF SoundForm, NewRow
<1>3. \A r \in Requests : SoundRequest(r)
  BY SoundNewRow DEF Init, SoundRequest, Idle, IdleRequest
<1>4. SoundJob
  BY DEF Init, SoundJob, IdleJob
<1>5. MailTruthful /\ Audited
  BY DEF Init, MailTruthful, Audited
<1>6. QED BY <1>1, <1>2, <1>3, <1>4, <1>5

LEMMA InvNext == IInv /\ [Next]_vars => IInv'
<1> SUFFICES ASSUME IInv, [Next]_vars PROVE IInv'
  OBVIOUS
<1>0. TypeOK'
  BY TypeNext
<1>1. CASE Create
  BY <1>0, <1>1, CreateInv DEF Create
<1>2. ASSUME NEW r \in Requests, RequestStep(r) PROVE IInv'
  <2>1. ASSUME NEW s \in States, NEW x \in Expirations, NEW n \in Numbers,
               UpdateForm(r, s, x, n) \/ UpdateOptions(r, s, x, n)
        PROVE  IInv'
    <3>1. /\ request[r].pc = "loaded" /\ s \in PostedStates(request[r].seen)
          /\ \/ Store(request[r].form, Edited(form[request[r].form], request[r].seen, s, x, n))
             \/ UNCHANGED <<form, reached>>
          /\ Finish(r) /\ log \subseteq log' /\ UNCHANGED <<job, mails, refused>>
      BY <2>1 DEF UpdateForm, UpdateOptions
    <3>2. QED BY <1>0, <3>1, EditInv, RefusedInv
  <2>2. QED
    BY <1>0, <1>2, <2>1, LoadInv, CopyInv, LogInv, FireInv, MailInv, DestroyInv, AbandonInv
       DEF RequestStep
<1>3. CASE JobStep
  BY <1>0, <1>3, JobSelectInv, JobLogInv, JobArchiveInv, JobMailInv DEF JobStep
<1>4. CASE JobCrash
  BY <1>0, <1>4, JobCrashInv
<1>5. CASE NextDay \/ SetApproval \/ UNCHANGED vars
  BY <1>0, <1>5, StutterInv DEF NextDay, SetApproval, vars
<1>6. QED BY <1>1, <1>2, <1>3, <1>4, <1>5 DEF Next

\* The strengthening of the properties below is an invariant.
THEOREM Invariant == Spec => []IInv
BY InvInit, InvNext, PTL DEF Spec

\* However handlers, copies and direct edits interleave, a form that carries
\* approved_at carries submitted_at.
THEOREM ApprovalChainHolds == Spec => []ApprovalChain
<1>1. IInv => ApprovalChain
  BY DEF ApprovalChain, SoundForm, SoundRow
<1>2. QED BY <1>1, Invariant, PTL

\* Record retention finds every form that was archived by hand or by the job.
THEOREM RetentionHolds == Spec => []RetentionFindsArchived
<1>1. IInv => RetentionFindsArchived
  BY DEF RetentionFindsArchived, SoundForm, SoundRow
<1>2. QED BY <1>1, Invariant, PTL

\* A status mail goes out only for a status that the form has had or that a validation
\* refused to save: never after a forbidden transition, however stale the handler's copy.
THEOREM MailTruthfulHolds == Spec => []MailTruthful
<1>1. IInv => MailTruthful
  OBVIOUS
<1>2. QED BY <1>1, Invariant, PTL

\* No status is reached through an event without its audit record.
THEOREM AuditedHolds == Spec => []Audited
<1>1. IInv => Audited
  OBVIOUS
<1>2. QED BY <1>1, Invariant, PTL

=============================================================================
