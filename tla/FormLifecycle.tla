---------------------------- MODULE FormLifecycle ----------------------------
(***************************************************************************)
(* The status of a form: the AASM machine of app/models/form.rb, the       *)
(* handlers of app/controllers/admin/forms_controller.rb that drive it and *)
(* the scheduled job Form.archive_expired!.                                *)
(*                                                                         *)
(* A handler is not atomic.  set_form loads the form; the audit event is   *)
(* inserted; the AASM event checks the state of the LOADED object and      *)
(* saves it in a transaction of its own; the status mail is enqueued last, *)
(* even if the save was refused by a validation: the machine has no        *)
(* whiny_persistence.  Any number of handlers and the job interleave       *)
(* between these steps.                                                    *)
(***************************************************************************)
EXTENDS Naturals, ActiveRecord

CONSTANTS
    Forms,            \* ids; find_each visits them in increasing order
    Requests,         \* handlers running at the same time
    MaxDay,           \* bound on the calendar
    MaxKills,         \* bound on the runs of the job that are killed half way
    EditableStates,   \* states that callers post as form[aasm_state]
    EndDates,         \* expiration dates that callers enter
    OmbNumbers,       \* OMB approval numbers that callers enter
    ApprovalSettings, \* values organizations.form_approval_enabled takes
    Tracked           \* statuses whose events, mails and history are recorded

ASSUME FormsAssumption == Forms \subseteq Nat /\ Forms # {}
ASSUME BoundsAssumption == MaxDay \in Nat \ {0} /\ MaxKills \in Nat

States == {"created", "submitted", "approved", "published", "archived"}

ASSUME EditableAssumption == EditableStates \subseteq States
ASSUME ApprovalAssumption ==
    ApprovalSettings \subseteq BOOLEAN /\ ApprovalSettings # {}

AasmEvents == {"submit", "approve", "publish", "archive", "reset"}

ASSUME TrackedAssumption == Tracked \subseteq States \ {"created"}

Stamps == {"submitted_at", "approved_at", "archived_at"}

NoDate == 0               \* expiration_date IS NULL
Days == 1 .. MaxDay

ASSUME EndDatesAssumption == EndDates \subseteq Days \cup {NoDate}

NoNumber == 0             \* omb_approval_number is blank

ASSUME OmbAssumption == OmbNumbers \subseteq Nat \ {NoNumber}

\* stamps: the status timestamps that are not NULL.
FormRow == [phase   : {"unborn", "live", "gone"},
            state   : States,
            stamps  : SUBSET Stamps,
            expires : Days \cup {NoDate},
            omb     : OmbNumbers \cup {NoNumber}]

NewRow == [phase |-> "unborn", state |-> "created", stamps |-> {}, expires |-> NoDate,
           omb |-> NoNumber]

VARIABLES
    today,
    approval,   \* the organization's form_approval_enabled
    form,       \* the forms table
    request,    \* the handlers in flight
    job,        \* the archive_forms rake task
    kills,      \* how many of its runs were killed
    log,        \* <<form, status>>: an audit event of that status was inserted
    mails,      \* <<form, status>>: a status mail was sent to the administrators
    reached,    \* <<form, status>>: the row has had that status (history)
    refused     \* <<form, status>>: a validation refused to save that status (history)

vars == <<today, approval, form, request, job, kills, log, mails, reached, refused>>

RequestPC == {"idle", "loaded", "logged", "written"}
JobPC == {"idle", "next", "logged", "archived"}

IdleRequest(f) == [pc |-> "idle", form |-> f, seen |-> NewRow, event |-> "reset"]

AnyForm == CHOOSE f \in Forms : TRUE

Idle == IdleRequest(AnyForm)

IdleJob == [pc |-> "idle", todo |-> {}, seen |-> [f \in Forms |-> NewRow]]

Handler == [pc : RequestPC, form : Forms, seen : FormRow, event : AasmEvents]

JobRun == [pc : JobPC, todo : SUBSET Forms, seen : [Forms -> FormRow]]

TypeOK ==
    /\ today \in Days
    /\ approval \in BOOLEAN
    /\ form \in [Forms -> FormRow]
    /\ request \in [Requests -> Handler]
    /\ job \in JobRun
    /\ kills \in 0 .. MaxKills
    /\ log \subseteq Forms \X Tracked
    /\ mails \subseteq Forms \X Tracked
    /\ reached \subseteq Forms \X Tracked
    /\ refused \subseteq Forms \X Tracked

Init ==
    /\ today = 1
    /\ approval \in ApprovalSettings
    /\ form = [f \in Forms |-> NewRow]
    /\ request = [r \in Requests |-> Idle]
    /\ job = IdleJob
    /\ kills = 0
    /\ log = {}
    /\ mails = {}
    /\ reached = {}
    /\ refused = {}

-----------------------------------------------------------------------------
(* The AASM table *)

\* Mutant: a form may be approved without having been submitted.
From_approveAnyTime(e) == CASE e = "submit"  -> {"created"}
                            [] e = "approve" -> {"created", "submitted"}
                            [] e = "publish" -> {"created", "approved"}
                            [] e = "archive" -> {"created", "published"}
                            [] e = "reset"   -> States

From(e) == CASE e = "submit"  -> {"created"}
             [] e = "approve" -> {"submitted"}
             [] e = "publish" -> {"created", "approved"}
             [] e = "archive" -> {"created", "published"}
             [] e = "reset"   -> States

To(e) == CASE e = "submit"  -> "submitted"
           [] e = "approve" -> "approved"
           [] e = "publish" -> "published"
           [] e = "archive" -> "archived"
           [] e = "reset"   -> "created"

\* organization_has_form_approval_enabled?
NeedsApproval(e) == e \in {"submit", "approve"}

\* Mutant: archive without its after: callback.
StampsOf_noArchivedAt(e) == CASE e = "submit"  -> {"submitted_at"}
                              [] e = "approve" -> {"approved_at"}
                              [] OTHER         -> {}

\* The after: callbacks set_submitted_at, set_approved_at, set_archived_at.
StampsOf(e) == CASE e = "submit"  -> {"submitted_at"}
                 [] e = "approve" -> {"approved_at"}
                 [] e = "archive" -> {"archived_at"}
                 [] OTHER         -> {}

\* omb_number_with_expiration_date.  Each update is valid by what it loaded; two that
\* overlap may leave a row with one of the two columns and not the other.
Agree(x, n) == (x = NoDate) <=> (n = NoNumber)

Valid(row) == Agree(row.expires, row.omb)

\* may_e? on the loaded object; e! raises AASM::InvalidTransition otherwise.
MayFire(e, seen) == seen.state \in From(e) /\ (NeedsApproval(e) => approval)

\* What e! leaves in the row: a timestamp of now is never the one that was
\* loaded, so it is always written; the state only when it changed in memory;
\* nothing at all when the row has been deleted since.
Fired(row, seen, e) ==
    IF row.phase = "live"
    THEN [row EXCEPT !.state = Written(@, seen.state, To(e)),
                     !.stamps = @ \cup StampsOf(e)]
    ELSE row

Mark(f, s) == {<<f, s>>} \cap (Forms \X Tracked)

Store(f, row) ==
    /\ form' = [form EXCEPT ![f] = row]
    /\ reached' = reached \cup Mark(f, row.state)

\* The save in which e! ends, of an object that may fire e.
Save(f, seen, e) ==
    IF Valid(seen)
    THEN Store(f, Fired(form[f], seen, e)) /\ UNCHANGED refused
    ELSE refused' = refused \cup Mark(f, To(e)) /\ UNCHANGED <<form, reached>>

Finish(r) == request' = [request EXCEPT ![r] = Idle]

-----------------------------------------------------------------------------
(* Admin::FormsController *)

\* create: form_params permits aasm_state, expiration_date and omb_approval_number.
CreateForm(f, s, x, n) ==
    /\ form[f].phase = "unborn"
    /\ Agree(x, n)
    /\ Store(f, [NewRow EXCEPT !.phase = "live", !.state = s, !.expires = x, !.omb = n])
    /\ UNCHANGED <<today, approval, request, job, kills, log, mails, refused>>

\* before_action set_form
LoadForm(r, f) ==
    /\ request[r].pc = "idle"
    /\ form[f].phase = "live"
    /\ request' = [request EXCEPT ![r] = [pc |-> "loaded", form |-> f,
                                          seen |-> form[f], event |-> "reset"]]
    /\ UNCHANGED <<today, approval, form, job, kills, log, mails, reached, refused>>

\* Mutant: the event is inserted only when the transition is permitted now.
LogEvent_ifPermitted(r, e) ==
    /\ request[r].pc = "loaded"
    /\ request' = [request EXCEPT ![r] = [@ EXCEPT !.pc = "logged", !.event = e]]
    /\ log' = IF MayFire(e, request[r].seen) THEN log \cup Mark(request[r].form, To(e)) ELSE log
    /\ UNCHANGED <<today, approval, form, job, kills, mails, reached, refused>>

\* submit, approve, publish, archive, reset: Event.log_event comes first.
LogEvent(r, e) ==
    /\ request[r].pc = "loaded"
    /\ request' = [request EXCEPT ![r] = [@ EXCEPT !.pc = "logged", !.event = e]]
    /\ log' = log \cup Mark(request[r].form, To(e))
    /\ UNCHANGED <<today, approval, form, job, kills, mails, reached, refused>>

\* Mutant: submit instead of submit!: a refused transition does not raise.
FireEvent_noBang(r) ==
    LET f == request[r].form
        e == request[r].event
    IN  /\ request[r].pc = "logged"
        /\ IF MayFire(e, request[r].seen) THEN Save(f, request[r].seen, e)
           ELSE UNCHANGED <<form, reached, refused>>
        /\ request' = [request EXCEPT ![r] = [@ EXCEPT !.pc = "written", !.seen = NewRow]]
        /\ UNCHANGED <<today, approval, job, kills, log, mails>>

\* ... then the bang method.  InvalidTransition ends the handler; a save that a
\* validation refuses returns false, which nothing looks at.
FireEvent(r) ==
    LET q == request[r]
    IN  /\ q.pc = "logged"
        /\ \/ /\ MayFire(q.event, q.seen)
              /\ Save(q.form, q.seen, q.event)
              /\ IF q.event = "reset" THEN Finish(r)
                 ELSE request' = [request EXCEPT ![r] = [@ EXCEPT !.pc = "written", !.seen = NewRow]]
           \/ /\ ~MayFire(q.event, q.seen)
              /\ Finish(r)
              /\ UNCHANGED <<form, reached, refused>>
        /\ UNCHANGED <<today, approval, job, kills, log, mails>>

\* UserMailer.form_status_changed(...).deliver_later; the mail job fails when
\* the form it names no longer exists.
Mailed(f, s) == IF form[f].phase = "live" THEN Mark(f, s) ELSE {}

SendStatusMail(r) ==
    /\ request[r].pc = "written"
    /\ mails' = mails \cup Mailed(request[r].form, To(request[r].event))
    /\ Finish(r)
    /\ UNCHANGED <<today, approval, form, job, kills, log, reached, refused>>

\* @form.update(params) with an aasm_state, an expiration_date and an OMB number: no
\* AASM event fires, so neither guard nor timestamp applies.
Edited(row, seen, s, x, n) ==
    IF row.phase = "live"
    THEN [row EXCEPT !.state = Written(@, seen.state, s),
                     !.expires = Written(@, seen.expires, x),
                     !.omb = Written(@, seen.omb, n)]
    ELSE row

PostedStates(seen) == EditableStates \cup {seen.state}

\* update: transition_state logs a change to published or archived, and only it,
\* before a validation may still refuse the update.
UpdateForm(r, s, x, n) ==
    LET f == request[r].form
        seen == request[r].seen
    IN  /\ request[r].pc = "loaded"
        /\ s \in PostedStates(seen)
        /\ log' = IF s \in {"published", "archived"} /\ s # seen.state
                  THEN log \cup Mark(f, s) ELSE log
        /\ \/ Agree(x, n) /\ Store(f, Edited(form[f], seen, s, x, n))
           \/ UNCHANGED <<form, reached>>
        /\ Finish(r)
        /\ UNCHANGED <<today, approval, job, kills, mails, refused>>

\* update_admin_options and update_form_manager_options: no event at all.
UpdateOptions(r, s, x, n) ==
    LET f == request[r].form
        seen == request[r].seen
    IN  /\ request[r].pc = "loaded"
        /\ s \in PostedStates(seen)
        /\ Agree(x, n)
        /\ Store(f, Edited(form[f], seen, s, x, n))
        /\ Finish(r)
        /\ UNCHANGED <<today, approval, job, kills, log, mails, refused>>

\* copy: duplicate! resets the state of the copy and keeps its timestamps; its save!
\* raises for an invalid form.
CopyForm(r, f) ==
    /\ request[r].pc = "loaded"
    /\ form[f].phase = "unborn"
    /\ Valid(request[r].seen)
    /\ Store(f, [request[r].seen EXCEPT !.state = "created"])
    /\ Finish(r)
    /\ UNCHANGED <<today, approval, job, kills, log, mails, refused>>

\* destroy, for a form without responses.
DestroyForm(r) ==
    /\ request[r].pc = "loaded"
    /\ form' = [form EXCEPT ![request[r].form].phase = "gone"]
    /\ Finish(r)
    /\ UNCHANGED <<today, approval, job, kills, log, mails, reached, refused>>

\* The handler ends without the step that was due: an instance restarts, or
\* destroy was refused because the form has responses.
AbandonRequest(r) ==
    /\ request[r].pc # "idle"
    /\ Finish(r)
    /\ UNCHANGED <<today, approval, form, job, kills, log, mails, reached, refused>>

-----------------------------------------------------------------------------
(* rake scheduled_jobs:archive_forms *)

\* expiration_date is a date: it is before NOW() from its first second on.
Expired(row) == row.expires # NoDate /\ row.expires <= today

Overdue(f) == form[f].phase = "live" /\ Expired(form[f]) /\ form[f].state # "archived"

\* find_each reads the batch and iterates over the loaded objects.
JobSelect ==
    /\ job.pc = "idle"
    /\ \E f \in Forms : Overdue(f)
    /\ job' = [pc |-> "next", todo |-> {f \in Forms : Overdue(f)},
               seen |-> [f \in Forms |-> IF Overdue(f) THEN form[f] ELSE NewRow]]
    /\ UNCHANGED <<today, approval, form, request, kills, log, mails, reached, refused>>

IsNext(f) == f \in job.todo /\ \A g \in job.todo : f <= g

\* Mutant: no event for a form that was never published.
JobLog_publishedOnly(f) ==
    /\ job.pc = "next"
    /\ IsNext(f)
    /\ log' = IF job.seen[f].state = "published" THEN log \cup Mark(f, "archived") ELSE log
    /\ job' = [job EXCEPT !.pc = "logged"]
    /\ UNCHANGED <<today, approval, form, request, kills, mails, reached, refused>>

JobLog(f) ==
    /\ job.pc = "next"
    /\ IsNext(f)
    /\ log' = log \cup Mark(f, "archived")
    /\ job' = [job EXCEPT !.pc = "logged"]
    /\ UNCHANGED <<today, approval, form, request, kills, mails, reached, refused>>

\* Mutant: with whiny_persistence, a form that fails its validations ends the task.
JobArchive_raises(f) ==
    /\ job.pc = "logged"
    /\ IsNext(f)
    /\ \/ /\ MayFire("archive", job.seen[f]) /\ Valid(job.seen[f])
          /\ Save(f, job.seen[f], "archive")
          /\ job' = [job EXCEPT !.pc = "archived"]
       \/ /\ ~(MayFire("archive", job.seen[f]) /\ Valid(job.seen[f]))
          /\ job' = IdleJob
          /\ UNCHANGED <<form, reached, refused>>
    /\ UNCHANGED <<today, approval, request, kills, log, mails>>

\* form.archive!: InvalidTransition is not rescued and ends the task; after a save
\* that a validation refused the task goes on as if the form were archived.
JobArchive(f) ==
    /\ job.pc = "logged"
    /\ IsNext(f)
    /\ \/ /\ MayFire("archive", job.seen[f])
          /\ Save(f, job.seen[f], "archive")
          /\ job' = [job EXCEPT !.pc = "archived"]
       \/ /\ ~MayFire("archive", job.seen[f])
          /\ job' = IdleJob
          /\ UNCHANGED <<form, reached, refused>>
    /\ UNCHANGED <<today, approval, request, kills, log, mails>>

JobMail(f) ==
    /\ job.pc = "archived"
    /\ IsNext(f)
    /\ mails' = mails \cup Mailed(f, "archived")
    /\ job' = IF job.todo = {f} THEN IdleJob
              ELSE [job EXCEPT !.pc = "next", !.todo = @ \ {f}]
    /\ UNCHANGED <<today, approval, form, request, kills, log, reached, refused>>

\* The task is killed; the next run starts over.
JobCrash ==
    /\ job.pc # "idle"
    /\ kills < MaxKills
    /\ kills' = kills + 1
    /\ job' = IdleJob
    /\ UNCHANGED <<today, approval, form, request, log, mails, reached, refused>>

JobStep == JobSelect \/ \E f \in Forms : JobLog(f) \/ JobArchive(f) \/ JobMail(f)

-----------------------------------------------------------------------------

NextDay ==
    /\ today < MaxDay
    /\ today' = today + 1
    /\ UNCHANGED <<approval, form, request, job, kills, log, mails, reached, refused>>

\* An administrator edits the organization.
SetApproval ==
    /\ approval' \in ApprovalSettings
    /\ UNCHANGED <<today, form, request, job, kills, log, mails, reached, refused>>

Expirations == EndDates \cup {NoDate}

Numbers == OmbNumbers \cup {NoNumber}

RequestStep(r) ==
    \/ \E f \in Forms : LoadForm(r, f) \/ CopyForm(r, f)
    \/ \E e \in AasmEvents : LogEvent(r, e)
    \/ FireEvent(r)
    \/ SendStatusMail(r)
    \/ \E s \in States, x \in Expirations, n \in Numbers :
          UpdateForm(r, s, x, n) \/ UpdateOptions(r, s, x, n)
    \/ DestroyForm(r)
    \/ AbandonRequest(r)

Create == \E f \in Forms, s \in EditableStates \cup {"created"}, x \in Expirations,
             n \in Numbers : CreateForm(f, s, x, n)

Next ==
    \/ Create
    \/ \E r \in Requests : RequestStep(r)
    \/ JobStep
    \/ JobCrash
    \/ NextDay
    \/ SetApproval

Spec == Init /\ [][Next]_vars

\* cron starts the task every day, and a run that is not killed goes on.
FairSpec == Spec /\ WF_vars(JobStep)

-----------------------------------------------------------------------------
(* Properties *)

\* Forms of an organization's approval flow: whatever the interleaving, a form
\* carries approved_at only if it carries submitted_at (as long as nobody posts
\* the state "submitted" past the AASM machine).
ApprovalChain ==
    "submitted" \notin EditableStates =>
        \A f \in Forms : "approved_at" \in form[f].stamps => "submitted_at" \in form[f].stamps

\* forms_whose_retention_period_has_passed compares archived_at with a cutoff: an
\* archived form without archived_at is never listed, so archiving through the
\* event, by hand or by the job, always leaves the timestamp behind.
RetentionFindsArchived ==
    "archived" \notin EditableStates =>
        \A f \in Forms : form[f].state = "archived" => "archived_at" \in form[f].stamps

\* A status mail tells the administrators that a form was submitted, approved,
\* published or archived: the form really has been in that state, whatever ran at the
\* same time, unless a validation refused to save it.  A transition that the machine
\* forbids and a handler that dies send nothing.
MailTruthful == mails \subseteq reached \cup refused

\* "This form has been Submitted successfully.", and the mail of the same handler: the
\* status that is announced has been reached.
AnnouncedStatusReached == mails \subseteq reached

\* No status reached through an AASM event is missing from the audit log, even
\* when the handler or the job dies half way: the event is inserted first.
Audited ==
    \A f \in Forms, s \in Tracked \ (EditableStates \cup {"created"}) :
        <<f, s>> \in reached => <<f, s>> \in log

\* What Audited, MailTruthful and the two timestamp properties rest on, and what
\* every step preserves: each loaded copy satisfies what the rows satisfy and is
\* not ahead of them, and the steps of a handler or of the job remember what the
\* earlier ones did.
SoundRow(row) ==
    /\ "submitted" \notin EditableStates =>
          /\ row.state = "submitted" => "submitted_at" \in row.stamps
          /\ "approved_at" \in row.stamps => "submitted_at" \in row.stamps
    /\ "archived" \notin EditableStates =>
          (row.state = "archived" => "archived_at" \in row.stamps)

SoundForm(f) ==
    /\ SoundRow(form[f])
    /\ form[f].phase = "unborn" => form[f] = NewRow
    /\ Mark(f, form[f].state) \subseteq reached

SoundRequest(r) ==
    LET q == request[r]
    IN  /\ SoundRow(q.seen)
        /\ q.pc # "idle" => /\ form[q.form].phase # "unborn"
                            /\ q.seen.stamps \subseteq form[q.form].stamps
        /\ q.pc \in {"loaded", "logged"} => q.seen.phase = "live"
        /\ q.pc = "logged" => Mark(q.form, To(q.event)) \subseteq log
        /\ q.pc = "written" /\ form[q.form].phase = "live" =>
              Mark(q.form, To(q.event)) \subseteq reached \cup refused

SoundJob ==
    \A f \in job.todo :
        /\ form[f].phase # "unborn"
        /\ job.pc = "logged" /\ IsNext(f) => Mark(f, "archived") \subseteq log
        /\ job.pc = "archived" /\ IsNext(f) /\ form[f].phase = "live" =>
              Mark(f, "archived") \subseteq reached \cup refused

IInv ==
    /\ TypeOK
    /\ \A f \in Forms : SoundForm(f)
    /\ \A r \in Requests : SoundRequest(r)
    /\ SoundJob
    /\ MailTruthful
    /\ Audited

\* "state :archived # after End Date, or manual": a form past its end date does
\* not stay in service for ever, the job gets to it.
OverdueIsArchived == \A f \in Forms : Overdue(f) ~> ~Overdue(f)

\* The same of the forms that pass their validations: the job gets to each of them,
\* past the forms before it that do not, whether a run is killed half way or forms are
\* edited under it.
ValidOverdueIsArchived ==
    \A f \in Forms : Overdue(f) /\ Valid(form[f]) ~> ~(Overdue(f) /\ Valid(form[f]))

=============================================================================
