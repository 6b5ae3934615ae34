# Touchpoints in TLA+

Touchpoints (GSA) is a Rails application with which federal agencies build
feedback forms, embed them in their websites, collect the public's answers,
moderate them and report on them. This directory is a verification development
for it: TLA+ modules translated from the code, TLC configurations that check
them on small instances, and TLAPS proofs for every value of the parameters.

Paths are relative to the repository root (`src/` in `PROJECT.json`, whose
`map` gives for every definition the lines it translates).

Contents: 1 the system, 2 what the components promise, 3 the modules, 4 the
runs, 5 fairness, 6 the proofs, 7 divergences of the code from its words, 8 what
is not modelled, 9 the plan.

## 1. The system

Requests are handled by puma (three threads, many instances) against one
PostgreSQL database and one Redis cache; Sidekiq runs mail and export jobs, and
a CircleCI workflow runs rake tasks once a day with `cf run-task`
(`.circleci/config.yml`, `.circleci/cron.sh`). Concurrency is therefore
everywhere and is almost nowhere controlled in the code: no table has a
`lock_version`, nothing calls `with_lock`, there are no foreign keys, and the
uniqueness that questions and sections rely on is only a model validation. The
one building block all modules share is what a save does (`ActiveRecord.tla`):
it writes the attributes whose value changed in memory since the load, and no
others.

| Component | State it keeps | Operations | Hard behaviour |
|---|---|---|---|
| Form lifecycle: `app/models/form.rb`, `admin/forms_controller.rb`, `archive_forms` task | `forms.aasm_state`, timestamps, end date; `events`; mails | submit, approve, publish, archive, reset, update, options, copy, destroy; daily job | stale loaded objects, handlers that are not atomic, saves that a validation refuses in silence, a job that aborts or is killed half way |
| Responses: `app/models/submission.rb`, `admin/submissions_controller.rb`, trash task | flags, spam, tags and trash of `submissions`; the form's `response_count` and `submission_tags` | create, flag, mark, archive, delete and their inverses, tags, bulk update, search, purge | lost updates between a row and the form's caches of it; the purge racing delete and undelete |
| Form cache: `app/models/form_cache.rb`, the `after_commit` callbacks | a Redis entry per form | fetch, invalidate | a fill racing an invalidation, a copy read in several SELECTs, writers that never invalidate, lost deletes |
| User accounts: `app/models/user.rb`, `admin/users_controller.rb`, three daily tasks | `inactive`, the last sign-in | sign in, warn, deactivate, reactivate, inactivate all | windows of one day on an age, a list that is stale when its turn comes, nights that fail |
| Form builder: `form_sections`, `questions`, `question_options` controllers and models | sections, questions (answer field, position, section), `questions_count`, options | create, update, destroy, sort | uniqueness without an index, checks that are stale when the row is written, sorts without a transaction or waiting for each other |
| Intake: `submissions_controller.rb`, `services/spam_checker.rb`, `spam_checks/*`, the validation of `submission.rb` | the response it writes; Turnstile's memory of used tokens | session check, three spam checks, verdict, validation, save, event, answer | precedence of verdicts, single-use tokens, answers checked partly against a cached form and partly against the database, exceptions after the commit |
| Widget: `views/components/widget/_fba.js.erb` | the page's fields, buttons and visible section, a draft in local storage, a Turnstile token | fill in, turn pages, submit, handle the answer, restore | lost answers, refusals, expired tokens, a session that ends under a draft, reloads with a request under way |
| CX collections: `cx_collection*.rb`, `cx_response.rb` and their controllers | collection status and date, details, uploads, responses | create, submit, publish, no report, reset, copy, destroy, upload, import, process again | status and date written from stale copies, imports that fail half way, deletions that overlap an import, with no foreign key to stop either |
| Registry: `website.rb`, `digital_product.rb`, `digital_service_account.rb`, `service.rb` | AASM states, domains | workflow events | uniqueness races, two machines on one row |
| Exports, API, mailers, serializers | none of their own | read only | - |

How they interact: the form row is the meeting point. The page of the widget
posts to intake, which reads the form through the form cache and increments its
`response_count`; the moderation of responses rewrites its
`submission_tags`; destroying it depends on `response_count`; the form builder's
callbacks and the lifecycle's saves drop its cached copy. The lifecycle, the
moderation and the user tasks all leave rows in `events` and jobs in the mail
queue, in transactions of their own.

## 2. What makes each component correct

* **Form lifecycle.** The timestamps agree with the history of the status, the
  audit log misses no status that was reached, no mail announces one that was
  not, unless a validation refused to save it, and a valid form past its end date
  leaves service.
* **Responses.** The counter never falls below the rows (or a form with
  responses could be destroyed), moderators who decide different things do not
  undo each other, every visible decision is in the audit log, the purge
  deletes only what it announced, and two columns that say one thing together, or
  a column and the form's copy of it, part only when two named handlers overlap.
* **Form cache.** An edit whose invalidation has run stays visible; whatever was
  silent or lost shows in the end.
* **User accounts.** Nobody is deactivated unannounced, nobody idle stays active,
  and signing in keeps an account active.
* **Form builder.** The counter of questions is exact; two questions do not share
  an answer field, every question is on a page, positions order the sections, and
  a sort does what it was asked - or else two named operations overlapped.
* **Intake.** What a visitor is told agrees with what is stored; a bot is neither
  stored nor warned; pressing twice stores once; honest answers are kept whole.
* **Widget.** A document stores one response, acknowledged answers are not sent
  again, the button is dead only after a failure, and who keeps trying is thanked,
  unless the session ended under a draft.
* **CX collections.** A submitted collection has its date and its mail, an import
  stores all rows or none, and a response leads to its upload and its detail unless the
  transaction that stored it met the deletion of one of them.

## 3. The modules

`ActiveRecord` holds the semantics of a save. Each component has a module, a
module `...Proofs` that extends it, and a module `MC...` that declares model values for TLC and, where the full product of operations is
too large, the groups of operations that one behaviour mixes. `ResponseIntake`
is an abstract specification: `Intake` implements it (the refinement mapping
reads an attempt's ending off its stage), and `Widget` takes its actions, one
instance over the same variables, as its server. So the page is checked against
exactly what the server is proved to do. Definitions carry the names of the code; the operators whose
name ends in `_something` are deliberately wrong versions of their neighbour,
with which the runs are tested.

### FormLifecycle

| Model | Code |
|---|---|
| `form[f]` : `phase`, `state`, `stamps`, `expires`, `omb` | a row of `forms`: existence, `aasm_state`, which of `submitted_at`/`approved_at`/`archived_at` are set, `expiration_date`, `omb_approval_number` |
| `request[r]` : `pc`, `form`, `seen`, `event` | a handler in flight; `seen` is the object that `set_form` loaded |
| `From`, `To`, `NeedsApproval`, `StampsOf` | the AASM table, its guard and its `after` callbacks |
| `Agree`, `Valid`, `Save` | the validation of the date and the OMB number against each other, and the save in which a bang event ends: refused, it returns false and raises nothing |
| `LoadForm`, `LogEvent`, `FireEvent`, `SendStatusMail` | the four steps of submit, approve, publish, archive and reset: `set_form`, `Event.log_event`, the bang event in a transaction of its own, `deliver_later` |
| `UpdateForm`, `UpdateOptions` | `update` and the two options handlers, which accept `aasm_state` past the machine |
| `CreateForm`, `CopyForm`, `DestroyForm`, `AbandonRequest` | `create`, `duplicate!`, `destroy`; a handler that raises, is redirected or dies |
| `JobSelect`, `JobLog`, `JobArchive`, `JobMail`, `JobCrash` | `archive_expired!`: the batch of `find_each`, then three separate effects per form; the task killed |
| `SetApproval`, `NextDay` | an administrator edits the organization; the calendar |

`log`, `mails` and `reached` are sets of form and status: which events were
inserted, which mails were queued, and (history) which statuses the row has had;
`refused` (history) holds those that a validation kept from being saved.  What
fails here is the pair of `expiration_date` and `omb_approval_number`, which two
overlapping updates can tear apart, since each is valid by what it loaded and
writes only what it changed; it stands for the other validations that a row can
come to fail (`ensure_modal_text`, `target_for_delivery_method`, rows older than a
validation). An update that is refused changes nothing; a bang event that is
refused is followed by everything that follows a success. The normalisation before
a save is left out; the `ensure_no_responses` of `destroy` is the free choice between `DestroyForm` and
`AbandonRequest` here and is modelled in Submissions.

### Submissions

| Model | Code |
|---|---|
| `row[s]` | a row of `submissions`: `flagged`, `archived`, `spam`, the source in `spam_determination`, `deleted`, `deleted_at`, `tags` |
| `form` | the form's existence, `response_count` and `submission_tags` |
| `request[r]` : `op`, `form`, `seen`, `todo` | a handler with the form and the responses it loaded; `bulk_update` has several in `todo`, newest first |
| `Assigned`, `Saved`, `Decide` | what a moderation handler changes in memory, the columns the save writes, and the audit event before it |
| `AddTag`, `CacheTags`, `RemoveTag`, `Search`, `ForgetTag` | the response's tags and the form's copy of them, which is read with the form and written back whole; the search view drops a tag with no results |
| `CreateSubmission`, `DestroyForm` | intake with the atomic counter cache; `destroy` on the word of the loaded counter |
| `PurgeCount`, `PurgeDelete`, `PurgeKilled` | `delete_submissions_trash`: the counting query with its event, the deleting query with the same cutoff |
| `Die` | a handler that dies between its steps |

`strayed` is history: which of the three kinds of conflict (`Conflicts`: over the
trash, over spam, over tags) two handlers in flight together have been in, and
for tags also the three ways a single handler parts them from the form's copy: a
response with tags is brought back, a search asks for a page beyond the first, a
handler dies between the response and the form.

Tags are normalised by `Normal`, a parameter that stands for strip and downcase.
What the spam checks decide is a free choice of `spam` at creation.

### FormCache

| Model | Code |
|---|---|
| `db` : part -> version | the rows of the form, its questions, sections, organization, the sections' questions and the options; a version is the number of the commit that last touched the part |
| `cache` | the entry of `Rails.cache` |
| `reader[r]`, `Miss`, `Select`, `Store`, `GiveUp` | the block of `FormCache.fetch`: one SELECT per `includes`, in the preloader's order, outside any transaction; then the write |
| `editor[d]`, `Commit`, `AfterCommit`, `CallbackLost` | a transaction and its `after_commit`; `Invalidates` says which edits really drop the copy |
| `Expire` | `expires_in: 1.day` |

`owed` is history: for each part the newest version whose callback has run with
no load from before the commit under way. `Promised` are the edits whose models
declare an invalidation that reaches them; destroyed options and sections,
sorted sections and a changed organization are silent.

### UserAccounts

| Model | Code |
|---|---|
| `account[u]` : `phase`, `inactive`, `age` | a row of `users`; the age is the time since `current_sign_in_at`, or since `created_at` when nobody has signed in, the two cases of both queries |
| `warned`, `lapsed` in `account[u]` | history: the warnings sent since the last sign-in; whether warnings were late or failed, or the account was inactive, since then |
| `run["nightly"]`, `Load`, `Warn`, `Deactivate`, `EndTask` | the three tasks of `cron.sh`, one after the other: the query, the loop over the loaded rows |
| `run["button"]`, `PressInactivate` | `inactivate!` in the users' list: the same loop in a request, at any time |
| `Die`, `NightWithoutCron` | a task that dies or whose mail queue refuses (the script goes on with the next); a night on which the workflow does not run |
| `Tick`, `Cron` | time in `Day` ticks a day; hour 0 is the time cron is set for |
| `SignIn`, `SetInactive`, `Reactivate`, `Create`, `Destroy` | Devise's trackable sign-in; `update` and login.gov's `deactivate`; `reactivate`; `create`; `destroy` |

Ages stop at `Old`, a day beyond every threshold, so time needs no bound and
the state space is finite. A run's `copy` of an account becomes stale with a
sign-in: the mail still goes out, but it does not count for the new period. A
warning counts as sent when it is enqueued.

### ResponseIntake and Intake

| Model | Code |
|---|---|
| `status`, `stored`, `announced` of `ResponseIntake` | what the page sees of a POST (201, 422, 500 or nothing), the stored responses, the `touchpoint_form_submitted` events |
| `Form`, `now`, `floor` | the successive versions of the form's questions, the one in the database, the oldest that a cached copy may still have; how a copy gets old or dropped is FormCache's matter |
| `request[a]` : `stage`, `payload`, `copy`, `spam` | a POST between two steps of `create`, with the copy that `set_form` fetched |
| `Receive` | `set_form`, `verify_authenticity_token` |
| `Results`, `Healthy`, `Verdict`, `Screen` | the three checks, all of which run, siteverify (which accepts a token once and may misbehave), the precedence of the verdicts |
| `Permitted`, `Valid`, `Save` | `submission_params`, `validate_answers`, the save; `accepts` stands for the formats and options of a question, `chosen` for the types whose options are read with `where` |
| `LogEvent`, `Reply`, `Fail` | `send_notifications` after the commit, the 201, an exception or death anywhere |

`fresh` is history: the visitor's page showed the current version and no older
copy was about.

### Widget

| Model | Code |
|---|---|
| `page` | radio buttons (which is checked, and the value of each), the text, the session that the hidden `authenticity_token` is of, the visible section, which buttons are enabled, whether the body is hidden |
| `draft` | the entry of local storage: answers and session token |
| `count["sessions"]`, `ExpireSession`, `VerifyCsrf` | the session cookie, which lasts 30 minutes; `form.verify_csrf` |
| `token`, `spent` | the Turnstile widget: no challenge, one under way, a token; the tokens siteverify accepts no more |
| `xhr`, `sent` | the requests as the document sees them, and what they carried |
| `OnInput`, `Choose`, `Type` | the `input` listener: the draft, the first challenge |
| `Missing`, `ShowError`, `Turn`, `Press` | `checkRequired`, `showValidationError` (which goes to the first error and enables the first button), Next and Previous, `handleSubmitClick` |
| `Load`, `Thanked`, `Refused`, `Failed` | `formSuccess` on 201, 422 and anything else |
| `Restored`, `Reload` | `enableLocalStorage` on a new document, which gives every saved value back, that of the hidden token too |
| `Arrive`, `Accept`, `Confirm`, `Decline`, `FailAttempt` | the server, in the actions of `ResponseIntake`; `Accept` needs a token of the session in use (`sent[a].fresh`) and one that siteverify has not seen, and only a refusal for another reason counts as a mishap |

Its form has two required questions, radio buttons on the first page and a text
on the last. `reopened` and `acked` are history.

### FormBuilder

| Model | Code |
|---|---|
| `section`, `question`, `counted` | the rows of one form, `forms.questions_count` |
| `request[r]` : `sec`, `que` (`old`, `new`), `order`, `at`, `locked` | a handler with the row as loaded and as it shall be; a sort with the place it has reached and the rows its transaction has updated |
| `Plan...` | what a handler reads and decides: `next_section_position`, `first_unused_answer_field`, `set_defaults`, the lookups, the comparison that a sort begins with |
| `Passes`, `Validate` | the uniqueness validations, `belongs_to :form_section`, `ensure_no_questions`: a query of its own |
| `WriteSection`, `CreateQuestion`, `UpdateQuestion`, `DestroyQuestion` | INSERT, UPDATE of what changed in memory, DELETE, each with the counter cache |
| `SortSection` | the sections' sort, one UPDATE at a time with no transaction |
| `SortQuestion`, `SortCommit`, `DeadlockBroken` | the questions' sort in a transaction, row locks, PostgreSQL's choice of a victim |

`raced` and `outdated` are history: which of four kinds of conflict (`Conflicts`)
a handler has run into between its check and its write. `torn` says that a sort
of sections broke off.

### CxReporting

| Model | Code |
|---|---|
| `collection[c]`, `detail[d]`, `upload[u]`, `response` | the four tables: status and whether `submitted_at` is set; the collection of a detail; detail, job and S3 key of an upload; upload, detail, job and row of a response |
| `LoadCollection`, `Fire`, `Log`, `Notify` | `set_cx_collection`, the bang event on the state as loaded (one transaction writes status and date), `Event.log_event`, `deliver_later` |
| `CreateCollection`, `Copy`, `DestroyCollection` | `create`, `duplicate!`, `destroy`, whose `delete_all` leaves what hangs on the details |
| `CreateDetail` | the detail, which is committed and logged before an upload from the responses of its form begins |
| `StartImport`, `ImportRow`, `CommitImport`, `ImportFails` | the transaction of `create!` with its `after_create` import, from a file or from the form: it opens, validates row by row that the detail exists, and shows upload and rows when it commits; a failure rolls all of it back |
| `StartProcess`, `CheckRow`, `InsertRow` | the page's 'Process CSV file to database': each row validated and inserted on its own |
| `DeleteResponses`, `DestroyDetail`, `DestroyUpload` | a deletion: the DELETE of the responses that are committed by then (`doomed`), the DELETE of the row and the COMMIT |

`processed` and `late` are history: jobs started by hand, and responses that were
committed while their upload or their detail was being deleted, or after it. Steps
of different transactions interleave freely, because nothing in these tables makes
one wait for the other; what a transaction has written is seen by the others once
it has committed.

## 4. The runs

| Run | Instance | Shows |
|---|---|---|
| `lifecycle_audit` | 1 form, whole or one that its validations refuse, 2 handlers, the approval setting flips, `published` is posted past the machine | `ApprovalChain`, `RetentionFindsArchived`, `MailTruthful`, `Audited` under every race of two handlers |
| `lifecycle_job` | 2 forms that end on the second of 2 days, the first of them perhaps refused by its validations, 1 handler, no approval process, the job killed once | the job's events and mails stay truthful while forms change under it (`IInv`, which contains `MailTruthful` and `Audited`), and `ValidOverdueIsArchived`: a valid form past its end date leaves service, also behind one that does not |
| `lifecycle_refused` (violation) | 1 form, 2 handlers, 2 days | `AnnouncedStatusReached` fails: see section 7 |
| `lifecycle_blocked` (violation) | 1 form with approval process | `OverdueIsArchived` fails: see section 7 |
| `submissions` | 2 handlers: the eight decisions about 1 response; or create, trash and restore 2 of them around the purge, a death and the form's end; or 2 tags in 3 spellings on 1 response that is archived and brought back; or the tags of 2 responses, handlers taking turns; pages of one result | `DecisionsIndependent`, `CountCoversRows`, `ModerationAudited`, `PurgeAccounted`, `IInv`, `PairsWhole` (deleted and its date, spam and its source part only by a named conflict), `ActiveTagsCached` (what a search forgets, no active response carries, but for the named conflicts) |
| `form_cache` | 2 visitors, 2 editors, 2 edits of any kind | `EditsStayVisible`, `IInv`, and `EditsShow` in the end |
| `user_accounts` | 2 accounts, limit 3 days, week 1 day, 2 ticks a day, 1 failure | `DeactivationWasAnnounced`, `IInv`, and `IdleIsDeactivated` in the end |
| `intake` | 2 requests of 9 kinds, 2 tokens, 2 versions of a form with radio buttons and a text | `KeepsPromise` (the refinement), `BaitSwallowed`, `OneResponsePerToken`, `HonestKept`, `IInv` |
| `widget` | a hosted form of 2 pages with Turnstile and `verify_csrf`, 4 requests, 2 texts, 2 mishaps, the end of a session being one | `StoresOnce`, `NotStuckByRefusal`, `ThankedNotResent`, `IInv` (with `Vouched`: what was acknowledged is stored), and `Thankful` in the end, for all whose session did not end under a draft |
| `widget_radio` (violation) | the same with 2 radio buttons | `SentAsChosen` fails: see section 7 |
| `form_builder` | 2 handlers, 1 death: section operations on 3 sections; or question operations on 2 questions; or both on 2 sections and 2 questions | `QuestionsCounted`, `FieldsDistinct`, `Reachable`, `SectionOrder`, `SortTakesEffect`, `IInv` |
| `cx_reporting` | 2 handlers, 1 death: 2 collections under review; or 1 collection with a detail, 2 uploads of 2 rows and 2 jobs, imports and deletions step by step | `SubmittedDated`, `Announced`, `WholeImport`, `Traceable`, `IInv` |

Why the bounds are enough. Every race in this code is between a load and a save
of one row, or between two queries of one task; two handlers (or a handler and
the job, a visitor and an editor plus one more of each) produce all of them, and
one more row is there where a loop has to go on after an interruption (the job's
second form, the purge's and the pages' second response, the second account, the
second row of a file), or where two rows have to collide (positions, answer
fields, a form's last section). A third section is there for a sort that has a
middle. Two commits suffice for a copy that mixes versions and for an old fill
after a new delete; two versions of the questions for a page older than the copy
and a copy older than the database. Four requests of a visitor leave two after
two mishaps. The bounds on failures (`MaxKills`, `MaxDeaths`, `MaxFailures`,
`MaxMishaps`) are one or two: the properties have to survive an interruption at
every step, and the liveness properties need the interruptions to end. `MaxDay`
covers a form that expires while the job runs and a response that enters the
trash after the cutoff. The accounts' thresholds 3, 2 and 1 keep the order of 90,
14 and 7 days and let the windows of successive nights touch; the proofs cover
the real ones. Positions stop at 3, where a handler that would go further does
not begin.

What the instances leave out of the specifications. `MCSubmissions`,
`MCFormBuilder` and `MCCxReporting` pick in the first state one group of
operations (`mix`), and a behaviour stays within it; the groups are chosen so
that operations that touch the same columns are together. `MCCxReporting` takes the
smallest of the job ids that are free, since an id means nothing but itself. The
proofs have no such limit. `lifecycle_audit` and `lifecycle_job` start (`TornInit`)
with their first form unborn or with its date and OMB number already torn apart,
which takes two handlers and four updates to bring about; `lifecycle_refused`
shows how it comes about. In `lifecycle_job` an action constraint (`SecondIsQuiet`)
lets the handler archive the second form, but fire no other event at it and not
move its end date; it takes nothing from the job, whose fairness is assumed. TLC's coverage shows
that every action of every module is taken in some passing run. Handlers are
interchangeable, as are the requests of `intake`, and TLC uses that as a symmetry
wherever no liveness is checked. Deadlock is not checked: every bounded counter
lets the system stop.

## 5. Fairness

* `WF(JobStep)` in `lifecycle_job` and `lifecycle_blocked` (`lifecycle_refused` checks
  an invariant, for which fairness is of no account): the workflow starts
  the archiving task daily in the staging and demo environments and a run that is
  not killed goes on. (In production the task is commented out in `cron.sh`, so
  there the promise rests on administrators.) Handlers have no fairness: they may
  stop anywhere.
* `WF(Expire)` in `form_cache`: a day passes. Neither visitors nor editors are
  assumed to do anything.
* `WF(DailyStep)` in `user_accounts`: time passes and cron runs the three tasks,
  which production does. It is one condition on the clock and the script
  together, because a night's run is taken to end before the next one begins.
* `FairWorld` in `widget`: a request under way arrives and is served, its answer
  is handled, a challenge is solved (weak fairness of each). Losing, failing, expiring
  and answers that no longer fit are bounded by `MaxMishaps`; refusals for a stale
  session or a used token are not.
* `FairVisitor` in `widget`: the visitor fills in what is missing, goes on to the
  next page and reloads a page on which nothing works any more (weak fairness),
  and presses the button again and again (strong fairness, since an expired token
  or a refusal takes the possibility away for a while). This is an assumption
  about a person, the "who keeps trying" of `Thankful`, not about the code.

## 6. The proofs

Each `IInv` is an inductive invariant: `Init => IInv` and
`IInv /\ [Next]_vars => IInv'` are proved action by action, for any numbers of
forms, handlers, responses, visitors, editors, accounts, requests, texts,
sections, questions and collections and any bounds, from the named assumptions on the
constants (sets of ids are naturals where order matters, thresholds are naturals
with two weeks before the limit). TLC checks the same `IInv` in a run of each
module. Every invariant and every action property that a run checks is stated by a
theorem.

* `FormLifecycleProofs`: `ApprovalChain`, `RetentionFindsArchived`,
  `MailTruthful` and `Audited`. None is inductive alone: a handler writes what it
  computed from an old copy, so the invariant says that every loaded copy is as
  sound as a row and never ahead of it, and that a handler or job past its first
  step has left the event that step inserts, and one past its save has left the
  status either reached or refused. It holds because saves write only the columns
  that changed.
* `SubmissionsProofs`: `CountCoversRows`, `ModerationAudited`, `PurgeAccounted`,
  `DecisionsIndependent`, `PairsWhole` and `ActiveTagsCached`. The invariant has two
  parts. `CoreInv` holds whatever meets whatever: the purge is right because every
  response that enters the trash after the count carries a date beyond the cutoff
  (`PurgeSound`), and no save can bring an old date back. `TogetherInv` is about
  what handlers have loaded: two that conflict are known (`ConflictsKnown`), and as
  long as none has, a loaded response is whole and what its handler saw done stays
  done (`SeenWhole`), and a tag of an active response is in the form's copy or in
  the hands of the `add_tag` that will put it there (`TagsInv`, `TagsSeen`). The
  proof found one conflict that no instance of two handlers shows: a restoration
  that has loaded its response, while an `add_tag` tags it and a search forgets the
  tag, takes three.
* `FormCacheProofs`: `EditsStayVisible`. What a load has read so far is at least
  as new as the database was when the load began, and nothing owed to visitors
  is missing from it. As a copy is never newer than the database either, it is the
  whole form whenever every edit is owed to visitors, although its parts were
  selected at different times (`WholeHolds`).
* `UserAccountsProofs`: `DeactivationWasAnnounced`, for every limit and week with
  two weeks before the limit. The argument is `WindowsMeet`: an account whose
  window has begun by tonight's run is warned, or tonight's run is on time and
  has still to reach it; a window is exactly as wide as the day between two
  runs, so that no age falls between them, and closes before the limit. An age
  falls only with a sign-in, so whoever is on a list wrongly has signed in since the
  list was loaded.
* `IntakeProofs`: `BaitSwallowed`, `OneResponsePerToken`, `HonestKept`, and
  `KeepsPromise`, the refinement of `ResponseIntake`. The invariant says what a
  request of each stage has left behind (`Trace`), that a bait is never past the
  checks (`Caught`) and that a token that vouched for an attempt is spent and
  vouches for no other (`TokensApart`). The refinement follows from `Trace`: the
  thanks come only after row and event, a refusal only without a row, and every
  other step maps to a step of the promise or to a stutter.
* `WidgetProofs`: `StoresOnce`, `NotStuckByRefusal`, `ThankedNotResent`, and that
  what was acknowledged is stored with its event (`AckedIsStored`), for
  one page or two, hosted or embedded, with Turnstile or without. As long as no
  error message has enabled the button, it is enabled only when every request of
  this document is answered with a refusal, and at most one is not (`OneOpen`); a
  refusal stores nothing (`Trail`), so one response is stored. A dead button has
  a request to blame (`Blamed`), and the form and the draft lose an acknowledged
  text in the same step (`Forgotten`). `ServerImplements` says that the server's
  side of `Widget` is a behaviour of `ResponseIntake`, and `IntakeProofs` that the
  code's server is one too: what the page relies on is what the server does.
* `FormBuilderProofs`: `QuestionsCounted`, `FieldsDistinct`, `Reachable`,
  `SectionOrder` and `SortTakesEffect`. `ChecksInv` says what a handler's check is
  still worth when it writes: the field is free and the section is there, or empty,
  as long as no conflicting operation has committed in between - which is what
  `outdated` records. The counter is right because a DELETE that finds no row does
  not count. `OrderInv` is about positions: behind a sort, what it has passed has its
  place (`SectionsPlaced`, `QuestionsPlaced`), the order asked for names each row
  once and, for sections, all of them, so that its last step leaves no two alike; and
  the position that an insertion is about to write is free (`PositionHolds`).
* `CxReportingProofs`: `SubmittedDated`, `Announced`, `WholeImport` and `Traceable`.
  The date is there because a submission always writes its own and whoever clears
  one changes the status with it. The mail is there because the handler whose event
  made the status 'submitted' still owes it, until it queues it or dies, and the
  status is left only by another event or the collection's end. The other two need
  that the ids a handler holds belong to rows that were created (`Known`), that a
  fresh job id is in no response, that responses lead to their upload's detail and
  from there to a collection (`Related`, `Rooted`), and that a deletion between its
  two DELETEs has doomed every response it owns but the late ones (`Swept`): what is
  committed in between finds the deletion under way, so it is late.

Only model-checked: the liveness properties (`ValidOverdueIsArchived`, `EditsShow`,
`IdleIsDeactivated`, `Thankful`), because the prover handles neither fairness nor
ENABLED.

## 7. Where the code and its words part

Shown by violation runs, with the quoted line in `PROJECT.json`:

* `lifecycle_blocked`: the job selects every form that is not archived, but the
  archive event has no transition from submitted or approved; one such form past
  its end date ends this run and every later one, at the same place.
* `lifecycle_refused`: the AASM block has no `whiny_persistence`, so a bang event
  whose save a validation refuses returns false, at which no caller looks. The
  event is in the log, the mail goes out and the page reports success, but the
  status is the old one.
* `widget_radio`: a draft's answer to radio buttons is restored into the `value`
  of the first of them; whoever then chooses it sends the old answer.

Reachable in the models, and kept out of the runs because they are variations of
the above, because a passing run already bounds them, or because no document
promises otherwise:

* The daily job treats such a form as archived: it is logged and mailed on every
  night past its end date, and never leaves service. `ValidOverdueIsArchived` is
  about the others.
* `enableLocalStorage` saves and restores hidden fields, too. Once the session is
  over (30 minutes), every reload of a form with `verify_csrf` puts the old
  `authenticity_token` of the draft over the new one, each input saves it again, and
  every POST is answered 422, for good (`delivery.html.erb:114` says that such a
  form expires in a session). `Thankful` excepts this visitor (`Locked`); skipping
  hidden fields in the restore would end it.
* Responses survive the deletion of their detail or upload if the import that stores
  them, or a file processed by hand, commits between its two DELETEs or later:
  there is no foreign key (`cx_collection_detail.rb:7`,
  `cx_collection_detail_upload.rb:7`). `Traceable` excepts those (`late`).
* The only section of a form can be deleted: the check compares with `< 1`, which no
  form with a section to delete fulfils (`form_sections_controller.rb:64`, 'Cannot
  delete only remaining Form section').
* Two handlers that loaded the same form take it off the AASM table, for instance
  from archived to published: the event checks the loaded object and the UPDATE
  repeats no check (`form.rb:195`).
* `publish` has no guard and starts from created, so a form of an organization
  with `form_approval_enabled` is published without approval (`db/schema.rb:407`
  speaks of a required process).
* A form is destroyed on the word of the `response_count` loaded with it while a
  response is being saved, which is left without its form (`form.rb:102`).
* A mark and an unmark of one response at once leave `spam` and
  `spam_determination` disagreeing, and a delete and an undelete leave `deleted`
  and `deleted_at` disagreeing: each save writes only what changed in memory.
  `PairsWhole` says that nothing else does.
* Two `add_tag` at once, or one that dies half way, lose a tag of
  `submission_tags`; a search among the active responses drops the tag of an
  archived one, as does one for a page beyond the last. `ActiveTagsCached` excepts
  these.
* Warnings are recorded nowhere: a night that fails, or runs later than the one
  before it, skips whoever was in the gap. `DeactivationWasAnnounced` excepts
  exactly the accounts that existed on such a night. A run counts as on time
  within its tick; in the real system two runs that start a minute apart leave a
  gap of that minute.
* An owner who signs in after the deactivation has loaded its list is deactivated
  all the same, although the mail says that a login keeps the account active
  (`account_deactivation_scheduled_notification.text.erb:5`). Nobody else is on the
  list wrongly (`DeactivationWasAnnounced`).
* A visitor is thanked although answers were dropped: `submission_params` permits
  the fields of the cached copy only, so a page that shows a newer or an older
  version loses the others silently ("Thank You. Response was submitted
  successfully.", `submissions_controller.rb:83`). `HonestKept` says when not.
* With early submission a form has two submit buttons and only the first is ever
  disabled: the second goes on sending, and each request may store a response.
  An error message enables the button during a request in flight. `StoresOnce`
  excepts forms with two buttons and a page like that (`reopened`).
* A response that is stored is reported as a server error when
  `send_notifications` raises after the commit; the visitor's second try stores it
  again unless Turnstile stops it.
* Destroying a collection deletes its details with `delete_all` and leaves their
  uploads and responses; `Traceable` excepts them.
* 'Process CSV file to database' adds the rows of a file once more each time.
  `WholeImport` is about the import that comes with the upload. (In the test
  environment `process_csv` returns at once, so no test reaches it.)
* A detail for a form without responses in the quarter is saved and logged, and
  then the import raises (`form.rb:660` to 665): the page shows an error, the
  detail stays.
* When the creation of an upload fails the file remains in S3. A copy of a
  collection keeps `submitted_at`. `request_change` and `archive` of a collection
  have no route.
* A new question gets position n + 2, not n + 1: the question under construction
  is counted too (`questions_controller.rb:100`). An answer field that has become
  free is given to the next question, together with the answers stored under it.

## 8. What is not modelled, and why

* Of forms: their content, exports, reports, mail bodies, serializers and views
  (presentation, no state of their own); `check_expired`, which nothing calls.
* Of responses: the status `update`.
* Of the builder: question options, texts and types of questions, a position
  posted to a question's `update`, which no page does.
* Of intake: the syntax of emails, phone numbers, dates and the like, which are
  the parameter `accepts`; whether the form is published, which `create` does not
  ask; spam metrics, which are a counter for operators.
* Of the widget: the yes/no buttons, which submit at once; the modal dialog; rich
  text, formats and 'other' fields; a draft shared
  by two tabs; the events it offers to the embedding page.
* Of CX collections: `update`, which also accepts a status that no page posts,
  and the reports and exports.
* Validation failures of a save other than those named above. Of collections the
  events return false for an invalid row as those of forms do, but their validations
  are about single columns and every save checks them, so a loaded row passes.
  Elsewhere a failed save raises or ends the handler, which is `Fail` or `Die`.
* The cached reports and the cached nil of an unknown id in `FormCache`.
* The audit event and team mail of `deactivate!`: an administrator's `update`
  deactivates without them, so nothing about the log could hold.
* Registries: status machines and forms of the same shape as FormLifecycle, with
  no job and no cache; exports, API, mailers and the Rust renderer of the widget
  keep no state.
* Devise itself (that an inactive account is turned away before its sign-in is
  recorded), Sidekiq's delivery of queued mail, PostgreSQL, Redis, Turnstile, S3
  and the network are taken as the code uses them and are marked external in the
  map.
* The repository's `.js` files. The application is written in Ruby and in ERB
  templates, which is where every mapped line is, the browser's code included
  (`_fba.js.erb`). Of the plain `.js` files, Chart.js, Quill, jQuery UI, FileSaver
  and the USWDS bundle of the widget renderer are third-party code kept in the
  tree (more than nine tenths of all `.js` lines are in those five); what is left
  is a build script, page setup and the channel that receives a finished export.
  None of it decides anything that these modules are about, so a share of mapped
  lines counted over `.js` files is zero.

## 9. Plan

The order is by importance; all eight are done.

1. `FormLifecycle` (+ proofs). 2. `Submissions` (+ proofs). 3. `FormCache`
   (+ proofs). 4. `UserAccounts` (+ proofs). 5. `ResponseIntake` and `Intake`
   (+ proofs). 6. `Widget`, on top of `ResponseIntake` (+ proofs).
   7. `FormBuilder` (+ proofs). 8. `CxReporting` (+ proofs).

What could come next, in this order:

* The composition of `Intake` with `FormCache`, in place of `floor`: a step of
  `OldCopiesGone` is a step of `Invalidate` or `Expire` there.
* The refinement of `CreateSubmission` by `Intake`, so that moderation starts from
  what the verdicts let through.
* The lifecycle with one handler at a time as an implementation of the AASM table
  alone.
* Question options with their own sort and limits; the two machines on one row of
  `websites` and `digital_service_accounts`.
