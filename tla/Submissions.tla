----------------------------- MODULE Submissions -----------------------------
(***************************************************************************)
(* The responses to one form: intake, moderation, tags, and the purge of   *)
(* the trash.  app/models/submission.rb,                                   *)
(* app/controllers/admin/submissions_controller.rb, the two caches that    *)
(* the form row keeps of its responses (response_count, submission_tags)   *)
(* and the delete_submissions_trash task.                                  *)
(*                                                                         *)
(* A handler loads the form, then the responses, and saves later; whatever *)
(* other handlers and the task did in between, the save writes only the    *)
(* attributes that changed in memory (Written).                            *)
(***************************************************************************)
EXTENDS Naturals, FiniteSets, ActiveRecord

CONSTANTS
    Subs,        \* ids; a sequence hands them out in increasing order
    Requests,    \* handlers running at the same time
    Operations,  \* the kinds of request that arrive
    Tags,        \* tags as stored: stripped, in lower case
    RawTags,     \* tags as typed
    Normal,      \* what strip and downcase make of a typed tag
    Recorded,    \* the decisions whose audit events are recorded
    PageSize,    \* responses on a page of search results
    Pages,       \* the pages of search results that are asked for
    TrashAge,    \* days in the trash before the purge
    MaxDay,      \* bound on the calendar
    MaxDeaths    \* bound on the handlers that die half way

Decisions == {"flag", "unflag", "archive", "unarchive", "mark", "unmark", "delete", "undelete"}
TagOps == {"add_tag", "remove_tag"}
Ops == Decisions \cup TagOps \cup {"search", "create", "destroy"}

ASSUME SubsAssumption == Subs \subseteq Nat /\ IsFiniteSet(Subs) /\ Subs # {}
ASSUME TagsAssumption == Tags \subseteq RawTags /\ Normal \in [RawTags -> Tags] /\ RawTags # {}
ASSUME OperationsAssumption == Operations \subseteq Ops /\ Recorded \subseteq Decisions
ASSUME PagesAssumption == PageSize \in Nat \ {0} /\ Pages \subseteq Nat \ {0}
ASSUME DaysAssumption == TrashAge \in Nat /\ MaxDay \in Nat \ {0} /\ MaxDeaths \in Nat

\* The decisions that bring back what was set aside.
Restoring == {"unflag", "unarchive", "unmark", "undelete"}

\* The handlers that, in flight together, can part what belongs together: the columns of
\* a response in the trash, those of spam, or tags and the form's cache of them.
Conflicts == [trash |-> {<<"delete", "undelete">>},
              spam  |-> {<<"mark", "unmark">>},
              tags  |-> {<<"add_tag", "add_tag">>} \cup (TagOps \X ({"search"} \cup Restoring))]

\* The kinds of trouble that two handlers can make together.
Clash(op, other) ==
    {k \in DOMAIN Conflicts : {<<op, other>>, <<other, op>>} \cap Conflicts[k] # {}}

NoDate == 0               \* deleted_at IS NULL
Days == 1 .. MaxDay

\* source: spam_determination["source"], "none" when the column is NULL.
Row == [phase     : {"unborn", "live", "gone"},
        flagged   : BOOLEAN,
        archived  : BOOLEAN,
        spam      : BOOLEAN,
        source    : {"none", "manual", "automated"},
        deleted   : BOOLEAN,
        deletedOn : Days \cup {NoDate},
        tags      : SUBSET Tags]

NewRow == [phase |-> "unborn", flagged |-> FALSE, archived |-> FALSE, spam |-> FALSE,
           source |-> "none", deleted |-> FALSE, deletedOn |-> NoDate, tags |-> {}]

FormRow == [live : BOOLEAN, count : Nat, tags : SUBSET Tags]

VARIABLES
    today,
    form,      \* [live, count, tags]: response_count and submission_tags
    row,       \* the submissions table
    request,   \* the handlers in flight
    purge,     \* the delete_submissions_trash task
    deaths,    \* how many handlers died
    log,       \* <<response, decision>>: the audit event was inserted
    strayed    \* the kinds of conflicts that have happened (history)

vars == <<today, form, row, request, purge, deaths, log, strayed>>

AnyTag == CHOOSE t \in RawTags : TRUE

Idle == [pc |-> "idle", op |-> "create", form |-> [live |-> FALSE, count |-> 0, tags |-> {}],
         todo |-> {}, seen |-> [s \in Subs |-> NewRow], tag |-> AnyTag]

IdlePurge == [pc |-> "idle", cutoff |-> 0, counted |-> {}]

Handler == [pc : {"idle", "form", "loaded", "tagged", "empty"}, op : Ops, form : FormRow,
            todo : SUBSET Subs, seen : [Subs -> Row], tag : RawTags]

PurgeRun == [pc : {"idle", "counted"}, cutoff : Nat, counted : SUBSET Subs]

TypeOK ==
    /\ today \in Days
    /\ form \in FormRow
    /\ row \in [Subs -> Row]
    /\ request \in [Requests -> Handler]
    /\ purge \in PurgeRun
    /\ deaths \in 0 .. MaxDeaths
    /\ log \subseteq Subs \X Recorded
    /\ strayed \subseteq DOMAIN Conflicts

Init ==
    /\ today = 1
    /\ form = [live |-> TRUE, count |-> 0, tags |-> {}]
    /\ row = [s \in Subs |-> NewRow]
    /\ request = [r \in Requests |-> Idle]
    /\ purge = IdlePurge
    /\ deaths = 0
    /\ log = {}
    /\ strayed = {}

Live == {s \in Subs : row[s].phase = "live"}
Gone == {s \in Subs : row[s].phase = "gone"}

Busy == {r \in Requests : request[r].pc # "idle"}

Finish(r) == request' = [request EXCEPT ![r] = Idle]

-----------------------------------------------------------------------------
(* Loading *)

\* set_form, or FormCache.fetch in the public controller
LoadForm(r, op) ==
    /\ request[r].pc = "idle"
    /\ op \in Operations
    /\ form.live
    /\ request' = [request EXCEPT ![r] = [Idle EXCEPT !.pc = "form", !.op = op, !.form = form]]
    /\ strayed' = strayed \cup UNION {Clash(op, request[t].op) : t \in Busy}
    /\ UNCHANGED <<today, form, row, purge, deaths, log>>

\* The decisions that bulk_update can take about several responses.
BulkOps == {"archive", "flag", "mark", "delete"}

\* set_submission; bulk_update loads all the selected responses at once.
LoadSubmissions(r, S, tag) ==
    LET q == request[r]
    IN  /\ q.pc = "form"
        /\ q.op \in Decisions \cup TagOps
        /\ S \subseteq Live /\ S # {}
        /\ Cardinality(S) = 1 \/ q.op \in BulkOps
        /\ q.op \in TagOps \/ tag = AnyTag
        /\ request' = [request EXCEPT ![r] =
              [q EXCEPT !.pc = "loaded", !.todo = S, !.tag = tag,
                        !.seen = [s \in Subs |-> IF s \in S THEN row[s] ELSE NewRow]]]
        /\ UNCHANGED <<today, form, row, purge, deaths, log, strayed>>

-----------------------------------------------------------------------------
(* Moderation *)

\* What a handler assigns to the loaded response.
Assigned(seen, op) ==
    CASE op = "flag"      -> [seen EXCEPT !.flagged = TRUE]
      [] op = "unflag"    -> [seen EXCEPT !.flagged = FALSE]
      [] op = "archive"   -> [seen EXCEPT !.archived = TRUE]
      [] op = "unarchive" -> [seen EXCEPT !.archived = FALSE]
      [] op = "mark"      -> [seen EXCEPT !.spam = TRUE, !.source = "manual"]
      [] op = "unmark"    -> [seen EXCEPT !.spam = FALSE, !.source = "none"]
      [] op = "delete"    -> [seen EXCEPT !.deleted = TRUE, !.deletedOn = today]
      [] op = "undelete"  -> [seen EXCEPT !.deleted = FALSE, !.deletedOn = NoDate]

\* Mutant: the save writes every attribute of the loaded object.
Saved_wholeRow(cur, seen, op) == IF cur.phase = "live" THEN Assigned(seen, op) ELSE cur

\* Mutant: delete keeps the date of an earlier deletion, undelete does not clear it.
Saved_oldDate(cur, seen, op) ==
    LET new == Assigned(seen, op)
    IN  IF cur.phase # "live" THEN cur
        ELSE [cur EXCEPT !.flagged  = Written(@, seen.flagged, new.flagged),
                         !.archived = Written(@, seen.archived, new.archived),
                         !.spam     = Written(@, seen.spam, new.spam),
                         !.source   = Written(@, seen.source, new.source),
                         !.deleted  = Written(@, seen.deleted, new.deleted),
                         !.deletedOn = IF op = "delete" /\ @ = NoDate THEN today ELSE @]

\* The row after the save.  Time.now is never the deleted_at that was loaded, so
\* delete always writes it.
Saved(cur, seen, op) ==
    LET new == Assigned(seen, op)
    IN  IF cur.phase # "live" THEN cur
        ELSE [cur EXCEPT !.flagged  = Written(@, seen.flagged, new.flagged),
                         !.archived = Written(@, seen.archived, new.archived),
                         !.spam     = Written(@, seen.spam, new.spam),
                         !.source   = Written(@, seen.source, new.source),
                         !.deleted  = Written(@, seen.deleted, new.deleted),
                         !.deletedOn = IF op = "delete" THEN today
                                       ELSE Written(@, seen.deletedOn, new.deletedOn)]

Mark(s, op) == {<<s, op>>} \cap (Subs \X Recorded)

\* ordered: the newest response first
IsNewest(s, S) == s \in S /\ \A t \in S : t <= s

Rest(q, s) == IF q.todo = {s} THEN Idle
              ELSE [q EXCEPT !.todo = @ \ {s}, !.seen[s] = NewRow]

\* Bringing back a response with tags, which the form may have forgotten meanwhile.
Decided(q, s) ==
    IF q.op \in Restoring /\ row[s].tags # {} THEN strayed \cup {"tags"} ELSE strayed

\* Mutant: bulk_update inserts one event for the whole batch.
Decide_oneEvent(r, s) ==
    LET q == request[r]
    IN  /\ q.pc = "loaded"
        /\ IsNewest(s, q.todo)
        /\ q.op \in Decisions
        /\ log' = IF Cardinality(q.todo) = 1 THEN log \cup Mark(s, q.op) ELSE log
        /\ row' = [row EXCEPT ![s] = Saved(@, q.seen[s], q.op)]
        /\ request' = [request EXCEPT ![r] = Rest(q, s)]
        /\ strayed' = Decided(q, s)
        /\ UNCHANGED <<today, form, purge, deaths>>

\* flag ... undelete, or one turn of bulk_update's loop: the event, then the save.
Decide(r, s) ==
    LET q == request[r]
    IN  /\ q.pc = "loaded"
        /\ IsNewest(s, q.todo)
        /\ q.op \in Decisions
        /\ log' = log \cup Mark(s, q.op)
        /\ row' = [row EXCEPT ![s] = Saved(@, q.seen[s], q.op)]
        /\ request' = [request EXCEPT ![r] = Rest(q, s)]
        /\ strayed' = Decided(q, s)
        /\ UNCHANGED <<today, form, purge, deaths>>

\* The handler dies, possibly with an event inserted and its save not done.
Die(r) ==
    LET q == request[r]
    IN  /\ q.pc # "idle"
        /\ deaths < MaxDeaths
        /\ deaths' = deaths + 1
        /\ \/ log' = log
           \/ /\ q.pc = "loaded" /\ q.op \in Decisions
              /\ \E s \in Subs : IsNewest(s, q.todo) /\ log' = log \cup Mark(s, q.op)
        /\ strayed' = IF q.pc = "tagged" THEN strayed \cup {"tags"} ELSE strayed
        /\ Finish(r)
        /\ UNCHANGED <<today, form, row, purge>>

-----------------------------------------------------------------------------
(* Tags *)

\* UPDATE of an array column of a row that still exists.
WriteTags(s, seen, new) ==
    row' = IF row[s].phase = "live"
           THEN [row EXCEPT ![s].tags = Written(@, seen, new)] ELSE row

WriteFormTags(seen, new) ==
    form' = IF form.live THEN [form EXCEPT !.tags = Written(@, seen, new)] ELSE form

\* add_tag: the typed tag is looked up, the normalised one is stored ...
AddTag(r, s) ==
    LET q == request[r]
        new == q.seen[s].tags \cup {Normal[q.tag]}
    IN  /\ q.pc = "loaded"
        /\ q.op = "add_tag"
        /\ s \in q.todo
        /\ \/ /\ q.tag \in q.seen[s].tags
              /\ Finish(r)
              /\ UNCHANGED row
           \/ /\ q.tag \notin q.seen[s].tags
              /\ WriteTags(s, q.seen[s].tags, new)
              /\ request' = [request EXCEPT ![r] =
                    [q EXCEPT !.pc = "tagged", !.seen[s].tags = new]]
        /\ UNCHANGED <<today, form, purge, deaths, log, strayed>>

\* ... then update_submission_tags!, from the tags of the form that was loaded.
CacheTags(r, s) ==
    LET q == request[r]
    IN  /\ q.pc = "tagged"
        /\ s \in q.todo
        /\ WriteFormTags(q.form.tags, q.form.tags \cup q.seen[s].tags)
        /\ Finish(r)
        /\ UNCHANGED <<today, row, purge, deaths, log, strayed>>

\* remove_tag leaves the form's cache alone.
RemoveTag(r, s) ==
    LET q == request[r]
    IN  /\ q.pc = "loaded"
        /\ q.op = "remove_tag"
        /\ s \in q.todo
        /\ IF q.tag \in q.seen[s].tags
           THEN WriteTags(s, q.seen[s].tags, q.seen[s].tags \ {q.tag})
           ELSE UNCHANGED row
        /\ Finish(r)
        /\ UNCHANGED <<today, form, purge, deaths, log, strayed>>

Active(s) == ~row[s].flagged /\ ~row[s].spam /\ ~row[s].archived /\ ~row[s].deleted

\* search by a tag, among the active responses or, with params[:archived], among
\* all; what the view gets is one page of them.
Search(r, tag, all, page) ==
    LET q == request[r]
        hits == {s \in Live : tag \in row[s].tags /\ (all \/ Active(s))}
    IN  /\ q.pc = "form"
        /\ q.op = "search"
        /\ IF Cardinality(hits) <= (page - 1) * PageSize
           THEN request' = [request EXCEPT ![r] = [q EXCEPT !.pc = "empty", !.tag = tag]]
           ELSE Finish(r)
        /\ strayed' = IF page > 1 THEN strayed \cup {"tags"} ELSE strayed
        /\ UNCHANGED <<today, form, row, purge, deaths, log>>

\* Mutant: the whole cache is dropped.
ForgetTag_all(r) ==
    LET q == request[r]
    IN  /\ q.pc = "empty"
        /\ WriteFormTags(q.form.tags, {})
        /\ Finish(r)
        /\ UNCHANGED <<today, row, purge, deaths, log, strayed>>

\* The view calls remove_submission_tag! when the page of results is empty.
ForgetTag(r) ==
    LET q == request[r]
    IN  /\ q.pc = "empty"
        /\ WriteFormTags(q.form.tags, q.form.tags \ {q.tag})
        /\ Finish(r)
        /\ UNCHANGED <<today, row, purge, deaths, log, strayed>>

-----------------------------------------------------------------------------
(* Intake, deletion of the form, purge *)

IsNextId(s) == row[s].phase = "unborn" /\ \A t \in Subs : t < s => row[t].phase # "unborn"

\* Mutant: the counter cache is written from the loaded form.
CreateSubmission_staleCount(r, s, spam) ==
    /\ request[r].pc = "form"
    /\ request[r].op = "create"
    /\ IsNextId(s)
    /\ row' = [row EXCEPT ![s] = [NewRow EXCEPT !.phase = "live", !.spam = spam,
                                     !.source = IF spam THEN "automated" ELSE "none"]]
    /\ form' = IF form.live THEN [form EXCEPT !.count = request[r].form.count + 1] ELSE form
    /\ Finish(r)
    /\ UNCHANGED <<today, purge, deaths, log, strayed>>

\* create, in one transaction: INSERT and response_count = response_count + 1.
\* Nothing in the database ties the response to a form that still exists.
CreateSubmission(r, s, spam) ==
    /\ request[r].pc = "form"
    /\ request[r].op = "create"
    /\ IsNextId(s)
    /\ row' = [row EXCEPT ![s] = [NewRow EXCEPT !.phase = "live", !.spam = spam,
                                     !.source = IF spam THEN "automated" ELSE "none"]]
    /\ form' = IF form.live THEN [form EXCEPT !.count = @ + 1] ELSE form
    /\ Finish(r)
    /\ UNCHANGED <<today, purge, deaths, log, strayed>>

\* forms#destroy: ensure_no_responses looks at the loaded response_count.
DestroyForm(r) ==
    /\ request[r].pc = "form"
    /\ request[r].op = "destroy"
    /\ form' = IF request[r].form.count = 0 THEN [form EXCEPT !.live = FALSE] ELSE form
    /\ Finish(r)
    /\ UNCHANGED <<today, row, purge, deaths, log, strayed>>

InTrash(s, cutoff) ==
    row[s].phase = "live" /\ row[s].deleted /\ row[s].deletedOn # NoDate
        /\ row[s].deletedOn + TrashAge < cutoff

\* The event announces how many responses are about to be deleted ...
PurgeCount ==
    /\ purge.pc = "idle"
    /\ purge' = [pc |-> "counted", cutoff |-> today,
                 counted |-> {s \in Subs : InTrash(s, today)}]
    /\ UNCHANGED <<today, form, row, request, deaths, log, strayed>>

\* Mutant: the DELETE computes the cutoff anew.
PurgeDelete_ownCutoff ==
    /\ purge.pc = "counted"
    /\ row' = [s \in Subs |-> IF InTrash(s, today) THEN [row[s] EXCEPT !.phase = "gone"] ELSE row[s]]
    /\ purge' = IdlePurge
    /\ UNCHANGED <<today, form, request, deaths, log, strayed>>

\* ... and a DELETE with the same WHERE clause deletes them.
PurgeDelete ==
    /\ purge.pc = "counted"
    /\ row' = [s \in Subs |-> IF InTrash(s, purge.cutoff) THEN [row[s] EXCEPT !.phase = "gone"]
                              ELSE row[s]]
    /\ purge' = IdlePurge
    /\ UNCHANGED <<today, form, request, deaths, log, strayed>>

\* The task is killed between the two.
PurgeKilled ==
    /\ purge.pc = "counted"
    /\ purge' = IdlePurge
    /\ UNCHANGED <<today, form, row, request, deaths, log, strayed>>

NextDay ==
    /\ today < MaxDay
    /\ today' = today + 1
    /\ UNCHANGED <<form, row, request, purge, deaths, log, strayed>>

-----------------------------------------------------------------------------

RequestStep(r) ==
    \/ \E op \in Ops : LoadForm(r, op)
    \/ \E S \in SUBSET Subs, tag \in RawTags : LoadSubmissions(r, S, tag)
    \/ \E s \in Subs : Decide(r, s) \/ AddTag(r, s) \/ CacheTags(r, s) \/ RemoveTag(r, s)
    \/ \E tag \in RawTags, all \in BOOLEAN, page \in Pages : Search(r, tag, all, page)
    \/ ForgetTag(r)
    \/ \E s \in Subs, spam \in BOOLEAN : CreateSubmission(r, s, spam)
    \/ DestroyForm(r)
    \/ Die(r)

Next ==
    \/ \E r \in Requests : RequestStep(r)
    \/ PurgeCount \/ PurgeDelete \/ PurgeKilled
    \/ NextDay

Spec == Init /\ [][Next]_vars

-----------------------------------------------------------------------------
(* Properties *)

\* response_count, which ensure_no_responses relies on, never falls below the
\* responses there are, whatever creations overlap.
CountCoversRows == form.live => Cardinality(Live) <= form.count

\* Every decision that shows on a response was announced in the audit log, by
\* single handlers and by each turn of bulk_update alike.
Announced(s, copy) ==
    /\ copy.flagged /\ "flag" \in Recorded => <<s, "flag">> \in log
    /\ copy.archived /\ "archive" \in Recorded => <<s, "archive">> \in log
    /\ copy.source = "manual" /\ "mark" \in Recorded => <<s, "mark">> \in log
    /\ copy.deleted /\ "delete" \in Recorded => <<s, "delete">> \in log

ModerationAudited == \A s \in Subs : Announced(s, row[s])

DecidedBy == [flagged   |-> {"flag", "unflag"},
              archived  |-> {"archive", "unarchive"},
              spam      |-> {"mark", "unmark"},
              source    |-> {"mark", "unmark"},
              deleted   |-> {"delete", "undelete"},
              deletedOn |-> {"delete", "undelete"},
              tags      |-> TagOps]

\* Moderators who decide different things about one response at the same time do
\* not undo each other: a column changes only in a step of a handler about it.
DecisionsIndependent ==
    [][\A s \in Live, column \in DOMAIN DecidedBy :
          row'[s][column] # row[s][column] =>
              \E r \in Requests : /\ request'[r] # request[r]
                                  /\ request[r].op \in DecidedBy[column]
                                  /\ s \in request[r].todo]_vars

\* The purge deletes nothing that its event did not count, although responses
\* enter and leave the trash between the two queries.
PurgeAccounted == [][Gone' \ Gone \subseteq purge.counted]_vars

\* What PurgeAccounted rests on: while the purge runs, whatever gets into the
\* trash carries a date that the purge does not reach.
PurgeSound ==
    purge.pc = "counted" =>
        /\ purge.cutoff <= today
        /\ \A s \in Subs : InTrash(s, purge.cutoff) => s \in purge.counted

\* What holds whatever handlers are in flight together.
CoreInv ==
    /\ TypeOK
    /\ CountCoversRows
    /\ ModerationAudited
    /\ PurgeSound

\* A response in the trash carries its date, so that the purge finds it, and one marked
\* as spam says who did; the columns part only if a deletion and its undoing, or a mark
\* and its removal, were in flight together.
PairsWhole ==
    /\ "trash" \notin strayed => \A s \in Live : row[s].deleted <=> row[s].deletedOn # NoDate
    /\ "spam" \notin strayed => \A s \in Live : row[s].spam <=> row[s].source # "none"

\* What search forgets it may forget: the tags of the active responses are in the form's
\* cache, unless conflicting handlers were in flight together, a tagged response came back
\* from where it was set aside, or a handler died between the response and the cache.
ActiveTagsCached ==
    "tags" \notin strayed /\ form.live /\ (\A r \in Requests : request[r].pc # "tagged") =>
        \A s \in Live : Active(s) => row[s].tags \subseteq form.tags

-----------------------------------------------------------------------------
(* What holds of handlers in flight together *)

\* Handlers in flight that conflict are known to.
ConflictsKnown == \A r, t \in Busy : r # t => Clash(request[r].op, request[t].op) \subseteq strayed

\* A loaded response is whole, and what a deletion or a mark has seen done stays done.
SeenWhole(q) ==
    q.pc = "loaded" => \A s \in q.todo :
        /\ "trash" \notin strayed =>
              /\ q.seen[s].deleted <=> q.seen[s].deletedOn # NoDate
              /\ q.op = "delete" /\ s \in Live /\ q.seen[s].deleted => row[s].deleted
        /\ "spam" \notin strayed =>
              /\ q.seen[s].spam <=> q.seen[s].source # "none"
              /\ q.op = "mark" /\ s \in Live /\ q.seen[s].spam => row[s].spam

\* The tags that are in the cache or about to be.
Promised == form.tags \cup
    {tag \in Tags : \E r \in Requests : /\ request[r].pc = "tagged"
                                       /\ \E s \in request[r].todo : tag \in request[r].seen[s].tags}

\* Where a handler can be; it is about responses that were there, and one of tags about one.
Placed(q) ==
    /\ \A s \in q.todo : row[s].phase # "unborn"
    /\ q.pc \in {"loaded", "tagged"} /\ q.op \in TagOps => \A s, t \in q.todo : s = t
    /\ q.pc = "tagged" => q.op = "add_tag"
    /\ q.pc = "empty" => q.op = "search"

\* What a handler of tags has loaded is still right.
TagsSeen(q) ==
    /\ q.pc # "idle" /\ q.op = "add_tag" => q.form.tags = form.tags
    /\ q.pc # "idle" /\ q.op = "search" =>
          \A s \in Live : Active(s) => row[s].tags \subseteq q.form.tags
    /\ q.pc = "loaded" /\ q.op \in TagOps =>
          \A s \in q.todo \cap Live : Active(s) => q.seen[s].tags \subseteq Promised
    /\ q.pc = "empty" => \A s \in Live : Active(s) => q.tag \notin row[s].tags

TagsInv ==
    "tags" \notin strayed /\ form.live =>
        /\ \A s \in Live : Active(s) => row[s].tags \subseteq Promised
        /\ \A r \in Requests : TagsSeen(request[r])

TogetherInv ==
    /\ ConflictsKnown
    /\ PairsWhole
    /\ TagsInv
    /\ \A r \in Requests : SeenWhole(request[r]) /\ Placed(request[r])

\* The inductive invariant of SubmissionsProofs.
IInv == CoreInv /\ TogetherInv

=============================================================================
