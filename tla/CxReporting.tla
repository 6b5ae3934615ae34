----------------------------- MODULE CxReporting -----------------------------
(***************************************************************************)
(* Quarterly customer experience reports: a collection, its detail records *)
(* and the files of responses uploaded to them                             *)
(* (admin/cx_collections_controller.rb, cx_collection_details_controller,  *)
(* cx_collection_detail_uploads_controller.rb and the models).             *)
(*                                                                         *)
(* The rows of a file are imported inside the transaction that creates the *)
(* upload; the page's 'Process CSV file to database' imports them again,   *)
(* each row in a transaction of its own.  The file itself is in S3.  A     *)
(* deletion is a transaction of two DELETEs.  No table has a foreign key:  *)
(* a step of a transaction does not wait for another transaction, and what *)
(* it writes is seen by the others once it has committed.                  *)
(***************************************************************************)
EXTENDS Naturals, FiniteSets, ActiveRecord

CONSTANTS
    Collections, Details, Uploads,  \* ids
    Rows,                           \* rows of a file
    Jobs,                           \* job ids: 1 .. n
    Requests,                       \* handlers running at the same time
    Operations,                     \* the kinds of request that arrive
    Recorded,                       \* the operations whose events are kept in the model
    MaxDeaths                       \* bound on the handlers that die half way

Phases == {"unborn", "live", "gone"}

States == {"draft", "submitted", "published", "not_reported"}

EventOps == {"submit", "publish", "no_report", "reset"}
Ops == EventOps \cup {"create", "copy", "destroy", "create_detail", "destroy_detail",
                      "upload", "process", "destroy_upload"}

ASSUME JobsAssumption == Jobs \subseteq Nat \ {0}
ASSUME ReportsAssumption == Operations \subseteq Ops /\ Recorded \subseteq Ops /\ MaxDeaths \in Nat
ASSUME IdsAssumption == Collections # {} /\ Details # {} /\ Uploads # {}

VARIABLES
    collection, detail, upload,  \* the tables
    response,                    \* cx_responses
    request,                     \* the handlers in flight
    events,                      \* what the event log records
    notified,                    \* collections whose last submission a mail was queued for
    deaths,                      \* how many handlers died
    processed,                   \* the jobs that were started by hand (history)
    late                         \* responses committed while, or after, their upload or their
                                 \* detail was being deleted (history)

vars == <<collection, detail, upload, response, request, events, notified, deaths, processed, late>>

\* dated: submitted_at is set.
CollectionRow == [phase : Phases, state : States, dated : BOOLEAN]

DetailRow == [phase : Phases, collection : Collections]

\* file: it has an S3 key.
UploadRow == [phase : Phases, detail : Details, job : Jobs \cup {0}, file : BOOLEAN]

Response == [upload : Uploads, detail : Details, job : Jobs, row : Rows]

\* id: what it is about; state, dated: the collection as loaded; job, rest: the import
\* under way and the rows that it has yet to insert; doomed: the responses that its open
\* transaction has deleted.
Handler == [pc : {"idle", "loaded", "importing", "checked", "deleting", "done", "logged"}, op : Ops,
            id : Collections \cup Details \cup Uploads, state : States, dated : BOOLEAN,
            job : Jobs \cup {0}, rest : SUBSET Rows, doomed : SUBSET Response]

Idle == [pc |-> "idle", op |-> "create", id |-> CHOOSE c \in Collections : TRUE,
         state |-> "draft", dated |-> FALSE, job |-> 0, rest |-> {}, doomed |-> {}]

TypeOK ==
    /\ collection \in [Collections -> CollectionRow]
    /\ detail \in [Details -> DetailRow]
    /\ upload \in [Uploads -> UploadRow]
    /\ response \subseteq Response
    /\ request \in [Requests -> Handler]
    /\ events \subseteq Ops \X (Collections \cup Details \cup Uploads)
    /\ notified \subseteq Collections
    /\ deaths \in 0 .. MaxDeaths
    /\ processed \subseteq Jobs
    /\ late \subseteq Response

Init ==
    /\ collection = [c \in Collections |-> [phase |-> "unborn", state |-> "draft", dated |-> FALSE]]
    /\ detail = [d \in Details |-> [phase |-> "unborn", collection |-> CHOOSE c \in Collections : TRUE]]
    /\ upload = [u \in Uploads |->
                   [phase |-> "unborn", detail |-> CHOOSE d \in Details : TRUE, job |-> 0,
                    file |-> FALSE]]
    /\ response = {}
    /\ request = [r \in Requests |-> Idle]
    /\ events = {}
    /\ notified = {}
    /\ deaths = 0
    /\ processed = {}
    /\ late = {}

Tables == <<collection, detail, upload, response>>

Live(table) == {i \in DOMAIN table : table[i].phase = "live"}

Unborn(table) == {i \in DOMAIN table : table[i].phase = "unborn"}

At(r, pc, op) == request[r].pc = pc /\ request[r].op = op

Goto(r, pc) == request' = [request EXCEPT ![r].pc = pc]

\* A handler raises, or has answered.
End(r) == request' = [request EXCEPT ![r] = Idle]

-----------------------------------------------------------------------------
(* Collections *)

Begin(r, handler) ==
    /\ request[r].pc = "idle"
    /\ handler.op \in Operations
    /\ request' = [request EXCEPT ![r] = handler]
    /\ UNCHANGED <<Tables, events, notified, deaths, processed, late>>

\* set_cx_collection, or the collection that a new detail is validated with.
LoadCollection(r, op, c) ==
    /\ op \in EventOps \cup {"copy", "destroy", "create_detail"}
    /\ c \in Live(collection)
    /\ Begin(r, [Idle EXCEPT !.pc = "loaded", !.op = op, !.id = c,
                             !.state = collection[c].state, !.dated = collection[c].dated])

From(op) == CASE op = "submit" -> {"draft"}
              [] op = "publish" -> {"submitted"}
              [] op = "no_report" -> {"draft", "submitted"}
              [] op = "reset" -> States

To(op) == CASE op = "submit" -> "submitted"
            [] op = "publish" -> "published"
            [] op = "no_report" -> "not_reported"
            [] op = "reset" -> "draft"

\* What the save leaves in a row.  Times differ, so that a submission always writes its own.
After(row, h) ==
    [phase |-> row.phase,
     state |-> Written(row.state, h.state, To(h.op)),
     dated |-> IF h.op = "submit" THEN TRUE
               ELSE Written(row.dated, h.dated, h.op # "no_report" /\ h.dated)]

\* Mutant: reset clears submitted_at, too.
Fire_resetClears(r) ==
    LET h == request[r]
    IN  /\ h.pc = "loaded" /\ h.op \in EventOps
        /\ IF h.state \in From(h.op)
           THEN /\ collection' = IF h.id \notin Live(collection) THEN collection
                                 ELSE [collection EXCEPT ![h.id] =
                                         IF h.op = "reset" THEN [After(@, h) EXCEPT !.dated = FALSE]
                                         ELSE After(@, h)]
                /\ notified' = IF h.op = "submit" THEN notified \ {h.id} ELSE notified
                /\ Goto(r, "done")
           ELSE UNCHANGED <<collection, notified>> /\ End(r)
        /\ UNCHANGED <<detail, upload, response, events, deaths, processed, late>>

\* The event on the state as loaded; one transaction writes the state and the date.
Fire(r) ==
    LET h == request[r]
    IN  /\ h.pc = "loaded" /\ h.op \in EventOps
        /\ IF h.state \in From(h.op)
           THEN /\ collection' = IF h.id \notin Live(collection) THEN collection
                                 ELSE [collection EXCEPT ![h.id] = After(@, h)]
                /\ notified' = IF h.op = "submit" THEN notified \ {h.id} ELSE notified
                /\ Goto(r, "done")
           ELSE UNCHANGED <<collection, notified>> /\ End(r)
        /\ UNCHANGED <<detail, upload, response, events, deaths, processed, late>>

\* create
CreateCollection(r, c) ==
    /\ c \in Unborn(collection)
    /\ request[r].pc = "idle" /\ "create" \in Operations
    /\ collection' = [collection EXCEPT ![c] = [phase |-> "live", state |-> "draft", dated |-> FALSE]]
    /\ request' = [request EXCEPT ![r] = [Idle EXCEPT !.pc = "done", !.op = "create", !.id = c]]
    /\ UNCHANGED <<detail, upload, response, events, notified, deaths, processed, late>>

\* duplicate!, whose copy of the row keeps submitted_at.
Copy(r, c) ==
    /\ At(r, "loaded", "copy")
    /\ c \in Unborn(collection)
    /\ collection' = [collection EXCEPT ![c] = [phase |-> "live", state |-> "draft",
                                                dated |-> request[r].dated]]
    /\ Goto(r, "done")
    /\ UNCHANGED <<detail, upload, response, events, notified, deaths, processed, late>>

\* destroy deletes the details, without their callbacks.
DestroyCollection(r) ==
    LET c == request[r].id
    IN  /\ At(r, "loaded", "destroy")
        /\ collection' = [collection EXCEPT ![c].phase = "gone"]
        /\ detail' = [d \in Details |-> IF d \in Live(detail) /\ detail[d].collection = c
                                        THEN [detail[d] EXCEPT !.phase = "gone"] ELSE detail[d]]
        /\ Goto(r, "done")
        /\ UNCHANGED <<upload, response, events, notified, deaths, processed, late>>

-----------------------------------------------------------------------------
(* Details and uploads *)

Batch(u, d, job, rows) == {[upload |-> u, detail |-> d, job |-> job, row |-> i] : i \in rows}

\* SecureRandom.hex
FreshJob(job) ==
    /\ job \notin processed
    /\ \A u \in Uploads : upload[u].job # job
    /\ \A s \in response \cup late : s.job # job
    /\ \A r \in Requests : request[r].job # job /\ \A s \in request[r].doomed : s.job # job

\* Somebody's open transaction is deleting the upload or the detail.
BeingDeleted(u, d) ==
    \E r \in Requests :
        \/ At(r, "deleting", "destroy_upload") /\ request[r].id = u
        \/ At(r, "deleting", "destroy_detail") /\ request[r].id = d

\* create, after the validation; form: its responses are to be imported next.
CreateDetail(r, d, form) ==
    /\ At(r, "loaded", "create_detail")
    /\ d \in Unborn(detail)
    /\ detail' = [detail EXCEPT ![d] = [phase |-> "live", collection |-> request[r].id]]
    /\ request' = [request EXCEPT ![r].pc = "done", ![r].id = d,
                                  ![r].rest = IF form THEN Rows ELSE {}]
    /\ UNCHANGED <<collection, upload, response, events, notified, deaths, processed, late>>

LoadDetail(r, op, d) ==
    /\ op \in {"destroy_detail", "upload"}
    /\ d \in Live(detail)
    /\ Begin(r, [Idle EXCEPT !.pc = "loaded", !.op = op, !.id = d])

\* upload_csv, or create of a detail with a form: create! of the upload opens a transaction
\* and its after_create gets the rows.  The detail is not read again: it is the object
\* at hand, or the row that the query cache still has.
StartImport(r, job) ==
    /\ At(r, "loaded", "upload") \/ At(r, "logged", "create_detail")
    /\ FreshJob(job)
    /\ request' = [request EXCEPT ![r].pc = "importing", ![r].job = job, ![r].rest = Rows]
    /\ UNCHANGED <<Tables, events, notified, deaths, processed, late>>

\* A row is valid while its detail exists; otherwise create! raises and the upload is
\* rolled back.
ImportRow(r, row) ==
    /\ At(r, "importing", "upload") \/ At(r, "importing", "create_detail")
    /\ row \in request[r].rest /\ \A i \in request[r].rest : row <= i
    /\ IF request[r].id \in Live(detail)
       THEN request' = [request EXCEPT ![r].rest = @ \ {row}] ELSE End(r)
    /\ UNCHANGED <<Tables, events, notified, deaths, processed, late>>

\* Mutant: the rows are imported after the commit.
CommitImport_first(r, u) ==
    LET h == request[r]
    IN  /\ h.pc = "importing" /\ h.op \in {"upload", "create_detail"}
        /\ u \in Unborn(upload)
        /\ upload' = [upload EXCEPT ![u] = [phase |-> "live", detail |-> h.id, job |-> h.job,
                                            file |-> h.op = "upload"]]
        /\ response' = response \cup Batch(u, h.id, h.job, Rows \ h.rest)
        /\ UNCHANGED late
        /\ IF h.op = "upload"
           THEN request' = [request EXCEPT ![r] = [Idle EXCEPT !.pc = "done", !.op = h.op, !.id = u]]
           ELSE End(r)
        /\ UNCHANGED <<collection, detail, events, notified, deaths, processed>>

\* The commit shows the upload and all its rows; their detail may be gone by now.
CommitImport(r, u) ==
    LET h == request[r]
        batch == Batch(u, h.id, h.job, Rows)
    IN  /\ h.pc = "importing" /\ h.op \in {"upload", "create_detail"} /\ h.rest = {}
        /\ u \in Unborn(upload)
        /\ upload' = [upload EXCEPT ![u] = [phase |-> "live", detail |-> h.id, job |-> h.job,
                                            file |-> h.op = "upload"]]
        /\ response' = response \cup batch
        /\ late' = IF h.id \in Live(detail) /\ ~BeingDeleted(u, h.id) THEN late
                   ELSE late \cup batch
        /\ IF h.op = "upload"
           THEN request' = [request EXCEPT ![r] = [Idle EXCEPT !.pc = "done", !.op = h.op, !.id = u]]
           ELSE End(r)
        /\ UNCHANGED <<collection, detail, events, notified, deaths, processed>>

\* S3 does not answer, or the form has no responses in the quarter.
ImportFails(r) ==
    /\ At(r, "loaded", "upload") \/ request[r].pc = "importing"
    /\ End(r)
    /\ UNCHANGED <<Tables, events, notified, deaths, processed, late>>

LoadUpload(r, op, u) ==
    /\ op \in {"process", "destroy_upload"}
    /\ u \in Live(upload)
    /\ Begin(r, [Idle EXCEPT !.pc = "loaded", !.op = op, !.id = u])

\* dependent: :delete_all
Owned(h) == {s \in response : IF h.op = "destroy_detail" THEN s.detail = h.id ELSE s.upload = h.id}

\* Mutant: of an upload, only the rows of its last import.
DeleteResponses_lastJob(r) ==
    LET h == request[r]
    IN  /\ h.pc = "loaded" /\ h.op \in {"destroy_detail", "destroy_upload"}
        /\ request' = [request EXCEPT ![r].pc = "deleting",
                                      ![r].doomed = {s \in Owned(h) : s.job = upload[s.upload].job}]
        /\ UNCHANGED <<Tables, events, notified, deaths, processed, late>>

\* The first DELETE of destroy: the responses that are committed by now.
DeleteResponses(r) ==
    LET h == request[r]
    IN  /\ h.pc = "loaded" /\ h.op \in {"destroy_detail", "destroy_upload"}
        /\ request' = [request EXCEPT ![r].pc = "deleting", ![r].doomed = Owned(h)]
        /\ UNCHANGED <<Tables, events, notified, deaths, processed, late>>

\* The second DELETE, and the commit.
DestroyDetail(r) ==
    LET h == request[r]
    IN  /\ At(r, "deleting", "destroy_detail")
        /\ response' = response \ h.doomed
        /\ detail' = [detail EXCEPT ![h.id].phase = "gone"]
        /\ request' = [request EXCEPT ![r].pc = "done", ![r].doomed = {}]
        /\ UNCHANGED <<collection, upload, events, notified, deaths, processed, late>>

\* Mutant: the responses of an upload stay.
DestroyUpload_alone(r) ==
    /\ At(r, "deleting", "destroy_upload")
    /\ upload' = [upload EXCEPT ![request[r].id].phase = "gone"]
    /\ request' = [request EXCEPT ![r].pc = "done", ![r].doomed = {}]
    /\ UNCHANGED <<collection, detail, response, events, notified, deaths, processed, late>>

DestroyUpload(r) ==
    LET h == request[r]
    IN  /\ At(r, "deleting", "destroy_upload")
        /\ response' = response \ h.doomed
        /\ upload' = [upload EXCEPT ![h.id].phase = "gone"]
        /\ request' = [request EXCEPT ![r].pc = "done", ![r].doomed = {}]
        /\ UNCHANGED <<collection, detail, events, notified, deaths, processed, late>>

\* process_csv: a new job id is saved, the file is read.  Without a file that raises.
StartProcess(r, job) ==
    LET u == request[r].id
    IN  /\ At(r, "loaded", "process")
        /\ FreshJob(job)
        /\ upload' = IF u \in Live(upload) THEN [upload EXCEPT ![u].job = job] ELSE upload
        /\ IF upload[u].file
           THEN request' = [request EXCEPT ![r].pc = "importing", ![r].job = job, ![r].rest = Rows]
           ELSE End(r)
        /\ processed' = processed \cup {job}
        /\ UNCHANGED <<collection, detail, response, events, notified, deaths, late>>

\* A row is valid while its upload and its detail exist; otherwise create! raises.
CheckRow(r) ==
    LET u == request[r].id
    IN  /\ At(r, "importing", "process")
        /\ IF request[r].rest # {} /\ u \in Live(upload) /\ upload[u].detail \in Live(detail)
           THEN Goto(r, "checked") ELSE End(r)
        /\ UNCHANGED <<Tables, events, notified, deaths, processed, late>>

InsertRow(r, row) ==
    LET h == request[r]
        d == upload[h.id].detail
        batch == Batch(h.id, d, h.job, {row})
    IN  /\ At(r, "checked", "process")
        /\ row \in h.rest /\ \A i \in h.rest : row <= i
        /\ response' = response \cup batch
        /\ late' = IF h.id \in Live(upload) /\ d \in Live(detail) /\ ~BeingDeleted(h.id, d) THEN late
                   ELSE late \cup batch
        /\ request' = [request EXCEPT ![r].pc = "importing", ![r].rest = @ \ {row}]
        /\ UNCHANGED <<collection, detail, upload, events, notified, deaths, processed>>

-----------------------------------------------------------------------------
(* The end of a handler *)

\* Mutant: no mail when the log has a submission of the collection already.
Log_mailOnce(r) ==
    /\ request[r].pc = "done"
    /\ events' = events \cup ({request[r].op} \cap Recorded) \X {request[r].id}
    /\ IF (request[r].op = "submit" /\ <<"submit", request[r].id>> \notin events) \/ request[r].rest # {}
       THEN Goto(r, "logged") ELSE End(r)
    /\ UNCHANGED <<Tables, notified, deaths, processed, late>>

\* Event.log_event
Log(r) ==
    /\ request[r].pc = "done"
    /\ events' = events \cup ({request[r].op} \cap Recorded) \X {request[r].id}
    /\ IF request[r].op = "submit" \/ request[r].rest # {} THEN Goto(r, "logged") ELSE End(r)
    /\ UNCHANGED <<Tables, notified, deaths, processed, late>>

Notify(r) ==
    /\ At(r, "logged", "submit")
    /\ notified' = notified \cup {request[r].id}
    /\ End(r)
    /\ UNCHANGED <<Tables, events, deaths, processed, late>>

Die(r) ==
    /\ request[r].pc # "idle"
    /\ deaths < MaxDeaths
    /\ deaths' = deaths + 1
    /\ End(r)
    /\ UNCHANGED <<Tables, events, notified, processed, late>>

-----------------------------------------------------------------------------

CollectionStep(r) ==
    \/ \E op \in Ops, c \in Collections : LoadCollection(r, op, c)
    \/ \E c \in Collections : CreateCollection(r, c)
    \/ \E c \in Collections : Copy(r, c)
    \/ Fire(r)
    \/ DestroyCollection(r)

DetailStep(r) ==
    \/ \E d \in Details, form \in BOOLEAN : CreateDetail(r, d, form)
    \/ \E op \in Ops, d \in Details : LoadDetail(r, op, d)
    \/ \E job \in Jobs : StartImport(r, job)
    \/ \E row \in Rows : ImportRow(r, row)
    \/ \E u \in Uploads : CommitImport(r, u)
    \/ ImportFails(r)
    \/ DeleteResponses(r)
    \/ DestroyDetail(r)

UploadStep(r) ==
    \/ \E op \in Ops, u \in Uploads : LoadUpload(r, op, u)
    \/ \E job \in Jobs : StartProcess(r, job)
    \/ CheckRow(r)
    \/ \E row \in Rows : InsertRow(r, row)
    \/ DestroyUpload(r)

RequestStep(r) ==
    CollectionStep(r) \/ DetailStep(r) \/ UploadStep(r) \/ Log(r) \/ Notify(r) \/ Die(r)

Next == \E r \in Requests : RequestStep(r)

Spec == Init /\ [][Next]_vars

-----------------------------------------------------------------------------
(* Properties *)

\* A collection that waits for its review has a submission date, which its page formats
\* without a check, whatever the owner and the managers do at the same time (as long as
\* nobody posts a status to update, which no page does).
SubmittedDated == \A c \in Live(collection) : collection[c].state = "submitted" => collection[c].dated

\* The managers get a mail about every submission, also one after a reset, unless a
\* handler died between the commit and the queue.
Announced ==
    \A c \in Live(collection) : collection[c].state = "submitted" /\ deaths = 0 =>
        \/ c \in notified
        \/ \E r \in Requests : request[r].op = "submit" /\ request[r].id = c
                               /\ request[r].pc \in {"done", "logged"}

RowsOf(set, u, job) == {i \in Rows : \E s \in set : s.upload = u /\ s.job = job /\ s.row = i}

Whole(set) == \A u \in Uploads, job \in Jobs \ processed : RowsOf(set, u, job) \in {{}, Rows}

\* The import that comes with an upload stores all rows or none, whatever fails or dies
\* and whatever is deleted, so that the count on the page tells which.
WholeImport == Whole(response)

\* A response can be traced to its upload and its detail, unless the collection was
\* destroyed, or the transaction that stored the response, the import of an upload or a
\* file processed by hand, met the deletion of one of the two: it committed between the
\* two DELETEs, or after them, with a validation from before.
Traceable ==
    \A s \in response \ late :
        /\ s.upload \in Live(upload)
        /\ \/ s.detail \in Live(detail)
           \/ collection[detail[s.detail].collection].phase = "gone"

\* What a handler in flight refers to.
Known(h) ==
    /\ h.op \in EventOps \cup {"create", "copy", "destroy"} => h.id \in Collections
    /\ h.op = "create_detail" => IF h.pc = "loaded" THEN h.id \in Collections \ Unborn(collection)
                                 ELSE h.id \in Details \ Unborn(detail)
    /\ h.op = "destroy_detail" => h.id \in Details \ Unborn(detail)
    /\ h.op \in {"process", "destroy_upload"} => h.id \in Uploads \ Unborn(upload)
    /\ h.op = "upload" => IF h.pc \in {"loaded", "importing"} THEN h.id \in Details \ Unborn(detail)
                          ELSE h.id \in Uploads
    /\ h.op = "process" /\ h.pc \in {"importing", "checked"} => h.job \in processed
    /\ h.pc = "importing" => h.job # 0 /\ h.op \in {"upload", "create_detail", "process"}
    /\ h.pc = "deleting" => h.op \in {"destroy_detail", "destroy_upload"}

\* Responses belong to an upload, and to its detail.
Related(set) ==
    \A s \in set : upload[s.upload].phase # "unborn" /\ s.detail = upload[s.upload].detail

\* An upload belongs to a detail, and a detail to a collection, that have existed.
Rooted ==
    /\ \A u \in Uploads : upload[u].phase # "unborn" => detail[upload[u].detail].phase # "unborn"
    /\ \A d \in Details : detail[d].phase # "unborn" =>
          collection[detail[d].collection].phase # "unborn"

\* The responses that a deletion under way leaves behind met it.
Swept(h) ==
    /\ Related(h.doomed) /\ Whole(h.doomed)
    /\ h.pc = "deleting" => Owned(h) \subseteq h.doomed \cup late

\* The inductive invariant of CxReportingProofs.
IInv ==
    /\ TypeOK
    /\ SubmittedDated
    /\ WholeImport
    /\ Traceable
    /\ Related(response)
    /\ Rooted
    /\ \A r \in Requests : Known(request[r]) /\ Swept(request[r])

=============================================================================
