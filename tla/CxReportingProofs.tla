-------------------------- MODULE CxReportingProofs --------------------------
(***************************************************************************)
(* For any number of handlers, collections, details, uploads and rows:     *)
(* IInv is an inductive invariant of CxReporting.                          *)
(***************************************************************************)
EXTENDS CxReporting, TLAPS

LEMMA IdleType == Idle \in Handler /\ Known(Idle) /\ Swept(Idle)
<1>1. "create" \in Ops
  BY DEF Ops
<1>2. (CHOOSE c \in Collections : TRUE) \in Collections
  BY IdsAssumption
<1>3. Idle \in Handler
  BY <1>1, <1>2 DEF Idle, Handler, States
<1>4. Known(Idle)
  BY <1>2 DEF Idle, Known, EventOps
<1>5. Swept(Idle)
  BY DEF Idle, Swept, Related, Whole, RowsOf
<1>6. QED
  BY <1>3, <1>4, <1>5

LEMMA InvInit == Init => IInv
<1> SUFFICES ASSUME Init PROVE IInv
  OBVIOUS
<1>1. TypeOK
  <2>1. collection \in [Collections -> CollectionRow]
    BY DEF Init, CollectionRow, Phases, States
  <2>2. detail \in [Details -> DetailRow]
    BY IdsAssumption DEF Init, DetailRow, Phases
  <2>3. upload \in [Uploads -> UploadRow]
    BY IdsAssumption DEF Init, UploadRow, Phases
  <2>4. request \in [Requests -> Handler]
    BY IdleType DEF Init
  <2>5. response \subseteq Response /\ events \subseteq Ops \X (Collections \cup Details \cup Uploads)
        /\ notified \subseteq Collections /\ processed \subseteq Jobs /\ late \subseteq Response
    BY DEF Init
  <2>6. deaths \in 0 .. MaxDeaths
    BY ReportsAssumption DEF Init
  <2>7. QED
    BY <2>1, <2>2, <2>3, <2>4, <2>5, <2>6 DEF TypeOK
<1>2. SubmittedDated /\ Traceable
  BY DEF Init, SubmittedDated, Traceable, Live
<1>3. WholeImport
  BY DEF Init, WholeImport, Whole, RowsOf
<1>4. Related(response) /\ Rooted
  BY IdsAssumption DEF Init, Related, Rooted
<1>5. \A r \in Requests : Known(request[r]) /\ Swept(request[r])
  BY IdleType DEF Init
<1>6. QED
  BY <1>1, <1>2, <1>3, <1>4, <1>5 DEF IInv

-----------------------------------------------------------------------------
(* Steps that leave the tables alone *)

LEMMA HandlerStep ==
    ASSUME IInv, NEW r \in Requests, NEW new \in Handler, Known(new), Swept(new),
           request' = [request EXCEPT ![r] = new],
           UNCHANGED <<Tables, processed, late>>, deaths' \in 0 .. MaxDeaths,
           events' \subseteq Ops \X (Collections \cup Details \cup Uploads),
           notified' \subseteq Collections
    PROVE  IInv'
<1>1. UNCHANGED <<collection, detail, upload, response, processed, late>>
  BY DEF Tables
<1>2. TypeOK'
  BY <1>1 DEF IInv, TypeOK
<1>3. SubmittedDated' /\ Traceable' /\ Related(response)' /\ Rooted'
  BY <1>1 DEF IInv, SubmittedDated, Traceable, Related, Rooted, Live
<1>4. WholeImport'
  BY <1>1 DEF IInv, WholeImport, Whole, RowsOf
<1>5. \A t \in Requests : Known(request[t])' /\ Swept(request[t])'
  <2> TAKE t \in Requests
  <2>1. request'[t] = IF t = r THEN new ELSE request[t]
    BY DEF IInv, TypeOK
  <2>2. Known(request'[t]) /\ Swept(request'[t])
    BY <2>1 DEF IInv
  <2>3. Known(request[t])'
    BY <2>2, <1>1 DEF Known, Unborn
  <2>4. Swept(request[t])'
    BY <2>2, <1>1 DEF Swept, Related, Whole, RowsOf, Owned
  <2>5. QED
    BY <2>3, <2>4
<1>6. QED
  BY <1>2, <1>3, <1>4, <1>5 DEF IInv

\* Handlers keep what they refer to when no id is born and no row forgotten.
LEMMA KnownKept ==
    ASSUME IInv, NEW r \in Requests, NEW new,
           request' = [request EXCEPT ![r] = new], Known(new)',
           \A c \in Collections : collection[c].phase # "unborn" => collection'[c].phase # "unborn",
           \A d \in Details : detail[d].phase # "unborn" => detail'[d].phase # "unborn",
           \A u \in Uploads : upload[u].phase # "unborn" => upload'[u].phase # "unborn",
           DOMAIN collection' = Collections, DOMAIN detail' = Details, DOMAIN upload' = Uploads,
           processed \subseteq processed'
    PROVE  \A t \in Requests : Known(request[t])'
<1> TAKE t \in Requests
<1>1. request'[t] = IF t = r THEN new ELSE request[t]
  BY DEF IInv, TypeOK
<1>2. CASE t = r
  BY <1>1, <1>2 DEF Known, Unborn
<1>3. CASE t # r
  <2>1. request'[t] = request[t] /\ Known(request[t])
    BY <1>1, <1>3 DEF IInv
  <2>2. DOMAIN collection = Collections /\ DOMAIN detail = Details /\ DOMAIN upload = Uploads
    BY DEF IInv, TypeOK
  <2>3. QED
    BY <2>1, <2>2 DEF Known, Unborn
<1>4. QED
  BY <1>2, <1>3

\* Deletions under way stay complete when a response of theirs that is new is late.
LEMMA SweptKept ==
    ASSUME IInv, NEW r \in Requests, NEW new,
           request' = [request EXCEPT ![r] = new], Swept(new)',
           \A u \in Uploads : upload[u].phase # "unborn" =>
               upload'[u].phase # "unborn" /\ upload'[u].detail = upload[u].detail,
           processed \subseteq processed', late \subseteq late',
           \A t \in Requests \ {r}, s \in response' :
               request[t].pc = "deleting" /\ s \in Owned(request[t])' /\ s \notin response => s \in late'
    PROVE  \A t \in Requests : Swept(request[t])'
<1> SUFFICES ASSUME NEW t \in Requests, t # r PROVE Swept(request[t])'
  <2>1. request'[r] = new
    BY DEF IInv, TypeOK
  <2>2. Swept(request[r])'
    BY <2>1 DEF Swept, Related, Whole, RowsOf, Owned
  <2>3. QED
    BY <2>2
<1>0. PICK h : h = request[t]
  OBVIOUS
<1>1. request'[t] = h /\ Swept(h) /\ h.doomed \subseteq Response
  BY <1>0 DEF IInv, TypeOK, Handler
<1>2. Related(h.doomed)'
  BY <1>1 DEF Swept, Related, Response
<1>3. Whole(h.doomed)'
  BY <1>1 DEF Swept, Whole, RowsOf
<1>4. h.pc = "deleting" => Owned(h)' \subseteq h.doomed \cup late'
  BY <1>0, <1>1 DEF Swept, Owned
<1>5. Swept(h)'
  BY <1>2, <1>3, <1>4 DEF Swept
<1>6. QED
  BY <1>1, <1>5 DEF Swept, Related, Whole, RowsOf, Owned

-----------------------------------------------------------------------------
(* Steps of collections *)

\* A step that changes collections only, and revives none.
LEMMA CollectionChange ==
    ASSUME IInv, NEW r \in Requests, NEW new \in Handler, Known(new), Swept(new),
           request' = [request EXCEPT ![r] = new],
           collection' \in [Collections -> CollectionRow], SubmittedDated',
           \A c \in Collections : collection[c].phase # "unborn" => collection'[c].phase # "unborn",
           \A c \in Collections : collection[c].phase = "gone" => collection'[c].phase = "gone",
           notified' \subseteq Collections,
           UNCHANGED <<detail, upload, response, events, deaths, processed, late>>
    PROVE  IInv'
<1>1. TypeOK'
  BY DEF IInv, TypeOK
<1>2. \A s \in response : s.upload \in Uploads /\ s.detail \in Details
  BY DEF IInv, TypeOK, Response
<1>3. \A d \in Details : detail[d].collection \in Collections
  BY DEF IInv, TypeOK, DetailRow
<1>4. Traceable'
  <2> SUFFICES ASSUME NEW s \in response \ late
               PROVE  /\ s.upload \in Live(upload)
                      /\ \/ s.detail \in Live(detail)
                         \/ collection'[detail[s.detail].collection].phase = "gone"
    BY DEF Traceable, Live
  <2>1. QED
    BY <1>2, <1>3 DEF IInv, Traceable
<1>5. Related(response)' /\ Rooted'
  BY <1>3 DEF IInv, Related, Rooted
<1>6. WholeImport'
  BY DEF IInv, WholeImport, Whole, RowsOf
<1>7. \A t \in Requests : Known(request[t])'
  <2>1. DOMAIN collection = Collections /\ DOMAIN collection' = Collections
    BY DEF IInv, TypeOK
  <2>2. Known(new)'
    BY <2>1 DEF Known, Unborn
  <2>3. QED
    BY <2>2, KnownKept DEF IInv, TypeOK
<1>8. \A t \in Requests : Swept(request[t])'
  <2>1. Swept(new)'
    BY DEF Swept, Related, Whole, RowsOf, Owned
  <2>2. \A s \in response' : s \in response
    OBVIOUS
  <2>3. QED
    BY <2>1, <2>2, SweptKept
<1>9. QED
  BY <1>1, <1>4, <1>5, <1>6, <1>7, <1>8 DEF IInv

LEMMA CollectionType ==
    ASSUME IInv
    PROVE  /\ DOMAIN collection = Collections /\ DOMAIN detail = Details /\ DOMAIN upload = Uploads
           /\ \A c \in Collections : collection[c].phase \in Phases /\ collection[c].state \in States
                                    /\ collection[c].dated \in BOOLEAN
           /\ \A c \in Collections : collection[c] \in CollectionRow
           /\ \A r \in Requests : request[r] \in Handler /\ Known(request[r]) /\ Swept(request[r])
BY DEF IInv, TypeOK, CollectionRow

\* A handler that goes on sweeps what it swept, when it deletes nothing now.
LEMMA SweptGoto ==
    ASSUME NEW h, NEW new, Swept(h), new.doomed = h.doomed, new.pc # "deleting"
    PROVE  Swept(new)
BY DEF Swept

LEMMA InvFire == ASSUME IInv, NEW r \in Requests, Fire(r) PROVE IInv'
<1> DEFINE h == request[r]
<1>1. h \in Handler /\ Known(h) /\ h.pc = "loaded" /\ h.op \in EventOps
  BY CollectionType DEF Fire
<1>2. h.id \in Collections /\ h.state \in States /\ h.dated \in BOOLEAN
  BY <1>1 DEF Known, Handler
<1>3. CASE h.state \notin From(h.op)
  <2>1. request' = [request EXCEPT ![r] = Idle] /\ UNCHANGED <<Tables, processed, late>>
        /\ UNCHANGED <<deaths, events, notified>>
    BY <1>3 DEF Fire, End, Tables
  <2>2. deaths' \in 0 .. MaxDeaths /\ notified' \subseteq Collections
        /\ events' \subseteq Ops \X (Collections \cup Details \cup Uploads)
    BY <2>1 DEF IInv, TypeOK
  <2>3. QED
    BY <2>1, <2>2, HandlerStep, IdleType
<1>4. CASE h.state \in From(h.op)
  <2> DEFINE new == [h EXCEPT !.pc = "done"]
             row == After(collection[h.id], h)
  <2>1. request' = [request EXCEPT ![r] = new]
    BY <1>4 DEF Fire, Goto
  <2>2. new \in Handler /\ Known(new) /\ Swept(new)
    <3>1. /\ new \in Handler /\ new.doomed = h.doomed /\ new.pc = "done"
          /\ new.op = h.op /\ new.id = h.id
      BY <1>1 DEF Handler
    <3>2. Known(new)
      BY <1>1, <1>2, <3>1 DEF Known, EventOps
    <3>3. Swept(new)
      BY <3>1, CollectionType, SweptGoto
    <3>4. QED
      BY <3>1, <3>2, <3>3
  <2>3. To(h.op) \in States /\ (h.op # "submit" => To(h.op) # "submitted")
    BY <1>1 DEF To, EventOps, States
  <2>4. row \in CollectionRow
    <3>1. row.state \in States
      BY <1>2, <2>3, CollectionType DEF Written, After
    <3>2. row.dated \in BOOLEAN
      BY <1>2, CollectionType DEF Written, After
    <3>3. row.phase \in Phases
      BY <1>2, CollectionType DEF After
    <3>4. QED
      BY <3>1, <3>2, <3>3 DEF CollectionRow, After
  <2>5. row.phase = collection[h.id].phase
    BY DEF After
  <2>7. row.state = "submitted" /\ collection[h.id].phase = "live" => row.dated
    <3> SUFFICES ASSUME row.state = "submitted", collection[h.id].phase = "live", h.op # "submit"
                 PROVE  row.dated
      BY DEF After
    <3>2. collection[h.id].state = "submitted" /\ To(h.op) = h.state
      BY <2>3 DEF Written, After
    <3>3. collection[h.id].dated
      BY <3>2, <1>2, CollectionType DEF IInv, SubmittedDated, Live
    <3>4. h.op # "no_report"
      BY <3>2, <1>4, <1>1 DEF To, From, EventOps
    <3>5. (h.op # "no_report" /\ h.dated) = h.dated
      BY <3>4, <1>2
    <3>6. QED
      BY <3>3, <3>5 DEF Written, After
  <2>8. collection' = collection \/ collection' = [collection EXCEPT ![h.id] = row]
    BY <1>4, Zenon DEF Fire
  <2> HIDE DEF row
  <2>9. \A c \in Collections : collection'[c] = collection[c] \/ (c = h.id /\ collection'[c] = row)
    BY <2>8, <1>2, CollectionType
  <2>10. collection' \in [Collections -> CollectionRow]
    BY <2>8, <2>4 DEF IInv, TypeOK
  <2>11. SubmittedDated'
    <3> SUFFICES ASSUME NEW c \in Collections, collection'[c].phase = "live",
                        collection'[c].state = "submitted"
                 PROVE  collection'[c].dated
      BY <2>10 DEF SubmittedDated, Live
    <3>1. CASE collection'[c] = collection[c]
      BY <3>1, CollectionType DEF IInv, SubmittedDated, Live
    <3>2. CASE c = h.id /\ collection'[c] = row
      BY <3>2, <2>5, <2>7
    <3>3. QED
      BY <3>1, <3>2, <2>9
  <2>12. notified' \subseteq Collections
    BY <1>4 DEF Fire, IInv, TypeOK
  <2>13. UNCHANGED <<detail, upload, response, events, deaths, processed, late>>
    BY DEF Fire
  <2>14. \A c \in Collections : collection'[c].phase = collection[c].phase
    BY <2>9, <2>5
  <2> HIDE DEF new
  <2>15. QED
    BY <2>1, <2>2, <2>10, <2>11, <2>12, <2>13, <2>14, CollectionChange
<1>5. QED
  BY <1>3, <1>4

LEMMA InvCreateCollection ==
    ASSUME IInv, NEW r \in Requests, NEW c \in Collections, CreateCollection(r, c)
    PROVE  IInv'
<1> DEFINE new == [Idle EXCEPT !.pc = "done", !.op = "create", !.id = c]
<1>1. new \in Handler
  BY IdleType DEF Handler, Ops
<1>2. Known(new) /\ Swept(new)
  <2>1. Known(new)
    BY IdleType DEF Known, EventOps, Idle
  <2>2. Swept(new)
    BY IdleType, SweptGoto DEF Idle
  <2>3. QED
    BY <2>1, <2>2
<1>3. collection' \in [Collections -> CollectionRow]
  BY DEF CreateCollection, IInv, TypeOK, CollectionRow, Phases, States
<1>4. SubmittedDated'
  <2>1. \A k \in Collections : k # c => collection'[k] = collection[k]
    BY CollectionType DEF CreateCollection
  <2>2. collection'[c].state = "draft"
    BY CollectionType DEF CreateCollection
  <2>3. QED
    BY <2>1, <2>2, <1>3, CollectionType DEF IInv, SubmittedDated, Live
<1>5. \A k \in Collections : collection[k].phase # "unborn" => collection'[k].phase # "unborn"
  BY CollectionType DEF CreateCollection, Unborn
<1>9. \A k \in Collections : collection[k].phase = "gone" => collection'[k].phase = "gone"
  BY CollectionType DEF CreateCollection, Unborn
<1>6. notified' \subseteq Collections
  BY DEF CreateCollection, IInv, TypeOK
<1>7. request' = [request EXCEPT ![r] = new]
      /\ UNCHANGED <<detail, upload, response, events, deaths, processed, late>>
  BY DEF CreateCollection
<1> HIDE DEF new
<1>8. QED
  BY <1>1, <1>2, <1>3, <1>4, <1>5, <1>6, <1>7, <1>9, CollectionChange

LEMMA InvCopy ==
    ASSUME IInv, NEW r \in Requests, NEW c \in Collections, Copy(r, c)
    PROVE  IInv'
<1> DEFINE new == [request[r] EXCEPT !.pc = "done"]
<1>1. request[r] \in Handler /\ request[r].op = "copy" /\ request[r].dated \in BOOLEAN
  BY CollectionType DEF Copy, At, Handler
<1>2. new \in Handler
  BY <1>1 DEF Handler
<1>3. Known(new) /\ Swept(new)
  <2>1. /\ new.doomed = request[r].doomed /\ new.pc = "done" /\ new.op = "copy"
        /\ new.id = request[r].id
    BY <1>1 DEF Handler
  <2>2. Known(new)
    BY <1>1, <2>1, CollectionType DEF Known, EventOps
  <2>3. Swept(new)
    BY <2>1, CollectionType, SweptGoto
  <2>4. QED
    BY <2>2, <2>3
<1>4. collection' \in [Collections -> CollectionRow]
  BY <1>1 DEF Copy, IInv, TypeOK, CollectionRow, Phases, States
<1>5. SubmittedDated'
  BY <1>4, CollectionType DEF Copy, IInv, SubmittedDated, Live
<1>6. \A k \in Collections : /\ collection[k].phase # "unborn" => collection'[k].phase # "unborn"
                            /\ collection[k].phase = "gone" => collection'[k].phase = "gone"
  BY CollectionType DEF Copy, Unborn
<1>7. notified' \subseteq Collections
  BY DEF Copy, IInv, TypeOK
<1>8. QED
  BY <1>2, <1>3, <1>4, <1>5, <1>6, <1>7, CollectionChange DEF Copy, Goto

LEMMA InvDestroyCollection ==
    ASSUME IInv, NEW r \in Requests, DestroyCollection(r)
    PROVE  IInv'
<1> DEFINE c == request[r].id
<1>0. PICK new : new = [request[r] EXCEPT !.pc = "done"]
  OBVIOUS
<1>1. request[r] \in Handler /\ Known(request[r]) /\ request[r].op = "destroy" /\ c \in Collections
  BY CollectionType DEF DestroyCollection, At, Known
<1>2. new \in Handler /\ Known(new)' /\ Swept(new)
  <2>1. new \in Handler /\ new.doomed = request[r].doomed
    BY <1>0, <1>1 DEF Handler
  <2>2. new.id = c /\ new.op = "destroy" /\ new.pc = "done"
    BY <1>0, <1>1 DEF Handler
  <2>3. Known(new)'
    BY <1>1, <2>2 DEF Known, EventOps
  <2>4. Swept(new)
    BY <2>1, <2>2, CollectionType, SweptGoto
  <2>5. QED
    BY <2>1, <2>3, <2>4
<1>3. /\ collection' = [collection EXCEPT ![c].phase = "gone"]
      /\ request' = [request EXCEPT ![r] = new]
      /\ UNCHANGED <<upload, response, events, notified, deaths, processed, late>>
  BY <1>0 DEF DestroyCollection, Goto
<1>4. /\ collection' \in [Collections -> CollectionRow]
      /\ collection'[c].phase = "gone"
      /\ \A k \in Collections : collection'[k] = collection[k] \/ k = c
  BY <1>1, <1>3, CollectionType DEF IInv, TypeOK, CollectionRow, Phases
<1>5. \A d \in Details : /\ detail'[d].collection = detail[d].collection
                        /\ \/ detail'[d] = detail[d]
                           \/ detail'[d].phase = "gone" /\ detail[d].phase = "live"
                              /\ detail[d].collection = c
  BY DEF DestroyCollection, Live
<1>6. detail' \in [Details -> DetailRow]
  <2> SUFFICES ASSUME NEW d \in Details
               PROVE  [detail[d] EXCEPT !.phase = "gone"] \in DetailRow /\ detail[d] \in DetailRow
    BY DEF DestroyCollection
  <2>1. QED
    BY DEF IInv, TypeOK, DetailRow, Phases
<1>7. TypeOK'
  <2>1. request' \in [Requests -> Handler]
    BY <1>2, <1>3 DEF IInv, TypeOK
  <2>2. QED
    BY <1>3, <1>4, <1>6, <2>1 DEF IInv, TypeOK
<1>8. SubmittedDated'
  <2>1. \A k \in Collections : k # c => collection'[k] = collection[k]
    BY <1>4
  <2>2. QED
    BY <2>1, <1>4, CollectionType DEF IInv, SubmittedDated, Live
<1>9. \A s \in response : s.upload \in Uploads /\ s.detail \in Details
  BY DEF IInv, TypeOK, Response
<1>10. \A d \in Details : detail[d].collection \in Collections
  BY DEF IInv, TypeOK, DetailRow
<1>11. Traceable'
  <2> SUFFICES ASSUME NEW s \in response \ late
               PROVE  /\ s.upload \in Live(upload)
                      /\ \/ detail'[s.detail].phase = "live"
                         \/ collection'[detail'[s.detail].collection].phase = "gone"
    BY <1>3, <1>6, <1>9 DEF Traceable, Live
  <2>1. /\ s.upload \in Live(upload)
        /\ s.detail \in Live(detail) \/ collection[detail[s.detail].collection].phase = "gone"
    BY DEF IInv, Traceable
  <2>2. \A k \in Collections : collection[k].phase = "gone" => collection'[k].phase = "gone"
    BY <1>4
  <2>3. QED
    BY <2>1, <2>2, <1>4, <1>5, <1>9, <1>10 DEF Live
<1>12. Related(response)' /\ Rooted'
  <2>1. \A d \in Details : detail'[d].phase # "unborn" <=> detail[d].phase # "unborn"
    BY <1>5
  <2>2. \A k \in Collections : collection[k].phase # "unborn" => collection'[k].phase # "unborn"
    BY <1>4
  <2>3. \A u \in Uploads : upload[u].detail \in Details
    BY DEF IInv, TypeOK, UploadRow
  <2>4. QED
    BY <1>3, <1>5, <1>9, <1>10, <2>1, <2>2, <2>3 DEF IInv, Related, Rooted
<1>13. WholeImport'
  BY <1>3 DEF IInv, WholeImport, Whole, RowsOf
<1>14. \A t \in Requests : Known(request[t])'
  <2>1. DOMAIN collection' = Collections /\ DOMAIN detail' = Details /\ DOMAIN upload' = Uploads
    BY <1>4, <1>6, <1>3, CollectionType
  <2>2. /\ \A d \in Details : detail[d].phase # "unborn" => detail'[d].phase # "unborn"
        /\ \A k \in Collections : collection[k].phase # "unborn" => collection'[k].phase # "unborn"
    BY <1>4, <1>5
  <2>3. QED
    BY <1>2, <1>3, <2>1, <2>2, KnownKept
<1>15. \A t \in Requests : Swept(request[t])'
  <2>1. Swept(new)'
    BY <1>2, <1>3 DEF Swept, Related, Whole, RowsOf, Owned
  <2>2. QED
    BY <1>3, <2>1, SweptKept
<1>16. QED
  BY <1>7, <1>8, <1>11, <1>12, <1>13, <1>14, <1>15 DEF IInv

-----------------------------------------------------------------------------
(* Sets of responses *)

\* What is whole, less what is whole, is whole.
LEMMA WholeMinus ==
    ASSUME NEW A, NEW B, A \subseteq Response, B \subseteq Response,
           Related(A), Related(B), Whole(A), Whole(B)
    PROVE  Whole(A \ B)
<1> SUFFICES ASSUME NEW u \in Uploads, NEW job \in Jobs \ processed
             PROVE  RowsOf(A \ B, u, job) \in {{}, Rows}
  BY DEF Whole
<1>1. RowsOf(A, u, job) \in {{}, Rows} /\ RowsOf(B, u, job) \in {{}, Rows}
  BY DEF Whole
<1>2. \A s, t \in Response : /\ s.upload = t.upload /\ s.detail = t.detail
                            /\ s.job = t.job /\ s.row = t.row => s = t
  BY DEF Response
<1>3. \A s \in A, t \in B : s.upload = u /\ t.upload = u => s.detail = t.detail
  BY DEF Related
<1>4. RowsOf(A \ B, u, job) = RowsOf(A, u, job) \ RowsOf(B, u, job)
  <2>1. ASSUME NEW i \in RowsOf(A \ B, u, job) PROVE i \in RowsOf(A, u, job) \ RowsOf(B, u, job)
    <3>1. PICK s \in A \ B : s.upload = u /\ s.job = job /\ s.row = i
      BY <2>1 DEF RowsOf
    <3>2. i \in RowsOf(A, u, job)
      BY <2>1, <3>1 DEF RowsOf
    <3>3. ASSUME NEW t \in B, t.upload = u, t.job = job, t.row = i PROVE FALSE
      BY <1>2, <1>3, <3>1, <3>3
    <3>4. QED
      BY <3>2, <3>3 DEF RowsOf
  <2>2. ASSUME NEW i \in RowsOf(A, u, job) \ RowsOf(B, u, job) PROVE i \in RowsOf(A \ B, u, job)
    BY <2>2 DEF RowsOf
  <2>3. QED
    BY <2>1, <2>2
<1>5. QED
  BY <1>1, <1>4

\* A detail, or an upload, owns whole imports.
LEMMA OwnedWhole ==
    ASSUME IInv, NEW h
    PROVE  Owned(h) \subseteq Response /\ Related(Owned(h)) /\ Whole(Owned(h))
<1>1. Owned(h) \subseteq response /\ response \subseteq Response
  BY DEF Owned, IInv, TypeOK
<1>2. Related(Owned(h))
  BY <1>1 DEF IInv, Related
<1>3. ASSUME NEW u \in Uploads, NEW job \in Jobs \ processed
      PROVE  RowsOf(Owned(h), u, job) \in {{}, Rows}
  <2>1. RowsOf(response, u, job) \in {{}, Rows}
    BY DEF IInv, WholeImport, Whole
  <2>2. \A s \in response : s.upload = u => s.detail = upload[u].detail
    BY DEF IInv, Related
  <2>3. CASE IF h.op = "destroy_detail" THEN upload[u].detail = h.id ELSE u = h.id
    <3>1. \A s \in response : s.upload = u => s \in Owned(h)
      BY <2>2, <2>3 DEF Owned
    <3>2. RowsOf(Owned(h), u, job) = RowsOf(response, u, job)
      BY <1>1, <3>1 DEF RowsOf
    <3>3. QED
      BY <2>1, <3>2
  <2>4. CASE ~(IF h.op = "destroy_detail" THEN upload[u].detail = h.id ELSE u = h.id)
    <3>1. \A s \in Owned(h) : s.upload # u
      BY <2>2, <2>4 DEF Owned
    <3>2. QED
      BY <3>1 DEF RowsOf
  <2>5. QED
    BY <2>3, <2>4
<1>4. QED
  BY <1>1, <1>2, <1>3 DEF Whole

-----------------------------------------------------------------------------
(* Steps of details *)

LEMMA InvCreateDetail ==
    ASSUME IInv, NEW r \in Requests, NEW d \in Details, NEW form \in BOOLEAN, CreateDetail(r, d, form)
    PROVE  IInv'
<1> DEFINE c == request[r].id
<1>0. PICK new : new = [request[r] EXCEPT !.pc = "done", !.id = d, !.rest = IF form THEN Rows ELSE {}]
  OBVIOUS
<1>1. /\ request[r] \in Handler /\ request[r].op = "create_detail"
      /\ c \in Collections /\ collection[c].phase # "unborn"
  BY CollectionType DEF CreateDetail, At, Known, Unborn
<1>2. /\ request' = [request EXCEPT ![r] = new]
      /\ detail' = [detail EXCEPT ![d] = [phase |-> "live", collection |-> c]]
      /\ UNCHANGED <<collection, upload, response, events, notified, deaths, processed, late>>
      /\ detail[d].phase = "unborn"
  BY <1>0 DEF CreateDetail, Unborn
<1>3. /\ detail' \in [Details -> DetailRow]
      /\ detail'[d].phase = "live" /\ detail'[d].collection = c
      /\ \A e \in Details \ {d} : detail'[e] = detail[e]
  BY <1>1, <1>2 DEF IInv, TypeOK, DetailRow, Phases
<1>4. new \in Handler /\ Known(new)' /\ Swept(new)'
  <2>1. /\ new \in Handler /\ new.op = "create_detail" /\ new.id = d /\ new.pc = "done"
        /\ new.doomed = request[r].doomed
    BY <1>0, <1>1 DEF Handler
  <2>2. Known(new)'
    BY <1>3, <2>1 DEF Known, Unborn, EventOps
  <2>3. Swept(new)
    BY <2>1, CollectionType, SweptGoto
  <2>4. QED
    BY <1>2, <2>1, <2>2, <2>3 DEF Swept, Related, Whole, RowsOf, Owned
<1>5. TypeOK'
  BY <1>2, <1>3, <1>4 DEF IInv, TypeOK
<1>6. \A s \in response : s.detail \in Details /\ s.detail # d
  <2> TAKE s \in response
  <2>1. s.upload \in Uploads /\ s.detail \in Details
    BY DEF IInv, TypeOK, Response
  <2>2. detail[s.detail].phase # "unborn"
    BY <2>1 DEF IInv, Related, Rooted
  <2>3. QED
    BY <2>1, <2>2, <1>2
<1>7. Traceable'
  BY <1>2, <1>3, <1>6, CollectionType DEF IInv, Traceable, Live
<1>8. Related(response)' /\ Rooted'
  <2>1. \A u \in Uploads : upload[u].detail \in Details
    BY DEF IInv, TypeOK, UploadRow
  <2>2. QED
    BY <1>1, <1>2, <1>3, <2>1 DEF IInv, Related, Rooted
<1>9. WholeImport' /\ SubmittedDated'
  BY <1>2 DEF IInv, WholeImport, Whole, RowsOf, SubmittedDated, Live
<1>10. \A t \in Requests : Known(request[t])'
  BY <1>2, <1>3, <1>4, CollectionType, KnownKept
<1>11. \A t \in Requests : Swept(request[t])'
  BY <1>2, <1>4, SweptKept
<1>12. QED
  BY <1>5, <1>7, <1>8, <1>9, <1>10, <1>11 DEF IInv

\* A handler that ends without touching a table.
LEMMA InvEnd ==
    ASSUME IInv, NEW r \in Requests, End(r), UNCHANGED <<Tables, events, notified, deaths, processed, late>>
    PROVE  IInv'
<1>1. deaths' \in 0 .. MaxDeaths /\ notified' \subseteq Collections
      /\ events' \subseteq Ops \X (Collections \cup Details \cup Uploads)
  BY DEF IInv, TypeOK
<1>2. QED
  BY <1>1, HandlerStep, IdleType DEF End

\* A handler that goes on without touching a table.
LEMMA InvGoOn ==
    ASSUME IInv, NEW r \in Requests, NEW new \in Handler, Known(new), Swept(new),
           request' = [request EXCEPT ![r] = new],
           UNCHANGED <<Tables, events, notified, deaths, processed, late>>
    PROVE  IInv'
<1>1. deaths' \in 0 .. MaxDeaths /\ notified' \subseteq Collections
      /\ events' \subseteq Ops \X (Collections \cup Details \cup Uploads)
  BY DEF IInv, TypeOK
<1>2. QED
  BY <1>1, HandlerStep

LEMMA InvStartImport ==
    ASSUME IInv, NEW r \in Requests, NEW job \in Jobs, StartImport(r, job)
    PROVE  IInv'
<1>0. job # 0
  BY JobsAssumption
<1>1. PICK new : new = [request[r] EXCEPT !.pc = "importing", !.job = job, !.rest = Rows]
  OBVIOUS
<1>2. /\ request[r] \in Handler /\ Known(request[r]) /\ Swept(request[r])
      /\ At(r, "loaded", "upload") \/ At(r, "logged", "create_detail")
      /\ request' = [request EXCEPT ![r] = new]
      /\ UNCHANGED <<Tables, events, notified, deaths, processed, late>>
  BY <1>1, CollectionType DEF StartImport
<1>3. /\ new \in Handler /\ new.op = request[r].op /\ new.id = request[r].id
      /\ new.pc = "importing" /\ new.doomed = request[r].doomed /\ new.job = job
  BY <1>1, <1>2 DEF Handler
<1>4. Known(new)
  BY <1>0, <1>2, <1>3 DEF Known, At, EventOps
<1>5. Swept(new)
  BY <1>2, <1>3, SweptGoto
<1>6. QED
  BY <1>2, <1>3, <1>4, <1>5, InvGoOn

LEMMA InvImportRow ==
    ASSUME IInv, NEW r \in Requests, NEW row \in Rows, ImportRow(r, row)
    PROVE  IInv'
<1>1. UNCHANGED <<Tables, events, notified, deaths, processed, late>>
  BY DEF ImportRow
<1>2. CASE request[r].id \notin Live(detail)
  BY <1>1, <1>2, InvEnd DEF ImportRow
<1>3. CASE request[r].id \in Live(detail)
  <2>1. PICK new : new = [request[r] EXCEPT !.rest = @ \ {row}]
    OBVIOUS
  <2>2. /\ request[r] \in Handler /\ Known(request[r]) /\ Swept(request[r])
        /\ request[r].pc = "importing" /\ request' = [request EXCEPT ![r] = new]
    BY <1>3, <2>1, CollectionType DEF ImportRow, At
  <2>3. /\ new \in Handler /\ new.op = request[r].op /\ new.id = request[r].id
        /\ new.pc = "importing" /\ new.job = request[r].job /\ new.doomed = request[r].doomed
    BY <2>1, <2>2 DEF Handler
  <2>4. Known(new)
    BY <2>2, <2>3 DEF Known
  <2>5. Swept(new)
    BY <2>2, <2>3, SweptGoto
  <2>6. QED
    BY <1>1, <2>2, <2>3, <2>4, <2>5, InvGoOn
<1>4. QED
  BY <1>2, <1>3

\* An import commits all its rows, and counts as late if their detail is being deleted.
LEMMA InvCommitImport ==
    ASSUME IInv, NEW r \in Requests, NEW u \in Uploads, CommitImport(r, u)
    PROVE  IInv'
<1>0. PICK new, d, job, batch :
         /\ d = request[r].id /\ job = request[r].job /\ batch = Batch(u, d, job, Rows)
         /\ new = IF request[r].op = "upload"
                  THEN [Idle EXCEPT !.pc = "done", !.op = request[r].op, !.id = u] ELSE Idle
  OBVIOUS
<1>1. /\ request[r] \in Handler /\ request[r].pc = "importing"
      /\ request[r].op \in {"upload", "create_detail"}
      /\ d \in Details /\ detail[d].phase # "unborn" /\ upload[u].phase = "unborn"
  BY <1>0, CollectionType DEF CommitImport, Known, Unborn
<1>2. /\ upload' = [upload EXCEPT ![u] = [phase |-> "live", detail |-> d, job |-> job,
                                         file |-> request[r].op = "upload"]]
      /\ response' = response \cup batch
      /\ late' = IF d \in Live(detail) /\ ~BeingDeleted(u, d) THEN late ELSE late \cup batch
      /\ request' = [request EXCEPT ![r] = new]
      /\ UNCHANGED <<collection, detail, events, notified, deaths, processed>>
  BY <1>0 DEF CommitImport, End
<1>3. job \in Jobs \cup {0}
  BY <1>0, <1>1 DEF Handler
<1>4. /\ upload' \in [Uploads -> UploadRow]
      /\ upload'[u].phase = "live" /\ upload'[u].detail = d
      /\ \A v \in Uploads \ {u} : upload'[v] = upload[v]
  BY <1>1, <1>2, <1>3 DEF IInv, TypeOK, UploadRow, Phases
<1>5. \A s \in response : s.upload \in Uploads \ {u} /\ s.detail \in Details
  <2> TAKE s \in response
  <2>1. s.upload \in Uploads /\ s.detail \in Details
    BY DEF IInv, TypeOK, Response
  <2>2. upload[s.upload].phase # "unborn"
    BY DEF IInv, Related
  <2>3. QED
    BY <2>1, <2>2, <1>1
<1>6. job \in Jobs
  <2>1. job # 0
    BY <1>0, <1>1, CollectionType DEF Known
  <2>2. QED
    BY <1>3, <2>1
<1>7. batch \subseteq Response /\ \A s \in batch : s.upload = u /\ s.detail = d /\ s.job = job
  BY <1>0, <1>1, <1>6 DEF Batch, Response
<1>8. new \in Handler /\ Known(new)' /\ Swept(new)'
  <2>1. CASE request[r].op # "upload"
    <3>1. Known(Idle)'
      BY IdleType DEF Known, Idle, EventOps
    <3>2. Swept(Idle)'
      BY DEF Idle, Swept, Related, Whole, RowsOf
    <3>3. QED
      BY <1>0, <2>1, <3>1, <3>2, IdleType
  <2>2. CASE request[r].op = "upload"
    <3>1. /\ new \in Handler /\ new.op = "upload" /\ new.id = u /\ new.pc = "done" /\ new.doomed = {}
      BY <1>0, <1>1, <2>2, IdleType DEF Handler, Idle
    <3>2. Known(new)'
      BY <3>1 DEF Known, EventOps
    <3>3. Swept(new)'
      BY <3>1 DEF Swept, Related, Whole, RowsOf
    <3>4. QED
      BY <3>1, <3>2, <3>3
  <2>3. QED
    BY <2>1, <2>2
<1>9. TypeOK'
  <2>1. response' \subseteq Response /\ late' \subseteq Response
    BY <1>2, <1>7 DEF IInv, TypeOK
  <2>2. request' \in [Requests -> Handler]
    BY <1>2, <1>8 DEF IInv, TypeOK
  <2>3. QED
    BY <1>2, <1>4, <2>1, <2>2 DEF IInv, TypeOK
<1>10. Traceable'
  <2> SUFFICES ASSUME NEW s \in response', s \notin late'
               PROVE  /\ upload'[s.upload].phase = "live" /\ s.upload \in Uploads
                      /\ \/ s.detail \in Live(detail)
                         \/ collection[detail[s.detail].collection].phase = "gone"
    BY <1>2, <1>4 DEF Traceable, Live
  <2>1. CASE s \in response
    BY <2>1, <1>2, <1>4, <1>5 DEF IInv, Traceable, Live
  <2>2. CASE s \in batch
    BY <2>2, <1>2, <1>4, <1>7
  <2>3. QED
    BY <1>2, <2>1, <2>2
<1>11. Related(response)'
  <2> SUFFICES ASSUME NEW s \in response'
               PROVE  upload'[s.upload].phase # "unborn" /\ s.detail = upload'[s.upload].detail
    BY DEF Related
  <2>1. CASE s \in response
    BY <2>1, <1>4, <1>5 DEF IInv, Related
  <2>2. CASE s \in batch
    BY <2>2, <1>4, <1>7
  <2>3. QED
    BY <1>2, <2>1, <2>2
<1>12. Rooted'
  BY <1>1, <1>2, <1>4 DEF IInv, Rooted
<1>13. WholeImport'
  <2> SUFFICES ASSUME NEW v \in Uploads, NEW j \in Jobs \ processed
               PROVE  RowsOf(response', v, j) \in {{}, Rows}
    BY <1>2 DEF WholeImport, Whole, RowsOf
  <2>1. RowsOf(response, v, j) \in {{}, Rows}
    BY DEF IInv, WholeImport, Whole
  <2>2. CASE v = u /\ j = job
    <3>1. ASSUME NEW i \in Rows PROVE \E s \in response' : s.upload = v /\ s.job = j /\ s.row = i
      <4> DEFINE s == [upload |-> u, detail |-> d, job |-> job, row |-> i]
      <4>1. s \in batch /\ s.upload = v /\ s.job = j /\ s.row = i
        BY <1>0, <2>2, <3>1 DEF Batch
      <4>2. QED
        BY <4>1, <1>2
    <3>2. RowsOf(response', v, j) = Rows
      BY <3>1 DEF RowsOf
    <3>3. QED
      BY <3>2
  <2>3. CASE ~(v = u /\ j = job)
    <3>1. RowsOf(response', v, j) = RowsOf(response, v, j)
      BY <2>3, <1>2, <1>7 DEF RowsOf
    <3>2. QED
      BY <2>1, <3>1
  <2>4. QED
    BY <2>2, <2>3
<1>14. SubmittedDated'
  BY <1>2 DEF IInv, SubmittedDated, Live
<1>15. \A t \in Requests : Known(request[t])'
  <2>1. DOMAIN collection' = Collections /\ DOMAIN upload' = Uploads /\ DOMAIN detail' = Details
    BY <1>2, <1>4, CollectionType
  <2>2. \A v \in Uploads : upload[v].phase # "unborn" => upload'[v].phase # "unborn"
    BY <1>4
  <2>3. QED
    BY <1>2, <1>8, <2>1, <2>2, KnownKept
<1>16. \A t \in Requests : Swept(request[t])'
  <2>1. ASSUME NEW t \in Requests \ {r}, NEW s \in response', request[t].pc = "deleting",
               s \in Owned(request[t])', s \notin response
        PROVE  s \in late'
    <3>1. s \in batch /\ s.upload = u /\ s.detail = d
      BY <2>1, <1>2, <1>7
    <3>2. request'[t] = request[t]
      BY <1>2 DEF IInv, TypeOK
    <3>3. IF request[t].op = "destroy_detail" THEN request[t].id = d ELSE request[t].id = u
      BY <2>1, <3>1, <3>2 DEF Owned
    <3>4. request[t].op \in {"destroy_detail", "destroy_upload"}
      BY <2>1, CollectionType DEF Known
    <3>5. BeingDeleted(u, d)
      BY <2>1, <3>3, <3>4 DEF BeingDeleted, At
    <3>6. QED
      BY <1>2, <3>1, <3>5
  <2>2. \A v \in Uploads : upload[v].phase # "unborn" =>
           upload'[v].phase # "unborn" /\ upload'[v].detail = upload[v].detail
    BY <1>1, <1>4
  <2>3. QED
    BY <1>2, <1>8, <2>1, <2>2, SweptKept
<1>17. QED
  BY <1>9, <1>10, <1>11, <1>12, <1>13, <1>14, <1>15, <1>16 DEF IInv

LEMMA InvDeleteResponses ==
    ASSUME IInv, NEW r \in Requests, DeleteResponses(r)
    PROVE  IInv'
<1>1. PICK new : new = [request[r] EXCEPT !.pc = "deleting", !.doomed = Owned(request[r])]
  OBVIOUS
<1>2. /\ request[r] \in Handler /\ Known(request[r])
      /\ request[r].op \in {"destroy_detail", "destroy_upload"}
      /\ request' = [request EXCEPT ![r] = new]
      /\ UNCHANGED <<Tables, events, notified, deaths, processed, late>>
  BY <1>1, CollectionType DEF DeleteResponses
<1>3. /\ new \in Handler /\ new.op = request[r].op /\ new.id = request[r].id
      /\ new.pc = "deleting" /\ new.doomed = Owned(request[r])
  BY <1>1, <1>2, OwnedWhole DEF Handler
<1>4. Known(new)
  BY <1>2, <1>3 DEF Known, EventOps
<1>5. Swept(new)
  BY <1>3, OwnedWhole DEF Swept, Owned
<1>6. QED
  BY <1>2, <1>3, <1>4, <1>5, InvGoOn

\* The commit of a deletion leaves whole imports, and none but late responses.
LEMMA Deleted ==
    ASSUME IInv, NEW r \in Requests, request[r].pc = "deleting",
           response' = response \ request[r].doomed, UNCHANGED processed
    PROVE  /\ response' \subseteq Response /\ WholeImport'
           /\ \A s \in response' \ late : s \notin Owned(request[r])
<1>1. Swept(request[r]) /\ request[r].doomed \subseteq Response /\ response \subseteq Response
  BY DEF IInv, TypeOK, Handler
<1>2. Whole(response \ request[r].doomed)
  BY <1>1, WholeMinus DEF IInv, WholeImport, Swept
<1>3. WholeImport'
  BY <1>2 DEF WholeImport, Whole, RowsOf
<1>4. Owned(request[r]) \subseteq request[r].doomed \cup late
  BY <1>1 DEF Swept
<1>5. QED
  BY <1>1, <1>3, <1>4

LEMMA InvDestroyDetail ==
    ASSUME IInv, NEW r \in Requests, DestroyDetail(r)
    PROVE  IInv'
<1>0. PICK new, d : new = [request[r] EXCEPT !.pc = "done", !.doomed = {}] /\ d = request[r].id
  OBVIOUS
<1>1. /\ request[r] \in Handler /\ request[r].pc = "deleting" /\ request[r].op = "destroy_detail"
      /\ d \in Details /\ detail[d].phase # "unborn"
  BY <1>0, CollectionType DEF DestroyDetail, At, Known, Unborn
<1>2. /\ response' = response \ request[r].doomed
      /\ detail' = [detail EXCEPT ![d].phase = "gone"]
      /\ request' = [request EXCEPT ![r] = new]
      /\ UNCHANGED <<collection, upload, events, notified, deaths, processed, late>>
  BY <1>0 DEF DestroyDetail
<1>3. /\ detail' \in [Details -> DetailRow]
      /\ detail'[d].phase = "gone" /\ detail'[d].collection = detail[d].collection
      /\ \A e \in Details \ {d} : detail'[e] = detail[e]
  BY <1>1, <1>2 DEF IInv, TypeOK, DetailRow, Phases
<1>4. new \in Handler /\ Known(new)' /\ Swept(new)'
  <2>1. /\ new \in Handler /\ new.id = d /\ new.op = "destroy_detail" /\ new.pc = "done"
        /\ new.doomed = {}
    BY <1>0, <1>1 DEF Handler
  <2>2. Known(new)'
    BY <1>1, <1>3, <2>1 DEF Known, Unborn, EventOps
  <2>3. Swept(new)'
    BY <2>1 DEF Swept, Related, Whole, RowsOf
  <2>4. QED
    BY <2>1, <2>2, <2>3
<1>5. response' \subseteq Response /\ WholeImport' /\ \A s \in response' \ late : s.detail # d
  BY <1>0, <1>1, <1>2, Deleted DEF Owned
<1>6. TypeOK'
  BY <1>2, <1>3, <1>4, <1>5 DEF IInv, TypeOK
<1>7. Traceable'
  <2>1. \A s \in response' : s.detail \in Details
    BY <1>5 DEF Response
  <2>2. QED
    BY <1>2, <1>3, <1>5, <2>1, CollectionType DEF IInv, Traceable, Live
<1>8. Related(response)' /\ Rooted'
  <2>1. \A u \in Uploads : upload[u].detail \in Details
    BY DEF IInv, TypeOK, UploadRow
  <2>2. QED
    BY <1>1, <1>2, <1>3, <2>1 DEF IInv, Related, Rooted
<1>9. SubmittedDated'
  BY <1>2 DEF IInv, SubmittedDated, Live
<1>10. \A t \in Requests : Known(request[t])'
  BY <1>1, <1>2, <1>3, <1>4, CollectionType, KnownKept
<1>11. \A t \in Requests : Swept(request[t])'
  BY <1>2, <1>4, SweptKept
<1>12. QED
  BY <1>5, <1>6, <1>7, <1>8, <1>9, <1>10, <1>11 DEF IInv

-----------------------------------------------------------------------------
(* Steps of uploads *)

LEMMA InvDestroyUpload ==
    ASSUME IInv, NEW r \in Requests, DestroyUpload(r)
    PROVE  IInv'
<1>0. PICK new, u : new = [request[r] EXCEPT !.pc = "done", !.doomed = {}] /\ u = request[r].id
  OBVIOUS
<1>1. /\ request[r] \in Handler /\ request[r].pc = "deleting" /\ request[r].op = "destroy_upload"
      /\ u \in Uploads /\ upload[u].phase # "unborn"
  BY <1>0, CollectionType DEF DestroyUpload, At, Known, Unborn
<1>2. /\ response' = response \ request[r].doomed
      /\ upload' = [upload EXCEPT ![u].phase = "gone"]
      /\ request' = [request EXCEPT ![r] = new]
      /\ UNCHANGED <<collection, detail, events, notified, deaths, processed, late>>
  BY <1>0 DEF DestroyUpload
<1>3. /\ upload' \in [Uploads -> UploadRow]
      /\ upload'[u].phase = "gone" /\ upload'[u].detail = upload[u].detail
      /\ \A v \in Uploads \ {u} : upload'[v] = upload[v]
  BY <1>1, <1>2 DEF IInv, TypeOK, UploadRow, Phases
<1>4. new \in Handler /\ Known(new)' /\ Swept(new)'
  <2>1. /\ new \in Handler /\ new.id = u /\ new.op = "destroy_upload" /\ new.pc = "done"
        /\ new.doomed = {}
    BY <1>0, <1>1 DEF Handler
  <2>2. Known(new)'
    BY <1>1, <1>3, <2>1 DEF Known, Unborn, EventOps
  <2>3. Swept(new)'
    BY <2>1 DEF Swept, Related, Whole, RowsOf
  <2>4. QED
    BY <2>1, <2>2, <2>3
<1>5. response' \subseteq Response /\ WholeImport' /\ \A s \in response' \ late : s.upload # u
  BY <1>0, <1>1, <1>2, Deleted DEF Owned
<1>6. TypeOK'
  BY <1>2, <1>3, <1>4, <1>5 DEF IInv, TypeOK
<1>7. \A s \in response' : s.upload \in Uploads
  BY <1>5 DEF Response
<1>8. Traceable'
  BY <1>2, <1>3, <1>5, <1>7, CollectionType DEF IInv, Traceable, Live
<1>9. Related(response)' /\ Rooted'
  BY <1>1, <1>2, <1>3, <1>7 DEF IInv, Related, Rooted
<1>10. SubmittedDated'
  BY <1>2 DEF IInv, SubmittedDated, Live
<1>11. \A t \in Requests : Known(request[t])'
  BY <1>1, <1>2, <1>3, <1>4, CollectionType, KnownKept
<1>12. \A t \in Requests : Swept(request[t])'
  <2>1. \A v \in Uploads : upload[v].phase # "unborn" =>
           upload'[v].phase # "unborn" /\ upload'[v].detail = upload[v].detail
    BY <1>3
  <2>2. QED
    BY <1>2, <1>4, <2>1, SweptKept
<1>13. QED
  BY <1>5, <1>6, <1>8, <1>9, <1>10, <1>11, <1>12 DEF IInv

LEMMA InvStartProcess ==
    ASSUME IInv, NEW r \in Requests, NEW job \in Jobs, StartProcess(r, job)
    PROVE  IInv'
<1> DEFINE u == request[r].id
<1>0. PICK new : new = IF upload[u].file
                       THEN [request[r] EXCEPT !.pc = "importing", !.job = job, !.rest = Rows] ELSE Idle
  OBVIOUS
<1>1. request[r] \in Handler /\ request[r].op = "process" /\ u \in Uploads \ Unborn(upload)
  BY CollectionType DEF StartProcess, At, Known
<1>2. /\ upload' = upload \/ upload' = [upload EXCEPT ![u].job = job]
      /\ request' = [request EXCEPT ![r] = new] /\ processed' = processed \cup {job}
      /\ UNCHANGED <<collection, detail, response, events, notified, deaths, late>>
  BY <1>0 DEF StartProcess, End
<1>3. /\ upload' \in [Uploads -> UploadRow]
      /\ \A v \in Uploads : upload'[v].phase = upload[v].phase /\ upload'[v].detail = upload[v].detail
  BY <1>1, <1>2 DEF IInv, TypeOK, UploadRow
<1>4. new \in Handler /\ Known(new)' /\ Swept(new)'
  <2>1. CASE new = Idle
    <3>1. Known(Idle)'
      BY IdleType DEF Known, Idle, EventOps
    <3>2. Swept(Idle)'
      BY DEF Idle, Swept, Related, Whole, RowsOf
    <3>3. QED
      BY <2>1, <3>1, <3>2, IdleType
  <2>2. CASE upload[u].file
    <3>1. new \in Handler /\ new.id = u /\ new.op = "process" /\ new.pc = "importing" /\ new.job = job
          /\ new.doomed = request[r].doomed
      BY <1>0, <1>1, <2>2 DEF Handler
    <3>2. Known(new)'
      BY <1>1, <1>2, <1>3, <3>1, JobsAssumption DEF Known, Unborn, EventOps
    <3>3. Swept(request[r])
      BY CollectionType
    <3>4. request[r].doomed \subseteq Response
      BY <1>1 DEF Handler
    <3>5. Related(new.doomed)'
      BY <1>3, <3>1, <3>3, <3>4 DEF Swept, Related, Response
    <3>6. Swept(new)'
      BY <1>2, <3>1, <3>3, <3>5 DEF Swept, Whole, RowsOf
    <3>7. QED
      BY <3>1, <3>2, <3>6
  <2>3. QED
    BY <2>1, <2>2, <1>0
<1>5. TypeOK'
  BY <1>2, <1>3, <1>4 DEF IInv, TypeOK
<1>6. \A s \in response : s.upload \in Uploads
  BY DEF IInv, TypeOK, Response
<1>7. Traceable' /\ Related(response)' /\ Rooted'
  BY <1>2, <1>3, <1>6, CollectionType DEF IInv, Traceable, Related, Rooted, Live
<1>8. WholeImport' /\ SubmittedDated'
  BY <1>2 DEF IInv, WholeImport, Whole, RowsOf, SubmittedDated, Live
<1>9. \A t \in Requests : Known(request[t])'
  <2>1. DOMAIN collection' = Collections /\ DOMAIN upload' = Uploads /\ DOMAIN detail' = Details
    BY <1>2, <1>3, CollectionType
  <2>2. processed \subseteq processed'
    BY <1>2
  <2>3. QED
    BY <1>2, <1>3, <1>4, <2>1, <2>2, KnownKept
<1>10. \A t \in Requests : Swept(request[t])'
  BY <1>2, <1>3, <1>4, SweptKept
<1>11. QED
  BY <1>5, <1>7, <1>8, <1>9, <1>10 DEF IInv

LEMMA InvInsertRow ==
    ASSUME IInv, NEW r \in Requests, NEW row \in Rows, InsertRow(r, row)
    PROVE  IInv'
<1>0. PICK new, u, d, job, batch :
         /\ new = [request[r] EXCEPT !.pc = "importing", !.rest = @ \ {row}]
         /\ u = request[r].id /\ d = upload[u].detail /\ job = request[r].job
         /\ batch = Batch(u, d, job, {row})
  OBVIOUS
<1>1. /\ request[r] \in Handler /\ request[r].op = "process" /\ u \in Uploads /\ upload[u].phase # "unborn"
      /\ job \in processed /\ job \in Jobs
  <2>1. request[r] \in Handler /\ Known(request[r]) /\ request[r].op = "process" /\ request[r].pc = "checked"
    BY CollectionType DEF InsertRow, At
  <2>2. QED
    BY <1>0, <2>1, CollectionType DEF Known, Unborn, IInv, TypeOK
<1>2. /\ response' = response \cup batch
      /\ late' = IF u \in Live(upload) /\ d \in Live(detail) /\ ~BeingDeleted(u, d) THEN late
                 ELSE late \cup batch
      /\ request' = [request EXCEPT ![r] = new]
      /\ UNCHANGED <<collection, detail, upload, events, notified, deaths, processed>>
  BY <1>0 DEF InsertRow
<1>3. d \in Details
  BY <1>0, <1>1 DEF IInv, TypeOK, UploadRow
<1>4. \A s \in batch : s \in Response /\ s.upload = u /\ s.detail = d /\ s.job = job
  BY <1>0, <1>1, <1>3 DEF Batch, Response
<1>5. new \in Handler /\ Known(new)' /\ Swept(new)'
  <2>1. new \in Handler /\ new.id = u /\ new.op = "process" /\ new.pc = "importing" /\ new.job = job
        /\ new.doomed = request[r].doomed
    BY <1>0, <1>1 DEF Handler
  <2>2. Known(new)'
    BY <1>1, <1>2, <2>1, JobsAssumption DEF Known, Unborn, EventOps
  <2>3. Swept(request[r])
    BY CollectionType
  <2>4. Swept(new)'
    BY <1>2, <2>1, <2>3 DEF Swept, Related, Whole, RowsOf
  <2>5. QED
    BY <2>1, <2>2, <2>4
<1>6. TypeOK'
  <2>1. response' \subseteq Response
    BY <1>2, <1>4 DEF IInv, TypeOK
  <2>2. late' \subseteq Response
    BY <1>2, <1>4 DEF IInv, TypeOK
  <2>3. QED
    BY <1>2, <1>5, <2>1, <2>2 DEF IInv, TypeOK
<1>7. Traceable'
  <2> SUFFICES ASSUME NEW s \in response', s \notin late'
               PROVE  /\ s.upload \in Live(upload)
                      /\ \/ s.detail \in Live(detail)
                         \/ collection[detail[s.detail].collection].phase = "gone"
    BY <1>2 DEF Traceable, Live
  <2>1. CASE s \in response
    BY <2>1, <1>2 DEF IInv, Traceable
  <2>2. CASE s \in batch
    BY <2>2, <1>2, <1>4
  <2>3. QED
    BY <1>2, <2>1, <2>2
<1>8. Related(response)' /\ Rooted'
  <2>1. \A s \in response' : upload[s.upload].phase # "unborn" /\ s.detail = upload[s.upload].detail
    BY <1>0, <1>1, <1>2, <1>4 DEF IInv, Related
  <2>2. QED
    BY <1>2, <2>1 DEF IInv, Related, Rooted
<1>9. WholeImport'
  <2> SUFFICES ASSUME NEW v \in Uploads, NEW j \in Jobs \ processed
               PROVE  RowsOf(response', v, j) \in {{}, Rows}
    BY <1>2 DEF WholeImport, Whole, RowsOf
  <2>1. RowsOf(response, v, j) \in {{}, Rows} /\ j # job
    BY <1>1 DEF IInv, WholeImport, Whole
  <2>2. RowsOf(response', v, j) = RowsOf(response, v, j)
    BY <1>2, <1>4, <2>1 DEF RowsOf
  <2>3. QED
    BY <2>1, <2>2
<1>10. SubmittedDated'
  BY <1>2 DEF IInv, SubmittedDated, Live
<1>11. \A t \in Requests : Known(request[t])'
  BY <1>2, <1>5, CollectionType, KnownKept
<1>12. \A t \in Requests : Swept(request[t])'
  <2>1. ASSUME NEW t \in Requests \ {r}, NEW s \in response', request[t].pc = "deleting",
               s \in Owned(request[t])', s \notin response
        PROVE  s \in late'
    <3>1. s \in batch /\ s.upload = u /\ s.detail = d
      BY <2>1, <1>2, <1>4
    <3>2. request'[t] = request[t]
      BY <1>2 DEF IInv, TypeOK
    <3>3. IF request[t].op = "destroy_detail" THEN request[t].id = d ELSE request[t].id = u
      BY <2>1, <3>1, <3>2 DEF Owned
    <3>4. request[t].op \in {"destroy_detail", "destroy_upload"}
      BY <2>1, CollectionType DEF Known
    <3>5. BeingDeleted(u, d)
      BY <2>1, <3>3, <3>4 DEF BeingDeleted, At
    <3>6. QED
      BY <1>2, <3>1, <3>5
  <2>2. QED
    BY <1>2, <1>5, <2>1, SweptKept
<1>13. QED
  BY <1>6, <1>7, <1>8, <1>9, <1>10, <1>11, <1>12 DEF IInv

-----------------------------------------------------------------------------
(* Steps of handlers only *)

\* A handler that begins, or goes on, without touching a table.
LEMMA InvBegin ==
    ASSUME IInv, NEW r \in Requests, NEW h \in Handler, Known(h), Swept(h), Begin(r, h)
    PROVE  IInv'
<1>1. deaths' \in 0 .. MaxDeaths /\ notified' \subseteq Collections
      /\ events' \subseteq Ops \X (Collections \cup Details \cup Uploads)
  BY DEF Begin, IInv, TypeOK
<1>2. QED
  BY <1>1, HandlerStep DEF Begin

LEMMA InvLoads ==
    ASSUME IInv, NEW r \in Requests, NEW op \in Ops,
           \/ \E c \in Collections : LoadCollection(r, op, c)
           \/ \E d \in Details : LoadDetail(r, op, d)
           \/ \E u \in Uploads : LoadUpload(r, op, u)
    PROVE  IInv'
<1>1. ASSUME NEW c \in Collections, LoadCollection(r, op, c) PROVE IInv'
  <2>1. PICK h : h = [Idle EXCEPT !.pc = "loaded", !.op = op, !.id = c,
                                  !.state = collection[c].state, !.dated = collection[c].dated]
    OBVIOUS
  <2>2. h \in Handler /\ h.op = op /\ h.id = c /\ h.pc = "loaded" /\ h.doomed = Idle.doomed
    BY <2>1, IdleType, CollectionType DEF Handler
  <2>3. op \in EventOps \cup {"copy", "destroy", "create_detail"} /\ Begin(r, h)
        /\ c \in Live(collection)
    BY <1>1, <2>1 DEF LoadCollection
  <2>4. Known(h)
    BY <2>2, <2>3 DEF Known, EventOps, Live, Unborn
  <2>5. Swept(h)
    BY <2>2, IdleType, SweptGoto
  <2>6. QED
    BY <2>2, <2>3, <2>4, <2>5, InvBegin
<1>2. ASSUME NEW d \in Details, LoadDetail(r, op, d) PROVE IInv'
  <2>1. PICK h : h = [Idle EXCEPT !.pc = "loaded", !.op = op, !.id = d]
    OBVIOUS
  <2>2. h \in Handler /\ h.op = op /\ h.id = d /\ h.pc = "loaded" /\ h.doomed = Idle.doomed
    BY <2>1, IdleType DEF Handler
  <2>3. op \in {"destroy_detail", "upload"} /\ Begin(r, h) /\ d \in Live(detail)
    BY <1>2, <2>1 DEF LoadDetail
  <2>4. Known(h)
    BY <2>2, <2>3 DEF Known, EventOps, Live, Unborn
  <2>5. Swept(h)
    BY <2>2, IdleType, SweptGoto
  <2>6. QED
    BY <2>2, <2>3, <2>4, <2>5, InvBegin
<1>3. ASSUME NEW u \in Uploads, LoadUpload(r, op, u) PROVE IInv'
  <2>1. PICK h : h = [Idle EXCEPT !.pc = "loaded", !.op = op, !.id = u]
    OBVIOUS
  <2>2. h \in Handler /\ h.op = op /\ h.id = u /\ h.pc = "loaded" /\ h.doomed = Idle.doomed
    BY <2>1, IdleType DEF Handler
  <2>3. op \in {"process", "destroy_upload"} /\ Begin(r, h) /\ u \in Live(upload)
    BY <1>3, <2>1 DEF LoadUpload
  <2>4. Known(h)
    BY <2>2, <2>3 DEF Known, EventOps, Live, Unborn
  <2>5. Swept(h)
    BY <2>2, IdleType, SweptGoto
  <2>6. QED
    BY <2>2, <2>3, <2>4, <2>5, InvBegin
<1>4. QED
  BY <1>1, <1>2, <1>3

\* A handler may change its pc where Known does not look at it.
LEMMA InvGoto ==
    ASSUME IInv, NEW r \in Requests, NEW pc \in {"checked", "logged"}, Goto(r, pc),
           pc = "checked" => request[r].pc = "importing" /\ request[r].op = "process",
           pc = "logged" => request[r].pc = "done",
           UNCHANGED <<Tables, processed, late>>, deaths' \in 0 .. MaxDeaths,
           events' \subseteq Ops \X (Collections \cup Details \cup Uploads),
           notified' \subseteq Collections
    PROVE  IInv'
<1>1. PICK new : new = [request[r] EXCEPT !.pc = pc]
  OBVIOUS
<1>2. request[r] \in Handler /\ Known(request[r]) /\ Swept(request[r])
  BY CollectionType
<1>3. /\ new \in Handler /\ new.op = request[r].op /\ new.id = request[r].id
      /\ new.rest = request[r].rest /\ new.job = request[r].job /\ new.pc = pc
      /\ new.doomed = request[r].doomed
  BY <1>1, <1>2 DEF Handler
<1>4. Known(new)
  BY <1>2, <1>3 DEF Known, At, EventOps
<1>5. Swept(new)
  BY <1>2, <1>3, SweptGoto
<1>6. QED
  BY <1>1, <1>3, <1>4, <1>5, HandlerStep DEF Goto

LEMMA InvLog == ASSUME IInv, NEW r \in Requests, Log(r) PROVE IInv'
<1>1. request[r].op \in Ops /\ request[r].id \in Collections \cup Details \cup Uploads
  BY CollectionType DEF Handler
<1>2. /\ events' \subseteq Ops \X (Collections \cup Details \cup Uploads)
      /\ deaths' \in 0 .. MaxDeaths /\ notified' \subseteq Collections
  <2>1. ({request[r].op} \cap Recorded) \X {request[r].id}
          \subseteq Ops \X (Collections \cup Details \cup Uploads)
    BY <1>1
  <2>2. QED
    BY <2>1 DEF Log, IInv, TypeOK
<1>3. CASE Goto(r, "logged")
  <2>1. request[r].pc = "done" /\ UNCHANGED <<Tables, processed, late>>
    BY DEF Log
  <2>2. QED
    BY <1>2, <1>3, <2>1, InvGoto
<1>4. CASE End(r)
  BY <1>2, <1>4, HandlerStep, IdleType DEF Log, End
<1>5. QED
  BY <1>3, <1>4 DEF Log

LEMMA InvCheckRow == ASSUME IInv, NEW r \in Requests, CheckRow(r) PROVE IInv'
<1>1. /\ events' \subseteq Ops \X (Collections \cup Details \cup Uploads)
      /\ deaths' \in 0 .. MaxDeaths /\ notified' \subseteq Collections
  BY DEF CheckRow, IInv, TypeOK
<1>2. CASE Goto(r, "checked")
  BY <1>1, <1>2, InvGoto DEF CheckRow, At
<1>3. CASE End(r)
  BY <1>3, InvEnd DEF CheckRow
<1>4. QED
  BY <1>2, <1>3 DEF CheckRow

LEMMA InvNotify == ASSUME IInv, NEW r \in Requests, Notify(r) PROVE IInv'
<1>1. request[r].id \in Collections
  BY CollectionType DEF Notify, At, Known, EventOps
<1>2. /\ events' \subseteq Ops \X (Collections \cup Details \cup Uploads)
      /\ deaths' \in 0 .. MaxDeaths /\ notified' \subseteq Collections
  BY <1>1 DEF Notify, IInv, TypeOK
<1>3. QED
  BY <1>2, HandlerStep, IdleType DEF Notify, End

LEMMA InvDie == ASSUME IInv, NEW r \in Requests, Die(r) PROVE IInv'
<1>1. /\ events' \subseteq Ops \X (Collections \cup Details \cup Uploads)
      /\ deaths' \in 0 .. MaxDeaths /\ notified' \subseteq Collections
  BY ReportsAssumption DEF Die, IInv, TypeOK
<1>2. QED
  BY <1>1, HandlerStep, IdleType DEF Die, End

-----------------------------------------------------------------------------
(* The theorems *)

LEMMA InvNext == IInv /\ [Next]_vars => IInv'
<1> SUFFICES ASSUME IInv, [Next]_vars PROVE IInv'
  OBVIOUS
<1>1. CASE UNCHANGED vars
  <2>1. TypeOK' /\ SubmittedDated' /\ Traceable' /\ Related(response)' /\ Rooted' /\ WholeImport'
    BY <1>1 DEF vars, IInv, TypeOK, SubmittedDated, WholeImport, Whole, RowsOf, Traceable, Related,
                Rooted, Live
  <2>2. \A r \in Requests : Known(request[r])' /\ Swept(request[r])'
    BY <1>1, CollectionType DEF vars, Known, Unborn, Live, Swept, Related, Whole, RowsOf, Owned
  <2>3. QED
    BY <2>1, <2>2 DEF IInv
<1>2. ASSUME NEW r \in Requests, CollectionStep(r) PROVE IInv'
  BY <1>2, InvLoads, InvCreateCollection, InvCopy, InvFire, InvDestroyCollection DEF CollectionStep
<1>3. ASSUME NEW r \in Requests, DetailStep(r) PROVE IInv'
  <2>1. CASE ImportFails(r)
    BY <2>1, InvEnd DEF ImportFails
  <2>2. QED
    BY <1>3, <2>1, InvLoads, InvCreateDetail, InvStartImport, InvImportRow, InvCommitImport,
       InvDeleteResponses, InvDestroyDetail DEF DetailStep
<1>4. ASSUME NEW r \in Requests, UploadStep(r) PROVE IInv'
  BY <1>4, InvLoads, InvStartProcess, InvCheckRow, InvInsertRow, InvDestroyUpload DEF UploadStep
<1>5. QED
  BY <1>1, <1>2, <1>3, <1>4, InvLog, InvNotify, InvDie DEF Next, RequestStep

\* The tables of collections, details, uploads and responses agree with each other and with
\* what the handlers in flight refer to, after every step of any of them.
THEOREM Invariant == Spec => []IInv
BY InvInit, InvNext, PTL DEF Spec

\* A submitted collection has a submission date, for any number of owners and managers.
THEOREM DateHolds == Spec => []SubmittedDated
<1>1. IInv => SubmittedDated
  BY DEF IInv
<1>2. QED
  BY <1>1, Invariant, PTL

\* An import that comes with an upload is all of the file or nothing, whatever else happens.
THEOREM ImportHolds == Spec => []WholeImport
<1>1. IInv => WholeImport
  BY DEF IInv
<1>2. QED
  BY <1>1, Invariant, PTL

\* Responses are orphaned by the causes that Traceable names, the destruction of a collection
\* and a deletion that a transaction of imported rows met, and by no other.
THEOREM TraceHolds == Spec => []Traceable
<1>1. IInv => Traceable
  BY DEF IInv
<1>2. QED
  BY <1>1, Invariant, PTL

-----------------------------------------------------------------------------
(* The mails *)

\* The handlers that owe the managers a mail about c.
Owing(r, c) ==
    request[r].op = "submit" /\ request[r].id = c /\ request[r].pc \in {"done", "logged"}

\* A step that submits nothing, forgets no mail and lets no handler go that owes one
\* keeps Announced.
LEMMA AnnouncedKept ==
    ASSUME IInv, IInv', Announced, deaths' = 0 => deaths = 0,
           \A c \in Collections :
              /\ c \in Live(collection)' /\ collection'[c].state = "submitted" =>
                    c \in Live(collection) /\ collection[c].state = "submitted"
              /\ c \in notified => c \in notified'
              /\ \A r \in Requests : Owing(r, c) => Owing(r, c)' \/ c \in notified' \/ deaths' # 0
    PROVE  Announced'
<1> SUFFICES ASSUME NEW c \in Collections, c \in Live(collection)',
                    collection'[c].state = "submitted", deaths' = 0
             PROVE  c \in notified' \/ \E r \in Requests : Owing(r, c)'
  BY DEF Announced, Owing, Live, IInv, TypeOK
<1>1. c \in notified \/ \E r \in Requests : Owing(r, c)
  BY DEF Announced, Owing
<1>2. QED
  BY <1>1

\* A step of a handler that owes nothing, away from collections and mails.
LEMMA AnnouncedIdle ==
    ASSUME IInv, IInv', Announced, NEW r \in Requests, NEW next,
           \A c \in Collections : ~Owing(r, c),
           request' = [request EXCEPT ![r] = next],
           \A c \in Collections :
              c \in Live(collection)' /\ collection'[c].state = "submitted" =>
                    c \in Live(collection) /\ collection[c].state = "submitted",
           UNCHANGED <<notified, deaths>>
    PROVE  Announced'
<1>1. \A t \in Requests \ {r} : request'[t] = request[t]
  BY DEF IInv, TypeOK
<1>2. \A t \in Requests, c \in Collections : Owing(t, c) => Owing(t, c)'
  BY <1>1 DEF Owing
<1>3. QED
  BY <1>2, AnnouncedKept

LEMMA AnnouncedFire ==
    ASSUME IInv, IInv', Announced, NEW r \in Requests, Fire(r) PROVE Announced'
<1> DEFINE h == request[r]
<1>1. \A c \in Collections : ~Owing(r, c)
  BY DEF Fire, Owing
<1>2. CASE ~(h.state \in From(h.op))
  <2>1. UNCHANGED <<collection, notified, deaths>> /\ request' = [request EXCEPT ![r] = Idle]
    BY <1>2 DEF Fire, End
  <2>2. QED
    BY <1>1, <2>1, AnnouncedIdle DEF Live
<1>3. CASE h.state \in From(h.op)
  <2>1. /\ h.op \in EventOps /\ h.id \in Collections /\ UNCHANGED deaths
        /\ collection' = IF h.id \notin Live(collection) THEN collection
                         ELSE [collection EXCEPT ![h.id] = After(@, h)]
        /\ notified' = IF h.op = "submit" THEN notified \ {h.id} ELSE notified
        /\ request' = [request EXCEPT ![r] = [h EXCEPT !.pc = "done"]]
    BY <1>3, CollectionType DEF Fire, Goto, Known
  <2>2. \A c \in Collections : c # h.id =>
           collection'[c] = collection[c] /\ (c \in notified <=> c \in notified')
    BY <2>1, CollectionType
  <2>3. \A t \in Requests \ {r} : request'[t] = request[t]
    BY <2>1 DEF IInv, TypeOK
  <2>4. CASE h.op = "submit"
    <3>1. request'[r].op = "submit" /\ request'[r].id = h.id /\ request'[r].pc = "done"
      BY <2>1, <2>4 DEF Owing, IInv, TypeOK, Handler
    <3>2. SUFFICES ASSUME NEW c \in Collections, c \in Live(collection)', c # h.id,
                          collection'[c].state = "submitted", deaths' = 0
                   PROVE  c \in notified' \/ \E t \in Requests : Owing(t, c)'
      BY <3>1 DEF Announced, Owing, Live, IInv, TypeOK
    <3>3. c \in Live(collection) /\ collection[c].state = "submitted" /\ deaths = 0
      BY <3>2, <2>1, <2>2 DEF Live, IInv, TypeOK
    <3>4. c \in notified \/ \E t \in Requests \ {r} : Owing(t, c)
      BY <3>3, <1>1 DEF Announced, Owing
    <3>5. QED
      BY <3>2, <3>4, <2>2, <2>3 DEF Owing
  <2>5. CASE h.op # "submit"
    <3>1. To(h.op) # "submitted"
      BY <2>1, <2>5 DEF To, EventOps
    <3>2. \A c \in Collections : c \in Live(collection)' /\ collection'[c].state = "submitted" =>
             c \in Live(collection) /\ collection[c].state = "submitted"
      BY <2>1, <2>2, <3>1, CollectionType DEF After, Written, Live
    <3>3. QED
      BY <1>1, <2>1, <2>5, <3>2, AnnouncedIdle
  <2>6. QED
    BY <2>4, <2>5
<1>4. QED
  BY <1>2, <1>3

LEMMA AnnouncedCollection ==
    ASSUME IInv, IInv', Announced, NEW r \in Requests, CollectionStep(r) PROVE Announced'
<1>1. ASSUME NEW op \in Ops, NEW c \in Collections, LoadCollection(r, op, c) PROVE Announced'
  <2>1. request[r].pc = "idle" /\ UNCHANGED <<collection, notified, deaths>>
        /\ \E next : request' = [request EXCEPT ![r] = next]
    BY <1>1 DEF LoadCollection, Begin, Tables
  <2>2. QED
    BY <2>1, AnnouncedIdle DEF Owing, Live
<1>2. ASSUME NEW c \in Collections, CreateCollection(r, c) PROVE Announced'
  <2>1. /\ request[r].pc = "idle" /\ UNCHANGED <<notified, deaths>>
        /\ \E next : request' = [request EXCEPT ![r] = next]
        /\ \A d \in Collections : d \in Live(collection)' /\ collection'[d].state = "submitted" =>
               d \in Live(collection) /\ collection[d].state = "submitted"
    BY <1>2, CollectionType DEF CreateCollection, Live
  <2>2. QED
    BY <2>1, AnnouncedIdle DEF Owing
<1>3. ASSUME NEW c \in Collections, Copy(r, c) PROVE Announced'
  <2>1. /\ request[r].op # "submit" /\ UNCHANGED <<notified, deaths>>
        /\ \E next : request' = [request EXCEPT ![r] = next]
        /\ \A d \in Collections : d \in Live(collection)' /\ collection'[d].state = "submitted" =>
               d \in Live(collection) /\ collection[d].state = "submitted"
    BY <1>3, CollectionType DEF Copy, At, Goto, Live
  <2>2. QED
    BY <2>1, AnnouncedIdle DEF Owing
<1>4. ASSUME DestroyCollection(r) PROVE Announced'
  <2>1. /\ request[r].op # "submit" /\ UNCHANGED <<notified, deaths>>
        /\ \E next : request' = [request EXCEPT ![r] = next]
        /\ \A d \in Collections : d \in Live(collection)' /\ collection'[d].state = "submitted" =>
               d \in Live(collection) /\ collection[d].state = "submitted"
    BY <1>4, CollectionType DEF DestroyCollection, At, Goto, Live, CollectionRow
  <2>2. QED
    BY <2>1, AnnouncedIdle DEF Owing
<1>5. QED
  BY <1>1, <1>2, <1>3, <1>4, AnnouncedFire DEF CollectionStep

\* Details, uploads and responses have no mails of their own.
LEMMA AnnouncedFiles ==
    ASSUME IInv, IInv', Announced, NEW r \in Requests, DetailStep(r) \/ UploadStep(r) PROVE Announced'
<1>1. /\ request[r].pc = "idle" \/ request[r].op # "submit"
      /\ UNCHANGED <<collection, notified, deaths>>
      /\ \E next : request' = [request EXCEPT ![r] = next]
  <2>1. CASE DetailStep(r)
    <3>1. ASSUME NEW u \in Uploads, CommitImport(r, u)
          PROVE  /\ request[r].op # "submit" /\ UNCHANGED <<collection, notified, deaths>>
                 /\ \E next : request' = [request EXCEPT ![r] = next]
      BY <3>1 DEF CommitImport, End
    <3>2. ASSUME NEW row \in Rows, ImportRow(r, row)
          PROVE  /\ request[r].op # "submit" /\ UNCHANGED <<collection, notified, deaths>>
                 /\ \E next : request' = [request EXCEPT ![r] = next]
      BY <3>2 DEF ImportRow, End, At, Tables
    <3>3. CASE ImportFails(r)
      <4>1. request[r].op # "submit"
        BY <3>3, CollectionType DEF ImportFails, At, Known
      <4>2. QED
        BY <3>3, <4>1 DEF ImportFails, End, Tables
    <3>4. CASE DeleteResponses(r)
      BY <3>4 DEF DeleteResponses, Tables
    <3>5. QED
      BY <2>1, <3>1, <3>2, <3>3, <3>4 DEF DetailStep, CreateDetail, LoadDetail, Begin, StartImport,
                                          DestroyDetail, At, Tables
  <2>2. CASE UploadStep(r)
    BY <2>2 DEF UploadStep, LoadUpload, Begin, StartProcess, CheckRow, InsertRow, DestroyUpload,
                Goto, End, At, Tables
  <2>3. QED
    BY <2>1, <2>2
<1>2. QED
  BY <1>1, AnnouncedIdle DEF Owing, Live

\* The end of a handler: the event, the mail, or a death.
LEMMA AnnouncedEnd ==
    ASSUME IInv, IInv', Announced, NEW r \in Requests, Log(r) \/ Notify(r) \/ Die(r) PROVE Announced'
<1>1. UNCHANGED collection /\ \E next : request' = [request EXCEPT ![r] = next]
  BY DEF Log, Notify, Die, Goto, End, Tables
<1>2. \A t \in Requests \ {r} : request'[t] = request[t]
  BY <1>1 DEF IInv, TypeOK
<1>3. deaths \in Nat
  BY ReportsAssumption DEF IInv, TypeOK
<1>4. notified \subseteq notified' /\ (deaths' = 0 => deaths = 0)
  BY <1>3 DEF Log, Notify, Die
<1>5. \A c \in Collections : Owing(r, c) => Owing(r, c)' \/ c \in notified' \/ deaths' # 0
  <2>1. CASE Log(r)
    BY <2>1 DEF Log, Goto, End, Owing, IInv, TypeOK, Handler
  <2>2. CASE Notify(r)
    BY <2>2 DEF Notify, Owing
  <2>3. CASE Die(r)
    BY <2>3, <1>3 DEF Die
  <2>4. QED
    BY <2>1, <2>2, <2>3
<1>6. \A c \in Collections, t \in Requests \ {r} : Owing(t, c) => Owing(t, c)'
  BY <1>2 DEF Owing
<1>7. QED
  BY <1>1, <1>4, <1>5, <1>6, AnnouncedKept DEF Live

\* The managers get a mail about every submission, for any number of owners who submit,
\* reset and submit again at the same time, unless a handler dies in between.
THEOREM AnnouncedHolds == Spec => []Announced
<1>1. Init => Announced
  BY DEF Init, Announced, Live
<1>2. ASSUME IInv, IInv', Announced, [Next]_vars PROVE Announced'
  <2>1. CASE UNCHANGED vars
    BY <1>2, <2>1 DEF vars, Announced, Live
  <2>2. ASSUME NEW r \in Requests, RequestStep(r) PROVE Announced'
    BY <1>2, <2>2, AnnouncedCollection, AnnouncedFiles, AnnouncedEnd DEF RequestStep
  <2>3. QED
    BY <1>2, <2>1, <2>2 DEF Next
<1>3. QED
  BY <1>1, <1>2, Invariant, PTL DEF Spec

=============================================================================
