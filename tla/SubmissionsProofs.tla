-------------------------- MODULE SubmissionsProofs --------------------------
(***************************************************************************)
(* For any number of responses, handlers and tags: IInv is an inductive    *)
(* invariant of Submissions.  It has two parts.  CoreInv holds whatever    *)
(* meets whatever, and gives the counter, the audit log and the account of *)
(* the purge.  TogetherInv is about handlers in flight together: the       *)
(* columns of the trash and of spam, and the form's copy of the tags, stay *)
(* right until handlers meet that Conflicts names.  That decisions do not  *)
(* undo each other is a property of every step.                            *)
(***************************************************************************)
EXTENDS Submissions, FiniteSetTheorems, TLAPS

LEMMA AnyTagType == AnyTag \in RawTags
BY TagsAssumption DEF AnyTag

LEMMA NewRowType == NewRow \in Row
BY DEF NewRow, Row

LEMMA IdleType == Idle \in Handler
BY AnyTagType, NewRowType DEF Idle, Handler, FormRow, Ops

LEMMA IdlePurgeType == IdlePurge \in PurgeRun
BY DEF IdlePurge, PurgeRun

\* What is assigned to a loaded response is a response, and so is what a save
\* makes of a row.
LEMMA AssignedType ==
    ASSUME NEW seen \in Row, NEW op \in Decisions, today \in Days
    PROVE  Assigned(seen, op) \in Row
BY DEF Assigned, Decisions, Row

LEMMA SavedType ==
    ASSUME NEW cur \in Row, NEW seen \in Row, NEW op \in Decisions, today \in Days
    PROVE  Saved(cur, seen, op) \in Row
<1> DEFINE new == Assigned(seen, op)
           date == IF op = "delete" THEN today ELSE Written(cur.deletedOn, seen.deletedOn, new.deletedOn)
<1>1. new \in Row
  BY AssignedType
<1>2. CASE cur.phase # "live"
  BY <1>2 DEF Saved
<1>3. CASE cur.phase = "live"
  <2>1. Saved(cur, seen, op) =
           [cur EXCEPT !.flagged  = Written(cur.flagged, seen.flagged, new.flagged),
                       !.archived = Written(cur.archived, seen.archived, new.archived),
                       !.spam     = Written(cur.spam, seen.spam, new.spam),
                       !.source   = Written(cur.source, seen.source, new.source),
                       !.deleted  = Written(cur.deleted, seen.deleted, new.deleted),
                       !.deletedOn = date]
    BY <1>3 DEF Saved
  <2> HIDE DEF new
  <2>2. /\ Written(cur.flagged, seen.flagged, new.flagged) \in BOOLEAN
        /\ Written(cur.archived, seen.archived, new.archived) \in BOOLEAN
        /\ Written(cur.spam, seen.spam, new.spam) \in BOOLEAN
        /\ Written(cur.source, seen.source, new.source) \in {"none", "manual", "automated"}
        /\ Written(cur.deleted, seen.deleted, new.deleted) \in BOOLEAN
        /\ date \in Days \cup {NoDate}
    BY <1>1 DEF Written, Row
  <2> HIDE DEF date
  <2>3. QED BY <2>1, <2>2 DEF Row
<1>4. QED BY <1>2, <1>3

LEMMA FinishType ==
    ASSUME TypeOK, NEW r \in Requests, Finish(r)
    PROVE  request' \in [Requests -> Handler]
BY IdleType DEF Finish, TypeOK

LEMMA RestType ==
    ASSUME NEW q \in Handler, NEW s \in Subs
    PROVE  Rest(q, s) \in Handler
BY IdleType, NewRowType DEF Rest, Handler

LEMMA WriteTagsType ==
    ASSUME TypeOK, NEW s \in Subs, NEW seen, NEW new \in SUBSET Tags, WriteTags(s, seen, new)
    PROVE  row' \in [Subs -> Row]
<1>1. row[s] \in Row /\ [row[s] EXCEPT !.tags = Written(@, seen, new)] \in Row
  BY DEF TypeOK, Row, Written
<1>2. [row EXCEPT ![s].tags = Written(@, seen, new)] \in [Subs -> Row]
  BY <1>1 DEF TypeOK
<1>3. QED BY <1>2 DEF WriteTags, TypeOK

LEMMA WriteFormTagsType ==
    ASSUME TypeOK, NEW seen, NEW new \in SUBSET Tags, WriteFormTags(seen, new)
    PROVE  form' \in FormRow
BY DEF WriteFormTags, TypeOK, FormRow, Written

-----------------------------------------------------------------------------

\* The history records kinds of conflicts only, and forgets none.
LEMMA StrayedType ==
    ASSUME strayed \subseteq DOMAIN Conflicts, [Next]_vars
    PROVE  strayed' \subseteq DOMAIN Conflicts /\ strayed \subseteq strayed'
<1>1. "tags" \in DOMAIN Conflicts /\ \A op, other : Clash(op, other) \subseteq DOMAIN Conflicts
  BY DEF Conflicts, Clash
<1>2. ASSUME NEW r \in Requests, NEW op, LoadForm(r, op)
      PROVE  strayed' \subseteq DOMAIN Conflicts /\ strayed \subseteq strayed'
  BY <1>1, <1>2 DEF LoadForm
<1>3. ASSUME NEW r \in Requests, RequestStep(r)
      PROVE  (\E op \in Ops : LoadForm(r, op)) \/ strayed' \in {strayed, strayed \cup {"tags"}}
  <2>1. ASSUME NEW S, NEW tag, LoadSubmissions(r, S, tag) PROVE strayed' = strayed
    BY <2>1 DEF LoadSubmissions
  <2>2. ASSUME NEW s \in Subs, Decide(r, s) \/ AddTag(r, s) \/ CacheTags(r, s) \/ RemoveTag(r, s)
        PROVE  strayed' \in {strayed, strayed \cup {"tags"}}
    <3>1. CASE Decide(r, s)
      BY <3>1 DEF Decide, Decided
    <3>2. CASE AddTag(r, s) \/ CacheTags(r, s) \/ RemoveTag(r, s)
      BY <3>2 DEF AddTag, CacheTags, RemoveTag
    <3>3. QED
      BY <2>2, <3>1, <3>2
  <2>3. ASSUME NEW tag, NEW all, NEW page, Search(r, tag, all, page)
        PROVE  strayed' \in {strayed, strayed \cup {"tags"}}
    BY <2>3 DEF Search
  <2>4. ASSUME NEW s, NEW spam, CreateSubmission(r, s, spam) PROVE strayed' = strayed
    BY <2>4 DEF CreateSubmission
  <2>5. CASE ForgetTag(r) \/ DestroyForm(r)
    BY <2>5 DEF ForgetTag, DestroyForm
  <2>6. CASE Die(r)
    BY <2>6 DEF Die
  <2>7. QED
    BY <1>3, <2>1, <2>2, <2>3, <2>4, <2>5, <2>6 DEF RequestStep
<1>4. CASE UNCHANGED strayed
  BY <1>4
<1>5. QED
  BY <1>1, <1>2, <1>3, <1>4 DEF Next, PurgeCount, PurgeDelete, PurgeKilled, NextDay, vars

LEMMA TypeInit == Init => TypeOK
BY IdleType, IdlePurgeType, NewRowType, DaysAssumption DEF Init, TypeOK, FormRow, Days

LEMMA TypeNext == TypeOK /\ [Next]_vars => TypeOK'
<1> SUFFICES ASSUME TypeOK, [Next]_vars PROVE TypeOK'
  OBVIOUS
<1>0. strayed' \subseteq DOMAIN Conflicts
  BY StrayedType DEF TypeOK
<1>1. ASSUME NEW r \in Requests, RequestStep(r) PROVE TypeOK'
  <2> DEFINE q == request[r]
  <2>0. q \in Handler
    BY DEF TypeOK
  <2>1. ASSUME NEW op \in Ops, LoadForm(r, op) PROVE TypeOK'
    <3>1. [Idle EXCEPT !.pc = "form", !.op = op, !.form = form] \in Handler
      BY IdleType DEF Handler, TypeOK
    <3>2. QED BY <1>0, <2>1, <3>1 DEF LoadForm, TypeOK
  <2>2. ASSUME NEW S \in SUBSET Subs, NEW tag \in RawTags, LoadSubmissions(r, S, tag) PROVE TypeOK'
    <3>1. [s \in Subs |-> IF s \in S THEN row[s] ELSE NewRow] \in [Subs -> Row]
      BY NewRowType DEF TypeOK
    <3>2. [q EXCEPT !.pc = "loaded", !.todo = S, !.tag = tag,
                    !.seen = [s \in Subs |-> IF s \in S THEN row[s] ELSE NewRow]] \in Handler
      BY <2>0, <3>1 DEF Handler
    <3>3. QED BY <1>0, <2>2, <3>2 DEF LoadSubmissions, TypeOK
  <2>3. ASSUME NEW s \in Subs, Decide(r, s) PROVE TypeOK'
    <3>1. Saved(row[s], q.seen[s], q.op) \in Row /\ Rest(q, s) \in Handler
      BY <1>0, <2>0, <2>3, SavedType, RestType DEF Decide, TypeOK, Handler
    <3>2. Mark(s, q.op) \subseteq Subs \X Recorded
      BY DEF Mark
    <3>3. QED BY <1>0, <2>3, <3>1, <3>2 DEF Decide, TypeOK
  <2>4. ASSUME NEW s \in Subs, AddTag(r, s) PROVE TypeOK'
    <3> DEFINE new == q.seen[s].tags \cup {Normal[q.tag]}
    <3>1. new \in SUBSET Tags
      BY <2>0, TagsAssumption DEF Handler, Row
    <3>2. CASE q.tag \in q.seen[s].tags
      BY <1>0, <2>4, <3>2, FinishType DEF AddTag, TypeOK
    <3>3. CASE q.tag \notin q.seen[s].tags
      <4> HIDE DEF new
      <4>1. [q.seen[s] EXCEPT !.tags = new] \in Row
        BY <2>0, <3>1 DEF Handler, Row
      <4>2. [q EXCEPT !.pc = "tagged", !.seen[s].tags = new] \in Handler
        BY <2>0, <4>1 DEF Handler
      <4>3. row' \in [Subs -> Row]
        BY <2>4, <3>1, <3>3, WriteTagsType DEF AddTag, new
      <4>4. QED BY <1>0, <2>4, <3>3, <4>2, <4>3 DEF AddTag, TypeOK, new
    <3>4. QED BY <3>2, <3>3
  <2>5. ASSUME NEW s \in Subs, CacheTags(r, s) PROVE TypeOK'
    <3>1. q.form.tags \cup q.seen[s].tags \in SUBSET Tags
      BY <2>0 DEF Handler, FormRow, Row
    <3>2. form' \in FormRow
      BY <2>5, <3>1, WriteFormTagsType DEF CacheTags
    <3>3. QED BY <1>0, <2>5, <3>2, FinishType DEF CacheTags, TypeOK
  <2>6. ASSUME NEW s \in Subs, RemoveTag(r, s) PROVE TypeOK'
    <3>1. q.seen[s].tags \ {q.tag} \in SUBSET Tags
      BY <2>0 DEF Handler, Row
    <3>2. row' \in [Subs -> Row]
      BY <1>0, <2>6, <3>1, WriteTagsType DEF RemoveTag, TypeOK
    <3>3. QED BY <1>0, <2>6, <3>2, FinishType DEF RemoveTag, TypeOK
  <2>7. ASSUME NEW tag \in RawTags, NEW all \in BOOLEAN, NEW page \in Pages, Search(r, tag, all, page)
        PROVE  TypeOK'
    <3>1. [q EXCEPT !.pc = "empty", !.tag = tag] \in Handler
      BY <2>0 DEF Handler
    <3>2. QED BY <1>0, <2>7, <3>1, FinishType DEF Search, TypeOK
  <2>8. CASE ForgetTag(r)
    <3>1. q.form.tags \ {q.tag} \in SUBSET Tags
      BY <2>0 DEF Handler, FormRow
    <3>2. form' \in FormRow
      BY <2>8, <3>1, WriteFormTagsType DEF ForgetTag
    <3>3. QED BY <1>0, <2>8, <3>2, FinishType DEF ForgetTag, TypeOK
  <2>9. ASSUME NEW s \in Subs, NEW spam \in BOOLEAN, CreateSubmission(r, s, spam) PROVE TypeOK'
    <3>1. [NewRow EXCEPT !.phase = "live", !.spam = spam,
                         !.source = IF spam THEN "automated" ELSE "none"] \in Row
      BY DEF NewRow, Row
    <3>2. form' \in FormRow
      BY <1>0, <2>9 DEF CreateSubmission, TypeOK, FormRow
    <3>3. QED BY <1>0, <2>9, <3>1, <3>2, FinishType DEF CreateSubmission, TypeOK
  <2>10. CASE DestroyForm(r)
    <3>1. form' \in FormRow
      BY <1>0, <2>10 DEF DestroyForm, TypeOK, FormRow
    <3>2. QED BY <1>0, <2>10, <3>1, FinishType DEF DestroyForm, TypeOK
  <2>11. CASE Die(r)
    <3>1. log' \subseteq Subs \X Recorded
      BY <1>0, <2>11 DEF Die, Mark, TypeOK
    <3>2. deaths' \in 0 .. MaxDeaths
      BY <1>0, <2>11, DaysAssumption DEF Die, TypeOK
    <3>3. QED BY <1>0, <2>11, <3>1, <3>2, FinishType DEF Die, TypeOK
  <2>12. QED
    BY <1>0, <1>1, <2>1, <2>2, <2>3, <2>4, <2>5, <2>6, <2>7, <2>8, <2>9, <2>10, <2>11 DEF RequestStep
<1>2. CASE PurgeCount
  BY <1>0, <1>2 DEF PurgeCount, TypeOK, PurgeRun, Days
<1>3. CASE PurgeDelete
  <2>1. \A s \in Subs : [row[s] EXCEPT !.phase = "gone"] \in Row
    BY DEF TypeOK, Row
  <2>2. QED BY <1>0, <1>3, <2>1, IdlePurgeType DEF PurgeDelete, TypeOK
<1>4. CASE PurgeKilled
  BY <1>0, <1>4, IdlePurgeType DEF PurgeKilled, TypeOK
<1>5. CASE NextDay
  BY <1>0, <1>5, DaysAssumption DEF NextDay, TypeOK, Days
<1>6. CASE UNCHANGED vars
  BY <1>0, <1>6 DEF vars, TypeOK
<1>7. QED
  BY <1>1, <1>2, <1>3, <1>4, <1>5, <1>6 DEF Next

\* Every reachable state of the responses, the form's caches of them, the
\* handlers and the purge is well typed.
THEOREM TypeCorrect == Spec => []TypeOK
<1>1. QED BY TypeInit, TypeNext, PTL DEF Spec

-----------------------------------------------------------------------------
(* What a save does, whatever was loaded *)

\* What a handler changes in memory, column by column.
Becomes(seen, op, asg) ==
    /\ asg.flagged = IF op = "flag" THEN TRUE ELSE IF op = "unflag" THEN FALSE ELSE seen.flagged
    /\ asg.archived = IF op = "archive" THEN TRUE ELSE IF op = "unarchive" THEN FALSE ELSE seen.archived
    /\ op \notin {"mark", "unmark"} => asg.spam = seen.spam /\ asg.source = seen.source
    /\ op = "mark" => asg.spam = TRUE /\ asg.source = "manual"
    /\ op = "unmark" => asg.spam = FALSE /\ asg.source = "none"
    /\ asg.deleted = IF op = "delete" THEN TRUE ELSE IF op = "undelete" THEN FALSE ELSE seen.deleted
    /\ asg.deletedOn = IF op = "delete" THEN today ELSE IF op = "undelete" THEN NoDate ELSE seen.deletedOn

LEMMA AssignedFacts ==
    ASSUME NEW seen \in Row, NEW op \in Decisions
    PROVE  Becomes(seen, op, Assigned(seen, op))
<1>1. CASE op = "flag"
  BY <1>1 DEF Becomes, Assigned, Row
<1>2. CASE op = "unflag"
  BY <1>2 DEF Becomes, Assigned, Row
<1>3. CASE op = "archive"
  BY <1>3 DEF Becomes, Assigned, Row
<1>4. CASE op = "unarchive"
  BY <1>4 DEF Becomes, Assigned, Row
<1>5. CASE op = "mark"
  BY <1>5 DEF Becomes, Assigned, Row
<1>6. CASE op = "unmark"
  BY <1>6 DEF Becomes, Assigned, Row
<1>7. CASE op = "delete"
  BY <1>7 DEF Becomes, Assigned, Row
<1>8. CASE op = "undelete"
  BY <1>8 DEF Becomes, Assigned, Row
<1>9. QED BY <1>1, <1>2, <1>3, <1>4, <1>5, <1>6, <1>7, <1>8 DEF Decisions

\* The save writes a column only when this decision changed it.
LEMMA SavedFacts ==
    ASSUME NEW cur \in Row, NEW seen \in Row, NEW op \in Decisions,
           NEW new, new = Saved(cur, seen, op)
    PROVE  /\ new.phase = cur.phase /\ new.tags = cur.tags
           /\ new.flagged # cur.flagged => op \in {"flag", "unflag"}
           /\ new.archived # cur.archived => op \in {"archive", "unarchive"}
           /\ new.spam # cur.spam => op \in {"mark", "unmark"}
           /\ new.source # cur.source => op \in {"mark", "unmark"}
           /\ new.deleted # cur.deleted => op \in {"delete", "undelete"}
           /\ new.deletedOn # cur.deletedOn => op \in {"delete", "undelete"}
           /\ new.flagged => cur.flagged \/ op = "flag"
           /\ new.archived => cur.archived \/ op = "archive"
           /\ new.source = "manual" => cur.source = "manual" \/ op = "mark"
           /\ new.deleted => cur.deleted \/ op = "delete"
           /\ cur.phase = "live" /\ op = "delete" => new.deletedOn = today
           /\ op # "delete" => new.deletedOn \in {cur.deletedOn, NoDate}
<1>1. CASE cur.phase # "live"
  BY <1>1 DEF Saved, Row
<1>2. CASE cur.phase = "live"
  <2> DEFINE asg == Assigned(seen, op)
  <2>1. Becomes(seen, op, asg)
    BY AssignedFacts
  <2>2. new = [cur EXCEPT !.flagged  = Written(cur.flagged, seen.flagged, asg.flagged),
                          !.archived = Written(cur.archived, seen.archived, asg.archived),
                          !.spam     = Written(cur.spam, seen.spam, asg.spam),
                          !.source   = Written(cur.source, seen.source, asg.source),
                          !.deleted  = Written(cur.deleted, seen.deleted, asg.deleted),
                          !.deletedOn = IF op = "delete" THEN today
                                        ELSE Written(cur.deletedOn, seen.deletedOn, asg.deletedOn)]
    BY <1>2 DEF Saved
  <2> HIDE DEF asg
  <2>3. /\ new.phase = cur.phase /\ new.tags = cur.tags
        /\ new.flagged = Written(cur.flagged, seen.flagged, asg.flagged)
        /\ new.archived = Written(cur.archived, seen.archived, asg.archived)
        /\ new.spam = Written(cur.spam, seen.spam, asg.spam)
        /\ new.source = Written(cur.source, seen.source, asg.source)
        /\ new.deleted = Written(cur.deleted, seen.deleted, asg.deleted)
        /\ new.deletedOn = IF op = "delete" THEN today
                           ELSE Written(cur.deletedOn, seen.deletedOn, asg.deletedOn)
    BY <2>2 DEF Row
  <2>4. /\ new.flagged # cur.flagged => op \in {"flag", "unflag"}
        /\ new.flagged => cur.flagged \/ op = "flag"
    BY <2>1, <2>3 DEF Becomes, Written
  <2>5. /\ new.archived # cur.archived => op \in {"archive", "unarchive"}
        /\ new.archived => cur.archived \/ op = "archive"
    BY <2>1, <2>3 DEF Becomes, Written
  <2>6. new.spam # cur.spam => op \in {"mark", "unmark"}
    BY <2>1, <2>3 DEF Becomes, Written
  <2>7. /\ new.source # cur.source => op \in {"mark", "unmark"}
        /\ new.source = "manual" => cur.source = "manual" \/ op = "mark"
    BY <2>1, <2>3 DEF Becomes, Written, Decisions
  <2>8. /\ new.deleted # cur.deleted => op \in {"delete", "undelete"}
        /\ new.deleted => cur.deleted \/ op = "delete"
    BY <2>1, <2>3 DEF Becomes, Written
  <2>9. /\ new.deletedOn # cur.deletedOn => op \in {"delete", "undelete"}
        /\ op = "delete" => new.deletedOn = today
        /\ op # "delete" => new.deletedOn \in {cur.deletedOn, NoDate}
    BY <2>1, <2>3 DEF Becomes, Written
  <2>10. QED BY <2>3, <2>4, <2>5, <2>6, <2>7, <2>8, <2>9
<1>3. QED BY <1>1, <1>2

-----------------------------------------------------------------------------
(* Frames: what keeps each part of the invariant *)

LEMMA LiveFinite == IsFiniteSet(Live) /\ Cardinality(Live) \in Nat
<1>1. Live \subseteq Subs
  BY DEF Live
<1>2. QED BY <1>1, SubsAssumption, FS_Subset, FS_CardinalityType

LEMMA CountFrame ==
    ASSUME CoreInv, TypeOK', Live' \subseteq Live,
           form'.live => form.live /\ form'.count = form.count
    PROVE  CountCoversRows'
<1>1. /\ IsFiniteSet(Live') /\ Cardinality(Live') \in Nat /\ Cardinality(Live) \in Nat
      /\ Cardinality(Live') <= Cardinality(Live)
  BY LiveFinite, FS_Subset, FS_CardinalityType
<1>2. form.count \in Nat
  BY DEF CoreInv, TypeOK, FormRow
<1>3. QED BY <1>1, <1>2 DEF CoreInv, CountCoversRows

\* Rows whose decisions are the old ones stay announced.
LEMMA AuditFrame ==
    ASSUME CoreInv, log \subseteq log',
           \A s \in Subs : /\ row'[s].flagged => row[s].flagged
                           /\ row'[s].archived => row[s].archived
                           /\ row'[s].source = "manual" => row[s].source = "manual"
                           /\ row'[s].deleted => row[s].deleted
    PROVE  ModerationAudited'
<1>1. SUFFICES ASSUME NEW s \in Subs PROVE Announced(s, row[s])'
  BY DEF ModerationAudited
<1>2. Announced(s, row[s])
  BY DEF CoreInv, ModerationAudited
<1>3. row'[s].flagged /\ "flag" \in Recorded => <<s, "flag">> \in log'
  BY <1>2 DEF Announced
<1>4. row'[s].archived /\ "archive" \in Recorded => <<s, "archive">> \in log'
  BY <1>2 DEF Announced
<1>5. row'[s].source = "manual" /\ "mark" \in Recorded => <<s, "mark">> \in log'
  BY <1>2 DEF Announced
<1>6. row'[s].deleted /\ "delete" \in Recorded => <<s, "delete">> \in log'
  BY <1>2 DEF Announced
<1>7. QED BY <1>3, <1>4, <1>5, <1>6 DEF Announced

LEMMA PurgeFrame ==
    ASSUME CoreInv, UNCHANGED <<today, purge>>,
           \A s \in Subs : row'[s].phase = "live" /\ row'[s].deleted =>
              row[s].phase = "live" /\ row[s].deleted /\ row'[s].deletedOn \in {row[s].deletedOn, NoDate}
    PROVE  PurgeSound'
BY DEF CoreInv, PurgeSound, InTrash

LEMMA RowsFrame ==
    ASSUME CoreInv, TypeOK', log \subseteq log', UNCHANGED <<today, purge, row>>,
           form'.live => form.live /\ form'.count = form.count
    PROVE  CoreInv'
<1>1. Live' \subseteq Live
  BY DEF Live
<1>2. QED BY <1>1, CountFrame, AuditFrame, PurgeFrame DEF CoreInv

\* Writing tags touches no decision, no phase and no date.
LEMMA TagsFrame ==
    ASSUME CoreInv, TypeOK', NEW s \in Subs, NEW seen, NEW new, WriteTags(s, seen, new),
           UNCHANGED <<today, purge, form, log>>
    PROVE  CoreInv'
<1>1. \A t \in Subs : /\ row'[t].phase = row[t].phase
                      /\ row'[t].flagged = row[t].flagged
                      /\ row'[t].archived = row[t].archived
                      /\ row'[t].source = row[t].source
                      /\ row'[t].deleted = row[t].deleted
                      /\ row'[t].deletedOn = row[t].deletedOn
  BY DEF WriteTags, CoreInv, TypeOK, Row
<1>2. Live' \subseteq Live
  BY <1>1 DEF Live
<1>3. QED BY <1>1, <1>2, CountFrame, AuditFrame, PurgeFrame DEF CoreInv

LEMMA FormTagsFrame ==
    ASSUME CoreInv, NEW seen, NEW new, WriteFormTags(seen, new)
    PROVE  form'.live => form.live /\ form'.count = form.count
BY DEF WriteFormTags, CoreInv, TypeOK, FormRow

-----------------------------------------------------------------------------

LEMMA DecideInv ==
    ASSUME CoreInv, NEW r \in Requests, NEW s \in Subs, Decide(r, s), TypeOK'
    PROVE  CoreInv'
<1> DEFINE op == request[r].op
           new == Saved(row[s], request[r].seen[s], op)
<1>1. row[s] \in Row /\ request[r].seen[s] \in Row /\ op \in Decisions
  BY DEF Decide, CoreInv, TypeOK, Handler
<1>2. /\ row' = [row EXCEPT ![s] = new] /\ log' = log \cup Mark(s, op)
      /\ UNCHANGED <<today, form, purge>>
  BY DEF Decide
<1>3. /\ new.phase = row[s].phase
      /\ new.flagged => row[s].flagged \/ op = "flag"
      /\ new.archived => row[s].archived \/ op = "archive"
      /\ new.source = "manual" => row[s].source = "manual" \/ op = "mark"
      /\ new.deleted => row[s].deleted \/ op = "delete"
      /\ row[s].phase = "live" /\ op = "delete" => new.deletedOn = today
      /\ op # "delete" => new.deletedOn \in {row[s].deletedOn, NoDate}
  BY <1>1, SavedFacts
<1> HIDE DEF new
<1>4. \A t \in Subs : row'[t] = IF t = s THEN new ELSE row[t]
  BY <1>2 DEF CoreInv, TypeOK
<1>5. Live' \subseteq Live
  BY <1>3, <1>4 DEF Live
<1>6. ModerationAudited'
  <2>1. op \in Recorded => <<s, op>> \in log'
    BY <1>2 DEF Mark
  <2>2. QED BY <1>2, <1>3, <1>4, <2>1 DEF CoreInv, ModerationAudited, Announced
<1>7. PurgeSound'
  <2>1. SUFFICES ASSUME purge.pc = "counted", NEW t \in Subs, InTrash(t, purge.cutoff)'
                 PROVE  t \in purge.counted
    BY <1>2 DEF CoreInv, PurgeSound
  <2>2. CASE t = s /\ op = "delete"
    <3>1. row'[t].deletedOn = today
      BY <1>2, <1>3, <1>4, <2>1, <2>2 DEF InTrash
    <3>2. purge.cutoff <= today /\ today \in Nat /\ purge.cutoff \in Nat /\ TrashAge \in Nat
      BY <2>1, DaysAssumption DEF CoreInv, PurgeSound, TypeOK, PurgeRun, Days
    <3>3. today + TrashAge < purge.cutoff
      BY <1>2, <2>1, <3>1 DEF InTrash
    <3>4. QED BY <3>2, <3>3
  <2>3. CASE ~(t = s /\ op = "delete")
    <3>1. InTrash(t, purge.cutoff)
      BY <1>2, <1>3, <1>4, <2>1, <2>3 DEF InTrash
    <3>2. QED BY <2>1, <3>1 DEF CoreInv, PurgeSound
  <2>4. QED BY <2>2, <2>3
<1>8. CountCoversRows'
  BY <1>2, <1>5, CountFrame
<1>9. QED BY <1>6, <1>7, <1>8 DEF CoreInv

LEMMA CreateInv ==
    ASSUME CoreInv, NEW r \in Requests, NEW s \in Subs, NEW spam \in BOOLEAN,
           CreateSubmission(r, s, spam), TypeOK'
    PROVE  CoreInv'
<1> DEFINE new == [NewRow EXCEPT !.phase = "live", !.spam = spam,
                                 !.source = IF spam THEN "automated" ELSE "none"]
<1>1. /\ \A t \in Subs : row'[t] = IF t = s THEN new ELSE row[t]
      /\ row[s].phase = "unborn"
      /\ form' = IF form.live THEN [form EXCEPT !.count = @ + 1] ELSE form
      /\ UNCHANGED <<today, purge, log>>
  BY DEF CreateSubmission, IsNextId, CoreInv, TypeOK
<1>2. /\ new.phase = "live" /\ new.flagged = FALSE /\ new.archived = FALSE
      /\ new.source # "manual" /\ new.deleted = FALSE
  BY DEF NewRow
<1> HIDE DEF new
<1>3. CountCoversRows'
  <2>1. Live' = Live \cup {s} /\ s \notin Live
    BY <1>1, <1>2 DEF Live
  <2>2. Cardinality(Live') = Cardinality(Live) + 1
    BY <2>1, LiveFinite, FS_AddElement
  <2>3. form.live => form'.count = form.count + 1
    BY <1>1 DEF CoreInv, TypeOK, FormRow
  <2>4. form'.live => form.live /\ form.count \in Nat
    BY <1>1 DEF CoreInv, TypeOK, FormRow
  <2>5. QED BY <2>2, <2>3, <2>4, LiveFinite DEF CoreInv, CountCoversRows
<1>4. ModerationAudited'
  BY <1>1, <1>2 DEF CoreInv, ModerationAudited, Announced
<1>5. PurgeSound'
  BY <1>1, <1>2, PurgeFrame
<1>6. QED BY <1>3, <1>4, <1>5 DEF CoreInv

LEMMA PurgeDeleteInv ==
    ASSUME CoreInv, PurgeDelete, TypeOK'
    PROVE  CoreInv'
<1>1. \A s \in Subs : /\ row'[s].phase = "live" => row[s].phase = "live"
                      /\ row'[s].flagged = row[s].flagged
                      /\ row'[s].archived = row[s].archived
                      /\ row'[s].source = row[s].source
                      /\ row'[s].deleted = row[s].deleted
  BY DEF PurgeDelete, CoreInv, TypeOK, Row
<1>2. Live' \subseteq Live
  BY <1>1 DEF Live
<1>3. PurgeSound'
  BY DEF PurgeDelete, IdlePurge, PurgeSound
<1>4. form' = form /\ log' = log
  BY DEF PurgeDelete
<1>5. QED BY <1>1, <1>2, <1>3, <1>4, CountFrame, AuditFrame DEF CoreInv

\* The clock and the task's own bookkeeping.
LEMMA ClockInv ==
    ASSUME CoreInv, PurgeCount \/ PurgeKilled \/ NextDay, TypeOK'
    PROVE  CoreInv'
<1>1. UNCHANGED <<form, row, log>>
  BY DEF PurgeCount, PurgeKilled, NextDay
<1>2. CountCoversRows' /\ ModerationAudited'
  BY <1>1 DEF CoreInv, CountCoversRows, Live, ModerationAudited, Announced
<1>3. PurgeSound'
  <2>1. CASE PurgeCount
    BY <2>1 DEF PurgeCount, PurgeSound, InTrash, CoreInv, TypeOK, Days
  <2>2. CASE PurgeKilled
    BY <2>2 DEF PurgeKilled, PurgeSound, IdlePurge
  <2>3. CASE NextDay
    BY <2>3 DEF NextDay, PurgeSound, InTrash, CoreInv, TypeOK, Days, PurgeRun
  <2>4. QED BY <2>1, <2>2, <2>3
<1>4. QED BY <1>2, <1>3 DEF CoreInv

LEMMA InvInit == Init => CoreInv
<1> SUFFICES ASSUME Init PROVE CoreInv
  OBVIOUS
<1>1. TypeOK
  BY TypeInit
<1>2. Live = {}
  BY DEF Init, Live, NewRow
<1>3. CountCoversRows
  BY <1>2, FS_EmptySet DEF Init, CountCoversRows
<1>4. ModerationAudited
  BY DEF Init, ModerationAudited, Announced, NewRow
<1>5. PurgeSound
  BY DEF Init, PurgeSound, IdlePurge
<1>6. QED BY <1>1, <1>3, <1>4, <1>5 DEF CoreInv

LEMMA InvNext == CoreInv /\ [Next]_vars => CoreInv'
<1> SUFFICES ASSUME CoreInv, [Next]_vars PROVE CoreInv'
  OBVIOUS
<1>0. TypeOK'
  BY TypeNext DEF CoreInv
<1>1. ASSUME NEW r \in Requests, RequestStep(r) PROVE CoreInv'
  <2>1. ASSUME NEW op \in Ops, LoadForm(r, op) PROVE CoreInv'
    BY <1>0, <2>1, RowsFrame DEF LoadForm
  <2>2. ASSUME NEW S \in SUBSET Subs, NEW tag \in RawTags, LoadSubmissions(r, S, tag) PROVE CoreInv'
    BY <1>0, <2>2, RowsFrame DEF LoadSubmissions
  <2>3. ASSUME NEW s \in Subs, Decide(r, s) PROVE CoreInv'
    BY <1>0, <2>3, DecideInv
  <2>4. ASSUME NEW s \in Subs, AddTag(r, s) PROVE CoreInv'
    BY <1>0, <2>4, RowsFrame, TagsFrame DEF AddTag
  <2>5. ASSUME NEW s \in Subs, CacheTags(r, s) PROVE CoreInv'
    BY <1>0, <2>5, RowsFrame, FormTagsFrame DEF CacheTags
  <2>6. ASSUME NEW s \in Subs, RemoveTag(r, s) PROVE CoreInv'
    BY <1>0, <2>6, RowsFrame, TagsFrame DEF RemoveTag
  <2>7. ASSUME NEW tag \in RawTags, NEW all \in BOOLEAN, NEW page \in Pages, Search(r, tag, all, page)
        PROVE  CoreInv'
    BY <1>0, <2>7, RowsFrame DEF Search
  <2>8. CASE ForgetTag(r)
    BY <1>0, <2>8, RowsFrame, FormTagsFrame DEF ForgetTag
  <2>9. ASSUME NEW s \in Subs, NEW spam \in BOOLEAN, CreateSubmission(r, s, spam) PROVE CoreInv'
    BY <1>0, <2>9, CreateInv
  <2>10. CASE DestroyForm(r)
    <3>1. form'.live => form.live /\ form'.count = form.count
      BY <2>10 DEF DestroyForm, CoreInv, TypeOK, FormRow
    <3>2. QED BY <1>0, <2>10, <3>1, RowsFrame DEF DestroyForm
  <2>11. CASE Die(r)
    BY <1>0, <2>11, RowsFrame DEF Die
  <2>12. QED
    BY <1>1, <2>1, <2>2, <2>3, <2>4, <2>5, <2>6, <2>7, <2>8, <2>9, <2>10, <2>11 DEF RequestStep
<1>2. CASE PurgeDelete
  BY <1>0, <1>2, PurgeDeleteInv
<1>3. CASE PurgeCount \/ PurgeKilled \/ NextDay
  BY <1>0, <1>3, ClockInv
<1>4. CASE UNCHANGED vars
  BY <1>0, <1>4, RowsFrame DEF vars
<1>5. QED
  BY <1>1, <1>2, <1>3, <1>4 DEF Next

-----------------------------------------------------------------------------
(* Handlers in flight together *)

\* What a save makes of the columns that belong together, and of what is set aside.
LEMMA SavedPairs ==
    ASSUME NEW cur \in Row, NEW seen \in Row, NEW op \in Decisions, cur.phase = "live",
           NEW new, new = Saved(cur, seen, op)
    PROVE  /\ op = "delete" => /\ new.deleted = (seen.deleted => cur.deleted)
                               /\ new.deletedOn = today
           /\ op = "undelete" =>
                 /\ new.deleted = (~seen.deleted /\ cur.deleted)
                 /\ new.deletedOn = IF seen.deletedOn = NoDate THEN cur.deletedOn ELSE NoDate
           /\ op = "mark" => /\ new.spam = (seen.spam => cur.spam)
                             /\ new.source = IF seen.source = "manual" THEN cur.source ELSE "manual"
           /\ op = "unmark" => /\ new.spam = (~seen.spam /\ cur.spam)
                               /\ new.source = IF seen.source = "none" THEN cur.source ELSE "none"
           /\ op \notin Restoring => /\ cur.flagged => new.flagged
                                     /\ cur.archived => new.archived
                                     /\ cur.spam => new.spam
                                     /\ cur.deleted => new.deleted
<1>0. PICK asg : asg = Assigned(seen, op)
  OBVIOUS
<1>1. new = [cur EXCEPT !.flagged  = Written(cur.flagged, seen.flagged, asg.flagged),
                        !.archived = Written(cur.archived, seen.archived, asg.archived),
                        !.spam     = Written(cur.spam, seen.spam, asg.spam),
                        !.source   = Written(cur.source, seen.source, asg.source),
                        !.deleted  = Written(cur.deleted, seen.deleted, asg.deleted),
                        !.deletedOn = IF op = "delete" THEN today
                                      ELSE Written(cur.deletedOn, seen.deletedOn, asg.deletedOn)]
  BY <1>0 DEF Saved
<1>2. Becomes(seen, op, asg)
  BY <1>0, AssignedFacts
<1>3. /\ new.flagged = Written(cur.flagged, seen.flagged, asg.flagged)
      /\ new.archived = Written(cur.archived, seen.archived, asg.archived)
      /\ new.spam = Written(cur.spam, seen.spam, asg.spam)
      /\ new.source = Written(cur.source, seen.source, asg.source)
      /\ new.deleted = Written(cur.deleted, seen.deleted, asg.deleted)
      /\ new.deletedOn = IF op = "delete" THEN today
                         ELSE Written(cur.deletedOn, seen.deletedOn, asg.deletedOn)
  BY <1>1 DEF Row
<1>4. /\ seen.flagged \in BOOLEAN /\ seen.archived \in BOOLEAN /\ seen.spam \in BOOLEAN
      /\ seen.deleted \in BOOLEAN /\ cur.deleted \in BOOLEAN /\ cur.spam \in BOOLEAN
      /\ cur.flagged \in BOOLEAN /\ cur.archived \in BOOLEAN
  BY DEF Row
<1>5. op \notin Restoring => op \in {"flag", "archive", "mark", "delete"}
  BY DEF Restoring, Decisions
<1>6. op = "delete" => new.deleted = (seen.deleted => cur.deleted) /\ new.deletedOn = today
  BY <1>2, <1>3, <1>4 DEF Becomes, Written
<1>7. op = "undelete" =>
         /\ new.deleted = (~seen.deleted /\ cur.deleted)
         /\ new.deletedOn = IF seen.deletedOn = NoDate THEN cur.deletedOn ELSE NoDate
  BY <1>2, <1>3, <1>4 DEF Becomes, Written
<1>8. op = "mark" => /\ new.spam = (seen.spam => cur.spam)
                     /\ new.source = IF seen.source = "manual" THEN cur.source ELSE "manual"
  BY <1>2, <1>3, <1>4 DEF Becomes, Written
<1>9. op = "unmark" => /\ new.spam = (~seen.spam /\ cur.spam)
                        /\ new.source = IF seen.source = "none" THEN cur.source ELSE "none"
  BY <1>2, <1>3, <1>4 DEF Becomes, Written
<1>10. op \notin Restoring => /\ cur.flagged => new.flagged
                              /\ cur.archived => new.archived
                              /\ cur.spam => new.spam
                              /\ cur.deleted => new.deleted
  BY <1>2, <1>3, <1>4, <1>5 DEF Becomes, Written
<1>11. QED BY <1>6, <1>7, <1>8, <1>9, <1>10

\* What the history says of two handlers in flight.
LEMMA Meeting ==
    ASSUME ConflictsKnown, NEW r \in Busy, NEW t \in Busy, r # t
    PROVE  LET one == request[r].op  other == request[t].op
           IN  /\ one = "delete" /\ other = "undelete" => "trash" \in strayed
               /\ one = "mark" /\ other = "unmark" => "spam" \in strayed
               /\ one = "add_tag" /\ other = "add_tag" => "tags" \in strayed
               /\ one \in TagOps /\ other \in {"search"} \cup Restoring => "tags" \in strayed
<1>1. Clash(request[r].op, request[t].op) \subseteq strayed
  BY DEF ConflictsKnown
<1>2. \A k \in DOMAIN Conflicts : <<request[r].op, request[t].op>> \in Conflicts[k] => k \in strayed
  BY <1>1 DEF Clash
<1>3. /\ {"trash", "spam", "tags"} = DOMAIN Conflicts
      /\ <<"delete", "undelete">> \in Conflicts["trash"]
      /\ <<"mark", "unmark">> \in Conflicts["spam"]
      /\ <<"add_tag", "add_tag">> \in Conflicts["tags"]
      /\ TagOps \X ({"search"} \cup Restoring) \subseteq Conflicts["tags"]
  BY DEF Conflicts
<1>4. QED BY <1>2, <1>3

\* A handler that starts is compared with all that are in flight; one that goes on keeps
\* its operation.
LEMMA ConflictsFrame ==
    ASSUME TypeOK, ConflictsKnown, strayed \subseteq strayed',
           \A t \in Requests : request'[t].pc # "idle" =>
              request[t].pc # "idle" /\ request'[t].op = request[t].op
    PROVE  ConflictsKnown'
<1> SUFFICES ASSUME NEW r \in Busy', NEW t \in Busy', r # t
             PROVE  Clash(request'[r].op, request'[t].op) \subseteq strayed'
  BY DEF ConflictsKnown, Clash
<1>1. r \in Busy /\ t \in Busy /\ request'[r].op = request[r].op /\ request'[t].op = request[t].op
  BY DEF Busy
<1>2. QED BY <1>1 DEF ConflictsKnown

LEMMA LoadFormConflicts ==
    ASSUME TypeOK, ConflictsKnown, NEW r \in Requests, NEW op \in Ops, LoadForm(r, op)
    PROVE  ConflictsKnown'
<1>1. /\ request'[r].op = op /\ request'[r].pc = "form" /\ r \notin Busy
      /\ \A t \in Requests \ {r} : request'[t] = request[t]
  BY DEF LoadForm, TypeOK, Idle, Busy
<1>2. strayed \subseteq strayed' /\ \A t \in Busy : Clash(op, request[t].op) \subseteq strayed'
  BY DEF LoadForm
<1>3. \A t \in Busy : Clash(request[t].op, op) \subseteq strayed'
  BY <1>2 DEF Clash
<1> SUFFICES ASSUME NEW t \in Busy', NEW u \in Busy', t # u
             PROVE  Clash(request'[t].op, request'[u].op) \subseteq strayed'
  BY DEF ConflictsKnown, Clash
<1>4. CASE t = r
  <2>1. u \in Busy /\ request'[u] = request[u]
    BY <1>1, <1>4 DEF Busy
  <2>2. QED BY <1>1, <1>2, <1>4, <2>1
<1>5. CASE u = r
  <2>1. t \in Busy /\ request'[t] = request[t]
    BY <1>1, <1>5 DEF Busy
  <2>2. QED BY <1>1, <1>3, <1>5, <2>1
<1>6. CASE t # r /\ u # r
  <2>1. /\ t \in Busy /\ request'[t] = request[t]
        /\ u \in Busy /\ request'[u] = request[u]
    BY <1>1, <1>6 DEF Busy
  <2>2. QED BY <1>2, <2>1 DEF ConflictsKnown
<1>7. QED BY <1>4, <1>5, <1>6

\* Rows come and go in one direction only.
OneWay == \A s \in Subs : /\ row[s].phase # "unborn" => row'[s].phase # "unborn"
                          /\ row'[s].phase = "live" => row[s].phase # "gone"

LEMMA SeenFrame ==
    ASSUME NEW q, SeenWhole(q), strayed \subseteq strayed', OneWay,
           q.todo \subseteq Subs, \A s \in q.todo : row[s].phase \in {"live", "gone"},
           q.pc = "loaded" => \A s \in q.todo \cap Live :
              /\ q.op = "delete" /\ "trash" \notin strayed' /\ row[s].deleted => row'[s].deleted
              /\ q.op = "mark" /\ "spam" \notin strayed' /\ row[s].spam => row'[s].spam
    PROVE  q.pc = "loaded" => \A s \in q.todo :
        /\ "trash" \notin strayed' =>
              /\ q.seen[s].deleted <=> q.seen[s].deletedOn # NoDate
              /\ q.op = "delete" /\ s \in Live' /\ q.seen[s].deleted => row'[s].deleted
        /\ "spam" \notin strayed' =>
              /\ q.seen[s].spam <=> q.seen[s].source # "none"
              /\ q.op = "mark" /\ s \in Live' /\ q.seen[s].spam => row'[s].spam
<1> SUFFICES ASSUME q.pc = "loaded", NEW s \in q.todo
             PROVE  /\ "trash" \notin strayed' =>
                          /\ q.seen[s].deleted <=> q.seen[s].deletedOn # NoDate
                          /\ q.op = "delete" /\ s \in Live' /\ q.seen[s].deleted => row'[s].deleted
                    /\ "spam" \notin strayed' =>
                          /\ q.seen[s].spam <=> q.seen[s].source # "none"
                          /\ q.op = "mark" /\ s \in Live' /\ q.seen[s].spam => row'[s].spam
  OBVIOUS
<1>1. s \in Live' => s \in Live
  BY DEF OneWay, Live
<1>2. /\ "trash" \notin strayed' =>
            /\ q.seen[s].deleted <=> q.seen[s].deletedOn # NoDate
            /\ q.op = "delete" /\ s \in Live /\ q.seen[s].deleted => row[s].deleted
      /\ "spam" \notin strayed' =>
            /\ q.seen[s].spam <=> q.seen[s].source # "none"
            /\ q.op = "mark" /\ s \in Live /\ q.seen[s].spam => row[s].spam
  BY DEF SeenWhole
<1>3. QED BY <1>1, <1>2

\* The handlers in C move; the others have not been made wrong by what happened to the rows.
LEMMA HandlersFrame ==
    ASSUME TypeOK, TogetherInv, strayed \subseteq strayed', OneWay, NEW C \in SUBSET Requests,
           \A t \in Requests \ C : request'[t] = request[t],
           \A t \in C : SeenWhole(request[t])' /\ Placed(request[t])',
           \A t \in Requests \ C : request[t].pc = "loaded" => \A s \in request[t].todo \cap Live :
              /\ request[t].op = "delete" /\ "trash" \notin strayed' /\ row[s].deleted => row'[s].deleted
              /\ request[t].op = "mark" /\ "spam" \notin strayed' /\ row[s].spam => row'[s].spam
    PROVE  \A t \in Requests : SeenWhole(request[t])' /\ Placed(request[t])'
<1> SUFFICES ASSUME NEW t \in Requests \ C
             PROVE  SeenWhole(request[t])' /\ Placed(request[t])'
  OBVIOUS
<1> DEFINE q == request[t]
<1>1. /\ q \in Handler /\ SeenWhole(q) /\ Placed(q) /\ q.todo \subseteq Subs
      /\ \A s \in q.todo : row[s].phase \in {"live", "gone"}
  BY DEF TypeOK, TogetherInv, Placed, Handler, Row
<1>2. request'[t] = q
  OBVIOUS
<1>3. SeenWhole(request[t])'
  BY <1>1, <1>2, SeenFrame DEF SeenWhole
<1>4. Placed(request[t])'
  BY <1>1, <1>2 DEF Placed, OneWay
<1>5. QED BY <1>3, <1>4

LEMMA PairsFrame ==
    ASSUME PairsWhole, strayed \subseteq strayed',
           \A s \in Live' : /\ s \in Live
                            /\ row'[s].deleted = row[s].deleted /\ row'[s].deletedOn = row[s].deletedOn
                            /\ row'[s].spam = row[s].spam /\ row'[s].source = row[s].source
    PROVE  PairsWhole'
BY DEF PairsWhole

\* What is in the cache, or promised to it, stays so while nobody writes the cache.
LEMMA PromisedKept ==
    ASSUME form.tags \subseteq form'.tags,
           \A t \in Requests : request[t].pc = "tagged" => request'[t] = request[t]
    PROVE  Promised \subseteq Promised'
BY DEF Promised

LEMMA CacheFrame ==
    ASSUME TypeOK, TogetherInv, strayed \subseteq strayed',
           form'.live => form.live /\ form'.tags = form.tags,
           NEW C \in SUBSET Requests, \A t \in Requests \ C : request'[t] = request[t],
           \A t \in C : request[t].pc # "tagged",
           "tags" \notin strayed' /\ form'.live =>
              /\ \A s \in Live' : Active(s)' => row'[s].tags \subseteq Promised \cup Promised'
              /\ \A t \in C : TagsSeen(request[t])'
              /\ \A t \in (Requests \ C) \cap Busy : request[t].op = "search" =>
                    \A s \in Live' : Active(s)' =>
                       \/ row'[s].tags = {}
                       \/ s \in Live /\ Active(s) /\ row'[s].tags = row[s].tags
              /\ \A t \in Requests \ C : request[t].pc = "loaded" /\ request[t].op \in TagOps =>
                    \A s \in request[t].todo \cap Live' : Active(s)' => s \in Live /\ Active(s)
    PROVE  TagsInv'
<1> SUFFICES ASSUME "tags" \notin strayed', form'.live
             PROVE  /\ \A s \in Live' : Active(s)' => row'[s].tags \subseteq Promised'
                    /\ \A t \in Requests : TagsSeen(request[t])'
  BY DEF TagsInv
<1>1. /\ form.live /\ form'.tags = form.tags /\ "tags" \notin strayed
      /\ \A t \in Requests : TagsSeen(request[t]) /\ Placed(request[t])
  BY DEF TogetherInv, TagsInv
<1>2. Promised \subseteq Promised'
  BY <1>1, PromisedKept
<1>3. ASSUME NEW t \in Requests \ C PROVE TagsSeen(request[t])'
  <2> DEFINE q == request[t]
  <2>1. request'[t] = q /\ TagsSeen(q) /\ Placed(q)
    BY <1>1
  <2>2. q.pc # "idle" /\ q.op = "add_tag" => q.form.tags = form'.tags
    BY <1>1, <2>1 DEF TagsSeen
  <2>3. q.pc # "idle" /\ q.op = "search" => \A s \in Live' : Active(s)' => row'[s].tags \subseteq q.form.tags
    BY <2>1 DEF TagsSeen, Busy
  <2>4. q.pc = "loaded" /\ q.op \in TagOps =>
          \A s \in q.todo \cap Live' : Active(s)' => q.seen[s].tags \subseteq Promised'
    BY <1>2, <2>1 DEF TagsSeen
  <2>5. q.pc = "empty" => \A s \in Live' : Active(s)' => q.tag \notin row'[s].tags
    BY <2>1 DEF TagsSeen, Placed, Busy
  <2> HIDE DEF q
  <2>6. QED BY <2>1, <2>2, <2>3, <2>4, <2>5 DEF TagsSeen
<1>4. QED BY <1>2, <1>3

LEMMA IdleTogether == SeenWhole(Idle)' /\ Placed(Idle)' /\ TagsSeen(Idle)'
BY DEF Idle, SeenWhole, Placed, TagsSeen

\* A handler that ends, or the clock and the purge's bookkeeping, with the rows untouched.
LEMMA QuietTogether ==
    ASSUME TypeOK, TogetherInv, strayed \subseteq strayed', UNCHANGED row,
           form'.live => form.live /\ form'.tags = form.tags,
           NEW C \in SUBSET Requests, \A t \in Requests \ C : request'[t] = request[t],
           \A t \in C : /\ SeenWhole(request[t])' /\ Placed(request[t])'
                        /\ request'[t].pc # "idle" => request[t].pc # "idle" /\ request'[t].op = request[t].op
                        /\ "tags" \notin strayed' /\ form'.live =>
                              request[t].pc # "tagged" /\ TagsSeen(request[t])'
    PROVE  TogetherInv'
<1>1. OneWay /\ Live' = Live /\ \A s : Active(s)' <=> Active(s)
  BY DEF OneWay, TypeOK, Row, Live, Active
<1>2. \A t \in Requests : SeenWhole(request[t])' /\ Placed(request[t])'
  BY <1>1, HandlersFrame
<1>3. PairsWhole'
  BY <1>1, PairsFrame DEF TogetherInv
<1>4. ConflictsKnown'
  BY ConflictsFrame DEF TogetherInv
<1>5. TagsInv'
  <2>1. CASE "tags" \notin strayed' /\ form'.live
    <3>1. "tags" \notin strayed /\ form.live
      BY <2>1
    <3>2. \A s \in Live : Active(s) => row[s].tags \subseteq Promised
      BY <3>1 DEF TogetherInv, TagsInv
    <3>3. \A t \in C : request[t].pc # "tagged"
      BY <2>1
    <3>4. /\ \A s \in Live' : Active(s)' => row'[s].tags \subseteq Promised
          /\ \A t \in C : TagsSeen(request[t])'
      BY <1>1, <2>1, <3>2
    <3>5. \A s \in Live' : Active(s)' => s \in Live /\ Active(s) /\ row'[s].tags = row[s].tags
      BY <1>1
    <3>6. QED BY <3>3, <3>4, <3>5, CacheFrame
  <2>2. CASE ~("tags" \notin strayed' /\ form'.live)
    BY <2>2 DEF TagsInv
  <2>3. QED BY <2>1, <2>2
<1>6. QED BY <1>2, <1>3, <1>4, <1>5 DEF TogetherInv

LEMMA FinishTogether ==
    ASSUME TypeOK, TogetherInv, strayed \subseteq strayed', UNCHANGED row,
           form'.live => form.live /\ form'.tags = form.tags,
           NEW r \in Requests, Finish(r), request[r].pc = "tagged" => "tags" \in strayed'
    PROVE  TogetherInv'
<1>1. request'[r] = Idle /\ \A t \in Requests \ {r} : request'[t] = request[t]
  BY DEF Finish, TypeOK
<1>2. SeenWhole(request[r])' /\ Placed(request[r])' /\ TagsSeen(request[r])'
  BY <1>1, IdleTogether DEF SeenWhole, Placed, TagsSeen
<1>3. request'[r].pc = "idle"
  BY <1>1 DEF Idle
<1> DEFINE C == {r}
<1>4. /\ C \in SUBSET Requests
      /\ \A t \in Requests \ C : request'[t] = request[t]
      /\ \A t \in C : /\ SeenWhole(request[t])' /\ Placed(request[t])'
                      /\ request'[t].pc # "idle" => request[t].pc # "idle" /\ request'[t].op = request[t].op
                      /\ "tags" \notin strayed' /\ form'.live =>
                            request[t].pc # "tagged" /\ TagsSeen(request[t])'
  BY <1>1, <1>2, <1>3
<1> HIDE DEF C
<1>5. QED BY <1>4, QuietTogether

LEMMA ClockTogether ==
    ASSUME TypeOK, TogetherInv, UNCHANGED <<row, form, request, strayed>>
    PROVE  TogetherInv'
<1> DEFINE C == {}
<1>1. C \in SUBSET Requests /\ \A t \in Requests \ C : request'[t] = request[t]
  OBVIOUS
<1>2. \A t \in C : FALSE
  OBVIOUS
<1> HIDE DEF C
<1>3. QED BY <1>1, <1>2, QuietTogether

\* One handler moves, and what happens to the rows is no affair of the others.
LEMMA OneMoves ==
    ASSUME TypeOK, TogetherInv, strayed \subseteq strayed', OneWay,
           NEW r \in Requests, NEW new, request' = [request EXCEPT ![r] = new],
           SeenWhole(new)', Placed(new)', ConflictsKnown', PairsWhole', TagsInv',
           \A t \in Requests \ {r} : request[t].pc = "loaded" => \A s \in request[t].todo \cap Live :
              /\ request[t].op = "delete" /\ "trash" \notin strayed' /\ row[s].deleted => row'[s].deleted
              /\ request[t].op = "mark" /\ "spam" \notin strayed' /\ row[s].spam => row'[s].spam
    PROVE  TogetherInv'
<1> DEFINE C == {r}
<1>1. request'[r] = new /\ \A t \in Requests \ {r} : request'[t] = request[t]
  BY DEF TypeOK
<1>2. SeenWhole(request[r])' /\ Placed(request[r])'
  BY <1>1 DEF SeenWhole, Placed
<1>3. /\ C \in SUBSET Requests
      /\ \A t \in Requests \ C : request'[t] = request[t]
      /\ \A t \in C : SeenWhole(request[t])' /\ Placed(request[t])'
      /\ \A t \in Requests \ C : request[t].pc = "loaded" => \A s \in request[t].todo \cap Live :
            /\ request[t].op = "delete" /\ "trash" \notin strayed' /\ row[s].deleted => row'[s].deleted
            /\ request[t].op = "mark" /\ "spam" \notin strayed' /\ row[s].spam => row'[s].spam
  BY <1>1, <1>2
<1> HIDE DEF C
<1>4. \A t \in Requests : SeenWhole(request[t])' /\ Placed(request[t])'
  BY <1>3, HandlersFrame
<1>5. QED BY <1>4 DEF TogetherInv

LEMMA CacheOne ==
    ASSUME TypeOK, TogetherInv, strayed \subseteq strayed',
           form'.live => form.live /\ form'.tags = form.tags,
           NEW r \in Requests, NEW new, request' = [request EXCEPT ![r] = new],
           request[r].pc # "tagged",
           "tags" \notin strayed' /\ form'.live =>
              /\ \A s \in Live' : Active(s)' => row'[s].tags \subseteq Promised \cup Promised'
              /\ TagsSeen(new)'
              /\ \A t \in Busy \ {r} : request[t].op = "search" =>
                    \A s \in Live' : Active(s)' =>
                       \/ row'[s].tags = {}
                       \/ s \in Live /\ Active(s) /\ row'[s].tags = row[s].tags
              /\ \A t \in Requests \ {r} : request[t].pc = "loaded" /\ request[t].op \in TagOps =>
                    \A s \in request[t].todo \cap Live' : Active(s)' => s \in Live /\ Active(s)
    PROVE  TagsInv'
<1> DEFINE C == {r}
<1>1. request'[r] = new /\ \A t \in Requests \ {r} : request'[t] = request[t]
  BY DEF TypeOK
<1>2. C \in SUBSET Requests /\ \A t \in Requests \ C : request'[t] = request[t]
  BY <1>1
<1>3. \A t \in C : request[t].pc # "tagged"
  OBVIOUS
<1>4. TagsSeen(new)' => \A t \in C : TagsSeen(request[t])'
  BY <1>1 DEF TagsSeen
<1>5. \A t \in (Requests \ C) \cap Busy : t \in Busy \ {r}
  BY DEF Busy
<1>6. \A t \in Requests \ C : t \in Requests \ {r}
  OBVIOUS
<1> HIDE DEF C
<1>7. "tags" \notin strayed' /\ form'.live =>
         /\ \A s \in Live' : Active(s)' => row'[s].tags \subseteq Promised \cup Promised'
         /\ \A t \in C : TagsSeen(request[t])'
         /\ \A t \in (Requests \ C) \cap Busy : request[t].op = "search" =>
               \A s \in Live' : Active(s)' =>
                  \/ row'[s].tags = {}
                  \/ s \in Live /\ Active(s) /\ row'[s].tags = row[s].tags
         /\ \A t \in Requests \ C : request[t].pc = "loaded" /\ request[t].op \in TagOps =>
               \A s \in request[t].todo \cap Live' : Active(s)' => s \in Live /\ Active(s)
  BY <1>4, <1>5, <1>6
<1>8. QED BY <1>2, <1>3, <1>7, CacheFrame

\* While a handler of tags or a search is in flight, which others cannot be.
LEMMA Alone ==
    ASSUME TypeOK, TogetherInv, NEW r \in Busy, "tags" \notin strayed
    PROVE  /\ request[r].op = "add_tag" => \A t \in Busy \ {r} :
                 request[t].op \notin {"add_tag", "search"} \cup Restoring /\ request[t].pc \notin {"tagged", "empty"}
           /\ request[r].op = "remove_tag" => \A t \in Busy \ {r} :
                 request[t].op \notin {"search"} \cup Restoring /\ request[t].pc # "empty"
           /\ request[r].op \in {"search"} \cup Restoring => \A t \in Busy \ {r} :
                 request[t].op \notin TagOps /\ request[t].pc # "tagged"
<1>1. \A t \in Busy : Placed(request[t])
  BY DEF TogetherInv, Busy
<1>2. ConflictsKnown
  BY DEF TogetherInv
<1>3. QED BY <1>1, <1>2, Meeting DEF Placed, TagOps

\* With no handler between a response and the cache, what is promised is in the cache.
LEMMA NothingPending ==
    ASSUME \A t \in Requests : request[t].pc # "tagged"
    PROVE  Promised = form.tags
BY DEF Promised

LEMMA LoadFormTogether ==
    ASSUME TypeOK, TogetherInv, NEW r \in Requests, NEW op \in Ops, LoadForm(r, op)
    PROVE  TogetherInv'
<1> DEFINE q == [Idle EXCEPT !.pc = "form", !.op = op, !.form = form]
<1>0. /\ q.pc = "form" /\ q.op = op /\ q.form = form /\ q.todo = {}
      /\ request' = [request EXCEPT ![r] = q]
  BY DEF LoadForm, Idle
<1> HIDE DEF q
<1>1. PICK new : /\ request' = [request EXCEPT ![r] = new]
                 /\ new.pc = "form" /\ new.op = op /\ new.form = form /\ new.todo = {}
  BY <1>0
<1>2. strayed \subseteq strayed' /\ UNCHANGED <<form, row>> /\ request[r].pc = "idle" /\ form.live
  BY DEF LoadForm
<1>3. /\ OneWay /\ Live' = Live /\ \A s : Active(s)' <=> Active(s)
  BY <1>2 DEF OneWay, TypeOK, Row, Live, Active
<1>4. ConflictsKnown' /\ PairsWhole'
  BY <1>2, <1>3, LoadFormConflicts, PairsFrame DEF TogetherInv
<1>5. SeenWhole(new)' /\ Placed(new)'
  BY <1>1 DEF SeenWhole, Placed
<1>6. ASSUME "tags" \notin strayed'
      PROVE  /\ \A s \in Live : Active(s) => row[s].tags \subseteq Promised
             /\ TagsSeen(new)'
  <2>1. \A s \in Live : Active(s) => row[s].tags \subseteq Promised
    BY <1>2, <1>6 DEF TogetherInv, TagsInv
  <2>2. op = "search" => \A s \in Live' : Active(s)' => row'[s].tags \subseteq form'.tags
    <3> SUFFICES ASSUME op = "search" PROVE \A t \in Requests : request[t].pc # "tagged"
      BY <1>2, <1>3, <2>1, NothingPending
    <3> SUFFICES ASSUME NEW t \in Requests, request[t].pc = "tagged" PROVE FALSE
      OBVIOUS
    <3>1. request[t].op = "add_tag" /\ t # r
      BY <1>2 DEF TogetherInv, Placed
    <3>2. /\ request'[r] = new /\ request'[t] = request[t]
      BY <1>1, <3>1 DEF TypeOK
    <3>3. r \in Busy' /\ t \in Busy'
      BY <1>1, <3>2 DEF Busy
    <3>4. Clash("add_tag", "search") \subseteq strayed'
      BY <1>1, <1>4, <3>1, <3>2, <3>3 DEF ConflictsKnown, Clash
    <3>5. "tags" \in Clash("add_tag", "search")
      <4>1. "tags" \in DOMAIN Conflicts /\ <<"add_tag", "search">> \in Conflicts["tags"]
        BY DEF Conflicts, TagOps
      <4>2. QED BY <4>1 DEF Clash
    <3>6. QED BY <1>6, <3>4, <3>5
  <2>3. TagsSeen(new)'
    BY <1>1, <1>2, <2>2 DEF TagsSeen
  <2>4. QED BY <2>1, <2>3
<1>7. TagsInv'
  <2>1. \A s \in Live' : Active(s)' => s \in Live /\ Active(s) /\ row'[s].tags = row[s].tags
    BY <1>2, <1>3
  <2>2. QED BY <1>1, <1>2, <1>6, <2>1, CacheOne
<1>8. QED BY <1>1, <1>2, <1>3, <1>4, <1>5, <1>7, OneMoves

\* A handler loads a row that is whole, and whose tags are in the cache if they should be.
LEMMA LoadSubmissionsTogether ==
    ASSUME TypeOK, TogetherInv, NEW r \in Requests, NEW S \in SUBSET Subs, NEW tag \in RawTags,
           LoadSubmissions(r, S, tag)
    PROVE  TogetherInv'
<1> DEFINE q == request[r]
           p == [q EXCEPT !.pc = "loaded", !.todo = S, !.tag = tag,
                          !.seen = [s \in Subs |-> IF s \in S THEN row[s] ELSE NewRow]]
           C == {r}
<1>1. /\ q \in Handler /\ q.pc = "form" /\ S \subseteq Live /\ UNCHANGED <<form, row, strayed>>
      /\ request' = [request EXCEPT ![r] = p]
      /\ Cardinality(S) = 1 \/ q.op \in BulkOps
  BY DEF LoadSubmissions, TypeOK
<1>p. /\ p.pc = "loaded" /\ p.todo = S /\ p.op = q.op /\ p.form = q.form
      /\ \A s \in S : p.seen[s] = row[s]
  BY <1>1 DEF Handler
<1> HIDE DEF p
<1>2. PICK new : /\ request' = [request EXCEPT ![r] = new]
                 /\ new.pc = "loaded" /\ new.todo = S /\ new.op = q.op /\ new.form = q.form
                 /\ \A s \in S : new.seen[s] = row[s]
  BY <1>1, <1>p
<1>3. request'[r] = new /\ \A t \in Requests \ C : request'[t] = request[t]
  BY <1>2 DEF TypeOK
<1>4. q.op \in TagOps => \A s, t \in S : s = t
  <2>1. q.op \in TagOps => Cardinality(S) = 1
    BY <1>1 DEF TagOps, BulkOps
  <2>2. IsFiniteSet(S)
    BY SubsAssumption, FS_Subset
  <2>3. Cardinality(S) = 1 => \E x : S = {x}
    BY <2>2, FS_Singleton
  <2>4. QED BY <2>1, <2>3
<1>5. Live' = Live /\ Promised \subseteq Promised' /\ \A s : Active(s)' <=> Active(s)
  <2>1. \A t \in Requests : request[t].pc = "tagged" => request'[t] = request[t]
    BY <1>1, <1>3
  <2>2. Promised \subseteq Promised'
    BY <1>1, <2>1, PromisedKept
  <2>3. QED BY <1>1, <2>2 DEF Live, Active
<1>6. SeenWhole(new)'
  <2>1. PairsWhole
    BY DEF TogetherInv
  <2>2. QED BY <1>1, <1>2, <1>5, <2>1 DEF SeenWhole, PairsWhole
<1>7. Placed(new)'
  BY <1>1, <1>2, <1>4 DEF Placed, Live
<1>8. "tags" \notin strayed' /\ form'.live => TagsSeen(new)'
  <2> SUFFICES ASSUME "tags" \notin strayed', form'.live PROVE TagsSeen(new)'
    OBVIOUS
  <2>1. TagsSeen(q) /\ \A s \in Live : Active(s) => row[s].tags \subseteq Promised
    BY <1>1 DEF TogetherInv, TagsInv
  <2>2. q.op = "add_tag" => q.form.tags = form'.tags
    BY <1>1, <2>1 DEF TagsSeen
  <2>3. q.op = "search" => \A s \in Live' : Active(s)' => row'[s].tags \subseteq q.form.tags
    BY <1>1, <1>5, <2>1 DEF TagsSeen
  <2>4. \A s \in S \cap Live' : Active(s)' => new.seen[s].tags \subseteq Promised'
    BY <1>2, <1>5, <2>1
  <2>5. QED BY <1>2, <2>2, <2>3, <2>4 DEF TagsSeen
<1>9. /\ C \in SUBSET Requests
      /\ \A t \in C : /\ SeenWhole(request[t])' /\ Placed(request[t])'
                      /\ request'[t].pc # "idle" => request[t].pc # "idle" /\ request'[t].op = request[t].op
                      /\ "tags" \notin strayed' /\ form'.live =>
                            request[t].pc # "tagged" /\ TagsSeen(request[t])'
  <2>1. SeenWhole(request[r])' /\ Placed(request[r])'
    BY <1>3, <1>6, <1>7 DEF SeenWhole, Placed
  <2>2. "tags" \notin strayed' /\ form'.live => TagsSeen(request[r])'
    BY <1>3, <1>8 DEF TagsSeen
  <2>3. QED BY <1>1, <1>2, <1>3, <2>1, <2>2
<1> HIDE DEF C
<1>10. QED BY <1>1, <1>3, <1>9, QuietTogether

\* A search either ends or has found nothing under its tag.
LEMMA SearchTogether ==
    ASSUME TypeOK, TogetherInv, NEW r \in Requests, NEW tag \in RawTags, NEW all \in BOOLEAN,
           NEW page \in Pages, Search(r, tag, all, page)
    PROVE  TogetherInv'
<1> DEFINE q == request[r]
           p == [q EXCEPT !.pc = "empty", !.tag = tag]
           hits == {s \in Live : tag \in row[s].tags /\ (all \/ Active(s))}
           C == {r}
<1>1. /\ q \in Handler /\ q.pc = "form" /\ q.op = "search" /\ UNCHANGED <<form, row>>
      /\ strayed \subseteq strayed' /\ (page > 1 => "tags" \in strayed')
  BY DEF Search, TypeOK
<1>2. CASE Finish(r)
  BY <1>1, <1>2, FinishTogether
<1>3. CASE Cardinality(hits) <= (page - 1) * PageSize /\ request' = [request EXCEPT ![r] = p]
  <2>p. p.pc = "empty" /\ p.op = "search" /\ p.form = q.form /\ p.tag = tag /\ p.todo = q.todo
    BY <1>1 DEF Handler
  <2> HIDE DEF p
  <2>1. PICK new : /\ request' = [request EXCEPT ![r] = new]
                   /\ new.pc = "empty" /\ new.op = "search" /\ new.form = q.form /\ new.tag = tag
                   /\ new.todo = q.todo
    BY <1>3, <2>p
  <2>2. request'[r] = new /\ \A t \in Requests \ C : request'[t] = request[t]
    BY <2>1 DEF TypeOK
  <2>3. page = 1 => \A s \in Live : Active(s) => tag \notin row[s].tags
    <3>1. page = 1 => (page - 1) * PageSize = 0
      BY PagesAssumption
    <3>2. hits \subseteq Live /\ IsFiniteSet(hits) /\ Cardinality(hits) \in Nat
      BY LiveFinite, FS_Subset, FS_CardinalityType
    <3> HIDE DEF hits
    <3>3. page = 1 => Cardinality(hits) = 0
      BY <1>3, <3>1, <3>2
    <3>4. page = 1 => hits = {}
      BY <3>2, <3>3, FS_EmptySet
    <3>5. QED BY <3>4 DEF hits
  <2>4. SeenWhole(new)' /\ Placed(new)'
    <3>1. Placed(q)
      BY DEF TogetherInv
    <3>2. QED BY <1>1, <2>1, <3>1 DEF SeenWhole, Placed
  <2>5. "tags" \notin strayed' /\ form'.live => TagsSeen(new)'
    <3> SUFFICES ASSUME "tags" \notin strayed', form'.live PROVE TagsSeen(new)'
      OBVIOUS
    <3>1. page = 1
      BY <1>1, PagesAssumption
    <3>2. TagsSeen(q)
      BY <1>1 DEF TogetherInv, TagsInv
    <3>3. \A s \in Live : Active(s) => row[s].tags \subseteq q.form.tags
      BY <1>1, <3>2 DEF TagsSeen
    <3>4. Live' = Live /\ row' = row /\ \A s : Active(s)' <=> Active(s)
      BY <1>1 DEF Live, Active
    <3>5. QED BY <2>1, <2>3, <3>1, <3>3, <3>4 DEF TagsSeen
  <2>6. /\ C \in SUBSET Requests
        /\ \A t \in C : /\ SeenWhole(request[t])' /\ Placed(request[t])'
                        /\ request'[t].pc # "idle" => request[t].pc # "idle" /\ request'[t].op = request[t].op
                        /\ "tags" \notin strayed' /\ form'.live =>
                              request[t].pc # "tagged" /\ TagsSeen(request[t])'
    <3>1. SeenWhole(request[r])' /\ Placed(request[r])'
      BY <2>2, <2>4 DEF SeenWhole, Placed
    <3>2. "tags" \notin strayed' /\ form'.live => TagsSeen(request[r])'
      BY <2>2, <2>5 DEF TagsSeen
    <3>3. QED BY <1>1, <2>1, <2>2, <3>1, <3>2
  <2> HIDE DEF C
  <2>7. QED BY <1>1, <2>2, <2>6, QuietTogether
<1>4. QED BY <1>2, <1>3 DEF Search

\* A write of a response's tags: what it adds is promised to the cache.
LEMMA TagsWritten ==
    ASSUME TypeOK, TogetherInv, UNCHANGED <<form, strayed>>,
           NEW r \in Requests, NEW s \in Subs, NEW seen, NEW now, WriteTags(s, seen, now),
           NEW new, request' = [request EXCEPT ![r] = new],
           request[r].pc = "loaded", request[r].op \in TagOps,
           new.pc # "loaded", new.pc # "idle" => new.op = request[r].op, Placed(new)',
           "tags" \notin strayed /\ form.live =>
              /\ s \in Live /\ Active(s) => now \subseteq Promised \cup Promised'
              /\ TagsSeen(new)'
    PROVE  TogetherInv'
<1>1. \A t \in Subs : /\ row'[t].phase = row[t].phase
                      /\ row'[t].flagged = row[t].flagged /\ row'[t].archived = row[t].archived
                      /\ row'[t].spam = row[t].spam /\ row'[t].source = row[t].source
                      /\ row'[t].deleted = row[t].deleted /\ row'[t].deletedOn = row[t].deletedOn
                      /\ row'[t].tags = row[t].tags \/ (t = s /\ row'[t].tags = now)
  BY DEF WriteTags, Written, TypeOK, Row
<1>2. Live' = Live /\ \A t \in Subs : Active(t)' <=> Active(t)
  BY <1>1 DEF Live, Active
<1>3. OneWay /\ Live \subseteq Subs
  BY <1>1 DEF OneWay, Live, TypeOK, Row
<1>4. PairsWhole'
  BY <1>1, <1>2, <1>3, PairsFrame DEF TogetherInv
<1>5. request'[r] = new /\ \A t \in Requests \ {r} : request'[t] = request[t]
  BY DEF TypeOK
<1>6. ConflictsKnown'
  BY <1>5, ConflictsFrame DEF TogetherInv
<1>7. SeenWhole(new)'
  BY DEF SeenWhole
<1>8. TagsInv'
  <2>1. ASSUME "tags" \notin strayed', form'.live
        PROVE  /\ \A t \in Live' : Active(t)' => row'[t].tags \subseteq Promised \cup Promised'
               /\ TagsSeen(new)'
               /\ \A t \in Busy \ {r} : request[t].op # "search"
    <3>1. \A t \in Live : Active(t) => row[t].tags \subseteq Promised
      BY <2>1 DEF TogetherInv, TagsInv
    <3>2. r \in Busy
      BY DEF Busy
    <3>3. \A t \in Busy \ {r} : request[t].op # "search"
      BY <2>1, <3>2, Alone DEF TagOps
    <3>4. QED BY <1>1, <1>2, <1>3, <2>1, <3>1, <3>3
  <2>2. \A t \in Live' : Active(t)' => t \in Live /\ Active(t)
    BY <1>2, <1>3
  <2>3. QED BY <2>1, <2>2, CacheOne
<1>9. \A t \in Requests \ {r} : request[t].pc = "loaded" => \A u \in request[t].todo \cap Live :
         /\ request[t].op = "delete" /\ "trash" \notin strayed' /\ row[u].deleted => row'[u].deleted
         /\ request[t].op = "mark" /\ "spam" \notin strayed' /\ row[u].spam => row'[u].spam
  BY <1>1, <1>3
<1>10. QED BY <1>3, <1>4, <1>6, <1>7, <1>8, <1>9, OneMoves

LEMMA RemoveTagTogether ==
    ASSUME TypeOK, TogetherInv, NEW r \in Requests, NEW s \in Subs, RemoveTag(r, s)
    PROVE  TogetherInv'
<1> DEFINE q == request[r]
           now == q.seen[s].tags \ {q.tag}
<1>1. /\ q.pc = "loaded" /\ q.op = "remove_tag" /\ s \in q.todo
      /\ UNCHANGED <<form, strayed>> /\ Finish(r)
      /\ row' = row \/ WriteTags(s, q.seen[s].tags, now)
  BY DEF RemoveTag
<1>2. CASE row' = row
  BY <1>1, <1>2, FinishTogether
<1>3. CASE WriteTags(s, q.seen[s].tags, now)
  <2>1. PICK new : new = Idle
    OBVIOUS
  <2>2. /\ request' = [request EXCEPT ![r] = new] /\ new.pc = "idle"
        /\ Placed(new)' /\ TagsSeen(new)'
    BY <1>1, <2>1, IdleTogether DEF Finish, Idle, Placed, TagsSeen
  <2>3. "tags" \notin strayed /\ form.live /\ s \in Live /\ Active(s) => now \subseteq Promised
    BY <1>1 DEF TogetherInv, TagsInv, TagsSeen, TagOps
  <2> HIDE DEF now
  <2>4. q.op \in TagOps
    BY <1>1 DEF TagOps
  <2>5. QED BY <1>1, <1>3, <2>2, <2>3, <2>4, TagsWritten
<1>4. QED BY <1>1, <1>2, <1>3

LEMMA AddTagTogether ==
    ASSUME TypeOK, TogetherInv, NEW r \in Requests, NEW s \in Subs, AddTag(r, s)
    PROVE  TogetherInv'
<1> DEFINE q == request[r]
           now == q.seen[s].tags \cup {Normal[q.tag]}
           p == [q EXCEPT !.pc = "tagged", !.seen[s].tags = now]
<1>1. /\ q \in Handler /\ q.pc = "loaded" /\ q.op = "add_tag" /\ s \in q.todo
      /\ UNCHANGED <<form, strayed>>
      /\ \/ row' = row /\ Finish(r)
         \/ WriteTags(s, q.seen[s].tags, now) /\ request' = [request EXCEPT ![r] = p]
  BY DEF AddTag, TypeOK
<1>2. CASE row' = row /\ Finish(r)
  BY <1>1, <1>2, FinishTogether
<1>3. CASE WriteTags(s, q.seen[s].tags, now) /\ request' = [request EXCEPT ![r] = p]
  <2>1. now \subseteq Tags
    BY <1>1, TagsAssumption DEF Handler, Row
  <2>2. /\ p.pc = "tagged" /\ p.op = "add_tag" /\ p.todo = q.todo /\ p.form = q.form
        /\ p.seen[s].tags = now
    BY <1>1 DEF Handler, Row
  <2> HIDE DEF p, now
  <2>3. PICK new : /\ request' = [request EXCEPT ![r] = new]
                   /\ new.pc = "tagged" /\ new.op = "add_tag" /\ new.todo = q.todo /\ new.form = q.form
                   /\ new.seen[s].tags = now
    BY <1>3, <2>2
  <2>4. now \subseteq Promised'
    <3>1. request'[r] = new
      BY <2>3 DEF TypeOK
    <3>2. QED BY <1>1, <2>1, <2>3, <3>1 DEF Promised
  <2>5. Placed(new)'
    <3>1. Placed(q) /\ \A u \in q.todo : u \in Subs
      BY <1>1 DEF TogetherInv, Handler
    <3>2. \A u \in Subs : row'[u].phase = row[u].phase
      BY <1>3 DEF WriteTags, TypeOK, Row
    <3>3. QED BY <1>1, <2>3, <3>1, <3>2 DEF Placed
  <2>6. "tags" \notin strayed /\ form.live => TagsSeen(new)'
    <3>1. "tags" \notin strayed /\ form.live => q.form.tags = form.tags
      BY <1>1 DEF TogetherInv, TagsInv, TagsSeen
    <3>2. QED BY <1>1, <2>3, <3>1 DEF TagsSeen
  <2>7. q.op \in TagOps
    BY <1>1 DEF TagOps
  <2>8. QED BY <1>1, <1>3, <2>3, <2>4, <2>5, <2>6, <2>7, TagsWritten
<1>4. QED BY <1>1, <1>2, <1>3

\* A handler that ends with a write of the form's cache.
LEMMA CacheWritten ==
    ASSUME TypeOK, TogetherInv, UNCHANGED <<row, strayed>>, NEW r \in Requests, Finish(r), TagsInv'
    PROVE  TogetherInv'
<1>1. PICK new : new = Idle
  OBVIOUS
<1>2. request' = [request EXCEPT ![r] = new] /\ new.pc = "idle" /\ SeenWhole(new)' /\ Placed(new)'
  BY <1>1, IdleTogether DEF Finish, Idle, SeenWhole, Placed
<1>3. OneWay /\ Live' = Live
  BY DEF OneWay, TypeOK, Row, Live
<1>4. PairsWhole'
  BY <1>3, PairsFrame DEF TogetherInv
<1>5. request'[r] = new /\ \A t \in Requests \ {r} : request'[t] = request[t]
  BY <1>2 DEF TypeOK
<1>6. ConflictsKnown'
  BY <1>2, <1>5, ConflictsFrame DEF TogetherInv
<1>7. QED BY <1>2, <1>3, <1>4, <1>6, OneMoves

\* update_submission_tags! puts what it promised into the cache.
LEMMA CacheTagsTogether ==
    ASSUME TypeOK, TogetherInv, NEW r \in Requests, NEW s \in Subs, CacheTags(r, s)
    PROVE  TogetherInv'
<1> DEFINE q == request[r]
<1>1. /\ q.pc = "tagged" /\ s \in q.todo /\ Finish(r) /\ UNCHANGED <<row, strayed>>
      /\ WriteFormTags(q.form.tags, q.form.tags \cup q.seen[s].tags)
      /\ request'[r].pc = "idle" /\ \A t \in Requests \ {r} : request'[t] = request[t]
  BY DEF CacheTags, Finish, TypeOK, Idle
<1>2. q.op = "add_tag" /\ (\A u \in q.todo : u = s) /\ r \in Busy
  BY <1>1 DEF TogetherInv, Placed, TagOps, Busy
<1>3. ASSUME "tags" \notin strayed', form'.live
      PROVE  /\ \A u \in Live' : Active(u)' => row'[u].tags \subseteq Promised'
             /\ \A t \in Requests : TagsSeen(request[t])'
  <2>1. form.live /\ "tags" \notin strayed
    BY <1>1, <1>3 DEF WriteFormTags
  <2>2. /\ \A t \in Requests : TagsSeen(request[t]) /\ Placed(request[t])
        /\ \A u \in Live : Active(u) => row[u].tags \subseteq Promised
    BY <2>1 DEF TogetherInv, TagsInv
  <2>3. form'.tags = form.tags \cup q.seen[s].tags
    <3>1. q.form.tags = form.tags
      BY <1>1, <1>2, <2>2 DEF TagsSeen
    <3>2. QED BY <1>1, <2>1, <3>1 DEF WriteFormTags, Written, TypeOK, FormRow
  <2>4. Promised \subseteq Promised'
    <3> SUFFICES ASSUME NEW tag \in Promised, tag \notin form.tags PROVE tag \in Promised'
      BY <2>3 DEF Promised
    <3>1. /\ tag \in Tags
          /\ \E t \in Requests : /\ request[t].pc = "tagged"
                                 /\ \E u \in request[t].todo : tag \in request[t].seen[u].tags
      BY DEF Promised
    <3>2. PICK t \in Requests : /\ request[t].pc = "tagged"
                               /\ \E u \in request[t].todo : tag \in request[t].seen[u].tags
      BY <3>1
    <3>3. CASE t = r
      BY <1>2, <2>3, <3>2, <3>3 DEF Promised
    <3>4. CASE t # r
      BY <1>1, <3>1, <3>2, <3>4 DEF Promised
    <3>5. QED BY <3>3, <3>4
  <2>5. \A t \in Busy \ {r} : request[t].op \notin {"add_tag", "search"} /\ request[t].pc # "empty"
    BY <1>2, <2>1, Alone
  <2>6. Live' = Live /\ \A u : Active(u)' <=> Active(u)
    BY <1>1 DEF Live, Active
  <2>7. TagsSeen(request[r])'
    BY <1>1 DEF TagsSeen
  <2>8. ASSUME NEW t \in Requests \ {r} PROVE TagsSeen(request[t])'
    <3>1. request'[t] = request[t] /\ TagsSeen(request[t])
      BY <1>1, <2>2
    <3>2. CASE request[t].pc = "idle"
      BY <3>1, <3>2 DEF TagsSeen
    <3>3. CASE request[t].pc # "idle"
      <4>1. request[t].op \notin {"add_tag", "search"} /\ request[t].pc # "empty"
        BY <2>5, <3>3 DEF Busy
      <4>2. request[t].pc = "loaded" /\ request[t].op \in TagOps =>
               \A u \in request[t].todo \cap Live : Active(u) => request[t].seen[u].tags \subseteq Promised'
        BY <2>4, <3>1 DEF TagsSeen
      <4>3. QED BY <2>6, <3>1, <4>1, <4>2 DEF TagsSeen
    <3>4. QED BY <3>2, <3>3
  <2>9. QED BY <1>1, <2>2, <2>4, <2>6, <2>7, <2>8
<1>4. QED BY <1>1, <1>3, CacheWritten DEF TagsInv

\* What the view forgets, no active response has.
LEMMA ForgetTagTogether ==
    ASSUME TypeOK, TogetherInv, NEW r \in Requests, ForgetTag(r)
    PROVE  TogetherInv'
<1> DEFINE q == request[r]
<1>1. /\ q.pc = "empty" /\ Finish(r) /\ UNCHANGED <<row, strayed>>
      /\ WriteFormTags(q.form.tags, q.form.tags \ {q.tag})
      /\ request'[r].pc = "idle" /\ \A t \in Requests \ {r} : request'[t] = request[t]
  BY DEF ForgetTag, Finish, TypeOK, Idle
<1>2. q.op = "search" /\ r \in Busy
  BY <1>1 DEF TogetherInv, Placed, Busy
<1>3. ASSUME "tags" \notin strayed', form'.live
      PROVE  /\ \A u \in Live' : Active(u)' => row'[u].tags \subseteq Promised'
             /\ \A t \in Requests : TagsSeen(request[t])'
  <2>1. form.live /\ "tags" \notin strayed
    BY <1>1, <1>3 DEF WriteFormTags
  <2>2. /\ \A t \in Requests : TagsSeen(request[t]) /\ Placed(request[t])
        /\ \A u \in Live : Active(u) => row[u].tags \subseteq Promised
    BY <2>1 DEF TogetherInv, TagsInv
  <2>3. Live' = Live /\ \A u : Active(u)' <=> Active(u)
    BY <1>1 DEF Live, Active
  <2>4. \A t \in Busy \ {r} : request[t].op \notin TagOps /\ request[t].pc # "tagged"
    BY <1>2, <2>1, Alone
  <2>5. \A t \in Requests : request[t].pc # "tagged"
    BY <1>1, <2>4 DEF Busy
  <2>6. Promised = form.tags
    BY <2>5, NothingPending
  <2>7. \A u \in Live : Active(u) => row[u].tags \subseteq q.form.tags /\ q.tag \notin row[u].tags
    BY <1>1, <1>2, <2>2 DEF TagsSeen
  <2>8. form'.tags \in {form.tags, q.form.tags \ {q.tag}}
    BY <1>1, <2>1 DEF WriteFormTags, Written, TypeOK, FormRow
  <2>9. \A u \in Live : Active(u) => row[u].tags \subseteq form'.tags
    BY <2>2, <2>6, <2>7, <2>8
  <2>10. form'.tags \subseteq Promised'
    BY DEF Promised
  <2>11. TagsSeen(request[r])'
    BY <1>1 DEF TagsSeen
  <2>12. ASSUME NEW t \in Requests \ {r} PROVE TagsSeen(request[t])'
    <3>1. request'[t] = request[t] /\ TagsSeen(request[t])
      BY <1>1, <2>2
    <3>2. request[t].pc # "idle" => request[t].op \notin TagOps
      BY <2>4 DEF Busy
    <3>3. "add_tag" \in TagOps
      BY DEF TagOps
    <3>4. CASE request[t].pc = "idle"
      BY <3>1, <3>4 DEF TagsSeen
    <3>5. CASE request[t].pc # "idle"
      BY <1>1, <2>3, <3>1, <3>2, <3>3, <3>5 DEF TagsSeen
    <3>6. QED BY <3>4, <3>5
  <2>13. QED BY <1>1, <2>3, <2>9, <2>10, <2>11, <2>12
<1>4. QED BY <1>1, <1>3, CacheWritten DEF TagsInv

\* A new response is whole, has no tags, and nobody has it loaded.
LEMMA CreateTogether ==
    ASSUME TypeOK, TogetherInv, NEW r \in Requests, NEW s \in Subs, NEW spam \in BOOLEAN,
           CreateSubmission(r, s, spam)
    PROVE  TogetherInv'
<1>1. PICK new : new = Idle
  OBVIOUS
<1>2. /\ request' = [request EXCEPT ![r] = new] /\ new.pc = "idle"
      /\ SeenWhole(new)' /\ Placed(new)' /\ TagsSeen(new)'
  BY <1>1, IdleTogether DEF CreateSubmission, Finish, Idle, SeenWhole, Placed, TagsSeen
<1>3. /\ request[r].pc = "form" /\ row[s].phase = "unborn" /\ strayed' = strayed
      /\ form'.live => form.live /\ form'.tags = form.tags
  BY DEF CreateSubmission, IsNextId, TypeOK, FormRow
<1>4. /\ \A t \in Subs \ {s} : row'[t] = row[t]
      /\ row'[s].phase = "live" /\ row'[s].tags = {}
      /\ row'[s].deleted = FALSE /\ row'[s].deletedOn = NoDate
      /\ row'[s].spam <=> row'[s].source # "none"
  BY DEF CreateSubmission, TypeOK, NewRow
<1>5. OneWay /\ Live' = Live \cup {s} /\ s \notin Live /\ Live \subseteq Subs
  BY <1>3, <1>4 DEF OneWay, TypeOK, Row, Live
<1>6. \A t \in Live : Active(t)' <=> Active(t)
  BY <1>4, <1>5 DEF Active
<1>7. PairsWhole'
  BY <1>3, <1>4, <1>5 DEF TogetherInv, PairsWhole
<1>8. request'[r] = new /\ \A t \in Requests \ {r} : request'[t] = request[t]
  BY <1>2 DEF TypeOK
<1>9. ConflictsKnown'
  BY <1>2, <1>3, <1>8, ConflictsFrame DEF TogetherInv
<1>10. TagsInv'
  <2>1. ASSUME "tags" \notin strayed', form'.live
        PROVE  \A u \in Live' : Active(u)' => row'[u].tags \subseteq Promised
    BY <1>3, <1>4, <1>5, <1>6, <2>1 DEF TogetherInv, TagsInv
  <2>2. \A u \in Live' : Active(u)' =>
           row'[u].tags = {} \/ (u \in Live /\ Active(u) /\ row'[u].tags = row[u].tags)
    BY <1>4, <1>5, <1>6
  <2>3. \A t \in Requests : s \notin request[t].todo
    BY <1>3 DEF TogetherInv, Placed
  <2>4. \A t \in Requests : \A u \in request[t].todo \cap Live' : Active(u)' => u \in Live /\ Active(u)
    BY <1>5, <1>6, <2>3
  <2>5. QED BY <1>2, <1>3, <2>1, <2>2, <2>4, CacheOne
<1>11. \A t \in Requests \ {r} : request[t].pc = "loaded" => \A u \in request[t].todo \cap Live :
          /\ request[t].op = "delete" /\ "trash" \notin strayed' /\ row[u].deleted => row'[u].deleted
          /\ request[t].op = "mark" /\ "spam" \notin strayed' /\ row[u].spam => row'[u].spam
  BY <1>4, <1>5
<1>12. QED BY <1>2, <1>3, <1>5, <1>7, <1>9, <1>10, <1>11, OneMoves

\* A save keeps together what belongs together: what it assigns anew or, if it found its
\* decision taken, what nobody else can have undone.
LEMMA SavedWhole ==
    ASSUME NEW cur \in Row, NEW seen \in Row, NEW op \in Decisions, cur.phase = "live", today \in Days,
           NEW new, new = Saved(cur, seen, op),
           cur.deleted <=> cur.deletedOn # NoDate,
           seen.deleted <=> seen.deletedOn # NoDate,
           op = "delete" /\ seen.deleted => cur.deleted
    PROVE  new.deleted <=> new.deletedOn # NoDate
<1>1. CASE op = "delete"
  <2>1. new.deleted = (seen.deleted => cur.deleted) /\ new.deletedOn = today
    BY <1>1, SavedPairs
  <2>2. today # NoDate
    BY DaysAssumption DEF Days, NoDate
  <2>3. (seen.deleted => cur.deleted) = TRUE
    BY <1>1
  <2>4. QED BY <2>1, <2>2, <2>3
<1>2. CASE op = "undelete"
  <2>1. /\ new.deleted = (~seen.deleted /\ cur.deleted)
        /\ new.deletedOn = IF seen.deletedOn = NoDate THEN cur.deletedOn ELSE NoDate
    BY <1>2, SavedPairs
  <2>2. seen.deleted \in BOOLEAN /\ cur.deleted \in BOOLEAN
    BY DEF Row
  <2>3. CASE seen.deleted
    BY <2>1, <2>3
  <2>4. CASE ~seen.deleted
    BY <2>1, <2>4
  <2>5. QED BY <2>3, <2>4
<1>3. CASE op \notin {"delete", "undelete"}
  <2>1. new.deleted = cur.deleted /\ new.deletedOn = cur.deletedOn
    BY <1>3, SavedFacts
  <2>2. QED BY <2>1
<1>4. QED BY <1>1, <1>2, <1>3

LEMMA SavedSpam ==
    ASSUME NEW cur \in Row, NEW seen \in Row, NEW op \in Decisions, cur.phase = "live",
           NEW new, new = Saved(cur, seen, op),
           cur.spam <=> cur.source # "none",
           seen.spam <=> seen.source # "none",
           op = "mark" /\ seen.spam => cur.spam
    PROVE  new.spam <=> new.source # "none"
<1>0. seen.spam \in BOOLEAN /\ cur.spam \in BOOLEAN
  BY DEF Row
<1>1. CASE op = "mark"
  <2>1. /\ new.spam = (seen.spam => cur.spam)
        /\ new.source = IF seen.source = "manual" THEN cur.source ELSE "manual"
    BY <1>1, SavedPairs
  <2>2. CASE seen.source = "manual"
    BY <1>1, <2>1, <2>2
  <2>3. CASE seen.source # "manual"
    BY <1>1, <2>1, <2>3
  <2>4. QED BY <2>2, <2>3
<1>2. CASE op = "unmark"
  <2>1. /\ new.spam = (~seen.spam /\ cur.spam)
        /\ new.source = IF seen.source = "none" THEN cur.source ELSE "none"
    BY <1>2, SavedPairs
  <2>2. CASE seen.spam
    BY <2>1, <2>2
  <2>3. CASE ~seen.spam
    BY <2>1, <2>3
  <2>4. QED BY <2>2, <2>3
<1>3. CASE op \notin {"mark", "unmark"}
  <2>1. new.spam = cur.spam /\ new.source = cur.source
    BY <1>3, SavedFacts
  <2>2. QED BY <2>1
<1>4. QED BY <1>1, <1>2, <1>3

\* A handler that goes on with the rest of its responses.
LEMMA RestFacts ==
    ASSUME NEW q \in Handler, NEW s \in Subs, NEW new, new = Rest(q, s)
    PROVE  /\ new.pc \in {"idle", q.pc} /\ new.todo \subseteq q.todo \ {s}
           /\ new.pc # "idle" => new.op = q.op
           /\ \A u \in new.todo : new.seen[u] = q.seen[u]
<1>1. CASE q.todo = {s}
  BY <1>1 DEF Rest, Idle
<1>2. CASE q.todo # {s}
  BY <1>2 DEF Rest, Handler
<1>3. QED BY <1>1, <1>2

LEMMA DecideTogether ==
    ASSUME TypeOK, TogetherInv, NEW r \in Requests, NEW s \in Subs, Decide(r, s)
    PROVE  TogetherInv'
<1> DEFINE q == request[r]
           saved == Saved(row[s], q.seen[s], q.op)
           rest == Rest(q, s)
<1>1. /\ q \in Handler /\ row[s] \in Row /\ q.seen[s] \in Row /\ today \in Days
      /\ q.pc = "loaded" /\ q.op \in Decisions /\ s \in q.todo /\ r \in Busy
      /\ request' = [request EXCEPT ![r] = rest]
      /\ UNCHANGED form /\ strayed' = Decided(q, s)
      /\ row'[s] = saved /\ \A u \in Subs \ {s} : row'[u] = row[u]
  BY DEF Decide, IsNewest, TypeOK, Handler, Busy
<1>2. strayed \subseteq strayed' /\ (q.op \in Restoring /\ row[s].tags # {} => "tags" \in strayed')
  BY <1>1 DEF Decided
<1>3. SeenWhole(q) /\ Placed(q) /\ ConflictsKnown /\ PairsWhole
  BY DEF TogetherInv
<1>4. /\ saved.phase = row[s].phase /\ saved.tags = row[s].tags
      /\ (saved.spam # row[s].spam => q.op \in {"mark", "unmark"})
      /\ (saved.deleted # row[s].deleted => q.op \in {"delete", "undelete"})
  BY <1>1, SavedFacts
<1>5. row[s].phase = "live" /\ q.op \notin Restoring =>
         /\ row[s].flagged => saved.flagged
         /\ row[s].archived => saved.archived
         /\ row[s].spam => saved.spam
         /\ row[s].deleted => saved.deleted
  BY <1>1, SavedPairs
<1>6. s \in Live => /\ "trash" \notin strayed => (saved.deleted <=> saved.deletedOn # NoDate)
                    /\ "spam" \notin strayed => (saved.spam <=> saved.source # "none")
  <2> SUFFICES ASSUME s \in Live
               PROVE  /\ "trash" \notin strayed => (saved.deleted <=> saved.deletedOn # NoDate)
                      /\ "spam" \notin strayed => (saved.spam <=> saved.source # "none")
    OBVIOUS
  <2>1. row[s].phase = "live"
    BY DEF Live
  <2>2. "trash" \notin strayed => /\ row[s].deleted <=> row[s].deletedOn # NoDate
                                  /\ q.seen[s].deleted <=> q.seen[s].deletedOn # NoDate
                                  /\ q.op = "delete" /\ q.seen[s].deleted => row[s].deleted
    BY <1>1, <1>3 DEF PairsWhole, SeenWhole
  <2>3. "spam" \notin strayed => /\ row[s].spam <=> row[s].source # "none"
                                 /\ q.seen[s].spam <=> q.seen[s].source # "none"
                                 /\ q.op = "mark" /\ q.seen[s].spam => row[s].spam
    BY <1>1, <1>3 DEF PairsWhole, SeenWhole
  <2>4. "trash" \notin strayed => (saved.deleted <=> saved.deletedOn # NoDate)
    BY <1>1, <2>1, <2>2, SavedWhole
  <2>5. "spam" \notin strayed => (saved.spam <=> saved.source # "none")
    BY <1>1, <2>1, <2>3, SavedSpam
  <2>6. QED BY <2>4, <2>5
<1> HIDE DEF saved
<1>7. OneWay /\ Live' = Live /\ Live \subseteq Subs
  BY <1>1, <1>4 DEF OneWay, Live, TypeOK, Row
<1>8. PairsWhole'
  <2> SUFFICES ASSUME NEW u \in Live'
               PROVE  /\ "trash" \notin strayed' => (row'[u].deleted <=> row'[u].deletedOn # NoDate)
                      /\ "spam" \notin strayed' => (row'[u].spam <=> row'[u].source # "none")
    BY DEF PairsWhole
  <2>1. CASE u = s
    <3>1. row'[u] = saved
      BY <1>1, <2>1
    <3>2. /\ "trash" \notin strayed => (saved.deleted <=> saved.deletedOn # NoDate)
          /\ "spam" \notin strayed => (saved.spam <=> saved.source # "none")
      BY <1>6, <1>7, <2>1
    <3>3. QED BY <1>2, <3>1, <3>2
  <2>2. CASE u # s
    <3>1. row'[u] = row[u] /\ u \in Live
      BY <1>1, <1>7, <2>2
    <3>2. QED BY <1>2, <1>3, <3>1 DEF PairsWhole
  <2>3. QED BY <2>1, <2>2
<1>9. PICK new : request' = [request EXCEPT ![r] = new] /\ new = rest
  BY <1>1
<1>10. /\ new.pc \in {"idle", "loaded"} /\ new.todo \subseteq q.todo \ {s}
       /\ (new.pc # "idle" => new.op = q.op)
       /\ \A u \in new.todo : new.seen[u] = q.seen[u]
  BY <1>1, <1>9, RestFacts
<1>11. request'[r] = new /\ \A t \in Requests \ {r} : request'[t] = request[t]
  BY <1>9 DEF TypeOK
<1>12. ConflictsKnown'
  BY <1>1, <1>2, <1>3, <1>10, <1>11, ConflictsFrame
<1>13. q.todo \subseteq Subs /\ q.op \notin TagOps \cup {"search"}
  BY <1>1 DEF Handler, Decisions, TagOps
<1>14. SeenWhole(new)'
  <2> SUFFICES ASSUME new.pc = "loaded", NEW u \in new.todo
               PROVE  /\ "trash" \notin strayed' =>
                            /\ new.seen[u].deleted <=> new.seen[u].deletedOn # NoDate
                            /\ new.op = "delete" /\ u \in Live' /\ new.seen[u].deleted => row'[u].deleted
                      /\ "spam" \notin strayed' =>
                            /\ new.seen[u].spam <=> new.seen[u].source # "none"
                            /\ new.op = "mark" /\ u \in Live' /\ new.seen[u].spam => row'[u].spam
    BY DEF SeenWhole
  <2>1. u \in q.todo /\ row'[u] = row[u] /\ new.seen[u] = q.seen[u] /\ new.op = q.op
    BY <1>1, <1>10, <1>13
  <2>2. QED BY <1>1, <1>2, <1>3, <1>7, <2>1 DEF SeenWhole
<1>15. Placed(new)'
  BY <1>1, <1>3, <1>10, <1>13 DEF Placed
<1>16. ASSUME NEW t \in Requests \ {r}, request[t].pc = "loaded"
       PROVE  /\ request[t].op = "delete" /\ "trash" \notin strayed' => q.op # "undelete"
              /\ request[t].op = "mark" /\ "spam" \notin strayed' => q.op # "unmark"
              /\ request[t].op \in TagOps /\ "tags" \notin strayed' => q.op \notin Restoring
  <2>1. t \in Busy /\ t # r
    BY <1>16 DEF Busy
  <2>2. QED BY <1>1, <1>2, <1>3, <2>1, Meeting
<1>17. \A t \in Requests \ {r} : request[t].pc = "loaded" => \A u \in request[t].todo \cap Live :
         /\ request[t].op = "delete" /\ "trash" \notin strayed' /\ row[u].deleted => row'[u].deleted
         /\ request[t].op = "mark" /\ "spam" \notin strayed' /\ row[u].spam => row'[u].spam
  <2> SUFFICES ASSUME NEW t \in Requests \ {r}, request[t].pc = "loaded", NEW u \in request[t].todo \cap Live
               PROVE  /\ request[t].op = "delete" /\ "trash" \notin strayed' /\ row[u].deleted => row'[u].deleted
                      /\ request[t].op = "mark" /\ "spam" \notin strayed' /\ row[u].spam => row'[u].spam
    OBVIOUS
  <2>1. CASE u # s
    BY <1>1, <1>7, <2>1
  <2>2. CASE u = s
    <3>1. row[s].phase = "live"
      BY <2>2 DEF Live
    <3>2. q.op \in Restoring => q.op \in {"unflag", "unarchive", "unmark", "undelete"}
      BY DEF Restoring
    <3>3. request[t].op = "delete" /\ "trash" \notin strayed' /\ row[s].deleted => saved.deleted
      BY <1>4, <1>5, <1>16, <3>1, <3>2
    <3>4. request[t].op = "mark" /\ "spam" \notin strayed' /\ row[s].spam => saved.spam
      BY <1>4, <1>5, <1>16, <3>1, <3>2
    <3>5. QED BY <1>1, <2>2, <3>3, <3>4
  <2>3. QED BY <2>1, <2>2
<1>18. ASSUME NEW u \in Live', Active(u)', q.op \in Restoring => u # s
       PROVE  u \in Live /\ Active(u) /\ row'[u].tags = row[u].tags
  <2>1. CASE u # s
    BY <1>1, <1>7, <1>18, <2>1 DEF Active
  <2>2. CASE u = s
    <3>1. s \in Live /\ row[s].phase = "live" /\ q.op \notin Restoring
      BY <1>7, <1>18, <2>2 DEF Live
    <3>2. QED BY <1>1, <1>4, <1>5, <1>18, <2>2, <3>1 DEF Active
  <2>3. QED BY <2>1, <2>2
<1>19. TagsInv'
  <2>1. TagsSeen(new)'
    BY <1>10, <1>13 DEF TagsSeen, TagOps
  <2>2. ASSUME "tags" \notin strayed'
        PROVE  \A u \in Live' : Active(u)' =>
                  row'[u].tags = {} \/ (u \in Live /\ Active(u) /\ row'[u].tags = row[u].tags)
    <3> SUFFICES ASSUME NEW u \in Live', Active(u)'
                 PROVE  row'[u].tags = {} \/ (u \in Live /\ Active(u) /\ row'[u].tags = row[u].tags)
      OBVIOUS
    <3>1. CASE q.op \in Restoring /\ u = s
      BY <1>1, <1>2, <1>4, <2>2, <3>1
    <3>2. CASE ~(q.op \in Restoring /\ u = s)
      BY <1>18, <3>2
    <3>3. QED BY <3>1, <3>2
  <2>3. ASSUME "tags" \notin strayed', form'.live
        PROVE  \A u \in Live' : Active(u)' => row'[u].tags \subseteq Promised
    <3>1. \A u \in Live : Active(u) => row[u].tags \subseteq Promised
      BY <1>1, <1>2, <2>3 DEF TogetherInv, TagsInv
    <3>2. QED BY <2>2, <2>3, <3>1
  <2>4. ASSUME "tags" \notin strayed', NEW t \in Requests \ {r},
               request[t].pc = "loaded", request[t].op \in TagOps
        PROVE  \A u \in request[t].todo \cap Live' : Active(u)' => u \in Live /\ Active(u)
    BY <1>16, <1>18, <2>4
  <2>5. request[r].pc # "tagged" /\ form' = form
    BY <1>1
  <2> HIDE DEF q
  <2>6. QED BY <1>2, <1>9, <2>1, <2>2, <2>3, <2>4, <2>5, CacheOne
<1>20. QED BY <1>2, <1>7, <1>8, <1>9, <1>12, <1>14, <1>15, <1>17, <1>19, OneMoves

\* The purge only removes rows.
LEMMA PurgeTogether ==
    ASSUME TypeOK, TogetherInv, PurgeDelete
    PROVE  TogetherInv'
<1>1. /\ \A s \in Subs : \/ row'[s] = row[s]
                         \/ row[s].phase = "live" /\ row'[s].phase = "gone"
      /\ UNCHANGED <<form, request, strayed>>
  <2>1. \A s \in Subs : [row[s] EXCEPT !.phase = "gone"].phase = "gone"
    BY DEF TypeOK, Row
  <2>2. QED BY <2>1 DEF PurgeDelete, InTrash
<1>2. OneWay /\ \A s \in Live' : s \in Live /\ row'[s] = row[s] /\ (Active(s)' <=> Active(s))
  BY <1>1 DEF OneWay, Live, Active, TypeOK, Row
<1>3. PairsWhole'
  BY <1>1, <1>2, PairsFrame DEF TogetherInv
<1>4. ConflictsKnown'
  BY <1>1, ConflictsFrame DEF TogetherInv
<1> DEFINE C == {}
<1>5. C \in SUBSET Requests /\ (\A t \in Requests \ C : request'[t] = request[t]) /\ \A t \in C : FALSE
  BY <1>1
<1>6. \A t \in Requests : request[t].pc = "loaded" => \A s \in request[t].todo \cap Live :
         /\ request[t].op = "delete" /\ "trash" \notin strayed' /\ row[s].deleted => row'[s].deleted
         /\ request[t].op = "mark" /\ "spam" \notin strayed' /\ row[s].spam => row'[s].spam
  BY DEF PurgeDelete, TypeOK, Row, Live
<1> HIDE DEF C
<1>7. \A t \in Requests : SeenWhole(request[t])' /\ Placed(request[t])'
  BY <1>1, <1>2, <1>5, <1>6, HandlersFrame
<1>8. TagsInv'
  <2>1. "tags" \notin strayed' /\ form'.live => \A s \in Live' : Active(s)' => row'[s].tags \subseteq Promised
    BY <1>1, <1>2 DEF TogetherInv, TagsInv
  <2>2. QED BY <1>1, <1>2, <1>5, <2>1, CacheFrame
<1>9. QED BY <1>3, <1>4, <1>7, <1>8 DEF TogetherInv

LEMMA TogetherInit == Init => TogetherInv
<1> SUFFICES ASSUME Init PROVE TogetherInv
  OBVIOUS
<1>1. Live = {} /\ \A r \in Requests : request[r] = Idle
  BY DEF Init, Live, NewRow
<1>2. Busy = {}
  BY <1>1 DEF Busy, Idle
<1>3. \A r \in Requests : SeenWhole(request[r]) /\ Placed(request[r]) /\ TagsSeen(request[r])
  BY <1>1 DEF Idle, SeenWhole, Placed, TagsSeen
<1>4. QED BY <1>1, <1>2, <1>3 DEF TogetherInv, ConflictsKnown, PairsWhole, TagsInv

LEMMA TogetherNext == TypeOK /\ TogetherInv /\ [Next]_vars => TogetherInv'
<1> SUFFICES ASSUME TypeOK, TogetherInv, [Next]_vars PROVE TogetherInv'
  OBVIOUS
<1>0. strayed \subseteq strayed'
  BY StrayedType DEF TypeOK
<1>1. ASSUME NEW r \in Requests, RequestStep(r) PROVE TogetherInv'
  <2>1. ASSUME NEW op \in Ops, LoadForm(r, op) PROVE TogetherInv'
    BY <2>1, LoadFormTogether
  <2>2. ASSUME NEW S \in SUBSET Subs, NEW tag \in RawTags, LoadSubmissions(r, S, tag) PROVE TogetherInv'
    BY <2>2, LoadSubmissionsTogether
  <2>3. ASSUME NEW s \in Subs, Decide(r, s) PROVE TogetherInv'
    BY <2>3, DecideTogether
  <2>4. ASSUME NEW s \in Subs, AddTag(r, s) PROVE TogetherInv'
    BY <2>4, AddTagTogether
  <2>5. ASSUME NEW s \in Subs, CacheTags(r, s) PROVE TogetherInv'
    BY <2>5, CacheTagsTogether
  <2>6. ASSUME NEW s \in Subs, RemoveTag(r, s) PROVE TogetherInv'
    BY <2>6, RemoveTagTogether
  <2>7. ASSUME NEW tag \in RawTags, NEW all \in BOOLEAN, NEW page \in Pages, Search(r, tag, all, page)
        PROVE  TogetherInv'
    BY <2>7, SearchTogether
  <2>8. CASE ForgetTag(r)
    BY <2>8, ForgetTagTogether
  <2>9. ASSUME NEW s \in Subs, NEW spam \in BOOLEAN, CreateSubmission(r, s, spam) PROVE TogetherInv'
    BY <2>9, CreateTogether
  <2>10. CASE DestroyForm(r)
    <3>1. /\ form'.live => form.live /\ form'.tags = form.tags
          /\ UNCHANGED row /\ Finish(r) /\ request[r].pc = "form"
      BY <2>10 DEF DestroyForm, TypeOK, FormRow
    <3>2. QED BY <1>0, <3>1, FinishTogether
  <2>11. CASE Die(r)
    <3>1. /\ UNCHANGED <<row, form>> /\ Finish(r)
          /\ request[r].pc = "tagged" => "tags" \in strayed'
      BY <2>11 DEF Die
    <3>2. QED BY <1>0, <3>1, FinishTogether
  <2>12. QED
    BY <1>1, <2>1, <2>2, <2>3, <2>4, <2>5, <2>6, <2>7, <2>8, <2>9, <2>10, <2>11 DEF RequestStep
<1>2. CASE PurgeDelete
  BY <1>2, PurgeTogether
<1>3. CASE PurgeCount \/ PurgeKilled \/ NextDay
  BY <1>3, ClockTogether DEF PurgeCount, PurgeKilled, NextDay
<1>4. CASE UNCHANGED vars
  BY <1>4, ClockTogether DEF vars
<1>5. QED BY <1>1, <1>2, <1>3, <1>4 DEF Next

-----------------------------------------------------------------------------
(* What holds in every reachable state *)

\* In every reachable state the counter covers the rows, what was decided is audited, the
\* purge deletes what it counted, and handlers in flight together have not parted what
\* belongs together without the history saying so.
THEOREM Invariant == Spec => []IInv
<1>1. Init => IInv
  BY InvInit, TogetherInit DEF IInv
<1>2. IInv /\ [Next]_vars => IInv'
  BY InvNext, TogetherNext DEF IInv, CoreInv
<1>3. QED BY <1>1, <1>2, PTL DEF Spec

\* response_count never falls below the responses there are.
THEOREM CountHolds == Spec => []CountCoversRows
<1>1. IInv => CountCoversRows
  BY DEF IInv, CoreInv
<1>2. QED BY Invariant, <1>1, PTL

\* Every decision that shows on a response is in the audit log.
THEOREM AuditHolds == Spec => []ModerationAudited
<1>1. IInv => ModerationAudited
  BY DEF IInv, CoreInv
<1>2. QED BY Invariant, <1>1, PTL

\* The columns of a response in the trash, and of spam, stay together unless a decision
\* and its undoing were in flight together.
THEOREM PairsHold == Spec => []PairsWhole
<1>1. IInv => PairsWhole
  BY DEF IInv, TogetherInv
<1>2. QED BY Invariant, <1>1, PTL

\* The tags of the active responses are in the form's cache, so that what a search
\* forgets is what no active response has.
THEOREM TagsCachedHolds == Spec => []ActiveTagsCached
<1>1. IInv => ActiveTagsCached
  <2> SUFFICES ASSUME IInv, "tags" \notin strayed, form.live, \A r \in Requests : request[r].pc # "tagged"
               PROVE  \A s \in Live : Active(s) => row[s].tags \subseteq form.tags
    BY DEF ActiveTagsCached
  <2>1. \A s \in Live : Active(s) => row[s].tags \subseteq Promised
    BY DEF IInv, TogetherInv, TagsInv
  <2>2. QED BY <2>1, NothingPending
<1>2. QED BY Invariant, <1>1, PTL

-----------------------------------------------------------------------------
(* Properties of steps *)

\* Only the purge removes a row.
LEMMA NothingElseRemoves ==
    ASSUME TypeOK, NEW r \in Requests, RequestStep(r), NEW s \in Subs, row[s].phase # "gone"
    PROVE  row'[s].phase # "gone"
<1>1. ASSUME NEW t \in Subs, Decide(r, t) PROVE row'[s].phase # "gone"
  <2> DEFINE q == request[r]
             new == Saved(row[t], q.seen[t], q.op)
  <2>1. row[t] \in Row /\ q.seen[t] \in Row /\ q.op \in Decisions
    BY <1>1 DEF Decide, TypeOK, Handler
  <2>2. row'[s] = IF s = t THEN new ELSE row[s]
    BY <1>1 DEF Decide, TypeOK
  <2>3. new.phase = row[t].phase
    BY <2>1, SavedFacts
  <2> HIDE DEF new
  <2>4. QED BY <2>2, <2>3
<1>2. ASSUME NEW t \in Subs, NEW seen, NEW new, WriteTags(t, seen, new) PROVE row'[s].phase # "gone"
  BY <1>2 DEF WriteTags, TypeOK, Row
<1>3. ASSUME NEW t \in Subs, NEW spam \in BOOLEAN, CreateSubmission(r, t, spam)
      PROVE  row'[s].phase # "gone"
  BY <1>3 DEF CreateSubmission, TypeOK, Row, NewRow
<1>4. CASE UNCHANGED row
  BY <1>4
<1>5. \A t \in Subs : AddTag(r, t) \/ RemoveTag(r, t) =>
         UNCHANGED row \/ \E seen, new : WriteTags(t, seen, new)
  BY DEF AddTag, RemoveTag
<1>6. QED
  BY <1>1, <1>2, <1>3, <1>4, <1>5
     DEF RequestStep, LoadForm, LoadSubmissions, CacheTags, Search, ForgetTag, DestroyForm, Die

\* The purge deletes only what its event counted.
THEOREM PurgeAccountedHolds == Spec => PurgeAccounted
<1>1. IInv /\ [Next]_vars => [Gone' \ Gone \subseteq purge.counted]_vars
  <2> SUFFICES ASSUME IInv, [Next]_vars, NEW s \in Subs, row'[s].phase = "gone", row[s].phase # "gone"
               PROVE  s \in purge.counted
    BY DEF Gone
  <2>1. CASE PurgeDelete
    <3>1. InTrash(s, purge.cutoff) /\ purge.pc = "counted"
      BY <2>1 DEF PurgeDelete
    <3>2. QED BY <3>1 DEF IInv, CoreInv, PurgeSound
  <2>2. CASE \E r \in Requests : RequestStep(r)
    <3>1. TypeOK
      BY DEF IInv, CoreInv
    <3>2. QED BY <2>2, <3>1, NothingElseRemoves
  <2>3. CASE UNCHANGED row
    BY <2>3
  <2>4. QED
    BY <2>1, <2>2, <2>3 DEF Next, vars, PurgeCount, PurgeKilled, NextDay
<1>2. QED BY Invariant, <1>1, PTL DEF Spec, PurgeAccounted

\* The columns of DecidedBy, one by one.
LEMMA ColumnsCovered ==
    ASSUME NEW column \in DOMAIN DecidedBy
    PROVE  /\ column \in {"flagged", "archived", "spam", "source", "deleted", "deletedOn", "tags"}
           /\ column = "flagged" => DecidedBy[column] = {"flag", "unflag"}
           /\ column = "archived" => DecidedBy[column] = {"archive", "unarchive"}
           /\ column \in {"spam", "source"} => DecidedBy[column] = {"mark", "unmark"}
           /\ column \in {"deleted", "deletedOn"} => DecidedBy[column] = {"delete", "undelete"}
           /\ column = "tags" => DecidedBy[column] = TagOps
BY DEF DecidedBy

LEMMA RestMoves ==
    ASSUME NEW q \in Handler, q.pc = "loaded", NEW s \in q.todo
    PROVE  Rest(q, s) # q
<1>1. CASE q.todo = {s}
  BY <1>1 DEF Rest, Idle, Handler
<1>2. CASE q.todo # {s}
  <2>1. Rest(q, s).todo = q.todo \ {s}
    BY <1>2 DEF Rest, Handler
  <2>2. QED BY <2>1
<1>3. QED BY <1>1, <1>2

\* The handler of a decision changes only the columns of its decision.
LEMMA DecideColumns ==
    ASSUME TypeOK, NEW r \in Requests, NEW t \in Subs, Decide(r, t),
           NEW s \in Live, NEW column \in DOMAIN DecidedBy, row'[s][column] # row[s][column]
    PROVE  request'[r] # request[r] /\ request[r].op \in DecidedBy[column] /\ s \in request[r].todo
<1> DEFINE q == request[r]
           new == Saved(row[t], q.seen[t], q.op)
<1>1. /\ row[t] \in Row /\ q.seen[t] \in Row /\ q.op \in Decisions
      /\ q \in Handler /\ q.pc = "loaded" /\ t \in q.todo
  BY DEF Decide, TypeOK, Handler, IsNewest
<1>2. row' = [row EXCEPT ![t] = new] /\ request' = [request EXCEPT ![r] = Rest(q, t)]
  BY DEF Decide
<1>3. s = t /\ new[column] # row[t][column]
  BY <1>2 DEF TypeOK, Live
<1>4. /\ new.tags = row[t].tags
      /\ new.flagged # row[t].flagged => q.op \in {"flag", "unflag"}
      /\ new.archived # row[t].archived => q.op \in {"archive", "unarchive"}
      /\ new.spam # row[t].spam => q.op \in {"mark", "unmark"}
      /\ new.source # row[t].source => q.op \in {"mark", "unmark"}
      /\ new.deleted # row[t].deleted => q.op \in {"delete", "undelete"}
      /\ new.deletedOn # row[t].deletedOn => q.op \in {"delete", "undelete"}
  BY <1>1, SavedFacts
<1> HIDE DEF new
<1>5. q.op \in DecidedBy[column]
  BY <1>3, <1>4, ColumnsCovered
<1>6. request'[r] # request[r]
  BY <1>1, <1>2, RestMoves DEF TypeOK
<1>7. QED BY <1>1, <1>3, <1>5, <1>6

\* The handlers of tags change only tags.
LEMMA TagColumns ==
    ASSUME TypeOK, NEW r \in Requests, NEW t \in Subs, AddTag(r, t) \/ RemoveTag(r, t),
           NEW s \in Live, NEW column \in DOMAIN DecidedBy, row'[s][column] # row[s][column]
    PROVE  request'[r] # request[r] /\ request[r].op \in DecidedBy[column] /\ s \in request[r].todo
<1> DEFINE q == request[r]
<1>1. q \in Handler /\ q.pc = "loaded" /\ q.op \in TagOps /\ t \in q.todo
  BY DEF AddTag, RemoveTag, TypeOK, TagOps
<1>2. PICK seen, new : WriteTags(t, seen, new)
  BY DEF AddTag, RemoveTag
<1>3. s = t
  BY <1>2 DEF WriteTags, TypeOK, Live
<1>4. column = "tags"
  <2>1. /\ row'[s].flagged = row[s].flagged /\ row'[s].archived = row[s].archived
        /\ row'[s].spam = row[s].spam /\ row'[s].source = row[s].source
        /\ row'[s].deleted = row[s].deleted /\ row'[s].deletedOn = row[s].deletedOn
    BY <1>2 DEF WriteTags, TypeOK, Live, Row
  <2>2. QED BY <2>1, ColumnsCovered
<1>5. request'[r].pc # "loaded"
  <2>1. Finish(r) => request'[r].pc # "loaded"
    BY DEF Finish, Idle, TypeOK
  <2>2. CASE AddTag(r, t)
    <3>1. CASE Finish(r)
      BY <2>1, <3>1
    <3>2. CASE ~Finish(r)
      <4> DEFINE grown == q.seen[t].tags \cup {Normal[q.tag]}
      <4>1. request' = [request EXCEPT ![r] = [q EXCEPT !.pc = "tagged", !.seen[t].tags = grown]]
        BY <2>2, <3>2 DEF AddTag
      <4> HIDE DEF grown
      <4>2. request'[r].pc = "tagged"
        BY <1>1, <4>1 DEF TypeOK, Handler
      <4>3. QED BY <4>2
    <3>3. QED BY <3>1, <3>2
  <2>3. CASE RemoveTag(r, t)
    BY <2>1, <2>3 DEF RemoveTag
  <2>4. QED BY <2>2, <2>3
<1>6. QED BY <1>1, <1>3, <1>4, <1>5, ColumnsCovered

\* Creating a response and purging change no column of a response that stays.
LEMMA OtherColumns ==
    ASSUME TypeOK, NEW s \in Live, NEW column \in DOMAIN DecidedBy,
           PurgeDelete \/ \E r \in Requests, t \in Subs, spam \in BOOLEAN : CreateSubmission(r, t, spam)
    PROVE  row'[s][column] = row[s][column]
<1>1. CASE PurgeDelete
  <2>1. /\ row'[s].flagged = row[s].flagged /\ row'[s].archived = row[s].archived
        /\ row'[s].spam = row[s].spam /\ row'[s].source = row[s].source
        /\ row'[s].deleted = row[s].deleted /\ row'[s].deletedOn = row[s].deletedOn
        /\ row'[s].tags = row[s].tags
    BY <1>1 DEF PurgeDelete, TypeOK, Live, Row
  <2>2. QED BY <2>1, ColumnsCovered
<1>2. CASE \E r \in Requests, t \in Subs, spam \in BOOLEAN : CreateSubmission(r, t, spam)
  <2>1. row'[s] = row[s]
    BY <1>2 DEF CreateSubmission, IsNextId, TypeOK, Live
  <2>2. QED BY <2>1
<1>3. QED BY <1>1, <1>2

\* Decisions taken at the same time do not undo each other.
THEOREM IndependenceHolds == Spec => DecisionsIndependent
<1> DEFINE Moved(s, column) ==
             \E r \in Requests : /\ request'[r] # request[r]
                                 /\ request[r].op \in DecidedBy[column]
                                 /\ s \in request[r].todo
           Step == \A s \in Live, column \in DOMAIN DecidedBy :
                      row'[s][column] # row[s][column] => Moved(s, column)
<1>1. TypeOK /\ [Next]_vars => [Step]_vars
  <2> SUFFICES ASSUME TypeOK, [Next]_vars,
                      NEW s \in Live, NEW column \in DOMAIN DecidedBy,
                      row'[s][column] # row[s][column]
               PROVE  Moved(s, column)
    OBVIOUS
  <2>1. CASE \E r \in Requests, t \in Subs : Decide(r, t)
    BY <2>1, DecideColumns
  <2>2. CASE \E r \in Requests, t \in Subs : AddTag(r, t) \/ RemoveTag(r, t)
    BY <2>2, TagColumns
  <2>3. CASE PurgeDelete \/ \E r \in Requests, t \in Subs, spam \in BOOLEAN : CreateSubmission(r, t, spam)
    BY <2>3, OtherColumns
  <2>4. CASE UNCHANGED row
    BY <2>4
  <2>5. QED
    BY <2>1, <2>2, <2>3, <2>4
       DEF Next, vars, PurgeCount, PurgeKilled, NextDay, RequestStep, LoadForm, LoadSubmissions,
           CacheTags, Search, ForgetTag, DestroyForm, Die
<1>2. QED BY TypeCorrect, <1>1, PTL DEF Spec, DecisionsIndependent

=============================================================================
