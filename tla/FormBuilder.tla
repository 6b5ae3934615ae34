----------------------------- MODULE FormBuilder -----------------------------
(***************************************************************************)
(* The questions and sections of one form while several people build it:   *)
(* admin/form_sections_controller.rb, admin/questions_controller.rb and    *)
(* the models.                                                             *)
(*                                                                         *)
(* Uniqueness is only a validation: a handler reads, validates with a      *)
(* second query and writes with a third, nothing is locked meanwhile, and  *)
(* no index or foreign key stands behind it.  Only the questions' sort     *)
(* runs in a transaction of several updates.                               *)
(***************************************************************************)
EXTENDS Naturals, FiniteSets, FiniteSetsExt, SequencesExt, ActiveRecord

CONSTANTS
    Sections, Questions,    \* ids, handed out in increasing order
    Fields,                 \* answer_01 .. answer_30, as numbers
    Requests,               \* handlers running at the same time
    Operations,             \* the kinds of request that arrive
    MaxPosition,            \* bound on positions
    MaxDeaths               \* bound on the handlers that die half way

SectionOps == {"new_section", "update_section", "destroy_section"}
Edits == {"create_question", "update_question"}
QuestionOps == Edits \cup {"destroy_question"}
Ops == SectionOps \cup QuestionOps \cup {"sort_sections", "sort_questions"}

ASSUME IdsAssumption == Sections \subseteq Nat /\ 1 \in Sections /\ Questions \subseteq Nat
ASSUME FieldsAssumption == Fields \subseteq Nat /\ 1 \in Fields
ASSUME FiniteAssumption == IsFiniteSet(Sections) /\ IsFiniteSet(Questions) /\ IsFiniteSet(Fields)
ASSUME BuilderAssumption == Operations \subseteq Ops /\ MaxPosition \in Nat \ {0} /\ MaxDeaths \in Nat

Positions == 0 .. MaxPosition

Phases == {"unborn", "live", "gone"}

SectionRow == [phase : Phases, pos : Nat]

QuestionRow == [phase : Phases, section : Sections, pos : Nat, field : Fields]

\* The pairs of operations of which the second, committed while the first one is
\* under way, changes what the first one's checks rested on.
Conflicts == [fields |-> Edits \X Edits,
              homes  |-> (Edits \X {"destroy_section"}) \cup ({"destroy_section"} \X Edits),
              order  |-> {"new_section", "update_section", "sort_sections"}
                            \X {"new_section", "update_section", "sort_sections"},
              sort   |-> {"sort_questions"} \X {"sort_questions"}]

VARIABLES
    section, question,   \* the two tables
    counted,             \* forms.questions_count
    request,             \* the handlers in flight
    deaths,              \* how many handlers died
    raced,               \* the conflicts that handlers committed in spite of (history)
    torn                 \* a sort of the sections broke off (history)

vars == <<section, question, counted, request, deaths, raced, torn>>

NoSection == [phase |-> "unborn", pos |-> 0]

NoQuestion == [phase |-> "unborn", section |-> 1, pos |-> 0, field |-> 1]

\* id: the row it is about; sec, que: the row as loaded and as it shall be; order: the
\* ids to sort, the at-th of them next; locked: the questions that its transaction has
\* updated; outdated: the conflicts it has run into (history).
Handler == [pc : {"idle", "planned", "valid", "sorting"}, op : Ops, id : Sections \cup Questions,
            sec : [old : SectionRow, new : SectionRow],
            que : [old : QuestionRow, new : QuestionRow],
            order : Seq(Sections \cup Questions), at : Nat \ {0}, locked : SUBSET Questions,
            outdated : SUBSET DOMAIN Conflicts]

Idle == [pc |-> "idle", op |-> "new_section", id |-> 1,
         sec |-> [old |-> NoSection, new |-> NoSection],
         que |-> [old |-> NoQuestion, new |-> NoQuestion],
         order |-> <<>>, at |-> 1, locked |-> {}, outdated |-> {}]

TypeOK ==
    /\ section \in [Sections -> SectionRow]
    /\ question \in [Questions -> QuestionRow]
    /\ counted \in Nat
    /\ request \in [Requests -> Handler]
    /\ deaths \in 0 .. MaxDeaths
    /\ raced \subseteq DOMAIN Conflicts
    /\ torn \in BOOLEAN

\* create_first_form_section
Init ==
    /\ section = [s \in Sections |-> IF s = 1 THEN [phase |-> "live", pos |-> 1] ELSE NoSection]
    /\ question = [q \in Questions |-> NoQuestion]
    /\ counted = 0
    /\ request = [r \in Requests |-> Idle]
    /\ deaths = 0
    /\ raced = {}
    /\ torn = FALSE

LiveSections == {s \in Sections : section[s].phase = "live"}
LiveQuestions == {q \in Questions : question[q].phase = "live"}
QuestionsIn(s) == {q \in LiveQuestions : question[q].section = s}

Tables == <<section, question, counted>>

-----------------------------------------------------------------------------
(* Reading *)

Begin(r, handler) ==
    /\ request[r].pc = "idle"
    /\ handler.op \in Operations
    /\ request' = [request EXCEPT ![r] = handler]
    /\ UNCHANGED <<Tables, deaths, raced, torn>>

\* next_section_position
NextPosition == IF LiveSections = {} THEN 1 ELSE Max({section[s].pos : s \in LiveSections}) + 1

\* new and create.
PlanNewSection(r) ==
    /\ NextPosition \in Positions
    /\ Begin(r, [Idle EXCEPT !.pc = "planned", !.op = "new_section",
                             !.sec.new = [phase |-> "live", pos |-> NextPosition]])

\* update and update_title, which validates the position as well.
PlanUpdateSection(r, s, pos) ==
    /\ s \in LiveSections
    /\ Begin(r, [Idle EXCEPT !.pc = "planned", !.op = "update_section", !.id = s,
                             !.sec = [old |-> section[s], new |-> [section[s] EXCEPT !.pos = pos]]])

\* destroy, whose check that another section remains is never true.
PlanDestroySection(r, s) ==
    /\ s \in LiveSections
    /\ ~(Cardinality(LiveSections) < 1)
    /\ Begin(r, [Idle EXCEPT !.pc = "planned", !.op = "destroy_section", !.id = s,
                             !.sec = [old |-> section[s], new |-> [section[s] EXCEPT !.phase = "gone"]]])

\* first_unused_answer_field, with its fallback.
FirstUnused ==
    LET unused == Fields \ {question[q].field : q \in LiveQuestions}
    IN  IF unused = {} THEN 1 ELSE Min(unused)

\* set_defaults: the association's size counts the new question, too.
PlanCreateQuestion(r, s) ==
    /\ s \in LiveSections
    /\ Cardinality(LiveQuestions) + 2 <= MaxPosition
    /\ Begin(r, [Idle EXCEPT !.pc = "planned", !.op = "create_question", !.id = s,
                    !.que.new = [phase |-> "live", section |-> s,
                                 pos |-> Cardinality(LiveQuestions) + 2, field |-> FirstUnused]])

\* Mutant: the section is not looked up among the form's.
PlanUpdateQuestion_noFind(r, q, s, field) ==
    /\ q \in LiveQuestions
    /\ Begin(r, [Idle EXCEPT !.pc = "planned", !.op = "update_question", !.id = q,
                    !.que = [old |-> question[q],
                             new |-> [question[q] EXCEPT !.section = s, !.field = field]]])

\* update, of the field and the section, which must be one of the form's.
PlanUpdateQuestion(r, q, s, field) ==
    /\ q \in LiveQuestions
    /\ s \in LiveSections
    /\ Begin(r, [Idle EXCEPT !.pc = "planned", !.op = "update_question", !.id = q,
                    !.que = [old |-> question[q],
                             new |-> [question[q] EXCEPT !.section = s, !.field = field]]])

PlanDestroyQuestion(r, q) ==
    /\ q \in LiveQuestions
    /\ Begin(r, [Idle EXCEPT !.pc = "planned", !.op = "destroy_question", !.id = q,
                    !.que = [old |-> question[q], new |-> [question[q] EXCEPT !.phase = "gone"]]])

\* Every section, or every question of the section, exactly once.
PlanSortSections(r, order) ==
    /\ order \in SetToSeqs(LiveSections) \ {<<>>}
    /\ Begin(r, [Idle EXCEPT !.pc = "sorting", !.op = "sort_sections", !.order = order])

PlanSortQuestions(r, s, order) ==
    /\ s \in LiveSections
    /\ order \in SetToSeqs(QuestionsIn(s)) \ {<<>>}
    /\ Begin(r, [Idle EXCEPT !.pc = "sorting", !.op = "sort_questions", !.id = s, !.order = order])

-----------------------------------------------------------------------------
(* Validating and writing *)

FieldFree(h) == \A q \in LiveQuestions :
    question[q].field = h.que.new.field => h.op = "update_question" /\ q = h.id

PositionFree(h) == \A s \in LiveSections :
    section[s].pos = h.sec.new.pos => h.op = "update_section" /\ s = h.id

\* Mutant: FormSection's before_destroy is gone.
Passes_noGuard(h) ==
    /\ h.op \in Edits => FieldFree(h)
    /\ h.op \in {"new_section", "update_section"} => PositionFree(h)

\* Mutant: a question is validated only when it is created.
Passes_createOnly(h) ==
    /\ h.op = "create_question" => FieldFree(h)
    /\ h.op \in {"new_section", "update_section"} => PositionFree(h)
    /\ h.op = "destroy_section" => QuestionsIn(h.id) = {}

\* Mutant: a section's position is validated only when it is created.
Passes_newOnly(h) ==
    /\ h.op \in Edits => FieldFree(h)
    /\ h.op = "new_section" => PositionFree(h)
    /\ h.op = "destroy_section" => QuestionsIn(h.id) = {}

\* The uniqueness validations, belongs_to :form_section and ensure_no_questions.
Passes(h) ==
    /\ h.op \in Edits => FieldFree(h)
    /\ h.op = "update_question" /\ h.que.new.section # h.que.old.section =>
          h.que.new.section \in LiveSections
    /\ h.op \in {"new_section", "update_section"} => PositionFree(h)
    /\ h.op = "destroy_section" => QuestionsIn(h.id) = {}

Validate(r) ==
    /\ request[r].pc = "planned"
    /\ request' = [request EXCEPT ![r] = IF Passes(request[r]) THEN [request[r] EXCEPT !.pc = "valid"]
                                         ELSE Idle]
    /\ UNCHANGED <<Tables, deaths, raced, torn>>

\* r goes on as next; what it has committed outdates the handlers it conflicts with.
Committed(r, next) ==
    /\ request' = [t \in Requests |->
          IF t = r THEN next
          ELSE IF request[t].pc = "idle" THEN request[t]
          ELSE [request[t] EXCEPT !.outdated = @ \cup
                  {k \in DOMAIN Conflicts : <<request[t].op, request[r].op>> \in Conflicts[k]}]]
    /\ raced' = raced \cup request[r].outdated

IsNextId(i, table) ==
    table[i].phase = "unborn" /\ \A j \in DOMAIN table : j < i => table[j].phase # "unborn"

\* INSERT, UPDATE of the columns that changed in memory, or DELETE.
WriteSection(r) ==
    LET h == request[r]
    IN  /\ h.pc = "valid"
        /\ h.op \in SectionOps
        /\ \E s \in Sections :
              /\ IF h.op = "new_section" THEN IsNextId(s, section) ELSE s = h.id
              /\ section' = IF h.op = "new_section" \/ section[s].phase = "live"
                            THEN [section EXCEPT
                                    ![s].phase = Written(@, h.sec.old.phase, h.sec.new.phase),
                                    ![s].pos = Written(@, h.sec.old.pos, h.sec.new.pos)]
                            ELSE section
        /\ Committed(r, Idle)
        /\ UNCHANGED <<question, counted, deaths, torn>>

Unlocked(r, q) == \A t \in Requests \ {r} : q \notin request[t].locked

CreateQuestion(r) ==
    LET h == request[r]
    IN  /\ h.pc = "valid"
        /\ h.op = "create_question"
        /\ \E q \in Questions :
              /\ IsNextId(q, question)
              /\ question' = [question EXCEPT ![q] = h.que.new]
        /\ counted' = counted + 1
        /\ Committed(r, Idle)
        /\ UNCHANGED <<section, deaths, torn>>

UpdateQuestion(r) ==
    LET h == request[r]
    IN  /\ h.pc = "valid"
        /\ h.op = "update_question"
        /\ Unlocked(r, h.id)
        /\ question' = IF h.id \in LiveQuestions
                       THEN [question EXCEPT
                               ![h.id].section = Written(@, h.que.old.section, h.que.new.section),
                               ![h.id].field = Written(@, h.que.old.field, h.que.new.field)]
                       ELSE question
        /\ Committed(r, Idle)
        /\ UNCHANGED <<section, counted, deaths, torn>>

\* Mutant: the counter goes down with every destroy.
DestroyQuestion_blindCount(r) ==
    LET h == request[r]
    IN  /\ h.pc = "valid"
        /\ h.op = "destroy_question"
        /\ Unlocked(r, h.id)
        /\ question' = [question EXCEPT ![h.id].phase = "gone"]
        /\ counted' = IF counted > 0 THEN counted - 1 ELSE 0
        /\ Committed(r, Idle)
        /\ UNCHANGED <<section, deaths, torn>>

\* The counter cache goes down when the DELETE has found the row.
DestroyQuestion(r) ==
    LET h == request[r]
    IN  /\ h.pc = "valid"
        /\ h.op = "destroy_question"
        /\ Unlocked(r, h.id)
        /\ question' = [question EXCEPT ![h.id].phase = "gone"]
        /\ counted' = IF h.id \in LiveQuestions THEN counted - 1 ELSE counted
        /\ Committed(r, Idle)
        /\ UNCHANGED <<section, deaths, torn>>

-----------------------------------------------------------------------------
(* Sorting *)

Sorting(r, op) == request[r].pc = "sorting" /\ request[r].op = op

AtEnd(h) == h.at > Len(h.order)

\* One UPDATE after the other, without a transaction and without validation.
SortSection(r) ==
    LET h == request[r]
        s == h.order[h.at]
    IN  /\ Sorting(r, "sort_sections")
        /\ section' = IF s \in LiveSections THEN [section EXCEPT ![s].pos = h.at] ELSE section
        /\ Committed(r, IF h.at = Len(h.order) THEN Idle ELSE [h EXCEPT !.at = @ + 1])
        /\ UNCHANGED <<question, counted, deaths, torn>>

\* The next question is found and updated.  A row updated by another transaction makes
\* it wait; one that has left the section or is invalid by now raises and rolls back.
SortQuestion(r) ==
    LET h == request[r]
        q == h.order[h.at]
        clash == \E p \in LiveQuestions \ {q} : question[p].field = question[q].field
        moves == question[q].pos # h.at
    IN  /\ Sorting(r, "sort_questions")
        /\ ~AtEnd(h)
        /\ moves => Unlocked(r, q)
        /\ request' = [request EXCEPT ![r] =
              IF q \notin QuestionsIn(h.id) \/ clash THEN Idle
              ELSE [h EXCEPT !.at = @ + 1, !.locked = IF moves THEN @ \cup {q} ELSE @]]
        /\ UNCHANGED <<Tables, deaths, raced, torn>>

Place(order, q) == CHOOSE i \in DOMAIN order : order[i] = q

\* Mutant: a question keeps its position when an earlier one moves away from it.
SortCommit_onlyUp(r) ==
    LET h == request[r]
    IN  /\ Sorting(r, "sort_questions")
        /\ AtEnd(h)
        /\ question' = [q \in Questions |->
              IF q \in h.locked /\ Place(h.order, q) < question[q].pos
              THEN [question[q] EXCEPT !.pos = Place(h.order, q)] ELSE question[q]]
        /\ Committed(r, Idle)
        /\ UNCHANGED <<section, counted, deaths, torn>>

SortCommit(r) ==
    LET h == request[r]
    IN  /\ Sorting(r, "sort_questions")
        /\ AtEnd(h)
        /\ question' = [q \in Questions |->
              IF q \in h.locked THEN [question[q] EXCEPT !.pos = Place(h.order, q)] ELSE question[q]]
        /\ Committed(r, Idle)
        /\ UNCHANGED <<section, counted, deaths, torn>>

\* Two sorts wait for a row of each other: PostgreSQL rolls one of them back.
Waits(r) == Sorting(r, "sort_questions") /\ ~AtEnd(request[r])
            /\ ~Unlocked(r, request[r].order[request[r].at])

DeadlockBroken(r) ==
    /\ Waits(r)
    /\ \E t \in Requests \ {r} : Waits(t) /\ request[r].order[request[r].at] \in request[t].locked
    /\ request' = [request EXCEPT ![r] = Idle]
    /\ UNCHANGED <<Tables, deaths, raced, torn>>

\* An open transaction is rolled back; the sections sorted so far remain.
Die(r) ==
    /\ request[r].pc # "idle"
    /\ deaths < MaxDeaths
    /\ deaths' = deaths + 1
    /\ request' = [request EXCEPT ![r] = Idle]
    /\ torn' = (torn \/ Sorting(r, "sort_sections"))
    /\ UNCHANGED <<Tables, raced>>

-----------------------------------------------------------------------------

Plan(r) ==
    \/ PlanNewSection(r)
    \/ \E s \in Sections, pos \in Positions \ {0} : PlanUpdateSection(r, s, pos)
    \/ \E s \in Sections : PlanDestroySection(r, s)
    \/ \E s \in Sections : PlanCreateQuestion(r, s)
    \/ \E q \in Questions, s \in Sections, field \in Fields : PlanUpdateQuestion(r, q, s, field)
    \/ \E q \in Questions : PlanDestroyQuestion(r, q)
    \/ \E order \in SetToSeqs(LiveSections) : PlanSortSections(r, order)
    \/ \E s \in Sections : \E order \in SetToSeqs(QuestionsIn(s)) : PlanSortQuestions(r, s, order)

RequestStep(r) ==
    \/ Plan(r) \/ Validate(r)
    \/ WriteSection(r) \/ CreateQuestion(r) \/ UpdateQuestion(r) \/ DestroyQuestion(r)
    \/ SortSection(r) \/ SortQuestion(r) \/ SortCommit(r) \/ DeadlockBroken(r) \/ Die(r)

Next == \E r \in Requests : RequestStep(r)

Spec == Init /\ [][Next]_vars

-----------------------------------------------------------------------------
(* Properties *)

\* questions_count, which the lists of forms show and which no code recomputes, is
\* the number of questions, also when two people delete the same one.
QuestionsCounted == counted = Cardinality(LiveQuestions)

\* Two questions share an answer field, so that their answers overwrite each other,
\* only after two creations or updates of questions overlapped.
FieldsDistinct ==
    "fields" \notin raced =>
        \A p, q \in LiveQuestions : question[p].field = question[q].field => p = q

\* A question is in a section that exists, hence on a page of the form, unless the
\* deletion of a section overlapped with a question's creation or update.
Reachable ==
    "homes" \notin raced => \A q \in LiveQuestions : question[q].section \in LiveSections

\* Sections have different positions, except during a sort, after one that broke off
\* and after two requests overlapped that set positions.
SectionOrder ==
    "order" \notin raced /\ ~torn /\ ~(\E r \in Requests : Sorting(r, "sort_sections")) =>
        \A s, t \in LiveSections : section[s].pos = section[t].pos => s = t

\* A sort of questions that commits leaves exactly the order that was asked for,
\* whatever was edited meanwhile, unless it overlapped with another sort.
SortTakesEffect ==
    [][\A r \in Requests :
          SortCommit(r) /\ "sort" \notin request[r].outdated =>
              \A i \in DOMAIN request[r].order : question'[request[r].order[i]].pos = i]_vars

\* What a handler's checks still guarantee when it writes, for the proofs: the section
\* of an edit exists, its field is free and the section to delete is empty, as long as
\* no operation that conflicts has committed since.
ChecksHold(h) ==
    /\ h.pc # "idle" /\ h.op \in Edits /\ "homes" \notin h.outdated =>
          h.que.new.section \in LiveSections
    /\ h.pc = "valid" /\ h.op \in Edits /\ "fields" \notin h.outdated => FieldFree(h)
    /\ h.pc = "valid" /\ h.op = "destroy_section" /\ "homes" \notin h.outdated =>
          QuestionsIn(h.id) = {}

\* The rows that a handler has in memory are live, except what it deletes, and it has
\* updated none but what it sorts.
Loaded(h) ==
    /\ h.op = "update_section" => h.sec.old.phase = h.sec.new.phase
    /\ h.op \in Edits /\ h.pc # "idle" => h.que.new.phase = "live"
    /\ h.locked \subseteq Range(h.order)

\* What the checks of handlers in flight are worth.
ChecksInv ==
    /\ TypeOK
    /\ QuestionsCounted
    /\ FieldsDistinct
    /\ Reachable
    /\ \A r \in Requests : ChecksHold(request[r]) /\ Loaded(request[r])

\* Behind a sort: what it has passed has its place, as long as nobody else has set
\* positions; the questions that its transaction has updated get theirs with the commit.
SectionsPlaced(h) ==
    h.pc = "sorting" /\ h.op = "sort_sections" =>
        /\ h.at \in DOMAIN h.order
        /\ IsInjective(h.order)
        /\ "order" \notin h.outdated =>
              /\ LiveSections \subseteq Range(h.order)
              /\ \A i \in 1 .. (h.at - 1) : h.order[i] \in LiveSections => section[h.order[i]].pos = i

QuestionsPlaced(h) ==
    h.pc = "sorting" /\ h.op = "sort_questions" =>
        /\ h.at \in 1 .. (Len(h.order) + 1)
        /\ \A i \in DOMAIN h.order :
              h.order[i] \in Questions /\ question[h.order[i]].phase # "unborn"
        /\ IsInjective(h.order)
        /\ "sort" \notin h.outdated =>
              \A i \in 1 .. (h.at - 1) : h.order[i] \notin h.locked => question[h.order[i]].pos = i

\* The position that a valid handler is about to write is free, as long as no operation
\* that sets positions has committed since; a deletion leaves the position alone.
PositionHolds(h) ==
    /\ h.pc = "valid" /\ h.op \in {"new_section", "update_section"} /\ "order" \notin h.outdated =>
          PositionFree(h)
    /\ h.op = "new_section" => h.sec.old = NoSection /\ (h.pc # "idle" => h.sec.new.phase = "live")
    /\ h.op = "destroy_section" => h.sec.old.pos = h.sec.new.pos /\ h.sec.new.phase = "gone"

OrderInv ==
    /\ SectionOrder
    /\ \A s \in Sections : section[s].phase = "unborn" => section[s].pos = 0
    /\ \A r \in Requests : SectionsPlaced(request[r]) /\ QuestionsPlaced(request[r])
                           /\ PositionHolds(request[r])

\* The inductive invariant of FormBuilderProofs.
IInv == ChecksInv /\ OrderInv

=============================================================================
