-------------------------- MODULE FormBuilderProofs --------------------------
(***************************************************************************)
(* For any number of handlers, sections, questions and answer fields: IInv *)
(* is an inductive invariant of FormBuilder.  ChecksInv, about counters,   *)
(* fields and homes, needs no help; OrderInv, about positions, rests on it.*)
(***************************************************************************)
EXTENDS FormBuilder, FiniteSetTheorems, WellFoundedInduction, TLAPS

LEMMA MinIsMember ==
    ASSUME NEW S, S \subseteq Nat, S # {}
    PROVE  Min(S) \in S
<1>1. PICK x \in S : \A y \in S : ~(<<y, x>> \in OpToRel(<, Nat))
  BY NatLessThanWellFounded, WFMin
<1>2. \A y \in S : x <= y
  <2> TAKE y \in S
  <2>1. x \in Nat /\ y \in Nat
    OBVIOUS
  <2>2. ~(y < x)
    BY <1>1, <2>1 DEF OpToRel
  <2>3. QED
    BY <2>1, <2>2
<1>3. QED
  BY <1>2 DEF Min

LEMMA Kinds == DOMAIN Conflicts = {"fields", "homes", "order", "sort"}
BY DEF Conflicts

LEMMA IdleType == Idle \in Handler
<1>1. NoSection \in SectionRow
  BY DEF NoSection, SectionRow, Phases
<1>2. NoQuestion \in QuestionRow
  BY IdsAssumption, FieldsAssumption DEF NoQuestion, QuestionRow, Phases
<1>3. "new_section" \in Ops
  BY DEF Ops, SectionOps
<1>4. <<>> \in Seq(Sections \cup Questions)
  OBVIOUS
<1>5. QED
  BY <1>1, <1>2, <1>3, <1>4, IdsAssumption DEF Idle, Handler

LEMMA IdleHolds == ChecksHold(Idle) /\ Loaded(Idle)
BY DEF Idle, ChecksHold, Loaded, Edits

LEMMA LiveFinite ==
    /\ IsFiniteSet(LiveSections) /\ IsFiniteSet(LiveQuestions)
    /\ Cardinality(LiveQuestions) \in Nat
    /\ \A s : IsFiniteSet(QuestionsIn(s))
<1>1. LiveSections \in SUBSET Sections /\ LiveQuestions \in SUBSET Questions
  BY DEF LiveSections, LiveQuestions
<1>2. \A s : QuestionsIn(s) \in SUBSET Questions
  BY <1>1 DEF QuestionsIn
<1>3. QED
  BY <1>1, <1>2, FiniteAssumption, FS_Subset, FS_CardinalityType

LEMMA OrderType ==
    ASSUME NEW S, S \subseteq Sections \cup Questions, IsFiniteSet(S), NEW order \in SetToSeqs(S)
    PROVE  order \in Seq(Sections \cup Questions)
<1>1. Cardinality(S) \in Nat
  BY FS_CardinalityType
<1>2. order \in [1 .. Cardinality(S) -> Sections \cup Questions]
  BY DEF SetToSeqs
<1>3. QED
  BY <1>1, <1>2

LEMMA InvInit == Init => ChecksInv
<1> SUFFICES ASSUME Init PROVE ChecksInv
  OBVIOUS
<1>1. LiveQuestions = {}
  BY DEF Init, LiveQuestions, NoQuestion
<1>2. NoSection \in SectionRow /\ [phase |-> "live", pos |-> 1] \in SectionRow
  BY DEF NoSection, SectionRow, Phases
<1>3. NoQuestion \in QuestionRow
  BY IdsAssumption, FieldsAssumption DEF NoQuestion, QuestionRow, Phases
<1>4. TypeOK
  <2>1. section \in [Sections -> SectionRow] /\ question \in [Questions -> QuestionRow]
    BY <1>2, <1>3 DEF Init
  <2>2. request \in [Requests -> Handler]
    BY IdleType DEF Init
  <2>3. counted \in Nat /\ deaths \in 0 .. MaxDeaths
    BY BuilderAssumption DEF Init
  <2>4. raced \subseteq DOMAIN Conflicts /\ torn \in BOOLEAN
    BY DEF Init
  <2>5. QED
    BY <2>1, <2>2, <2>3, <2>4 DEF TypeOK
<1>5. QED
  BY <1>1, <1>4, IdleHolds, FS_EmptySet DEF Init, ChecksInv, QuestionsCounted, FieldsDistinct, Reachable

-----------------------------------------------------------------------------
(* Steps that leave the tables alone *)

LEMMA LocalStep ==
    ASSUME ChecksInv, NEW r \in Requests, NEW new \in Handler, ChecksHold(new), Loaded(new),
           request' = [request EXCEPT ![r] = new],
           UNCHANGED <<Tables, raced>>, deaths' \in 0 .. MaxDeaths, torn' \in BOOLEAN
    PROVE  ChecksInv'
<1>1. UNCHANGED <<section, question, counted, raced>>
  BY DEF Tables
<1>2. TypeOK'
  BY <1>1 DEF ChecksInv, TypeOK
<1>3. \A h : (ChecksHold(h)' <=> ChecksHold(h)) /\ (Loaded(h)' <=> Loaded(h))
  BY <1>1 DEF ChecksHold, Loaded, LiveSections, FieldFree, QuestionsIn, LiveQuestions
<1>4. \A t \in Requests : ChecksHold(request[t])' /\ Loaded(request[t])'
  <2> TAKE t \in Requests
  <2>1. request'[t] = IF t = r THEN new ELSE request[t]
    BY DEF ChecksInv, TypeOK
  <2>2. ChecksHold(request'[t]) /\ Loaded(request'[t])
    BY <2>1 DEF ChecksInv
  <2>3. QED
    BY <2>2, <1>1 DEF ChecksHold, Loaded, LiveSections, FieldFree, QuestionsIn, LiveQuestions
<1>5. QuestionsCounted' /\ FieldsDistinct' /\ Reachable'
  BY <1>1 DEF ChecksInv, QuestionsCounted, FieldsDistinct, Reachable, LiveSections, LiveQuestions
<1>6. QED
  BY <1>2, <1>4, <1>5 DEF ChecksInv

LEMMA BeginStep ==
    ASSUME ChecksInv, NEW r \in Requests, NEW new \in Handler, ChecksHold(new), Loaded(new), Begin(r, new)
    PROVE  ChecksInv'
BY LocalStep DEF Begin, ChecksInv, TypeOK

LEMMA PlanSectionStep ==
    ASSUME ChecksInv, NEW r \in Requests,
           \/ PlanNewSection(r)
           \/ \E s \in Sections, pos \in Positions \ {0} : PlanUpdateSection(r, s, pos)
           \/ \E s \in Sections : PlanDestroySection(r, s)
    PROVE  ChecksInv'
<1> USE IdleType DEF Handler
<1>1. Positions \subseteq Nat /\ NoSection \in SectionRow
  BY DEF Positions, NoSection, SectionRow, Phases
<1>2. CASE PlanNewSection(r)
  <2> DEFINE new == [Idle EXCEPT !.pc = "planned", !.op = "new_section",
                                 !.sec.new = [phase |-> "live", pos |-> NextPosition]]
  <2>1. [phase |-> "live", pos |-> NextPosition] \in SectionRow
    BY <1>1, <1>2 DEF PlanNewSection, SectionRow, Phases
  <2>2. new \in Handler
    BY <2>1 DEF Idle, Ops, SectionOps
  <2>3. ChecksHold(new) /\ Loaded(new)
    BY DEF ChecksHold, Loaded, Idle, Edits
  <2>4. QED
    BY <1>2, <2>2, <2>3, BeginStep DEF PlanNewSection
<1>3. ASSUME NEW s \in Sections, NEW pos \in Positions \ {0}, PlanUpdateSection(r, s, pos)
      PROVE  ChecksInv'
  <2> DEFINE new == [Idle EXCEPT !.pc = "planned", !.op = "update_section", !.id = s,
                          !.sec = [old |-> section[s], new |-> [section[s] EXCEPT !.pos = pos]]]
  <2>1. section[s] \in SectionRow /\ [section[s] EXCEPT !.pos = pos] \in SectionRow
    BY <1>1 DEF ChecksInv, TypeOK, SectionRow
  <2>2. new \in Handler
    BY <2>1 DEF Idle, Ops, SectionOps
  <2>3. ChecksHold(new) /\ Loaded(new)
    BY <2>1 DEF ChecksHold, Loaded, Idle, Edits, SectionRow
  <2>4. QED
    BY <1>3, <2>2, <2>3, BeginStep DEF PlanUpdateSection
<1>4. ASSUME NEW s \in Sections, PlanDestroySection(r, s)
      PROVE  ChecksInv'
  <2> DEFINE new == [Idle EXCEPT !.pc = "planned", !.op = "destroy_section", !.id = s,
                          !.sec = [old |-> section[s], new |-> [section[s] EXCEPT !.phase = "gone"]]]
  <2>1. section[s] \in SectionRow /\ [section[s] EXCEPT !.phase = "gone"] \in SectionRow
    BY DEF ChecksInv, TypeOK, SectionRow, Phases
  <2>2. new \in Handler
    BY <2>1 DEF Idle, Ops, SectionOps
  <2>3. ChecksHold(new) /\ Loaded(new)
    BY DEF ChecksHold, Loaded, Idle, Edits
  <2>4. QED
    BY <1>4, <2>2, <2>3, BeginStep DEF PlanDestroySection
<1>5. QED
  BY <1>2, <1>3, <1>4

LEMMA PlanQuestionStep ==
    ASSUME ChecksInv, NEW r \in Requests,
           \/ \E s \in Sections : PlanCreateQuestion(r, s)
           \/ \E q \in Questions, s \in Sections, field \in Fields : PlanUpdateQuestion(r, q, s, field)
           \/ \E q \in Questions : PlanDestroyQuestion(r, q)
    PROVE  ChecksInv'
<1> USE IdleType DEF Handler
<1>1. "create_question" \in Ops /\ "update_question" \in Ops /\ "destroy_question" \in Ops
  BY DEF Ops, QuestionOps, Edits
<1>2. ASSUME NEW s \in Sections, PlanCreateQuestion(r, s)
      PROVE  ChecksInv'
  <2> DEFINE row == [phase |-> "live", section |-> s,
                     pos |-> Cardinality(LiveQuestions) + 2, field |-> FirstUnused]
             new == [Idle EXCEPT !.pc = "planned", !.op = "create_question", !.id = s, !.que.new = row]
  <2>1. FirstUnused \in Fields
    <3> DEFINE unused == Fields \ {question[q].field : q \in LiveQuestions}
    <3>1. unused \subseteq Fields /\ unused \subseteq Nat
      BY FieldsAssumption
    <3>2. unused # {} => Min(unused) \in unused
      BY <3>1, MinIsMember
    <3>3. FirstUnused = IF unused = {} THEN 1 ELSE Min(unused)
      BY DEF FirstUnused
    <3> HIDE DEF unused
    <3>4. QED
      BY <3>1, <3>2, <3>3, FieldsAssumption
  <2>2. Cardinality(LiveQuestions) + 2 \in Nat
    BY LiveFinite
  <2>3. row \in QuestionRow
    BY <2>1, <2>2 DEF QuestionRow, Phases
  <2>4. new \in Handler
    BY <1>1, <2>3 DEF Idle
  <2>5. ChecksHold(new) /\ Loaded(new)
    BY <1>2 DEF ChecksHold, Loaded, Idle, Edits, PlanCreateQuestion
  <2>6. QED
    BY <1>2, <2>4, <2>5, BeginStep DEF PlanCreateQuestion
<1>3. ASSUME NEW q \in Questions, NEW s \in Sections, NEW field \in Fields,
             PlanUpdateQuestion(r, q, s, field)
      PROVE  ChecksInv'
  <2> DEFINE row == [question[q] EXCEPT !.section = s, !.field = field]
             new == [Idle EXCEPT !.pc = "planned", !.op = "update_question", !.id = q,
                                 !.que = [old |-> question[q], new |-> row]]
  <2>1. question[q] \in QuestionRow /\ row \in QuestionRow
    BY DEF ChecksInv, TypeOK, QuestionRow
  <2>2. new \in Handler
    BY <1>1, <2>1 DEF Idle
  <2>3. row.section = s /\ row.phase = "live"
    BY <1>3 DEF ChecksInv, TypeOK, QuestionRow, PlanUpdateQuestion, LiveQuestions
  <2>4. ChecksHold(new) /\ Loaded(new)
    BY <1>3, <2>3 DEF ChecksHold, Loaded, Idle, Edits, PlanUpdateQuestion
  <2>5. QED
    BY <1>3, <2>2, <2>4, BeginStep DEF PlanUpdateQuestion
<1>4. ASSUME NEW q \in Questions, PlanDestroyQuestion(r, q)
      PROVE  ChecksInv'
  <2> DEFINE row == [question[q] EXCEPT !.phase = "gone"]
             new == [Idle EXCEPT !.pc = "planned", !.op = "destroy_question", !.id = q,
                                 !.que = [old |-> question[q], new |-> row]]
  <2>1. question[q] \in QuestionRow /\ row \in QuestionRow
    BY DEF ChecksInv, TypeOK, QuestionRow, Phases
  <2>2. new \in Handler
    BY <1>1, <2>1 DEF Idle
  <2>3. ChecksHold(new) /\ Loaded(new)
    BY DEF ChecksHold, Loaded, Idle, Edits
  <2>4. QED
    BY <1>4, <2>2, <2>3, BeginStep DEF PlanDestroyQuestion
<1>5. QED
  BY <1>2, <1>3, <1>4

LEMMA PlanSortStep ==
    ASSUME ChecksInv, NEW r \in Requests,
           \/ \E order \in SetToSeqs(LiveSections) : PlanSortSections(r, order)
           \/ \E s \in Sections : \E order \in SetToSeqs(QuestionsIn(s)) : PlanSortQuestions(r, s, order)
    PROVE  ChecksInv'
<1> USE IdleType DEF Handler
<1>1. "sort_sections" \in Ops /\ "sort_questions" \in Ops
  BY DEF Ops
<1>2. ASSUME NEW order \in SetToSeqs(LiveSections), PlanSortSections(r, order)
      PROVE  ChecksInv'
  <2> DEFINE new == [Idle EXCEPT !.pc = "sorting", !.op = "sort_sections", !.order = order]
  <2>1. order \in Seq(Sections \cup Questions)
    BY OrderType, LiveFinite DEF LiveSections
  <2>2. new \in Handler
    BY <1>1, <2>1 DEF Idle
  <2>3. ChecksHold(new) /\ Loaded(new)
    BY DEF ChecksHold, Loaded, Idle, Edits
  <2>4. QED
    BY <1>2, <2>2, <2>3, BeginStep DEF PlanSortSections
<1>3. ASSUME NEW s \in Sections, NEW order \in SetToSeqs(QuestionsIn(s)), PlanSortQuestions(r, s, order)
      PROVE  ChecksInv'
  <2> DEFINE new == [Idle EXCEPT !.pc = "sorting", !.op = "sort_questions", !.id = s, !.order = order]
  <2>1. order \in Seq(Sections \cup Questions)
    BY OrderType, LiveFinite DEF QuestionsIn, LiveQuestions
  <2>2. new \in Handler
    BY <1>1, <2>1 DEF Idle
  <2>3. ChecksHold(new) /\ Loaded(new)
    BY DEF ChecksHold, Loaded, Idle, Edits
  <2>4. QED
    BY <1>3, <2>2, <2>3, BeginStep DEF PlanSortQuestions
<1>4. QED
  BY <1>2, <1>3

LEMMA PlanStep == ASSUME ChecksInv, NEW r \in Requests, Plan(r) PROVE ChecksInv'
BY PlanSectionStep, PlanQuestionStep, PlanSortStep DEF Plan

LEMMA ValidateStep == ASSUME ChecksInv, NEW r \in Requests, Validate(r) PROVE ChecksInv'
<1> DEFINE h == request[r]
           new == IF Passes(h) THEN [h EXCEPT !.pc = "valid"] ELSE Idle
<1>1. h \in Handler /\ ChecksHold(h) /\ Loaded(h) /\ h.pc = "planned"
  BY DEF ChecksInv, TypeOK, Validate
<1>2. new \in Handler
  BY <1>1, IdleType DEF Handler
<1>3. ChecksHold(new) /\ Loaded(new)
  <2>1. CASE Passes(h)
    <3>1. new = [h EXCEPT !.pc = "valid"]
      BY <2>1
    <3>2. /\ new.pc = "valid" /\ new.op = h.op /\ new.id = h.id /\ new.sec = h.sec
          /\ new.que = h.que /\ new.outdated = h.outdated
          /\ new.order = h.order /\ new.locked = h.locked
      BY <3>1, <1>1 DEF Handler
    <3>3. FieldFree(new) <=> FieldFree(h)
      BY <3>2 DEF FieldFree
    <3> HIDE DEF new
    <3>4. QED
      BY <2>1, <3>2, <3>3, <1>1 DEF ChecksHold, Loaded, Passes
  <2>2. CASE ~Passes(h)
    BY <2>2, IdleHolds
  <2>3. QED
    BY <2>1, <2>2
<1> HIDE DEF new
<1>4. request' = [request EXCEPT ![r] = new]
  BY DEF Validate, new
<1>5. UNCHANGED <<Tables, raced>> /\ deaths' \in 0 .. MaxDeaths /\ torn' \in BOOLEAN
  BY DEF Validate, ChecksInv, TypeOK
<1>6. QED
  BY <1>2, <1>3, <1>4, <1>5, LocalStep

LEMMA SortQuestionStep == ASSUME ChecksInv, NEW r \in Requests, SortQuestion(r) PROVE ChecksInv'
<1> DEFINE h == request[r]
           q == h.order[h.at]
           onward == [h EXCEPT !.at = @ + 1, !.locked = IF question[q].pos # h.at THEN @ \cup {q} ELSE @]
<1>1. h \in Handler /\ h.pc = "sorting" /\ h.op = "sort_questions"
  BY DEF ChecksInv, TypeOK, SortQuestion, Sorting
<1>2. PICK new : /\ request' = [request EXCEPT ![r] = new]
                 /\ new = Idle \/ (q \in Questions /\ new = onward)
  BY DEF SortQuestion, QuestionsIn, LiveQuestions
<1>3. CASE new = Idle
  BY <1>2, <1>3, IdleType, IdleHolds, LocalStep DEF SortQuestion, ChecksInv, TypeOK
<1>4. CASE q \in Questions /\ new = onward
  <2> DEFINE locked == IF question[q].pos # h.at THEN h.locked \cup {q} ELSE h.locked
  <2>0. h.at + 1 \in Nat \ {0} /\ locked \in SUBSET Questions
    BY <1>1, <1>4 DEF Handler
  <2>1. new \in Handler
    <3>1. new = [h EXCEPT !.at = h.at + 1, !.locked = locked]
      BY <1>1, <1>4 DEF Handler
    <3> HIDE DEF locked
    <3>2. QED
      BY <1>1, <2>0, <3>1 DEF Handler
  <2>2. new.pc = "sorting" /\ new.op = "sort_questions"
    BY <1>1, <1>4 DEF Handler
  <2>3. ChecksHold(new) /\ Loaded(new)
    <3>1. h.order \in Seq(Sections \cup Questions) /\ h.at \in 1 .. Len(h.order)
      BY <1>1 DEF SortQuestion, AtEnd, Handler
    <3>2. q \in Range(h.order)
      BY <3>1 DEF Range
    <3>3. h.locked \subseteq Range(h.order)
      BY DEF ChecksInv, Loaded
    <3>4. new.locked \subseteq Range(new.order)
      BY <1>1, <1>4, <3>2, <3>3 DEF Handler
    <3>5. QED
      BY <2>2, <3>4 DEF ChecksHold, Loaded, Edits
  <2>4. QED
    BY <1>2, <2>1, <2>3, LocalStep DEF SortQuestion, ChecksInv, TypeOK
<1>5. QED
  BY <1>2, <1>3, <1>4

LEMMA GiveUpStep ==
    ASSUME ChecksInv, NEW r \in Requests, DeadlockBroken(r) \/ Die(r)
    PROVE  ChecksInv'
<1>1. request' = [request EXCEPT ![r] = Idle] /\ UNCHANGED <<Tables, raced>>
  BY DEF DeadlockBroken, Die
<1>2. deaths' \in 0 .. MaxDeaths
  BY BuilderAssumption DEF DeadlockBroken, Die, ChecksInv, TypeOK
<1>3. torn' \in BOOLEAN
  BY DEF DeadlockBroken, Die, ChecksInv, TypeOK
<1>4. QED
  BY <1>1, <1>2, <1>3, IdleType, IdleHolds, LocalStep

-----------------------------------------------------------------------------
(* Steps that write *)

Clashes(t, r) == {k \in DOMAIN Conflicts : <<request[t].op, request[r].op>> \in Conflicts[k]}

\* What a committed operation does to the handlers that it meets: it outdates those that
\* it conflicts with, and changes nothing else in them.
LEMMA Outdating ==
    ASSUME TypeOK, NEW r \in Requests, NEW next, Committed(r, next), NEW t \in Requests \ {r}
    PROVE  /\ request'[t] = [request[t] EXCEPT !.outdated = request'[t].outdated]
           /\ request'[t].outdated \in SUBSET DOMAIN Conflicts
           /\ request[t].outdated \subseteq request'[t].outdated
           /\ request[t].pc # "idle" => Clashes(t, r) \subseteq request'[t].outdated
<1>1. request'[t] = IF request[t].pc = "idle" THEN request[t]
                    ELSE [request[t] EXCEPT !.outdated = @ \cup Clashes(t, r)]
  BY DEF Committed, Clashes
<1>2. Clashes(t, r) \in SUBSET DOMAIN Conflicts
  BY DEF Clashes
<1>3. request[t] \in Handler
  BY DEF TypeOK
<1>4. CASE request[t].pc = "idle"
  BY <1>1, <1>3, <1>4 DEF Handler
<1>5. CASE request[t].pc # "idle"
  <2>1. request'[t] = [request[t] EXCEPT !.outdated = request[t].outdated \cup Clashes(t, r)]
    BY <1>1, <1>5
  <2>2. request[t].outdated \in SUBSET DOMAIN Conflicts
    BY <1>3 DEF Handler
  <2>3. request'[t].outdated = request[t].outdated \cup Clashes(t, r)
    BY <1>3, <2>1 DEF Handler
  <2>4. QED
    BY <1>2, <2>1, <2>2, <2>3
<1>6. QED
  BY <1>4, <1>5

\* What the others' checks rest on is left alone, or the step has outdated them.
LEMMA SharedStep ==
    ASSUME ChecksInv, NEW r \in Requests, NEW next \in Handler, ChecksHold(next)', Loaded(next),
           Committed(r, next),
           section' \in [Sections -> SectionRow], question' \in [Questions -> QuestionRow],
           UNCHANGED <<deaths, torn>>,
           request[r].op # "destroy_section" => LiveSections \subseteq LiveSections',
           request[r].op \notin Edits =>
               /\ LiveQuestions' \subseteq LiveQuestions
               /\ \A q \in LiveQuestions' : /\ question'[q].field = question[q].field
                                            /\ question'[q].section = question[q].section,
           QuestionsCounted', FieldsDistinct', Reachable'
    PROVE  ChecksInv'
<1> DEFINE op == request[r].op
           Met(t) == {k \in DOMAIN Conflicts : <<request[t].op, op>> \in Conflicts[k]}
<1>1. \A t \in Requests : request[t] \in Handler /\ ChecksHold(request[t]) /\ Loaded(request[t])
  BY DEF ChecksInv, TypeOK
<1>2. request'[r] = next /\ DOMAIN request' = Requests
  BY DEF Committed
<1>3. ASSUME NEW t \in Requests \ {r}
      PROVE  /\ request'[t] = [request[t] EXCEPT !.outdated = request'[t].outdated]
             /\ request'[t].outdated \in SUBSET DOMAIN Conflicts
             /\ request[t].outdated \subseteq request'[t].outdated
             /\ request[t].pc # "idle" => Met(t) \subseteq request'[t].outdated
  BY Outdating DEF ChecksInv, Clashes
<1>4. request' \in [Requests -> Handler]
  <2>1. ASSUME NEW t \in Requests \ {r}
        PROVE  request'[t] \in Handler
    <3>1. PICK o \in SUBSET DOMAIN Conflicts : request'[t] = [request[t] EXCEPT !.outdated = o]
      BY <1>3
    <3>2. request[t] \in Handler
      BY <1>1
    <3>3. QED
      BY <3>1, <3>2 DEF Handler
  <2>2. \E f : request' = [t \in Requests |-> f[t]]
    <3>1. request' = [t \in Requests |-> request'[t]]
      BY DEF Committed
    <3>2. QED
      BY <3>1
  <2>3. QED
    BY <1>2, <2>1, <2>2
<1>5. raced' \subseteq DOMAIN Conflicts
  BY <1>1 DEF Committed, ChecksInv, TypeOK, Handler
<1>6. TypeOK'
  <2>1. counted' \in Nat
    BY LiveFinite, FiniteAssumption, FS_Subset, FS_CardinalityType DEF QuestionsCounted, LiveQuestions
  <2>2. QED
    BY <1>4, <1>5, <2>1 DEF ChecksInv, TypeOK
<1>7. ASSUME NEW t \in Requests \ {r}
      PROVE  ChecksHold(request[t])' /\ Loaded(request[t])'
  <2> DEFINE h == request[t]  new == request'[t]
  <2>1. /\ new.pc = h.pc /\ new.op = h.op /\ new.id = h.id /\ new.sec = h.sec /\ new.que = h.que
        /\ new.order = h.order /\ new.locked = h.locked
        /\ h.outdated \subseteq new.outdated
        /\ h.pc # "idle" => Met(t) \subseteq new.outdated
    BY <1>1, <1>3 DEF Handler
  <2>2. h.pc # "idle" /\ h.op \in Edits /\ op = "destroy_section" => "homes" \in new.outdated
    BY <2>1 DEF Conflicts, Edits
  <2>3. h.pc # "idle" /\ h.op \in Edits /\ op \in Edits => "fields" \in new.outdated
    BY <2>1 DEF Conflicts, Edits
  <2>4. h.pc # "idle" /\ h.op = "destroy_section" /\ op \in Edits => "homes" \in new.outdated
    BY <2>1 DEF Conflicts, Edits
  <2>5. ChecksHold(h) /\ Loaded(h)
    BY <1>1
  <2> HIDE DEF Met, op, new, h
  <2>6. new.pc # "idle" /\ new.op \in Edits /\ "homes" \notin new.outdated =>
            new.que.new.section \in LiveSections'
    BY <2>1, <2>2, <2>5 DEF ChecksHold, op
  <2>7. new.pc = "valid" /\ new.op \in Edits /\ "fields" \notin new.outdated =>
            FieldFree(request[t])'
    <3> SUFFICES ASSUME new.pc = "valid", new.op \in Edits, "fields" \notin new.outdated,
                        NEW q \in LiveQuestions', question'[q].field = new.que.new.field
                 PROVE  new.op = "update_question" /\ q = new.id
      BY DEF FieldFree, new
    <3>1. FieldFree(h)
      BY <2>1, <2>5 DEF ChecksHold
    <3>2. q \in LiveQuestions /\ question[q].field = question'[q].field
      BY <2>1, <2>3 DEF op
    <3>3. QED
      BY <2>1, <3>1, <3>2 DEF FieldFree
  <2>8. new.pc = "valid" /\ new.op = "destroy_section" /\ "homes" \notin new.outdated =>
            QuestionsIn(request[t].id)' = {}
    <3> SUFFICES ASSUME new.pc = "valid", new.op = "destroy_section", "homes" \notin new.outdated,
                        NEW q \in LiveQuestions', question'[q].section = new.id
                 PROVE  FALSE
      BY DEF QuestionsIn, new
    <3>1. QuestionsIn(h.id) = {}
      BY <2>1, <2>5 DEF ChecksHold
    <3>2. q \in LiveQuestions /\ question[q].section = question'[q].section
      BY <2>1, <2>4 DEF op
    <3>3. QED
      BY <2>1, <3>1, <3>2 DEF QuestionsIn
  <2>9. ChecksHold(request[t])'
    BY <2>6, <2>7, <2>8 DEF ChecksHold, new
  <2>10. Loaded(request[t])'
    BY <2>1, <2>5 DEF Loaded, new
  <2>11. QED
    BY <2>9, <2>10
<1>8. ChecksHold(request[r])' /\ Loaded(request[r])'
  BY <1>2 DEF ChecksHold, Loaded, FieldFree, QuestionsIn
<1>9. QED
  BY <1>6, <1>7, <1>8 DEF ChecksInv

LEMMA IdleAfter == ChecksHold(Idle)' /\ Loaded(Idle)
BY IdleHolds DEF Idle, ChecksHold, Edits

LEMMA WriteSectionStep == ASSUME ChecksInv, NEW r \in Requests, WriteSection(r) PROVE ChecksInv'
<1> DEFINE h == request[r]
<1>1. h \in Handler /\ ChecksHold(h) /\ Loaded(h) /\ h.pc = "valid" /\ h.op \in SectionOps
  BY DEF ChecksInv, TypeOK, WriteSection
<1>2. PICK s \in Sections :
        /\ IF h.op = "new_section" THEN IsNextId(s, section) ELSE s = h.id
        /\ section' = IF h.op = "new_section" \/ section[s].phase = "live"
                      THEN [section EXCEPT
                              ![s].phase = Written(@, h.sec.old.phase, h.sec.new.phase),
                              ![s].pos = Written(@, h.sec.old.pos, h.sec.new.pos)]
                      ELSE section
  BY DEF WriteSection
<1>3. section \in [Sections -> SectionRow] /\ h.sec.old \in SectionRow /\ h.sec.new \in SectionRow
  BY <1>1 DEF ChecksInv, TypeOK, Handler
<1>4. section' \in [Sections -> SectionRow]
  BY <1>2, <1>3 DEF SectionRow, Written
<1>5. \A t \in Sections \ {s} : section'[t] = section[t]
  BY <1>2, <1>3
<1>6. h.op # "destroy_section" => LiveSections \subseteq LiveSections'
  <2> SUFFICES ASSUME h.op # "destroy_section", section[s].phase = "live"
               PROVE  section'[s].phase = "live"
    BY <1>5 DEF LiveSections
  <2>1. h.op = "update_section"
    BY <1>1, <1>2 DEF SectionOps, IsNextId
  <2>2. h.sec.old.phase = h.sec.new.phase
    BY <1>1, <2>1 DEF Loaded
  <2>3. QED
    BY <1>2, <1>3, <2>2 DEF Written, SectionRow
<1>7. UNCHANGED <<question, counted, deaths, torn>> /\ Committed(r, Idle)
  BY DEF WriteSection
<1>8. LiveQuestions' = LiveQuestions
  BY <1>7 DEF LiveQuestions
<1>9. QuestionsCounted' /\ FieldsDistinct'
  BY <1>7, <1>8 DEF ChecksInv, QuestionsCounted, FieldsDistinct, Committed
<1>10. Reachable'
  <2> SUFFICES ASSUME "homes" \notin raced', NEW q \in LiveQuestions
               PROVE  question[q].section \in LiveSections'
    BY <1>7, <1>8 DEF Reachable
  <2>1. "homes" \notin raced /\ "homes" \notin h.outdated
    BY <1>7 DEF Committed
  <2>2. question[q].section \in LiveSections
    BY <2>1 DEF ChecksInv, Reachable
  <2>3. CASE h.op = "destroy_section"
    <3>1. question[q].section # h.id
      BY <1>1, <2>1, <2>3 DEF ChecksHold, QuestionsIn
    <3>2. s = h.id
      BY <1>2, <2>3
    <3>3. QED
      BY <1>5, <2>2, <3>1, <3>2 DEF LiveSections
  <2>4. CASE h.op # "destroy_section"
    BY <1>6, <2>2, <2>4
  <2>5. QED
    BY <2>3, <2>4
<1>11. question' \in [Questions -> QuestionRow]
  BY <1>7 DEF ChecksInv, TypeOK
<1>12. QED
  BY <1>4, <1>6, <1>7, <1>8, <1>9, <1>10, <1>11, IdleType, IdleAfter, SharedStep

LEMMA CreateQuestionStep == ASSUME ChecksInv, NEW r \in Requests, CreateQuestion(r) PROVE ChecksInv'
<1> DEFINE h == request[r]
<1>1. h \in Handler /\ ChecksHold(h) /\ Loaded(h) /\ h.pc = "valid" /\ h.op = "create_question"
  BY DEF ChecksInv, TypeOK, CreateQuestion
<1>2. PICK q \in Questions :
        question[q].phase = "unborn" /\ question' = [question EXCEPT ![q] = h.que.new]
  BY DEF CreateQuestion, IsNextId
<1>3. /\ question \in [Questions -> QuestionRow] /\ h.que.new \in QuestionRow
      /\ h.que.new.phase = "live" /\ h.op \in Edits
  BY <1>1 DEF ChecksInv, TypeOK, Handler, Loaded, Edits
<1>4. /\ question' \in [Questions -> QuestionRow] /\ question'[q] = h.que.new
      /\ \A p \in Questions \ {q} : question'[p] = question[p]
  BY <1>2, <1>3
<1>5. LiveQuestions' = LiveQuestions \cup {q} /\ q \notin LiveQuestions
  BY <1>2, <1>3, <1>4 DEF LiveQuestions
<1>6. UNCHANGED <<section, deaths, torn>> /\ counted' = counted + 1 /\ Committed(r, Idle)
  BY DEF CreateQuestion
<1>7. LiveSections' = LiveSections
  BY <1>6 DEF LiveSections
<1>8. QuestionsCounted'
  BY <1>5, <1>6, LiveFinite, FS_AddElement DEF ChecksInv, QuestionsCounted
<1>9. FieldsDistinct'
  <2> SUFFICES ASSUME "fields" \notin raced', NEW p \in LiveQuestions', NEW o \in LiveQuestions',
                      question'[p].field = question'[o].field
               PROVE  p = o
    BY DEF FieldsDistinct
  <2>1. "fields" \notin raced /\ "fields" \notin h.outdated
    BY <1>6 DEF Committed
  <2>2. \A i \in LiveQuestions : question[i].field # h.que.new.field
    BY <1>1, <1>3, <2>1 DEF ChecksHold, FieldFree
  <2>3. \A i, j \in LiveQuestions : question[i].field = question[j].field => i = j
    BY <2>1 DEF ChecksInv, FieldsDistinct
  <2>4. \A i \in LiveQuestions : question'[i] = question[i]
    BY <1>4, <1>5 DEF LiveQuestions
  <2>5. QED
    BY <1>4, <1>5, <2>2, <2>3, <2>4
<1>10. Reachable'
  <2> SUFFICES ASSUME "homes" \notin raced', NEW p \in LiveQuestions'
               PROVE  question'[p].section \in LiveSections
    BY <1>7 DEF Reachable
  <2>1. "homes" \notin raced /\ "homes" \notin h.outdated
    BY <1>6 DEF Committed
  <2>2. h.que.new.section \in LiveSections
    BY <1>1, <1>3, <2>1 DEF ChecksHold
  <2>3. QED
    BY <1>4, <1>5, <2>1, <2>2 DEF ChecksInv, Reachable, LiveQuestions
<1>11. section' \in [Sections -> SectionRow]
  BY <1>6 DEF ChecksInv, TypeOK
<1>12. QED
  BY <1>3, <1>4, <1>6, <1>7, <1>8, <1>9, <1>10, <1>11, IdleType, IdleAfter, SharedStep

LEMMA UpdateQuestionStep == ASSUME ChecksInv, NEW r \in Requests, UpdateQuestion(r) PROVE ChecksInv'
<1> DEFINE h == request[r]
           q == h.id
<1>1. h \in Handler /\ ChecksHold(h) /\ h.pc = "valid" /\ h.op = "update_question" /\ h.op \in Edits
  BY DEF ChecksInv, TypeOK, UpdateQuestion, Edits
<1>2. question' = IF q \in LiveQuestions
                  THEN [question EXCEPT
                          ![q].section = Written(@, h.que.old.section, h.que.new.section),
                          ![q].field = Written(@, h.que.old.field, h.que.new.field)]
                  ELSE question
  BY DEF UpdateQuestion
<1>3. question \in [Questions -> QuestionRow] /\ h.que.old \in QuestionRow /\ h.que.new \in QuestionRow
  BY <1>1 DEF ChecksInv, TypeOK, Handler
<1>4. question' \in [Questions -> QuestionRow]
  BY <1>2, <1>3 DEF QuestionRow, Written
<1>5. \A p \in Questions : /\ question'[p].phase = question[p].phase
                           /\ p # q => question'[p] = question[p]
  BY <1>2, <1>3 DEF QuestionRow
<1>6. q \in LiveQuestions =>
        /\ question'[q].section = Written(question[q].section, h.que.old.section, h.que.new.section)
        /\ question'[q].field = Written(question[q].field, h.que.old.field, h.que.new.field)
  BY <1>2, <1>3 DEF QuestionRow, LiveQuestions
<1>7. LiveQuestions' = LiveQuestions /\ LiveQuestions \subseteq Questions
  BY <1>5 DEF LiveQuestions
<1>8. UNCHANGED <<section, counted, deaths, torn>> /\ Committed(r, Idle)
  BY DEF UpdateQuestion
<1>9. LiveSections' = LiveSections
  BY <1>8 DEF LiveSections
<1>10. QuestionsCounted'
  BY <1>7, <1>8 DEF ChecksInv, QuestionsCounted
<1>11. FieldsDistinct'
  <2> SUFFICES ASSUME "fields" \notin raced', NEW p \in LiveQuestions, NEW o \in LiveQuestions,
                      question'[p].field = question'[o].field, p # o
               PROVE  FALSE
    BY <1>7 DEF FieldsDistinct
  <2>1. "fields" \notin raced /\ "fields" \notin h.outdated
    BY <1>8 DEF Committed
  <2>2. \A i \in LiveQuestions \ {q} : question[i].field # h.que.new.field
    BY <1>1, <2>1 DEF ChecksHold, FieldFree
  <2>3. \A i, j \in LiveQuestions : question[i].field = question[j].field => i = j
    BY <2>1 DEF ChecksInv, FieldsDistinct
  <2>4. \A i \in LiveQuestions \ {q} : question'[i].field = question[i].field
    BY <1>5, <1>7
  <2>5. q \in LiveQuestions => \A i \in LiveQuestions \ {q} : question'[q].field # question[i].field
    BY <1>6, <2>2, <2>3 DEF Written
  <2>6. QED
    BY <2>3, <2>4, <2>5
<1>12. Reachable'
  <2> SUFFICES ASSUME "homes" \notin raced', NEW p \in LiveQuestions
               PROVE  question'[p].section \in LiveSections
    BY <1>7, <1>9 DEF Reachable
  <2>1. "homes" \notin raced /\ "homes" \notin h.outdated
    BY <1>8 DEF Committed
  <2>2. h.que.new.section \in LiveSections
    BY <1>1, <2>1 DEF ChecksHold
  <2>3. question[p].section \in LiveSections
    BY <2>1 DEF ChecksInv, Reachable
  <2>4. QED
    BY <1>5, <1>6, <1>7, <2>2, <2>3 DEF Written
<1>13. section' \in [Sections -> SectionRow]
  BY <1>8 DEF ChecksInv, TypeOK
<1>14. QED
  BY <1>1, <1>4, <1>8, <1>9, <1>10, <1>11, <1>12, <1>13, IdleType, IdleAfter, SharedStep

LEMMA DestroyQuestionStep == ASSUME ChecksInv, NEW r \in Requests, DestroyQuestion(r) PROVE ChecksInv'
<1> DEFINE q == request[r].id
<1>1. request[r].op = "destroy_question" /\ question' = [question EXCEPT ![q].phase = "gone"]
  BY DEF DestroyQuestion
<1>2. question \in [Questions -> QuestionRow]
  BY DEF ChecksInv, TypeOK
<1>3. question' \in [Questions -> QuestionRow]
  BY <1>1, <1>2 DEF QuestionRow, Phases
<1>4. \A p \in Questions \ {q} : question'[p] = question[p]
  BY <1>1, <1>2
<1>5. LiveQuestions' = LiveQuestions \ {q}
  <2>1. q \in Questions => question'[q].phase = "gone"
    BY <1>1, <1>2 DEF QuestionRow
  <2>2. QED
    BY <1>4, <2>1 DEF LiveQuestions
<1>6. \A p \in LiveQuestions' : p \in LiveQuestions /\ question'[p] = question[p]
  BY <1>4, <1>5 DEF LiveQuestions
<1>7. /\ UNCHANGED <<section, deaths, torn>> /\ Committed(r, Idle)
      /\ counted' = IF q \in LiveQuestions THEN counted - 1 ELSE counted
  BY DEF DestroyQuestion
<1>8. LiveSections' = LiveSections
  BY <1>7 DEF LiveSections
<1>9. QuestionsCounted'
  BY <1>5, <1>7, LiveFinite, FS_RemoveElement DEF ChecksInv, QuestionsCounted
<1>10. FieldsDistinct' /\ Reachable'
  <2>1. raced \subseteq raced'
    BY <1>7 DEF Committed
  <2>2. QED
    BY <1>6, <1>8, <2>1 DEF ChecksInv, FieldsDistinct, Reachable
<1>11. section' \in [Sections -> SectionRow]
  BY <1>7 DEF ChecksInv, TypeOK
<1>12. QED
  BY <1>1, <1>3, <1>6, <1>7, <1>8, <1>9, <1>10, <1>11, IdleType, IdleAfter, SharedStep

LEMMA SortSectionStep == ASSUME ChecksInv, NEW r \in Requests, SortSection(r) PROVE ChecksInv'
<1> DEFINE h == request[r]
           s == h.order[h.at]
<1>1. h \in Handler /\ Loaded(h) /\ h.pc = "sorting" /\ h.op = "sort_sections"
  BY DEF ChecksInv, TypeOK, SortSection, Sorting
<1>2. section' = IF s \in LiveSections THEN [section EXCEPT ![s].pos = h.at] ELSE section
  BY DEF SortSection
<1>3. PICK next : /\ next = IF h.at = Len(h.order) THEN Idle ELSE [h EXCEPT !.at = @ + 1]
                  /\ UNCHANGED <<question, counted, deaths, torn>> /\ Committed(r, next)
  BY DEF SortSection
<1>4. next \in Handler
  <2>1. [h EXCEPT !.at = @ + 1] \in Handler
    <3>1. h.at + 1 \in Nat \ {0}
      BY <1>1 DEF Handler
    <3>2. QED
      BY <1>1, <3>1 DEF Handler
  <2>2. QED
    BY <1>3, <2>1, IdleType
<1>5. ChecksHold(next)' /\ Loaded(next)
  <2>1. CASE next = Idle
    BY <2>1, IdleAfter
  <2>2. CASE next = [h EXCEPT !.at = @ + 1]
    <3>1. next.op = "sort_sections" /\ next.order = h.order /\ next.locked = h.locked
      BY <1>1, <2>2 DEF Handler
    <3>2. Loaded(next)
      BY <1>1, <3>1 DEF Loaded, Edits
    <3>3. QED
      BY <3>1, <3>2 DEF ChecksHold, Edits
  <2>3. QED
    BY <1>3, <2>1, <2>2
<1>6. section \in [Sections -> SectionRow] /\ h.at \in Nat
  BY <1>1 DEF ChecksInv, TypeOK, Handler
<1>7. section' \in [Sections -> SectionRow]
  BY <1>2, <1>6 DEF SectionRow
<1>8. LiveSections' = LiveSections
  BY <1>2, <1>6 DEF LiveSections, SectionRow
<1>9. LiveQuestions' = LiveQuestions /\ question' \in [Questions -> QuestionRow]
  BY <1>3 DEF LiveQuestions, ChecksInv, TypeOK
<1>10. QuestionsCounted' /\ FieldsDistinct' /\ Reachable'
  BY <1>3, <1>8, <1>9 DEF ChecksInv, QuestionsCounted, FieldsDistinct, Reachable, Committed
<1>11. QED
  BY <1>3, <1>4, <1>5, <1>7, <1>8, <1>9, <1>10, SharedStep

LEMMA SortCommitStep == ASSUME ChecksInv, NEW r \in Requests, SortCommit(r) PROVE ChecksInv'
<1> DEFINE h == request[r]
<1>1. h \in Handler /\ Loaded(h) /\ h.op = "sort_questions"
  BY DEF ChecksInv, TypeOK, SortCommit, Sorting
<1>2. question' = [q \in Questions |->
        IF q \in h.locked THEN [question[q] EXCEPT !.pos = Place(h.order, q)] ELSE question[q]]
  BY DEF SortCommit
<1>3. UNCHANGED <<section, counted, deaths, torn>> /\ Committed(r, Idle)
  BY DEF SortCommit
<1>4. ASSUME NEW q \in h.locked PROVE Place(h.order, q) \in Nat
  <2>1. h.order \in Seq(Sections \cup Questions) /\ q \in Range(h.order)
    BY <1>1 DEF Loaded, Handler
  <2>2. DOMAIN h.order \subseteq Nat
    BY <2>1
  <2>3. \E i \in DOMAIN h.order : h.order[i] = q
    BY <2>1 DEF Range
  <2>4. QED
    BY <2>2, <2>3 DEF Place
<1>5. question \in [Questions -> QuestionRow]
  BY DEF ChecksInv, TypeOK
<1>6. ASSUME NEW q \in Questions
      PROVE  /\ question'[q] \in QuestionRow
             /\ question'[q].phase = question[q].phase
             /\ question'[q].field = question[q].field
             /\ question'[q].section = question[q].section
  BY <1>2, <1>4, <1>5 DEF QuestionRow
<1>7. question' \in [Questions -> QuestionRow]
  BY <1>2, <1>6
<1>8. LiveQuestions' = LiveQuestions /\ LiveQuestions \subseteq Questions
  BY <1>6 DEF LiveQuestions
<1>9. LiveSections' = LiveSections /\ section' \in [Sections -> SectionRow]
  BY <1>3 DEF LiveSections, ChecksInv, TypeOK
<1>10. QuestionsCounted'
  BY <1>3, <1>8 DEF ChecksInv, QuestionsCounted
<1>11. FieldsDistinct'
  <2> SUFFICES ASSUME "fields" \notin raced', NEW p \in LiveQuestions, NEW o \in LiveQuestions,
                      question'[p].field = question'[o].field
               PROVE  p = o
    BY <1>8 DEF FieldsDistinct
  <2>1. "fields" \notin raced
    BY <1>3 DEF Committed
  <2>2. question[p].field = question[o].field
    BY <1>6, <1>8
  <2>3. QED
    BY <2>1, <2>2 DEF ChecksInv, FieldsDistinct
<1>12. Reachable'
  <2> SUFFICES ASSUME "homes" \notin raced', NEW p \in LiveQuestions
               PROVE  question'[p].section \in LiveSections
    BY <1>8, <1>9 DEF Reachable
  <2>1. "homes" \notin raced
    BY <1>3 DEF Committed
  <2>2. QED
    BY <2>1, <1>6, <1>8 DEF ChecksInv, Reachable
<1>13. \A q \in LiveQuestions' : /\ question'[q].field = question[q].field
                                 /\ question'[q].section = question[q].section
  BY <1>6, <1>8
<1>14. QED
  BY <1>1, <1>3, <1>7, <1>8, <1>9, <1>10, <1>11, <1>12, <1>13, IdleType, IdleAfter, SharedStep

LEMMA InvNext == ChecksInv /\ [Next]_vars => ChecksInv'
<1> SUFFICES ASSUME ChecksInv, [Next]_vars PROVE ChecksInv'
  OBVIOUS
<1>1. ASSUME NEW r \in Requests, RequestStep(r) PROVE ChecksInv'
  BY <1>1, PlanStep, ValidateStep, WriteSectionStep, CreateQuestionStep, UpdateQuestionStep,
     DestroyQuestionStep, SortSectionStep, SortQuestionStep, SortCommitStep, GiveUpStep
     DEF RequestStep
<1>2. CASE UNCHANGED vars
  BY <1>2 DEF vars, ChecksInv, TypeOK, QuestionsCounted, FieldsDistinct, Reachable, ChecksHold, Loaded,
              FieldFree, QuestionsIn, LiveSections, LiveQuestions
<1>3. QED
  BY <1>1, <1>2 DEF Next

-----------------------------------------------------------------------------
(* Positions: steps that leave the tables alone *)

\* A member of SetToSeqs lists the set, each of its elements once.
LEMMA OrderLists ==
    ASSUME NEW S, IsFiniteSet(S), NEW order \in SetToSeqs(S)
    PROVE  /\ S = Range(order)
           /\ IsInjective(order)
           /\ DOMAIN order = 1 .. Len(order)
           /\ order # <<>> => 1 \in DOMAIN order
<1> DEFINE c == Cardinality(S)
<1>1. c \in Nat
  BY FS_CardinalityType
<1>2. order \in [1 .. c -> S] /\ IsInjective(order)
  BY DEF SetToSeqs, IsInjective
<1>3. Cardinality(1 .. c) = c
  BY <1>1, FS_Interval
<1>4. order \in Surjection(1 .. c, S)
  BY <1>2, <1>3, FS_Injection DEF Injection
<1>5. S = Range(order)
  BY <1>2, <1>4 DEF Surjection, Range
<1> HIDE DEF c
<1>6. order \in Seq(S) /\ Len(order) = c
  BY <1>1, <1>2
<1>7. order # <<>> => Len(order) # 0
  BY <1>6
<1>8. QED
  BY <1>1, <1>2, <1>5, <1>6, <1>7

LEMMA IdlePlaced == SectionsPlaced(Idle) /\ QuestionsPlaced(Idle) /\ PositionHolds(Idle)
BY DEF Idle, SectionsPlaced, QuestionsPlaced, PositionHolds

LEMMA OrderLocal ==
    ASSUME ChecksInv, OrderInv, NEW r \in Requests, NEW new,
           SectionsPlaced(new), QuestionsPlaced(new), PositionHolds(new),
           request' = [request EXCEPT ![r] = new],
           UNCHANGED <<Tables, raced>>, torn => torn',
           Sorting(r, "sort_sections") => torn' \/ (new.pc = "sorting" /\ new.op = "sort_sections")
    PROVE  OrderInv'
<1>1. UNCHANGED <<section, question, counted, raced>>
  BY DEF Tables
<1>2. \A t \in Requests : request'[t] = IF t = r THEN new ELSE request[t]
  BY DEF ChecksInv, TypeOK
<1>3. SectionOrder'
  <2> SUFFICES ASSUME "order" \notin raced', ~torn', ~(\E t \in Requests : Sorting(t, "sort_sections")')
               PROVE  \A s, t \in LiveSections : section[s].pos = section[t].pos => s = t
    BY <1>1 DEF SectionOrder, LiveSections
  <2>1. \A t \in Requests : ~Sorting(t, "sort_sections")
    BY <1>2 DEF Sorting
  <2>2. QED
    BY <2>1, <1>1 DEF OrderInv, SectionOrder
<1>4. ASSUME NEW t \in Requests
      PROVE  SectionsPlaced(request[t])' /\ QuestionsPlaced(request[t])' /\ PositionHolds(request[t])'
  <2>1. SectionsPlaced(request'[t]) /\ QuestionsPlaced(request'[t]) /\ PositionHolds(request'[t])
    BY <1>2 DEF OrderInv
  <2>2. SectionsPlaced(request[t])'
    BY <2>1, <1>1 DEF SectionsPlaced, LiveSections
  <2>3. QuestionsPlaced(request[t])'
    BY <2>1, <1>1 DEF QuestionsPlaced
  <2>4. PositionHolds(request[t])'
    BY <2>1, <1>1 DEF PositionHolds, PositionFree, LiveSections
  <2>5. QED
    BY <2>2, <2>3, <2>4
<1>5. QED
  BY <1>1, <1>3, <1>4 DEF OrderInv

LEMMA OrderBegin ==
    ASSUME ChecksInv, OrderInv, NEW r \in Requests, NEW new, Begin(r, new),
           SectionsPlaced(new), QuestionsPlaced(new), PositionHolds(new)
    PROVE  OrderInv'
<1>1. ~Sorting(r, "sort_sections")
  BY DEF Begin, Sorting
<1>2. QED
  BY <1>1, OrderLocal DEF Begin

LEMMA PlanOrder == ASSUME ChecksInv, OrderInv, NEW r \in Requests, Plan(r) PROVE OrderInv'
<1> USE DEF Idle, SectionsPlaced, QuestionsPlaced, PositionHolds
<1>1. CASE PlanNewSection(r)
  BY <1>1, OrderBegin DEF PlanNewSection
<1>2. ASSUME NEW s \in Sections, NEW pos \in Positions \ {0}, PlanUpdateSection(r, s, pos)
      PROVE  OrderInv'
  BY <1>2, OrderBegin DEF PlanUpdateSection
<1>3. ASSUME NEW s \in Sections, PlanDestroySection(r, s)
      PROVE  OrderInv'
  <2>1. [section[s] EXCEPT !.phase = "gone"].pos = section[s].pos
    BY DEF ChecksInv, TypeOK, SectionRow
  <2>2. [section[s] EXCEPT !.phase = "gone"].phase = "gone"
    BY DEF ChecksInv, TypeOK, SectionRow
  <2>3. QED
    BY <1>3, <2>1, <2>2, OrderBegin DEF PlanDestroySection
<1>4. ASSUME NEW s \in Sections, PlanCreateQuestion(r, s)
      PROVE  OrderInv'
  BY <1>4, OrderBegin DEF PlanCreateQuestion
<1>5. ASSUME NEW q \in Questions, NEW s \in Sections, NEW field \in Fields,
             PlanUpdateQuestion(r, q, s, field)
      PROVE  OrderInv'
  BY <1>5, OrderBegin DEF PlanUpdateQuestion
<1>6. ASSUME NEW q \in Questions, PlanDestroyQuestion(r, q)
      PROVE  OrderInv'
  BY <1>6, OrderBegin DEF PlanDestroyQuestion
<1>7. ASSUME NEW order \in SetToSeqs(LiveSections), PlanSortSections(r, order)
      PROVE  OrderInv'
  <2>1. LiveSections = Range(order) /\ IsInjective(order) /\ 1 \in DOMAIN order
    BY <1>7, OrderLists, LiveFinite DEF PlanSortSections
  <2> DEFINE new == [Idle EXCEPT !.pc = "sorting", !.op = "sort_sections", !.order = order]
  <2>2. /\ new.pc = "sorting" /\ new.op = "sort_sections" /\ new.order = order /\ new.at = 1
        /\ Begin(r, new)
    BY <1>7 DEF PlanSortSections
  <2> HIDE DEF new
  <2>3. SectionsPlaced(new) /\ QuestionsPlaced(new) /\ PositionHolds(new)
    BY <2>1, <2>2
  <2>4. QED
    BY <2>2, <2>3, OrderBegin
<1>8. ASSUME NEW s \in Sections, NEW order \in SetToSeqs(QuestionsIn(s)), PlanSortQuestions(r, s, order)
      PROVE  OrderInv'
  <2>1. /\ QuestionsIn(s) = Range(order) /\ IsInjective(order)
        /\ 1 \in DOMAIN order /\ DOMAIN order = 1 .. Len(order)
    BY <1>8, OrderLists, LiveFinite DEF PlanSortQuestions
  <2>2. order \in Seq(Sections \cup Questions)
    BY OrderType, LiveFinite DEF QuestionsIn, LiveQuestions
  <2>3. Len(order) \in Nat /\ 1 \in 1 .. (Len(order) + 1)
    BY <2>2
  <2>4. \A i \in DOMAIN order : order[i] \in Questions /\ question[order[i]].phase # "unborn"
    BY <2>1 DEF Range, QuestionsIn, LiveQuestions
  <2> DEFINE new == [Idle EXCEPT !.pc = "sorting", !.op = "sort_questions", !.id = s, !.order = order]
  <2>5. /\ new.pc = "sorting" /\ new.op = "sort_questions" /\ new.order = order /\ new.at = 1
        /\ Begin(r, new)
    BY <1>8 DEF PlanSortQuestions
  <2> HIDE DEF new
  <2>6. SectionsPlaced(new) /\ QuestionsPlaced(new) /\ PositionHolds(new)
    BY <2>1, <2>3, <2>4, <2>5
  <2>7. QED
    BY <2>5, <2>6, OrderBegin
<1>9. QED
  BY <1>1, <1>2, <1>3, <1>4, <1>5, <1>6, <1>7, <1>8 DEF Plan

LEMMA ValidateOrder == ASSUME ChecksInv, OrderInv, NEW r \in Requests, Validate(r) PROVE OrderInv'
<1> DEFINE h == request[r]
           new == IF Passes(h) THEN [h EXCEPT !.pc = "valid"] ELSE Idle
<1>1. h \in Handler /\ PositionHolds(h) /\ h.pc = "planned"
  BY DEF ChecksInv, TypeOK, OrderInv, Validate
<1>2. SectionsPlaced(new) /\ QuestionsPlaced(new) /\ PositionHolds(new)
  <2>1. CASE Passes(h)
    <3>1. /\ new.pc = "valid" /\ new.op = h.op /\ new.id = h.id /\ new.sec = h.sec
      BY <2>1, <1>1 DEF Handler
    <3>2. PositionFree(new) <=> PositionFree(h)
      BY <3>1 DEF PositionFree
    <3> HIDE DEF new
    <3>3. QED
      BY <2>1, <3>1, <3>2, <1>1 DEF SectionsPlaced, QuestionsPlaced, PositionHolds, Passes
  <2>2. CASE ~Passes(h)
    BY <2>2, IdlePlaced
  <2>3. QED
    BY <2>1, <2>2
<1> HIDE DEF new
<1>3. request' = [request EXCEPT ![r] = new] /\ ~Sorting(r, "sort_sections")
  BY <1>1 DEF Validate, new, Sorting
<1>4. QED
  BY <1>2, <1>3, OrderLocal DEF Validate

LEMMA SortQuestionOrder == ASSUME ChecksInv, OrderInv, NEW r \in Requests, SortQuestion(r) PROVE OrderInv'
<1> DEFINE h == request[r]
           q == h.order[h.at]
           locked == IF question[q].pos # h.at THEN h.locked \cup {q} ELSE h.locked
           onward == [h EXCEPT !.at = h.at + 1, !.locked = locked]
<1>1. h \in Handler /\ h.pc = "sorting" /\ h.op = "sort_questions" /\ QuestionsPlaced(h)
  BY DEF ChecksInv, TypeOK, OrderInv, SortQuestion, Sorting
<1>2. PICK new : request' = [request EXCEPT ![r] = new] /\ (new = Idle \/ new = onward)
  BY <1>1 DEF SortQuestion, Handler
<1>3. SectionsPlaced(new) /\ QuestionsPlaced(new) /\ PositionHolds(new)
  <2>1. CASE new = Idle
    BY <2>1, IdlePlaced
  <2>2. CASE new = onward
    <3>1. /\ new.pc = "sorting" /\ new.op = "sort_questions" /\ new.order = h.order
          /\ new.at = h.at + 1 /\ new.locked = locked /\ new.outdated = h.outdated
      BY <1>1, <2>2 DEF Handler
    <3>2. h.order \in Seq(Sections \cup Questions) /\ h.at \in 1 .. Len(h.order)
      BY <1>1 DEF SortQuestion, AtEnd, Handler
    <3>3. h.at + 1 \in 1 .. (Len(h.order) + 1) /\ h.at \in DOMAIN h.order
      BY <3>2
    <3>4. ASSUME "sort" \notin h.outdated, NEW i \in 1 .. h.at, h.order[i] \notin locked
          PROVE  question[h.order[i]].pos = i
      <4>1. CASE i = h.at
        BY <4>1, <3>4
      <4>2. CASE i # h.at
        <5>1. i \in 1 .. (h.at - 1)
          BY <3>2, <4>2
        <5>2. QED
          BY <1>1, <5>1, <3>4 DEF QuestionsPlaced
      <4>3. QED
        BY <4>1, <4>2
    <3>5. (h.at + 1) - 1 = h.at
      BY <3>2
    <3>6. QuestionsPlaced(new)
      BY <1>1, <3>1, <3>3, <3>4, <3>5 DEF QuestionsPlaced
    <3>7. QED
      BY <3>1, <3>6 DEF SectionsPlaced, PositionHolds
  <2>3. QED
    BY <1>2, <2>1, <2>2
<1>4. ~Sorting(r, "sort_sections")
  BY <1>1 DEF Sorting
<1>5. QED
  BY <1>2, <1>3, <1>4, OrderLocal DEF SortQuestion

LEMMA GiveUpOrder ==
    ASSUME ChecksInv, OrderInv, NEW r \in Requests, DeadlockBroken(r) \/ Die(r)
    PROVE  OrderInv'
<1>1. request' = [request EXCEPT ![r] = Idle] /\ UNCHANGED <<Tables, raced>> /\ (torn => torn')
  <2>1. CASE DeadlockBroken(r)
    BY <2>1 DEF DeadlockBroken
  <2>2. CASE Die(r)
    BY <2>2, Zenon DEF Die
  <2>3. QED
    BY <2>1, <2>2
<1>2. Sorting(r, "sort_sections") => torn'
  BY DEF DeadlockBroken, Die, Waits, Sorting
<1>3. QED
  BY <1>1, <1>2, IdlePlaced, OrderLocal

-----------------------------------------------------------------------------
(* Positions: steps that write *)

Positional == {"new_section", "update_section", "sort_sections"}

\* What the others know about positions survives the step, or the step has outdated it.
LEMMA OrderShared ==
    ASSUME ChecksInv, OrderInv, NEW r \in Requests, NEW next, Committed(r, next),
           SectionsPlaced(next)', QuestionsPlaced(next)', PositionHolds(next)',
           SectionOrder', \A s \in Sections : section'[s].phase = "unborn" => section'[s].pos = 0,
           request[r].op \notin Positional =>
               /\ LiveSections' \subseteq LiveSections
               /\ \A s \in LiveSections' : section'[s].pos = section[s].pos,
           \A q \in Questions : question[q].phase # "unborn" =>
               /\ question'[q].phase # "unborn"
               /\ request[r].op # "sort_questions" => question'[q].pos = question[q].pos
    PROVE  OrderInv'
<1> DEFINE op == request[r].op
<1>1. request'[r] = next
  BY DEF Committed
<1>2. ASSUME NEW t \in Requests \ {r}
      PROVE  SectionsPlaced(request[t])' /\ QuestionsPlaced(request[t])' /\ PositionHolds(request[t])'
  <2> DEFINE h == request[t]  new == request'[t]
  <2>1. h \in Handler /\ SectionsPlaced(h) /\ QuestionsPlaced(h) /\ PositionHolds(h)
    BY DEF ChecksInv, TypeOK, OrderInv
  <2>2. /\ new.pc = h.pc /\ new.op = h.op /\ new.id = h.id /\ new.sec = h.sec
        /\ new.order = h.order /\ new.at = h.at /\ new.locked = h.locked
        /\ h.outdated \subseteq new.outdated
        /\ h.pc # "idle" => Clashes(t, r) \subseteq new.outdated
    <3>1. /\ new = [h EXCEPT !.outdated = new.outdated]
          /\ h.outdated \subseteq new.outdated
          /\ h.pc # "idle" => Clashes(t, r) \subseteq new.outdated
      BY Outdating DEF ChecksInv
    <3>2. QED
      BY <2>1, <3>1 DEF Handler
  <2>3. h.pc # "idle" /\ h.op \in Positional /\ op \in Positional => "order" \in new.outdated
    BY <2>2 DEF Clashes, Conflicts, Positional
  <2>4. h.pc # "idle" /\ h.op = "sort_questions" /\ op = "sort_questions" => "sort" \in new.outdated
    BY <2>2 DEF Clashes, Conflicts
  <2> HIDE DEF h, new, op
  <2>5. SectionsPlaced(request[t])'
    <3> SUFFICES ASSUME new.pc = "sorting", new.op = "sort_sections"
                 PROVE  /\ new.at \in DOMAIN new.order
                        /\ IsInjective(new.order)
                        /\ "order" \notin new.outdated =>
                              /\ LiveSections' \subseteq Range(new.order)
                              /\ \A i \in 1 .. (new.at - 1) : new.order[i] \in LiveSections' =>
                                    section'[new.order[i]].pos = i
      BY DEF SectionsPlaced, new
    <3>1. new.at \in DOMAIN new.order /\ IsInjective(new.order)
      BY <2>1, <2>2 DEF SectionsPlaced
    <3>2. ASSUME "order" \notin new.outdated
          PROVE  /\ LiveSections' \subseteq Range(new.order)
                 /\ \A i \in 1 .. (new.at - 1) : new.order[i] \in LiveSections' =>
                       section'[new.order[i]].pos = i
      <4>1. op \notin Positional /\ "order" \notin h.outdated
        BY <2>2, <2>3, <3>2 DEF Positional
      <4>2. LiveSections' \subseteq LiveSections /\ \A s \in LiveSections' : section'[s].pos = section[s].pos
        BY <4>1 DEF op
      <4>3. /\ LiveSections \subseteq Range(new.order)
            /\ \A i \in 1 .. (new.at - 1) : new.order[i] \in LiveSections => section[new.order[i]].pos = i
        BY <2>1, <2>2, <4>1 DEF SectionsPlaced
      <4>4. QED
        BY <4>2, <4>3
    <3>3. QED
      BY <3>1, <3>2
  <2>6. QuestionsPlaced(request[t])'
    <3> SUFFICES ASSUME new.pc = "sorting", new.op = "sort_questions"
                 PROVE  /\ new.at \in 1 .. (Len(new.order) + 1)
                        /\ \A i \in DOMAIN new.order :
                              new.order[i] \in Questions /\ question'[new.order[i]].phase # "unborn"
                        /\ IsInjective(new.order)
                        /\ "sort" \notin new.outdated =>
                              \A i \in 1 .. (new.at - 1) : new.order[i] \notin new.locked =>
                                  question'[new.order[i]].pos = i
      BY DEF QuestionsPlaced, new
    <3>1. new.at \in 1 .. (Len(new.order) + 1) /\ IsInjective(new.order)
      BY <2>1, <2>2 DEF QuestionsPlaced
    <3>2. \A i \in DOMAIN new.order : new.order[i] \in Questions /\ question[new.order[i]].phase # "unborn"
      BY <2>1, <2>2 DEF QuestionsPlaced
    <3>3. ASSUME "sort" \notin new.outdated, NEW i \in 1 .. (new.at - 1), new.order[i] \notin new.locked
          PROVE  question'[new.order[i]].pos = i
      <4>1. op # "sort_questions" /\ "sort" \notin h.outdated
        BY <2>2, <2>4, <3>3
      <4>2. question[new.order[i]].pos = i
        BY <2>1, <2>2, <3>3, <4>1 DEF QuestionsPlaced
      <4>3. new.order \in Seq(Sections \cup Questions)
        BY <2>1, <2>2 DEF Handler
      <4>4. i \in DOMAIN new.order
        BY <3>1, <3>3, <4>3
      <4>5. QED
        BY <3>2, <4>1, <4>2, <4>4 DEF op
    <3>4. QED
      BY <3>1, <3>2, <3>3
  <2>7. PositionHolds(request[t])'
    <3> SUFFICES ASSUME new.pc = "valid", new.op \in {"new_section", "update_section"},
                        "order" \notin new.outdated
                 PROVE  PositionFree(request[t])'
      BY <2>1, <2>2 DEF PositionHolds, new
    <3>1. op \notin Positional /\ "order" \notin h.outdated
      BY <2>2, <2>3 DEF Positional
    <3>2. PositionFree(h)
      BY <2>1, <2>2, <3>1 DEF PositionHolds
    <3>3. LiveSections' \subseteq LiveSections /\ \A s \in LiveSections' : section'[s].pos = section[s].pos
      BY <3>1 DEF op
    <3>4. QED
      BY <2>2, <3>2, <3>3 DEF PositionFree, new
  <2>8. QED
    BY <2>5, <2>6, <2>7
<1>3. SectionsPlaced(request[r])' /\ QuestionsPlaced(request[r])' /\ PositionHolds(request[r])'
  BY <1>1 DEF SectionsPlaced, QuestionsPlaced, PositionHolds, PositionFree
<1>4. QED
  BY <1>2, <1>3 DEF OrderInv

LEMMA IdlePlacedAfter == SectionsPlaced(Idle)' /\ QuestionsPlaced(Idle)' /\ PositionHolds(Idle)'
BY DEF Idle, SectionsPlaced, QuestionsPlaced, PositionHolds

\* Where SectionOrder has something to promise after the step of a handler that sorts no
\* sections, it did so before the step.
LEMMA InOrderBefore ==
    ASSUME ChecksInv, OrderInv, NEW r \in Requests, NEW next, Committed(r, next), UNCHANGED torn,
           ~Sorting(r, "sort_sections"),
           "order" \notin raced', ~torn', ~(\E t \in Requests : Sorting(t, "sort_sections")')
    PROVE  /\ "order" \notin request[r].outdated
           /\ \A s, t \in LiveSections : section[s].pos = section[t].pos => s = t
<1>1. "order" \notin raced /\ "order" \notin request[r].outdated
  BY DEF Committed
<1>2. \A t \in Requests : ~Sorting(t, "sort_sections")
  <2> TAKE t \in Requests
  <2>1. CASE t = r
    BY <2>1
  <2>2. CASE t # r
    <3>1. request'[t] = [request[t] EXCEPT !.outdated = request'[t].outdated] /\ request[t] \in Handler
      BY <2>2, Outdating DEF ChecksInv, TypeOK
    <3>2. request'[t].pc = request[t].pc /\ request'[t].op = request[t].op
      BY <3>1 DEF Handler
    <3>3. QED
      BY <3>2 DEF Sorting
  <2>3. QED
    BY <2>1, <2>2
<1>3. QED
  BY <1>1, <1>2 DEF OrderInv, SectionOrder

LEMMA WriteSectionOrder == ASSUME ChecksInv, OrderInv, NEW r \in Requests, WriteSection(r) PROVE OrderInv'
<1> DEFINE h == request[r]
<1>1. /\ h \in Handler /\ Loaded(h) /\ PositionHolds(h)
      /\ h.pc = "valid" /\ h.op \in SectionOps
  BY DEF ChecksInv, TypeOK, OrderInv, WriteSection
<1>2. PICK s \in Sections :
        /\ IF h.op = "new_section" THEN IsNextId(s, section) ELSE s = h.id
        /\ section' = IF h.op = "new_section" \/ section[s].phase = "live"
                      THEN [section EXCEPT
                              ![s].phase = Written(@, h.sec.old.phase, h.sec.new.phase),
                              ![s].pos = Written(@, h.sec.old.pos, h.sec.new.pos)]
                      ELSE section
  BY DEF WriteSection
<1>3. section \in [Sections -> SectionRow] /\ h.sec.old \in SectionRow /\ h.sec.new \in SectionRow
  BY <1>1 DEF ChecksInv, TypeOK, Handler
<1>4. \A t \in Sections \ {s} : section'[t] = section[t]
  BY <1>2, <1>3
<1>5. CASE h.op = "new_section" \/ section[s].phase = "live"
  <2>1. /\ section'[s].phase = Written(section[s].phase, h.sec.old.phase, h.sec.new.phase)
        /\ section'[s].pos = Written(section[s].pos, h.sec.old.pos, h.sec.new.pos)
    BY <1>2, <1>3, <1>5 DEF SectionRow
  <2>2. h.op = "new_section" =>
          section[s].phase = "unborn" /\ section'[s].phase = "live" /\ section'[s].pos = h.sec.new.pos
    <3> SUFFICES ASSUME h.op = "new_section"
                 PROVE  section[s].phase = "unborn" /\ section'[s].phase = "live"
                        /\ section'[s].pos = h.sec.new.pos
      OBVIOUS
    <3>1. section[s].phase = "unborn"
      BY <1>2 DEF IsNextId
    <3>2. section[s].pos = 0
      BY <3>1 DEF OrderInv
    <3>3. h.sec.old = NoSection /\ h.sec.new.phase = "live"
      BY <1>1 DEF PositionHolds
    <3>4. QED
      BY <2>1, <3>1, <3>2, <3>3 DEF NoSection, Written
  <2>3. h.op = "update_section" =>
          /\ s = h.id /\ section[s].phase = "live" /\ section'[s].phase = "live"
          /\ section'[s].pos = section[s].pos \/ section'[s].pos = h.sec.new.pos
    BY <1>1, <1>2, <1>5, <2>1 DEF Loaded, Written
  <2>4. h.op = "destroy_section" =>
          /\ section[s].phase = "live" /\ section'[s].pos = section[s].pos
          /\ section'[s].phase # "unborn"
    BY <1>1, <1>5, <2>1 DEF PositionHolds, Written
  <2>5. h.op \in {"new_section", "update_section", "destroy_section"}
    BY <1>1 DEF SectionOps
  <2>6. \A t \in Sections : section'[t].phase = "unborn" => section'[t].pos = 0
    BY <1>4, <2>2, <2>3, <2>4, <2>5 DEF OrderInv
  <2>7. h.op \notin Positional =>
          LiveSections' \subseteq LiveSections /\ \A t \in LiveSections' : section'[t].pos = section[t].pos
    BY <1>4, <2>4, <2>5 DEF Positional, LiveSections
  <2>8. SectionOrder'
    <3> SUFFICES ASSUME "order" \notin raced', ~torn', ~(\E t \in Requests : Sorting(t, "sort_sections")')
                 PROVE  \A u, t \in LiveSections' : section'[u].pos = section'[t].pos => u = t
      BY DEF SectionOrder
    <3>1. /\ "order" \notin h.outdated
          /\ \A u, t \in LiveSections : section[u].pos = section[t].pos => u = t
      BY <1>1, InOrderBefore DEF WriteSection, Sorting
    <3>2. \A t \in LiveSections' : t # s => t \in LiveSections /\ section'[t] = section[t]
      BY <1>4 DEF LiveSections
    <3>3. CASE h.op = "destroy_section"
      <4>1. LiveSections' \subseteq LiveSections /\ \A t \in LiveSections' : section'[t].pos = section[t].pos
        BY <2>7, <3>3 DEF Positional
      <4>2. QED
        BY <3>1, <4>1
    <3>4. CASE h.op \in {"new_section", "update_section"}
      <4>1. \A t \in LiveSections : t # s => section[t].pos # h.sec.new.pos
        <5>1. PositionFree(h)
          BY <1>1, <3>1, <3>4 DEF PositionHolds
        <5>2. QED
          BY <5>1, <3>4, <2>3 DEF PositionFree
      <4>2. section'[s].pos # h.sec.new.pos => s \in LiveSections /\ section'[s].pos = section[s].pos
        BY <2>2, <2>3, <3>4 DEF LiveSections
      <4>3. QED
        BY <3>1, <3>2, <4>1, <4>2
    <3>5. QED
      BY <2>5, <3>3, <3>4
  <2>9. QED
    BY <2>6, <2>7, <2>8, IdlePlacedAfter, OrderShared DEF WriteSection
<1>6. CASE h.op # "new_section" /\ section[s].phase # "live"
  <2>1. UNCHANGED section
    BY <1>2, <1>6
  <2>2. SectionOrder'
    <3> SUFFICES ASSUME "order" \notin raced', ~torn', ~(\E t \in Requests : Sorting(t, "sort_sections")')
                 PROVE  \A u, t \in LiveSections : section[u].pos = section[t].pos => u = t
      BY <2>1 DEF SectionOrder, LiveSections
    <3>1. QED
      BY <1>1, InOrderBefore DEF WriteSection, Sorting
  <2>3. QED
    BY <2>1, <2>2, IdlePlacedAfter, OrderShared DEF WriteSection, OrderInv, LiveSections
<1>7. QED
  BY <1>5, <1>6

\* No operation on questions moves a section.
LEMMA QuestionOrder ==
    ASSUME ChecksInv, OrderInv, NEW r \in Requests, Committed(r, Idle), UNCHANGED <<section, torn>>,
           request[r].op \in QuestionOps \cup {"sort_questions"},
           \A q \in Questions : question[q].phase # "unborn" =>
               /\ question'[q].phase # "unborn"
               /\ request[r].op # "sort_questions" => question'[q].pos = question[q].pos
    PROVE  OrderInv'
<1>1. request[r].op \notin Positional
  BY DEF Positional, QuestionOps, Edits
<1>2. ~Sorting(r, "sort_sections")
  BY <1>1 DEF Sorting, Positional
<1>3. SectionOrder'
  <2> SUFFICES ASSUME "order" \notin raced', ~torn', ~(\E t \in Requests : Sorting(t, "sort_sections")')
               PROVE  \A s, t \in LiveSections : section[s].pos = section[t].pos => s = t
    BY DEF SectionOrder, LiveSections
  <2>1. QED
    BY <1>2, InOrderBefore
<1>4. QED
  BY <1>1, <1>3, IdlePlacedAfter, OrderShared DEF OrderInv, LiveSections

LEMMA EditOrder ==
    ASSUME ChecksInv, OrderInv, NEW r \in Requests,
           CreateQuestion(r) \/ UpdateQuestion(r) \/ DestroyQuestion(r)
    PROVE  OrderInv'
<1>1. question \in [Questions -> QuestionRow]
  BY DEF ChecksInv, TypeOK
<1>2. CASE CreateQuestion(r)
  <2>1. PICK q \in Questions :
          question[q].phase = "unborn" /\ question' = [question EXCEPT ![q] = request[r].que.new]
    BY <1>2 DEF CreateQuestion, IsNextId
  <2>2. \A p \in Questions : question[p].phase # "unborn" => question'[p] = question[p]
    BY <1>1, <2>1
  <2>3. QED
    BY <1>2, <2>2, QuestionOrder DEF CreateQuestion, QuestionOps, Edits
<1>3. CASE UpdateQuestion(r)
  <2>1. \A p \in Questions : question'[p].phase = question[p].phase /\ question'[p].pos = question[p].pos
    BY <1>1, <1>3 DEF UpdateQuestion, QuestionRow
  <2>2. QED
    BY <1>3, <2>1, QuestionOrder DEF UpdateQuestion, QuestionOps, Edits
<1>4. CASE DestroyQuestion(r)
  <2>1. \A p \in Questions : /\ question'[p].pos = question[p].pos
                             /\ question'[p].phase \in {question[p].phase, "gone"}
    BY <1>1, <1>4 DEF DestroyQuestion, QuestionRow
  <2>2. QED
    BY <1>4, <2>1, QuestionOrder DEF DestroyQuestion, QuestionOps
<1>5. QED
  BY <1>2, <1>3, <1>4

LEMMA SortCommitOrder == ASSUME ChecksInv, OrderInv, NEW r \in Requests, SortCommit(r) PROVE OrderInv'
<1>1. question \in [Questions -> QuestionRow]
  BY DEF ChecksInv, TypeOK
<1>2. \A q \in Questions : question'[q].phase = question[q].phase
  BY <1>1 DEF SortCommit, QuestionRow
<1>3. QED
  BY <1>2, QuestionOrder DEF SortCommit, Sorting

LEMMA SortSectionOrder == ASSUME ChecksInv, OrderInv, NEW r \in Requests, SortSection(r) PROVE OrderInv'
<1> DEFINE h == request[r]
           s == h.order[h.at]
<1>1. h \in Handler /\ SectionsPlaced(h) /\ h.pc = "sorting" /\ h.op = "sort_sections"
  BY DEF ChecksInv, TypeOK, OrderInv, SortSection, Sorting
<1>2. section' = IF s \in LiveSections THEN [section EXCEPT ![s].pos = h.at] ELSE section
  BY DEF SortSection
<1>3. PICK next : /\ next = IF h.at = Len(h.order) THEN Idle ELSE [h EXCEPT !.at = @ + 1]
                  /\ UNCHANGED <<question, counted, deaths, torn>> /\ Committed(r, next)
  BY DEF SortSection
<1>4. section \in [Sections -> SectionRow] /\ h.order \in Seq(Sections \cup Questions)
  BY <1>1 DEF ChecksInv, TypeOK, Handler
<1>5. h.at \in 1 .. Len(h.order) /\ Len(h.order) \in Nat /\ IsInjective(h.order)
  BY <1>1, <1>4 DEF SectionsPlaced
<1>6. \A t \in Sections : /\ section'[t].phase = section[t].phase
                          /\ section'[t].pos = IF t = s /\ t \in LiveSections THEN h.at ELSE section[t].pos
  BY <1>2, <1>4 DEF SectionRow
<1>7. LiveSections' = LiveSections
  BY <1>6 DEF LiveSections
<1>8. ASSUME "order" \notin h.outdated
      PROVE  /\ LiveSections \subseteq Range(h.order)
             /\ \A i \in 1 .. h.at : h.order[i] \in LiveSections => section'[h.order[i]].pos = i
  <2>1. /\ LiveSections \subseteq Range(h.order)
        /\ \A i \in 1 .. (h.at - 1) : h.order[i] \in LiveSections => section[h.order[i]].pos = i
    BY <1>1, <1>8 DEF SectionsPlaced
  <2>2. ASSUME NEW i \in 1 .. h.at, h.order[i] \in LiveSections
        PROVE  section'[h.order[i]].pos = i
    <3>1. i \in DOMAIN h.order /\ h.at \in DOMAIN h.order /\ h.order[i] \in Sections
      BY <1>4, <1>5, <2>2 DEF LiveSections
    <3>2. CASE i = h.at
      BY <1>6, <2>2, <3>1, <3>2
    <3>3. CASE i # h.at
      <4>1. h.order[i] # s
        BY <1>5, <3>1, <3>3 DEF IsInjective
      <4>2. i \in 1 .. (h.at - 1)
        BY <1>5, <3>3
      <4>3. QED
        BY <1>6, <2>1, <2>2, <3>1, <4>1, <4>2
    <3>4. QED
      BY <3>2, <3>3
  <2>3. QED
    BY <2>1, <2>2
<1>9. SectionsPlaced(next)' /\ QuestionsPlaced(next)' /\ PositionHolds(next)'
  <2>1. CASE h.at = Len(h.order)
    BY <1>3, <2>1, IdlePlacedAfter
  <2>2. CASE h.at # Len(h.order)
    <3>1. /\ next.pc = "sorting" /\ next.op = "sort_sections" /\ next.order = h.order
          /\ next.at = h.at + 1 /\ next.outdated = h.outdated
      BY <1>1, <1>3, <2>2 DEF Handler
    <3>2. h.at + 1 \in DOMAIN h.order /\ (h.at + 1) - 1 = h.at
      BY <1>4, <1>5, <2>2
    <3>3. SectionsPlaced(next)'
      BY <1>5, <1>7, <1>8, <3>1, <3>2 DEF SectionsPlaced
    <3>4. QED
      BY <3>1, <3>3 DEF QuestionsPlaced, PositionHolds
  <2>3. QED
    BY <2>1, <2>2
<1>10. SectionOrder'
  <2>1. CASE h.at # Len(h.order)
    <3>1. next.pc = "sorting" /\ next.op = "sort_sections" /\ request'[r] = next
      BY <1>1, <1>3, <2>1 DEF Handler, Committed
    <3>2. QED
      BY <3>1 DEF SectionOrder, Sorting
  <2>2. CASE h.at = Len(h.order)
    <3> SUFFICES ASSUME "order" \notin raced', NEW u \in LiveSections, NEW t \in LiveSections,
                        section'[u].pos = section'[t].pos
                 PROVE  u = t
      BY <1>7 DEF SectionOrder
    <3>1. "order" \notin h.outdated
      BY <1>3 DEF Committed
    <3>2. DOMAIN h.order = 1 .. h.at
      BY <1>4, <2>2
    <3>3. PICK i \in 1 .. h.at, j \in 1 .. h.at : u = h.order[i] /\ t = h.order[j]
      BY <1>8, <3>1, <3>2 DEF Range
    <3>4. QED
      BY <1>8, <3>1, <3>3
  <2>3. QED
    BY <2>1, <2>2
<1>11. \A t \in Sections : section'[t].phase = "unborn" => section'[t].pos = 0
  BY <1>6 DEF OrderInv, LiveSections
<1>12. h.op \in Positional
  BY <1>1 DEF Positional
<1>13. QED
  BY <1>3, <1>9, <1>10, <1>11, <1>12, OrderShared

LEMMA OrderInit == Init => OrderInv
<1> SUFFICES ASSUME Init PROVE OrderInv
  OBVIOUS
<1>1. \A s \in Sections : section[s] = IF s = 1 THEN [phase |-> "live", pos |-> 1] ELSE NoSection
  BY DEF Init
<1>2. \A s \in LiveSections : s = 1
  BY <1>1 DEF LiveSections, NoSection
<1>3. \A s \in Sections : section[s].phase = "unborn" => section[s].pos = 0
  BY <1>1 DEF NoSection
<1>4. \A r \in Requests : request[r] = Idle
  BY DEF Init
<1>5. QED
  BY <1>2, <1>3, <1>4, IdlePlaced DEF OrderInv, SectionOrder

LEMMA OrderNext == ChecksInv /\ OrderInv /\ [Next]_vars => OrderInv'
<1> SUFFICES ASSUME ChecksInv, OrderInv, [Next]_vars PROVE OrderInv'
  OBVIOUS
<1>1. ASSUME NEW r \in Requests, RequestStep(r) PROVE OrderInv'
  BY <1>1, PlanOrder, ValidateOrder, WriteSectionOrder, EditOrder, SortSectionOrder,
     SortQuestionOrder, SortCommitOrder, GiveUpOrder DEF RequestStep
<1>2. CASE UNCHANGED vars
  BY <1>2 DEF vars, OrderInv, SectionOrder, Sorting, SectionsPlaced, QuestionsPlaced, PositionHolds,
              PositionFree, LiveSections
<1>3. QED
  BY <1>1, <1>2 DEF Next

-----------------------------------------------------------------------------
(* Theorems *)

\* Whatever overlaps, the rows, the counter and what the handlers have read fit.
THEOREM Invariant == Spec => []IInv
<1>1. Init => IInv
  BY InvInit, OrderInit DEF IInv
<1>2. IInv /\ [Next]_vars => IInv'
  BY InvNext, OrderNext DEF IInv
<1>3. QED
  BY <1>1, <1>2, PTL DEF Spec

\* questions_count is right after any history of creations, deletions and deaths.
THEOREM CountHolds == Spec => []QuestionsCounted
<1>1. IInv => QuestionsCounted
  BY DEF IInv, ChecksInv
<1>2. QED
  BY <1>1, Invariant, PTL

\* Two questions share an answer field only after edits of questions overlapped.
THEOREM FieldsHold == Spec => []FieldsDistinct
<1>1. IInv => FieldsDistinct
  BY DEF IInv, ChecksInv
<1>2. QED
  BY <1>1, Invariant, PTL

\* A question loses its section only to a deletion that overlapped with its edit.
THEOREM HomesHold == Spec => []Reachable
<1>1. IInv => Reachable
  BY DEF IInv, ChecksInv
<1>2. QED
  BY <1>1, Invariant, PTL

\* Two sections have one position only during a sort, after one that broke off, or after
\* requests that set positions overlapped.
THEOREM OrderHolds == Spec => []SectionOrder
<1>1. IInv => SectionOrder
  BY DEF IInv, OrderInv
<1>2. QED
  BY <1>1, Invariant, PTL

\* A sort of questions that commits, and met no other sort, leaves the order asked for:
\* each question was in its place when the sort passed it and has stayed there, or is
\* put there by the commit, which knows one place for it.
THEOREM SortHolds == Spec => SortTakesEffect
<1> DEFINE Sorted ==
       \A r \in Requests : SortCommit(r) /\ "sort" \notin request[r].outdated =>
           \A i \in DOMAIN request[r].order : question'[request[r].order[i]].pos = i
<1>1. ASSUME IInv PROVE Sorted
  <2> SUFFICES ASSUME NEW r \in Requests, SortCommit(r), "sort" \notin request[r].outdated,
                      NEW i \in DOMAIN request[r].order
               PROVE  question'[request[r].order[i]].pos = i
    OBVIOUS
  <2> DEFINE h == request[r]
             q == h.order[i]
  <2>1. h \in Handler /\ QuestionsPlaced(h) /\ h.pc = "sorting" /\ h.op = "sort_questions" /\ h.at > Len(h.order)
    BY <1>1 DEF IInv, ChecksInv, TypeOK, OrderInv, SortCommit, Sorting, AtEnd
  <2>2. h.order \in Seq(Sections \cup Questions) /\ h.at \in Nat /\ Len(h.order) \in Nat
    BY <2>1 DEF Handler
  <2>3. i \in 1 .. (h.at - 1)
    BY <2>1, <2>2 DEF QuestionsPlaced
  <2>4. q \in Questions /\ IsInjective(h.order)
    BY <2>1 DEF QuestionsPlaced
  <2>5. question'[q] = IF q \in h.locked THEN [question[q] EXCEPT !.pos = Place(h.order, q)] ELSE question[q]
    BY <2>4 DEF SortCommit
  <2>6. question[q] \in QuestionRow
    BY <1>1, <2>4 DEF IInv, ChecksInv, TypeOK
  <2>7. CASE q \in h.locked
    <3>1. Place(h.order, q) = i
      BY <2>4 DEF Place, IsInjective
    <3>2. QED
      BY <2>5, <2>6, <2>7, <3>1 DEF QuestionRow
  <2>8. CASE q \notin h.locked
    BY <2>1, <2>3, <2>5, <2>8 DEF QuestionsPlaced
  <2>9. QED
    BY <2>7, <2>8
<1>2. IInv /\ [Next]_vars => [Sorted]_vars
  BY <1>1
<1>3. QED
  BY <1>2, Invariant, PTL DEF Spec, SortTakesEffect

=============================================================================
