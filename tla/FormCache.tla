------------------------------ MODULE FormCache ------------------------------
(***************************************************************************)
(* The public copy of one form: app/models/form_cache.rb and the           *)
(* after_commit callbacks of Form, Question, QuestionOption and            *)
(* FormSection that drop it.                                               *)
(*                                                                         *)
(* The cache is filled by whoever misses it, from several SELECTs outside  *)
(* any transaction; an editor commits first and drops the copy afterwards. *)
(* Versions are numbers of commits; nothing else of the content matters.   *)
(***************************************************************************)
EXTENDS Naturals

CONSTANTS
    Readers,     \* visitors' requests that call fetch
    Editors,     \* requests that change the form
    MaxCommits   \* bound on the edits

ASSUME CommitsAssumption == MaxCommits \in Nat

\* What fetch includes in the copy, one SELECT each; the questions are selected
\* once for the form and once more for its sections.
Parts == {"form", "questions", "sections", "organization", "section_questions", "options"}

\* The preloader goes down the associations level by level.
Needs == [form              |-> {},
          questions         |-> {"form"},
          sections          |-> {"questions"},
          organization      |-> {"sections"},
          section_questions |-> {"organization"},
          options           |-> {"section_questions"}]

\* The parts that an edit changes.  Destroying a question destroys its options.
Touched == [form_saved         |-> {"form"},
            question_saved     |-> {"questions", "section_questions"},
            question_destroyed |-> {"questions", "section_questions", "options"},
            option_saved       |-> {"options"},
            option_destroyed   |-> {"options"},
            section_saved      |-> {"sections"},
            section_destroyed  |-> {"sections"},
            sections_sorted    |-> {"sections"},
            organization_saved |-> {"organization"}]

Edits == DOMAIN Touched

VARIABLES
    commits,   \* how many edits were committed
    db,        \* the version of each part in the database
    cache,     \* the entry of the cache store
    reader,    \* the loads under way
    editor,    \* the edits whose callbacks are still to run
    owed       \* the versions that the cache may no longer hide (history)

vars == <<commits, db, cache, reader, editor, owed>>

Versions == 0 .. MaxCommits

Copy == [Parts -> Versions]

Blank == [p \in Parts |-> 0]

NoEntry == [present |-> FALSE, copy |-> Blank]

\* base: the versions when the load began (history).
Load == [pc : {"idle", "loading"}, todo : SUBSET Parts, copy : Copy, base : Copy]

NoLoad == [pc |-> "idle", todo |-> {}, copy |-> Blank, base |-> Blank]

NoEdit == "none"

Callback == [edit : Edits \cup {NoEdit}, version : Versions]

Done == [edit |-> NoEdit, version |-> 0]

TypeOK ==
    /\ commits \in Versions
    /\ db \in Copy
    /\ cache \in [present : BOOLEAN, copy : Copy]
    /\ reader \in [Readers -> Load]
    /\ editor \in [Editors -> Callback]
    /\ owed \in Copy

Init ==
    /\ commits = 0
    /\ db = Blank
    /\ cache = NoEntry
    /\ reader = [r \in Readers |-> NoLoad]
    /\ editor = [d \in Editors |-> Done]
    /\ owed = Blank

-----------------------------------------------------------------------------
(* Readers *)

\* Rails.cache.fetch finds no entry and runs its block.
Miss(r) ==
    /\ reader[r].pc = "idle"
    /\ ~cache.present
    /\ reader' = [reader EXCEPT ![r] = [pc |-> "loading", todo |-> Parts, copy |-> Blank, base |-> db]]
    /\ UNCHANGED <<commits, db, cache, editor, owed>>

Select(r, p) ==
    LET load == reader[r]
    IN  /\ load.pc = "loading"
        /\ p \in load.todo
        /\ Needs[p] \cap load.todo = {}
        /\ reader' = [reader EXCEPT ![r] =
              [load EXCEPT !.todo = @ \ {p}, !.copy = [@ EXCEPT ![p] = db[p]]]]
        /\ UNCHANGED <<commits, db, cache, editor, owed>>

\* The loaded form is written to the cache, over whatever is there by now.
Store(r) ==
    /\ reader[r].pc = "loading"
    /\ reader[r].todo = {}
    /\ cache' = [present |-> TRUE, copy |-> reader[r].copy]
    /\ reader' = [reader EXCEPT ![r] = NoLoad]
    /\ UNCHANGED <<commits, db, editor, owed>>

\* The request dies, or the cache store does not answer the write.
GiveUp(r) ==
    /\ reader[r].pc = "loading"
    /\ reader' = [reader EXCEPT ![r] = NoLoad]
    /\ UNCHANGED <<commits, db, cache, editor, owed>>

\* Mutant: expires_in is dropped.
Expire_never ==
    /\ cache.present
    /\ FALSE
    /\ UNCHANGED vars

\* expires_in: 1.day
Expire ==
    /\ cache.present
    /\ cache' = NoEntry
    /\ UNCHANGED <<commits, db, reader, editor, owed>>

-----------------------------------------------------------------------------
(* Editors *)

\* A transaction commits.  update_all of the section positions is one, too.
Commit(d, e) ==
    /\ editor[d].edit = NoEdit
    /\ commits < MaxCommits
    /\ commits' = commits + 1
    /\ db' = [p \in Parts |-> IF p \in Touched[e] THEN commits' ELSE db[p]]
    /\ editor' = [editor EXCEPT ![d] = [edit |-> e, version |-> commits']]
    /\ UNCHANGED <<cache, reader, owed>>

\* Mutant: Question asks only for persisted?, as the callbacks of its options do.
Invalidates_persistedOnly(e) == e \in {"form_saved", "question_saved", "option_saved", "section_saved"}

\* The after_commit callbacks.  Those of QuestionOption and FormSection skip a
\* record that is no longer persisted, update_all runs none, Organization has none.
Invalidates(e) ==
    e \in {"form_saved", "question_saved", "question_destroyed", "option_saved", "section_saved"}

\* The edits that the models mean to show at once.
Promised == {"form_saved", "question_saved", "question_destroyed", "option_saved", "section_saved"}

\* From now on the edit is owed to visitors, unless some load began before it.
Owe(d) ==
    owed' = [p \in Parts |->
        IF /\ p \in Touched[editor[d].edit]
           /\ editor[d].edit \in Promised
           /\ owed[p] < editor[d].version
           /\ \A r \in Readers : reader[r].pc = "loading" => editor[d].version <= reader[r].base[p]
        THEN editor[d].version ELSE owed[p]]

AfterCommit(d) ==
    /\ editor[d].edit # NoEdit
    /\ cache' = IF Invalidates(editor[d].edit) THEN NoEntry ELSE cache
    /\ Owe(d)
    /\ editor' = [editor EXCEPT ![d] = Done]
    /\ UNCHANGED <<commits, db, reader>>

\* The process dies after its commit, or the cache store does not answer the
\* delete, which redis_cache_store logs and ignores.
CallbackLost(d) ==
    /\ editor[d].edit # NoEdit
    /\ editor' = [editor EXCEPT ![d] = Done]
    /\ UNCHANGED <<commits, db, cache, reader, owed>>

-----------------------------------------------------------------------------

ReaderStep(r) == Miss(r) \/ (\E p \in Parts : Select(r, p)) \/ Store(r) \/ GiveUp(r)

EditorStep(d) == (\E e \in Edits : Commit(d, e)) \/ AfterCommit(d) \/ CallbackLost(d)

Next ==
    \/ \E r \in Readers : ReaderStep(r)
    \/ \E d \in Editors : EditorStep(d)
    \/ Expire

Spec == Init /\ [][Next]_vars

\* A day passes, whatever the requests do.
FairSpec == Spec /\ WF_vars(Expire)

-----------------------------------------------------------------------------
(* Properties *)

\* Once the callback of an edit has run, no entry hides the edit again, unless a
\* load that began before the commit was still under way at the callback.
EditsStayVisible == cache.present => \A p \in Parts : owed[p] <= cache.copy[p]

\* Whatever was silent, lost or overtaken: when the edits stop, visitors get the
\* form as it is.
EditsShow == <>[](cache.present => cache.copy = db)

\* The copy's parts are read at different times, by SELECTs outside a transaction; it
\* is the form nevertheless, all of it, whenever every edit is owed to visitors.
WholeWhenQuiet == cache.present /\ owed = db => cache.copy = db

\* Why EditsStayVisible holds: what a load has read is as new as the database was
\* when the load began, and nothing owed to visitors is missing from it.
IInv ==
    /\ TypeOK
    /\ EditsStayVisible
    /\ \A p \in Parts : cache.copy[p] <= db[p]
    /\ \A p \in Parts : db[p] <= commits /\ owed[p] <= db[p]
    /\ \A d \in Editors : editor[d].edit # NoEdit =>
          \A p \in Touched[editor[d].edit] : editor[d].version <= db[p]
    /\ \A r \in Readers : reader[r].pc = "loading" =>
          \A p \in Parts :
             /\ reader[r].base[p] <= db[p] /\ reader[r].copy[p] <= db[p]
             /\ p \notin reader[r].todo =>
                   reader[r].base[p] <= reader[r].copy[p] /\ owed[p] <= reader[r].copy[p]

=============================================================================
