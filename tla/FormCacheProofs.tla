--------------------------- MODULE FormCacheProofs ---------------------------
(***************************************************************************)
(* For any number of visitors, editors and edits: IInv is an inductive     *)
(* invariant of FormCache, and with it EditsStayVisible; and a copy is the *)
(* whole form when every edit is owed to visitors.                         *)
(***************************************************************************)
EXTENDS FormCache, TLAPS

LEMMA BlankType == Blank \in Copy
BY CommitsAssumption DEF Blank, Copy, Versions

LEMMA NoLoadType == NoLoad \in Load
BY BlankType DEF NoLoad, Load

LEMMA DoneType == Done \in Callback
BY CommitsAssumption DEF Done, Callback, Versions

LEMMA NoEntryType == NoEntry \in [present : BOOLEAN, copy : Copy]
BY BlankType DEF NoEntry

LEMMA TouchedParts == \A e \in Edits : Touched[e] \subseteq Parts /\ e # NoEdit
BY DEF Edits, Touched, Parts, NoEdit

LEMMA InvInit == Init => IInv
<1> SUFFICES ASSUME Init PROVE IInv
  OBVIOUS
<1>1. TypeOK
  BY BlankType, NoLoadType, DoneType, NoEntryType, CommitsAssumption DEF Init, TypeOK, Versions
<1>2. \A p \in Parts : owed[p] = 0 /\ db[p] = 0 /\ commits = 0 /\ cache.copy[p] = 0
  BY DEF Init, NoEntry, Blank
<1>3. QED
  BY <1>1, <1>2 DEF Init, IInv, EditsStayVisible, NoEntry, Done, NoLoad

-----------------------------------------------------------------------------
(* Readers *)

\* A step that changes nothing but one load keeps IInv, if the load keeps its part.
LEMMA LoadFrame ==
    ASSUME IInv, NEW r \in Readers, NEW new \in Load,
           reader' = [reader EXCEPT ![r] = new],
           UNCHANGED <<commits, db, editor, owed>>,
           cache' \in [present : BOOLEAN, copy : Copy], EditsStayVisible',
           \A p \in Parts : cache'.copy[p] <= db[p],
           new.pc = "loading" =>
              \A p \in Parts :
                 /\ new.base[p] <= db[p] /\ new.copy[p] <= db[p]
                 /\ p \notin new.todo => new.base[p] <= new.copy[p] /\ owed[p] <= new.copy[p]
    PROVE  IInv'
<1>1. TypeOK'
  BY DEF IInv, TypeOK
<1>2. \A q \in Readers : reader'[q] = IF q = r THEN new ELSE reader[q]
  BY DEF IInv, TypeOK
<1>3. \A q \in Readers : reader'[q].pc = "loading" =>
         \A p \in Parts :
            /\ reader'[q].base[p] <= db'[p] /\ reader'[q].copy[p] <= db'[p]
            /\ p \notin reader'[q].todo =>
                  reader'[q].base[p] <= reader'[q].copy[p] /\ owed'[p] <= reader'[q].copy[p]
  <2> SUFFICES ASSUME NEW q \in Readers, reader'[q].pc = "loading", NEW p \in Parts
               PROVE  /\ reader'[q].base[p] <= db'[p] /\ reader'[q].copy[p] <= db'[p]
                      /\ p \notin reader'[q].todo =>
                            reader'[q].base[p] <= reader'[q].copy[p] /\ owed'[p] <= reader'[q].copy[p]
    OBVIOUS
  <2>1. CASE q = r
    BY <1>2, <2>1
  <2>2. CASE q # r
    BY <1>2, <2>2 DEF IInv
  <2>3. QED BY <2>1, <2>2
<1>4. QED BY <1>1, <1>3 DEF IInv

\* An empty entry is no newer than the database.
LEMMA EntriesAreOld ==
    ASSUME IInv
    PROVE  \A p \in Parts : NoEntry.copy[p] <= db[p] /\ Blank[p] <= db[p]
BY DEF NoEntry, Blank, IInv, TypeOK, Copy, Versions

LEMMA MissInv ==
    ASSUME IInv, NEW r \in Readers, Miss(r)
    PROVE  IInv'
<1> DEFINE new == [pc |-> "loading", todo |-> Parts, copy |-> Blank, base |-> db]
<1>1. new \in Load
  BY BlankType DEF Load, IInv, TypeOK
<1>2. \A p \in Parts : new.base[p] <= db[p] /\ new.copy[p] <= db[p]
  BY EntriesAreOld DEF IInv, TypeOK, Copy, Versions
<1>3. EditsStayVisible'
  BY DEF IInv, EditsStayVisible, Miss
<1>4. new.pc = "loading" /\ new.todo = Parts /\ reader' = [reader EXCEPT ![r] = new]
  BY DEF Miss
<1> HIDE DEF new
<1>5. QED BY <1>1, <1>2, <1>3, <1>4, LoadFrame DEF Miss, IInv, TypeOK

LEMMA SelectInv ==
    ASSUME IInv, NEW r \in Readers, NEW p \in Parts, Select(r, p)
    PROVE  IInv'
<1> DEFINE copy == [reader[r].copy EXCEPT ![p] = db[p]]
           new == [reader[r] EXCEPT !.todo = reader[r].todo \ {p}, !.copy = copy]
<1>1. reader[r] \in Load /\ reader[r].pc = "loading"
  BY DEF Select, IInv, TypeOK
<1>2. reader' = [reader EXCEPT ![r] = new]
  BY DEF Select
<1>3. /\ copy \in Copy
      /\ \A q \in Parts : copy[q] = IF q = p THEN db[p] ELSE reader[r].copy[q]
  BY <1>1 DEF Load, Copy, IInv, TypeOK
<1> HIDE DEF copy
<1>4. /\ new \in Load
      /\ new.base = reader[r].base /\ new.copy = copy /\ new.todo = reader[r].todo \ {p}
  BY <1>1, <1>3 DEF Load
<1> HIDE DEF new
<1>5. \A q \in Parts :
         /\ new.base[q] <= db[q] /\ new.copy[q] <= db[q]
         /\ q \notin new.todo => new.base[q] <= new.copy[q] /\ owed[q] <= new.copy[q]
  BY <1>1, <1>3, <1>4 DEF IInv, TypeOK, Copy, Versions
<1>6. EditsStayVisible'
  BY DEF IInv, EditsStayVisible, Select
<1>7. QED BY <1>2, <1>4, <1>5, <1>6, LoadFrame DEF Select, IInv, TypeOK

LEMMA StoreInv ==
    ASSUME IInv, NEW r \in Readers, Store(r)
    PROVE  IInv'
<1>1. cache' \in [present : BOOLEAN, copy : Copy]
  BY DEF Store, IInv, TypeOK, Load
<1>2. EditsStayVisible'
  BY DEF Store, IInv, EditsStayVisible
<1>3. NoLoad.pc # "loading" /\ \A p \in Parts : cache'.copy[p] <= db[p]
  BY DEF NoLoad, Store, IInv
<1>4. QED BY <1>1, <1>2, <1>3, NoLoadType, LoadFrame DEF Store

LEMMA GiveUpInv ==
    ASSUME IInv, NEW r \in Readers, GiveUp(r)
    PROVE  IInv'
<1>1. EditsStayVisible' /\ cache' \in [present : BOOLEAN, copy : Copy]
  BY DEF GiveUp, IInv, EditsStayVisible, TypeOK
<1>2. NoLoad.pc # "loading" /\ \A p \in Parts : cache'.copy[p] <= db[p]
  BY DEF NoLoad, GiveUp, IInv
<1>3. QED BY <1>1, <1>2, NoLoadType, LoadFrame DEF GiveUp

-----------------------------------------------------------------------------
(* Editors and the clock *)

LEMMA CommitInv ==
    ASSUME IInv, NEW d \in Editors, NEW e \in Edits, Commit(d, e)
    PROVE  IInv'
<1> DEFINE new == [edit |-> e, version |-> commits + 1]
<1>1. /\ commits \in Nat /\ commits + 1 \in Versions /\ commits' = commits + 1
      /\ \A p \in Parts : db[p] \in Nat /\ db[p] \in Versions /\ owed[p] \in Nat
  BY CommitsAssumption DEF Commit, IInv, TypeOK, Copy, Versions
<1>2. \A p \in Parts : db'[p] = IF p \in Touched[e] THEN commits + 1 ELSE db[p]
  BY DEF Commit
<1>3. \A p \in Parts : db[p] <= commits /\ owed[p] <= db[p]
  BY DEF IInv
<1>4. \A p \in Parts : db[p] <= db'[p] /\ db'[p] <= commits' /\ owed'[p] <= db'[p]
  BY <1>1, <1>2, <1>3 DEF Commit
<1>5. new \in Callback
  BY <1>1 DEF Callback
<1>6. \A c \in Editors : editor'[c] = IF c = d THEN new ELSE editor[c]
  BY <1>1 DEF Commit, IInv, TypeOK
<1>7. TypeOK'
  <2>1. db' \in Copy
    BY <1>1 DEF Commit, Copy
  <2>2. editor' \in [Editors -> Callback]
    BY <1>1, <1>5 DEF Commit, IInv, TypeOK
  <2>3. QED BY <1>1, <2>1, <2>2 DEF Commit, IInv, TypeOK
<1>8. \A c \in Editors : editor'[c].edit # NoEdit =>
         \A p \in Touched[editor'[c].edit] : editor'[c].version <= db'[p]
  <2> SUFFICES ASSUME NEW c \in Editors, editor'[c].edit # NoEdit, NEW p \in Touched[editor'[c].edit]
               PROVE  editor'[c].version <= db'[p]
    OBVIOUS
  <2>1. CASE c = d
    BY <1>1, <1>2, <1>6, <2>1, TouchedParts
  <2>2. CASE c # d
    <3>1. editor[c] \in Callback /\ editor[c].edit \in Edits /\ editor'[c] = editor[c]
      BY <1>6, <2>2 DEF IInv, TypeOK, Callback
    <3>2. p \in Parts /\ editor[c].version <= db[p]
      BY <3>1, TouchedParts DEF IInv
    <3>3. db'[p] \in Nat /\ editor[c].version \in Nat
      BY <1>1, <1>2, <3>1, <3>2 DEF Callback, Versions
    <3>4. QED BY <1>1, <1>4, <3>1, <3>2, <3>3
  <2>3. QED BY <2>1, <2>2
<1>9. \A r \in Readers : reader'[r].pc = "loading" =>
         \A p \in Parts :
            /\ reader'[r].base[p] <= db'[p] /\ reader'[r].copy[p] <= db'[p]
            /\ p \notin reader'[r].todo =>
                  reader'[r].base[p] <= reader'[r].copy[p] /\ owed'[p] <= reader'[r].copy[p]
  <2> SUFFICES ASSUME NEW r \in Readers, reader[r].pc = "loading", NEW p \in Parts
               PROVE  /\ reader[r].base[p] <= db'[p] /\ reader[r].copy[p] <= db'[p]
                      /\ p \notin reader[r].todo =>
                            reader[r].base[p] <= reader[r].copy[p] /\ owed[p] <= reader[r].copy[p]
    BY DEF Commit
  <2>1. /\ reader[r].base[p] \in Nat /\ reader[r].base[p] <= db[p]
        /\ reader[r].copy[p] \in Nat /\ reader[r].copy[p] <= db[p]
    BY DEF IInv, TypeOK, Load, Copy, Versions
  <2>2. db'[p] \in Nat /\ db[p] \in Nat
    BY <1>1, <1>2
  <2>3. QED BY <1>1, <1>4, <2>1, <2>2 DEF IInv
<1>10. EditsStayVisible'
  BY DEF Commit, IInv, EditsStayVisible
<1>11. \A p \in Parts : cache'.copy[p] <= db'[p]
  <2> SUFFICES ASSUME NEW p \in Parts PROVE cache.copy[p] <= db'[p]
    BY DEF Commit
  <2>1. cache.copy[p] \in Nat /\ cache.copy[p] <= db[p] /\ db'[p] \in Nat
    BY <1>1, <1>2 DEF IInv, TypeOK, Copy, Versions
  <2>2. QED BY <1>1, <1>4, <2>1
<1>12. QED BY <1>4, <1>7, <1>8, <1>9, <1>10, <1>11 DEF IInv

\* The pending callbacks lose one.
LEMMA EditorDone ==
    ASSUME IInv, NEW d \in Editors, editor' = [editor EXCEPT ![d] = Done], db' = db
    PROVE  /\ editor' \in [Editors -> Callback]
           /\ \A c \in Editors : editor'[c].edit # NoEdit =>
                 \A p \in Touched[editor'[c].edit] : editor'[c].version <= db'[p]
<1>1. \A c \in Editors : editor'[c] = IF c = d THEN Done ELSE editor[c]
  BY DEF IInv, TypeOK
<1>2. Done.edit = NoEdit
  BY DEF Done
<1>3. editor' \in [Editors -> Callback]
  BY DoneType DEF IInv, TypeOK
<1>4. \A c \in Editors : editor'[c].edit # NoEdit =>
         \A p \in Touched[editor'[c].edit] : editor'[c].version <= db'[p]
  BY <1>1, <1>2 DEF IInv
<1>5. QED BY <1>3, <1>4

LEMMA AfterCommitInv ==
    ASSUME IInv, NEW d \in Editors, AfterCommit(d)
    PROVE  IInv'
<1> DEFINE e == editor[d].edit
           v == editor[d].version
<1>1. /\ e \in Edits /\ v \in Versions /\ v \in Nat
      /\ \A p \in Touched[e] : v <= db[p]
  BY DEF AfterCommit, IInv, TypeOK, Callback, Versions
<1>2. \A p \in Parts :
         \/ owed'[p] = owed[p]
         \/ /\ owed'[p] = v /\ p \in Touched[e] /\ e \in Promised
            /\ \A r \in Readers : reader[r].pc = "loading" => v <= reader[r].base[p]
  BY DEF AfterCommit, Owe
<1>3. owed' \in Copy
  BY <1>1 DEF AfterCommit, Owe, IInv, TypeOK, Copy
<1> HIDE DEF e, v
<1>4. e \in Promised => cache' = NoEntry
  BY DEF AfterCommit, Invalidates, Promised, e
<1>5. cache' = NoEntry \/ cache' = cache
  BY DEF AfterCommit
<1>6. TypeOK'
  BY <1>3, <1>5, EditorDone, NoEntryType DEF AfterCommit, IInv, TypeOK
<1>7. EditsStayVisible'
  <2>1. CASE cache' = NoEntry
    BY <2>1 DEF EditsStayVisible, NoEntry
  <2>2. CASE cache' # NoEntry
    BY <1>2, <1>4, <1>5, <2>2 DEF IInv, EditsStayVisible
  <2>3. QED BY <2>1, <2>2
<1>8. \A p \in Parts : db'[p] <= commits' /\ owed'[p] <= db'[p]
  BY <1>1, <1>2 DEF AfterCommit, IInv
<1>9. \A r \in Readers : reader'[r].pc = "loading" =>
         \A p \in Parts :
            /\ reader'[r].base[p] <= db'[p] /\ reader'[r].copy[p] <= db'[p]
            /\ p \notin reader'[r].todo =>
                  reader'[r].base[p] <= reader'[r].copy[p] /\ owed'[p] <= reader'[r].copy[p]
  <2> SUFFICES ASSUME NEW r \in Readers, reader[r].pc = "loading", NEW p \in Parts
               PROVE  /\ reader[r].base[p] <= db[p] /\ reader[r].copy[p] <= db[p]
                      /\ p \notin reader[r].todo =>
                            reader[r].base[p] <= reader[r].copy[p] /\ owed'[p] <= reader[r].copy[p]
    BY DEF AfterCommit
  <2>1. reader[r].base[p] \in Nat /\ reader[r].copy[p] \in Nat
    BY DEF IInv, TypeOK, Load, Copy, Versions
  <2>2. /\ reader[r].base[p] <= db[p] /\ reader[r].copy[p] <= db[p]
        /\ p \notin reader[r].todo =>
              reader[r].base[p] <= reader[r].copy[p] /\ owed[p] <= reader[r].copy[p]
    BY DEF IInv
  <2>3. owed'[p] = owed[p] \/ (owed'[p] = v /\ v <= reader[r].base[p])
    BY <1>2
  <2>4. QED BY <1>1, <2>1, <2>2, <2>3
<1>10. \A p \in Parts : cache'.copy[p] <= db'[p]
  BY <1>5, EntriesAreOld DEF AfterCommit, IInv
<1>11. QED BY <1>6, <1>7, <1>8, <1>9, <1>10, EditorDone DEF AfterCommit, IInv

LEMMA CallbackLostInv ==
    ASSUME IInv, NEW d \in Editors, CallbackLost(d)
    PROVE  IInv'
<1>1. TypeOK'
  BY EditorDone DEF CallbackLost, IInv, TypeOK
<1>2. QED BY <1>1, EditorDone DEF CallbackLost, IInv, EditsStayVisible

LEMMA ExpireInv ==
    ASSUME IInv, Expire
    PROVE  IInv'
<1>1. TypeOK'
  BY NoEntryType DEF Expire, IInv, TypeOK
<1>2. EditsStayVisible'
  BY DEF Expire, EditsStayVisible, NoEntry
<1>3. \A p \in Parts : cache'.copy[p] <= db'[p]
  BY EntriesAreOld DEF Expire
<1>4. QED BY <1>1, <1>2, <1>3 DEF Expire, IInv

-----------------------------------------------------------------------------

\* IInv is an inductive invariant.
THEOREM Invariant == Spec => []IInv
<1>1. IInv /\ [Next]_vars => IInv'
  <2> SUFFICES ASSUME IInv, [Next]_vars PROVE IInv'
    OBVIOUS
  <2>1. ASSUME NEW r \in Readers, ReaderStep(r) PROVE IInv'
    BY <2>1, MissInv, SelectInv, StoreInv, GiveUpInv DEF ReaderStep
  <2>2. ASSUME NEW d \in Editors, EditorStep(d) PROVE IInv'
    BY <2>2, CommitInv, AfterCommitInv, CallbackLostInv DEF EditorStep
  <2>3. CASE Expire
    BY <2>3, ExpireInv
  <2>4. CASE UNCHANGED vars
    BY <2>4 DEF vars, IInv, TypeOK, EditsStayVisible
  <2>5. QED BY <2>1, <2>2, <2>3, <2>4 DEF Next
<1>2. QED BY InvInit, <1>1, PTL DEF Spec

\* An edit whose callback has run is not hidden again by the cache.
THEOREM VisibleHolds == Spec => []EditsStayVisible
<1>1. IInv => EditsStayVisible
  BY DEF IInv
<1>2. QED BY Invariant, <1>1, PTL

\* A copy whose parts were selected at different times shows one form, the whole of the
\* current one, as soon as every edit is owed to visitors (form_cache.rb:13).
THEOREM WholeHolds == Spec => []WholeWhenQuiet
<1>1. ASSUME IInv PROVE WholeWhenQuiet
  <2> SUFFICES ASSUME cache.present, owed = db PROVE cache.copy = db
    BY DEF WholeWhenQuiet
  <2>1. \A p \in Parts : /\ db[p] \in Nat /\ cache.copy[p] \in Nat
                         /\ db[p] <= cache.copy[p] /\ cache.copy[p] <= db[p]
    BY <1>1 DEF IInv, EditsStayVisible, TypeOK, Copy, Versions
  <2>2. \A p \in Parts : cache.copy[p] = db[p]
    BY <2>1
  <2>3. db \in [Parts -> Versions] /\ cache.copy \in [Parts -> Versions]
    BY <1>1 DEF IInv, TypeOK, Copy
  <2>4. QED BY <2>2, <2>3
<1>2. QED BY Invariant, <1>1, PTL

=============================================================================
