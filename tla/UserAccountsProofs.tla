------------------------- MODULE UserAccountsProofs -------------------------
(***************************************************************************)
(* Proofs about UserAccounts, for any number of accounts, any limit and    *)
(* week with two weeks before the limit, and any division of the day.      *)
(*                                                                         *)
(* IInv is inductive because of the one fact about a night that passes     *)
(* without a warning: the age on which the window closes is a day beyond   *)
(* the age on which it opens, and a day is what lies between two runs.     *)
(***************************************************************************)
EXTENDS UserAccounts, TLAPS

\* The windows are at least a day after the sign-in and close before the limit.
LEMMA Ages ==
    /\ Day \in Nat /\ Day >= 1
    /\ LimitAge \in Nat /\ Old \in Nat /\ Old = LimitAge + Day
    /\ \A t \in WarningTasks : WarnAge(t) \in Nat /\ WarnAge(t) >= Day /\ WarnAge(t) + Day <= LimitAge
<1> USE DaysAssumption
<1>1. \A x \in Nat : x * Day \in Nat /\ (x >= 1 => x * Day >= Day)
  OBVIOUS
<1>2. ASSUME NEW t \in WarningTasks
      PROVE  WarnAge(t) \in Nat /\ WarnAge(t) >= Day /\ WarnAge(t) + Day <= LimitAge
  <2> DEFINE left == Limit - Ahead(t)
             rest == Ahead(t) - 1
  <2>1. left \in Nat /\ left >= 1 /\ rest \in Nat /\ Limit = left + 1 + rest
    BY <1>2 DEF Ahead, WarningTasks
  <2> HIDE DEF left, rest
  <2>2. WarnAge(t) = left * Day
    BY DEF WarnAge, left
  <2>3. Limit * Day = left * Day + Day + rest * Day
    BY <2>1
  <2>4. left * Day \in Nat /\ rest * Day \in Nat /\ left * Day >= Day
    BY <1>1, <2>1
  <2> QED
    BY <2>2, <2>3, <2>4 DEF LimitAge
<1> QED
  BY <1>1, <1>2 DEF LimitAge, Old

-----------------------------------------------------------------------------
(* Type correctness *)

LEMMA CopiesTyped ==
    ASSUME NEW task \in WarningTasks \cup {"deactivate", "idle"}, NEW selected
    PROVE  At(task) \in Run /\ Loaded(task, selected) \in Run
BY DEF At, Nothing, Loaded, Run, Copies

LEMMA Steps ==
    ASSUME TypeOK, NEW p \in Runs
    PROVE  NextTask(p) \in WarningTasks \cup {"deactivate", "idle"}
BY DEF NextTask, WarningTasks

\* A run that drops or outdates a copy stays a run, and keeps its task.
LEMMA RunsTyped ==
    ASSUME TypeOK, NEW p \in Runs, NEW u \in Users
    PROVE  /\ Dropped(p, u) \in [Runs -> Run]
           /\ Outdated(u) \in [Runs -> Run]
<1>1. ASSUME NEW q \in Runs
      PROVE  run[q].copy \in [Users -> Copies] /\ run[q] \in Run
  BY DEF TypeOK, Run
<1>2. Dropped(p, u) = [run EXCEPT ![p] = [run[p] EXCEPT !.copy = [run[p].copy EXCEPT ![u] = "none"]]]
  BY DEF Dropped
<1>3. [run[p].copy EXCEPT ![u] = "none"] \in [Users -> Copies]
  BY <1>1 DEF Copies
<1>4. [run[p] EXCEPT !.copy = [run[p].copy EXCEPT ![u] = "none"]] \in Run
  BY <1>1, <1>3 DEF Run
<1>5. Dropped(p, u) \in [Runs -> Run]
  BY <1>2, <1>4 DEF TypeOK
<1>6. ASSUME NEW q \in Runs
      PROVE  [run[q] EXCEPT !.copy[u] = IF run[q].copy[u] = "none" THEN "none" ELSE "stale"] \in Run
  <2>1. [run[q].copy EXCEPT ![u] = IF run[q].copy[u] = "none" THEN "none" ELSE "stale"] \in [Users -> Copies]
    BY <1>1 DEF Copies
  <2> QED
    BY <1>1, <2>1 DEF Run
<1> QED
  BY <1>5, <1>6 DEF Outdated

LEMMA AccountsTyped ==
    /\ NoAccount \in Account
    /\ \A ph \in {"live", "gone"} : [NoAccount EXCEPT !.phase = ph] \in Account
    /\ \A a \in Account : Deactivated(a) \in Account /\ Lapsed(a) \in Account /\ Older(a) \in Account
    /\ \A a \in Account : [a EXCEPT !.inactive = FALSE] \in Account
    /\ \A a \in Account : \A t \in WarningTasks : [a EXCEPT !.warned = @ \cup {t}] \in Account
<1>1. NoAccount \in Account /\ \A ph \in {"live", "gone"} : [NoAccount EXCEPT !.phase = ph] \in Account
  <2>1. NoAccount \in Account
    BY Ages DEF NoAccount, Account
  <2>2. \A a \in Account : \A ph \in {"live", "gone"} : [a EXCEPT !.phase = ph] \in Account
    BY DEF Account
  <2> QED
    BY <2>1, <2>2
<1>2. \A a \in Account : NextAge(a) \in 0 .. Old
  BY Ages DEF Account, NextAge
<1>3. \A a \in Account : Older(a) \in Account
  BY <1>2 DEF Account, Older
<1>4. \A a \in Account : Deactivated(a) \in Account /\ Lapsed(a) \in Account
  BY DEF Account, Deactivated, Lapsed
<1>5. \A a \in Account : [a EXCEPT !.inactive = FALSE] \in Account
  BY DEF Account
<1>6. \A a \in Account : \A t \in WarningTasks : [a EXCEPT !.warned = @ \cup {t}] \in Account
  BY DEF Account
<1> QED
  BY <1>1, <1>3, <1>4, <1>5, <1>6

LEMMA TypePreserved == TypeOK /\ [Next]_vars => TypeOK'
<1> SUFFICES ASSUME TypeOK, [Next]_vars
             PROVE  TypeOK'
  OBVIOUS
<1>1. ASSUME NEW u \in Users
      PROVE  account[u] \in Account
  BY DEF TypeOK
<1>2. ASSUME NEW t \in WarningTasks \cup {"deactivate"}, Load(t)
      PROVE  TypeOK'
  BY <1>2, CopiesTyped DEF Load, TypeOK, Runs
<1>3. CASE PressInactivate
  BY <1>3, CopiesTyped DEF PressInactivate, TypeOK, Runs
<1>4. ASSUME NEW u \in Users, Warn(u)
      PROVE  TypeOK'
  BY <1>1, <1>4, RunsTyped, AccountsTyped DEF Warn, TypeOK, Runs
<1>5. ASSUME NEW p \in Runs, NEW u \in Users, Deactivate(p, u)
      PROVE  TypeOK'
  BY <1>1, <1>5, RunsTyped, AccountsTyped DEF Deactivate, TypeOK
<1>6. ASSUME NEW p \in Runs, EndTask(p)
      PROVE  TypeOK'
  BY <1>6, CopiesTyped, Steps DEF EndTask, TypeOK
<1>7. ASSUME NEW p \in Runs, Die(p)
      PROVE  TypeOK'
  <2>1. run' \in [Runs -> Run]
    BY <1>7, CopiesTyped, Steps DEF Die, TypeOK
  <2>2. account' \in [Users -> Account]
    BY <1>1, <1>7, AccountsTyped DEF Die
  <2> QED
    BY <1>7, <2>1, <2>2, FailuresAssumption DEF Die, TypeOK
<1>8. CASE Tick
  BY <1>1, <1>8, AccountsTyped, Ages DEF Tick, TypeOK
<1>9. CASE Cron
  BY <1>1, <1>9, AccountsTyped, Ages, CopiesTyped DEF Cron, TypeOK, Runs, WarningTasks
<1>10. CASE NightWithoutCron
  BY <1>1, <1>10, AccountsTyped, Ages, FailuresAssumption DEF NightWithoutCron, TypeOK
<1>11. ASSUME NEW u \in Users, Create(u) \/ SignIn(u) \/ SetInactive(u) \/ Reactivate(u) \/ Destroy(u)
       PROVE  TypeOK'
  <2>1. account' \in [Users -> Account]
    BY <1>1, <1>11, AccountsTyped DEF Create, SignIn, SetInactive, Reactivate, Destroy, TypeOK
  <2>2. run' \in [Runs -> Run]
    BY <1>11, RunsTyped DEF Create, SignIn, SetInactive, Reactivate, Destroy, TypeOK, Runs
  <2> QED
    BY <1>11, <2>1, <2>2 DEF Create, SignIn, SetInactive, Reactivate, Destroy, TypeOK
<1>12. CASE UNCHANGED vars
  BY <1>12 DEF vars, TypeOK
<1> QED
  BY <1>2, <1>3, <1>4, <1>5, <1>6, <1>7, <1>8, <1>9, <1>10, <1>11, <1>12 DEF Next, NightlyStep, Runs

LEMMA TypeInit == Init => TypeOK
BY AccountsTyped, CopiesTyped, Ages, FailuresAssumption DEF Init, TypeOK

\* The accounts, the hour, the runs and the count of failures keep their types.
THEOREM TypeCorrect == Spec => []TypeOK
BY TypeInit, TypePreserved, PTL DEF Spec

-----------------------------------------------------------------------------
(* The invariant *)

\* The conjuncts of WindowsMeet, of DeactivationWasAnnounced and of the rest, one
\* account, warning or run at a time.
Covered(u, t) ==
    Active(u) /\ ~account[u].lapsed /\ account[u].age - hour >= WarnAge(t) =>
        \/ t \in account[u].warned
        \/ YetToWarn(u, t) /\ hour = 0 /\ account[u].age < WarnAge(t) + Day

Announced(p, u) ==
    run[p].task = "deactivate" /\ run[p].copy[u] = "current" =>
        /\ account[u].age >= LimitAge
        /\ account[u].lapsed \/ account[u].warned = WarningTasks

Sound(p, u) ==
    /\ account[u].inactive => account[u].lapsed
    /\ run[p].copy[u] = "current" => Live(u)

LEMMA Parts ==
    IInv <=> /\ TypeOK
             /\ \A u \in Users : \A t \in WarningTasks : Covered(u, t)
             /\ \A p \in Runs : \A u \in Users : Announced(p, u) /\ Sound(p, u)
BY DEF IInv, WindowsMeet, DeactivationWasAnnounced, Covered, Announced, Sound, Runs

\* An account that nothing touches stays covered while the night's run keeps its
\* task and its copy of the account.
LEMMA CoveredStays ==
    ASSUME NEW u \in Users, NEW t \in WarningTasks, Covered(u, t),
           account'[u] = account[u], hour' = hour, YetToWarn(u, t) => YetToWarn(u, t)'
    PROVE  Covered(u, t)'
BY DEF Covered, Active, Live

\* Whoever a deactivation selects is beyond the limit and has been warned twice.
LEMMA OverdueWasWarned ==
    ASSUME TypeOK, NEW u \in Overdue,
           \A t \in WarningTasks : Covered(u, t)
    PROVE  /\ account[u].age >= LimitAge
           /\ account[u].lapsed \/ account[u].warned = WarningTasks
<1> SUFFICES ASSUME ~account[u].lapsed
             PROVE  account[u].warned = WarningTasks
  BY DEF Overdue
<1>1. /\ u \in Users /\ Active(u) /\ account[u].age \in Nat /\ account[u].age >= LimitAge
      /\ account[u].warned \subseteq WarningTasks
  BY DEF Overdue, TypeOK, Account
<1>2. hour \in Nat /\ hour <= Day - 1
  BY Ages DEF TypeOK
<1>3. ASSUME NEW t \in WarningTasks
      PROVE  t \in account[u].warned
  <2>1. /\ WarnAge(t) \in Nat /\ Day \in Nat /\ LimitAge \in Nat
        /\ WarnAge(t) + Day <= LimitAge
    BY <1>3, Ages
  <2>2. account[u].age - hour >= WarnAge(t) /\ ~(account[u].age < WarnAge(t) + Day)
    BY <1>1, <1>2, <2>1
  <2> QED
    BY <1>1, <1>3, <2>2 DEF Covered
<1> QED
  BY <1>1, <1>3

\* What a step must leave behind.
Kept ==
    /\ \A u \in Users : \A t \in WarningTasks : Covered(u, t)
    /\ \A p \in Runs : \A u \in Users : Announced(p, u) /\ Sound(p, u)

LEMMA RunFields ==
    /\ \A task : At(task).task = task /\ At(task).loaded = FALSE /\ \A u \in Users : At(task).copy[u] = "none"
    /\ \A task, selected :
          /\ Loaded(task, selected).task = task
          /\ Loaded(task, selected).loaded
          /\ \A u \in Users : Loaded(task, selected).copy[u] = IF u \in selected THEN "current" ELSE "none"
BY DEF At, Nothing, Loaded

LEMMA DroppedFields ==
    ASSUME TypeOK, NEW p \in Runs, NEW u \in Users
    PROVE  \A q \in Runs :
              /\ Dropped(p, u)[q].task = run[q].task
              /\ Dropped(p, u)[q].loaded = run[q].loaded
              /\ \A v \in Users :
                    Dropped(p, u)[q].copy[v] = IF q = p /\ v = u THEN "none" ELSE run[q].copy[v]
BY DEF Dropped, TypeOK, Run

LEMMA OutdatedFields ==
    ASSUME TypeOK, NEW u \in Users
    PROVE  \A q \in Runs :
              /\ Outdated(u)[q].task = run[q].task
              /\ Outdated(u)[q].loaded = run[q].loaded
              /\ Outdated(u)[q].copy[u] # "current"
              /\ \A v \in Users \ {u} : Outdated(u)[q].copy[v] = run[q].copy[v]
<1> SUFFICES ASSUME NEW q \in Runs
             PROVE  /\ Outdated(u)[q].task = run[q].task
                    /\ Outdated(u)[q].loaded = run[q].loaded
                    /\ Outdated(u)[q].copy[u] # "current"
                    /\ \A v \in Users \ {u} : Outdated(u)[q].copy[v] = run[q].copy[v]
  OBVIOUS
<1>1. run[q] \in Run
  BY DEF TypeOK
<1> QED
  BY <1>1 DEF Outdated, Run, Copies

\* A task of the night loads the accounts of its window: whom it is yet to warn is
\* among them.
LEMMA LoadKeeps ==
    ASSUME TypeOK, Kept, NEW task \in WarningTasks \cup {"deactivate"}, Load(task)
    PROVE  Kept'
<1> DEFINE selected == IF task \in WarningTasks THEN Pending(task) ELSE Overdue
<1>1. /\ account' = account /\ hour' = hour
      /\ run["nightly"].task = task /\ ~run["nightly"].loaded
      /\ run'["nightly"] = Loaded(task, selected) /\ run'["button"] = run["button"]
  BY DEF Load, TypeOK, Runs
<1> HIDE DEF selected
<1>2. \A u \in selected : Active(u)
  BY DEF selected, Pending, Overdue
<1>3. ASSUME NEW u \in Users, NEW t \in WarningTasks
      PROVE  Covered(u, t)'
  <2>1. Covered(u, t)
    BY DEF Kept
  <2>2. CASE t # task
    <3>1. YetToWarn(u, t) => YetToWarn(u, t)'
      BY <1>1, <2>2, RunFields DEF YetToWarn
    <3> QED
      BY <1>1, <2>1, <3>1, CoveredStays
  <2>3. CASE t = task /\ u \in selected
    BY <1>1, <2>1, <2>3, RunFields DEF Covered, YetToWarn, Active, Live
  <2>4. CASE t = task /\ u \notin selected
    <3>1. ~Active(u) \/ account[u].age < WarnAge(t) \/ ~(account[u].age <= WarnAge(t) + Day)
      BY <2>4, Ages DEF selected, Pending, TypeOK, Account
    <3>2. account[u].age \in Nat /\ WarnAge(t) \in Nat /\ Day \in Nat
      BY Ages DEF TypeOK, Account
    <3>3. Active(u) /\ ~account[u].lapsed /\ account[u].age - hour >= WarnAge(t) => t \in account[u].warned
      BY <2>1, <3>1, <3>2 DEF Covered
    <3> QED
      BY <1>1, <3>3 DEF Covered, Active, Live
  <2> QED
    BY <2>2, <2>3, <2>4
<1>4. ASSUME NEW u \in Users, NEW p \in Runs
      PROVE  Announced(p, u)' /\ Sound(p, u)'
  <2>1. Announced(p, u) /\ Sound(p, u)
    BY DEF Kept
  <2>2. CASE p = "button"
    BY <1>1, <2>1, <2>2 DEF Announced, Sound, Live
  <2>3. CASE p = "nightly" /\ u \notin selected
    BY <1>1, <2>1, <2>3, RunFields DEF Announced, Sound, Live
  <2>4. CASE p = "nightly" /\ u \in selected
    <3>1. task = "deactivate" => /\ account[u].age >= LimitAge
                                 /\ account[u].lapsed \/ account[u].warned = WarningTasks
      BY <2>4, OverdueWasWarned DEF selected, WarningTasks, Kept
    <3>2. run'[p].task = task /\ run'[p].copy[u] = "current" /\ account'[u] = account[u]
      BY <1>1, <2>4, RunFields
    <3>3. Announced(p, u)'
      BY <3>1, <3>2 DEF Announced
    <3>4. Sound(p, u)'
      BY <1>2, <2>1, <2>4, <3>2 DEF Sound, Active, Live
    <3> QED
      BY <3>3, <3>4
  <2> QED
    BY <2>2, <2>3, <2>4 DEF Runs
<1> QED
  BY <1>3, <1>4 DEF Kept

LEMMA PressKeeps ==
    ASSUME TypeOK, Kept, PressInactivate
    PROVE  Kept'
<1>1. /\ account' = account /\ hour' = hour
      /\ run'["button"] = Loaded("deactivate", Overdue) /\ run'["nightly"] = run["nightly"]
  BY DEF PressInactivate, TypeOK, Runs
<1>2. ASSUME NEW u \in Users, NEW t \in WarningTasks
      PROVE  Covered(u, t)'
  BY <1>1, CoveredStays DEF Kept, YetToWarn
<1>3. ASSUME NEW u \in Users, NEW p \in Runs
      PROVE  Announced(p, u)' /\ Sound(p, u)'
  <2>1. Announced(p, u) /\ Sound(p, u)
    BY DEF Kept
  <2>2. CASE p = "nightly"
    BY <1>1, <2>1, <2>2 DEF Announced, Sound, Live
  <2>3. CASE p = "button" /\ u \notin Overdue
    BY <1>1, <2>1, <2>3, RunFields DEF Announced, Sound, Live
  <2>4. CASE p = "button" /\ u \in Overdue
    <3>1. account[u].age >= LimitAge /\ (account[u].lapsed \/ account[u].warned = WarningTasks)
      BY <2>4, OverdueWasWarned DEF Kept
    <3>2. Active(u)
      BY <2>4 DEF Overdue
    <3> QED
      BY <1>1, <2>1, <2>4, <3>1, <3>2, RunFields DEF Announced, Sound, Active, Live
  <2> QED
    BY <2>2, <2>3, <2>4 DEF Runs
<1> QED
  BY <1>2, <1>3 DEF Kept

LEMMA WarnKeeps ==
    ASSUME TypeOK, Kept, NEW u \in Users, Warn(u)
    PROVE  Kept'
<1> DEFINE task == run["nightly"].task
<1>1. /\ task \in WarningTasks /\ hour' = hour /\ run' = Dropped("nightly", u)
      /\ \A v \in Users \ {u} : account'[v] = account[v]
      /\ account'[u].phase = account[u].phase /\ account'[u].inactive = account[u].inactive
      /\ account'[u].age = account[u].age /\ account'[u].lapsed = account[u].lapsed
      /\ account'[u].warned =
            IF run["nightly"].copy[u] = "current" /\ ~account[u].lapsed
              THEN account[u].warned \cup {task} ELSE account[u].warned
  BY DEF Warn, TypeOK, Account
<1>2. \A q \in Runs :
         /\ run'[q].task = run[q].task
         /\ run'[q].loaded = run[q].loaded
         /\ \A v \in Users : run'[q].copy[v] = IF q = "nightly" /\ v = u THEN "none" ELSE run[q].copy[v]
  BY <1>1, DroppedFields DEF Runs
<1>3. account[u].warned \subseteq WarningTasks
  BY DEF TypeOK, Account
<1> HIDE DEF task
<1>4. ASSUME NEW v \in Users, NEW t \in WarningTasks
      PROVE  Covered(v, t)'
  <2>1. Covered(v, t)
    BY DEF Kept
  <2>2. CASE v # u
    <3>1. YetToWarn(v, t) => YetToWarn(v, t)'
      BY <1>2, <2>2 DEF YetToWarn, Runs
    <3> QED
      BY <1>1, <2>1, <2>2, <3>1, CoveredStays
  <2>3. CASE v = u /\ t # task
    <3>1. YetToWarn(v, t) => YetToWarn(v, t)'
      BY <1>2, <2>3 DEF YetToWarn, Runs, task
    <3> QED
      BY <1>1, <2>1, <2>3, <3>1 DEF Covered, Active, Live
  <2>4. CASE v = u /\ t = task /\ run["nightly"].copy[u] = "current"
    BY <1>1, <2>4 DEF Covered
  <2>5. CASE v = u /\ t = task /\ run["nightly"].copy[u] # "current"
    <3>1. YetToWarn(v, t) => YetToWarn(v, t)'
      BY <1>2, <2>5 DEF YetToWarn, Runs, task
    <3> QED
      BY <1>1, <2>1, <2>5, <3>1 DEF Covered, Active, Live
  <2> QED
    BY <2>2, <2>3, <2>4, <2>5
<1>5. ASSUME NEW v \in Users, NEW p \in Runs
      PROVE  Announced(p, v)' /\ Sound(p, v)'
  <2>1. Announced(p, v) /\ Sound(p, v)
    BY DEF Kept
  <2>2. CASE v # u
    BY <1>1, <1>2, <2>1, <2>2 DEF Announced, Sound, Live
  <2>3. CASE v = u
    <3>1. Announced(p, v)'
      BY <1>1, <1>2, <1>3, <2>1, <2>3 DEF Announced
    <3>2. Sound(p, v)'
      BY <1>1, <1>2, <2>1, <2>3 DEF Sound, Live
    <3> QED
      BY <3>1, <3>2
  <2> QED
    BY <2>2, <2>3
<1> QED
  BY <1>4, <1>5 DEF Kept

\* A step that deactivates an account or leaves it alone, in a run that is not at a
\* warning of this account.
LEMMA DeactivateKeeps ==
    ASSUME TypeOK, Kept, NEW p \in Runs, NEW u \in Users, Deactivate(p, u)
    PROVE  Kept'
<1>1. /\ run[p].task = "deactivate" /\ hour' = hour /\ run' = Dropped(p, u)
      /\ \A v \in Users \ {u} : account'[v] = account[v]
      /\ \/ account'[u] = account[u]
         \/ /\ account'[u].lapsed /\ account'[u].phase = account[u].phase
            /\ account'[u].age = account[u].age
  BY DEF Deactivate, Deactivated, TypeOK, Account
<1>2. \A q \in Runs :
         /\ run'[q].task = run[q].task
         /\ run'[q].loaded = run[q].loaded
         /\ \A v \in Users : run'[q].copy[v] = IF q = p /\ v = u THEN "none" ELSE run[q].copy[v]
  BY <1>1, DroppedFields
<1>3. ASSUME NEW v \in Users, NEW t \in WarningTasks
      PROVE  Covered(v, t)'
  <2>1. Covered(v, t)
    BY DEF Kept
  <2>2. YetToWarn(v, t) => YetToWarn(v, t)'
    BY <1>1, <1>2 DEF YetToWarn, Runs, WarningTasks
  <2>3. CASE account'[v] = account[v]
    BY <1>1, <2>1, <2>2, <2>3, CoveredStays
  <2>4. CASE account'[v].lapsed
    BY <2>4 DEF Covered
  <2> QED
    BY <1>1, <2>3, <2>4
<1>4. ASSUME NEW v \in Users, NEW q \in Runs
      PROVE  Announced(q, v)' /\ Sound(q, v)'
  <2>1. Announced(q, v) /\ Sound(q, v)
    BY DEF Kept
  <2>2. CASE account'[v] = account[v]
    BY <1>2, <2>1, <2>2 DEF Announced, Sound, Live
  <2>3. CASE /\ account'[v].lapsed /\ account'[v].phase = account[v].phase
             /\ account'[v].age = account[v].age
    BY <1>2, <2>1, <2>3 DEF Announced, Sound, Live
  <2> QED
    BY <1>1, <2>2, <2>3
<1> QED
  BY <1>3, <1>4 DEF Kept

\* The next task begins, after the last mail of a task or after its death.
LEMMA NextTaskKeeps ==
    ASSUME TypeOK, Kept, NEW p \in Runs, hour' = hour,
           run' = [run EXCEPT ![p] = At(NextTask(p))],
           \A u \in Users : \/ account'[u] = account[u]
                             \/ account'[u] = Lapsed(account[u]),
           p = "nightly" => \A u \in Users : Unreached(u) => account'[u] = Lapsed(account[u])
    PROVE  Kept'
<1>1. /\ run'[p] = At(NextTask(p))
      /\ \A q \in Runs \ {p} : run'[q] = run[q]
  BY DEF TypeOK
<1>2. ASSUME NEW u \in Users
      PROVE  /\ account'[u].phase = account[u].phase /\ account'[u].inactive = account[u].inactive
             /\ account'[u].age = account[u].age
             /\ account'[u].lapsed \/ account'[u].warned = account[u].warned
             /\ account[u].lapsed => account'[u].lapsed
             /\ p = "nightly" /\ Unreached(u) /\ Live(u) => account'[u].lapsed
  <2>1. account[u] \in Account
    BY DEF TypeOK
  <2>2. /\ Lapsed(account[u]).phase = account[u].phase /\ Lapsed(account[u]).inactive = account[u].inactive
        /\ Lapsed(account[u]).age = account[u].age
        /\ Lapsed(account[u]).lapsed \/ Lapsed(account[u]).warned = account[u].warned
        /\ account[u].lapsed \/ Live(u) => Lapsed(account[u]).lapsed
    BY <2>1 DEF Lapsed, Account, Live
  <2> QED
    BY <2>2
<1>3. ASSUME NEW u \in Users, NEW t \in WarningTasks
      PROVE  Covered(u, t)'
  <2>1. Covered(u, t)
    BY DEF Kept
  <2>2. CASE p = "button"
    <3>1. run'["nightly"] = run["nightly"]
      BY <1>1, <2>2 DEF Runs
    <3> QED
      BY <1>2, <2>1, <3>1 DEF Covered, YetToWarn, Active, Live
  <2>3. CASE p = "nightly" /\ Unreached(u)
    BY <1>2, <2>3 DEF Covered, Active, Live
  <2>4. CASE p = "nightly" /\ ~Unreached(u)
    <3>1. YetToWarn(u, t) => YetToWarn(u, t)'
      BY <1>1, <2>4, RunFields DEF YetToWarn, Unreached, NextTask, WarningTasks
    <3> QED
      BY <1>2, <2>1, <3>1 DEF Covered, Active, Live
  <2> QED
    BY <2>2, <2>3, <2>4 DEF Runs
<1>4. ASSUME NEW u \in Users, NEW q \in Runs
      PROVE  Announced(q, u)' /\ Sound(q, u)'
  <2>1. Announced(q, u) /\ Sound(q, u)
    BY DEF Kept
  <2>2. run'[q] = run[q] \/ run'[q].copy[u] = "none"
    BY <1>1, RunFields
  <2> QED
    BY <1>2, <2>1, <2>2 DEF Announced, Sound, Live
<1> QED
  BY <1>3, <1>4 DEF Kept

LEMMA EndTaskKeeps ==
    ASSUME TypeOK, Kept, NEW p \in Runs, EndTask(p)
    PROVE  Kept'
<1>1. \A u \in Users : account'[u] = account[u]
  BY DEF EndTask
<1>2. p = "nightly" => \A u \in Users : ~Unreached(u)
  BY DEF EndTask, Unreached, Nothing
<1> QED
  BY <1>1, <1>2, NextTaskKeeps DEF EndTask

LEMMA DieKeeps ==
    ASSUME TypeOK, Kept, NEW p \in Runs, Die(p)
    PROVE  Kept'
BY NextTaskKeeps DEF Die

-----------------------------------------------------------------------------
(* Time *)

LEMMA OlderFields ==
    ASSUME NEW a \in Account
    PROVE  /\ Older(a).phase = a.phase /\ Older(a).inactive = a.inactive
           /\ Older(a).warned = a.warned /\ Older(a).lapsed = a.lapsed
           /\ Older(a).age \in Nat /\ a.age \in Nat
           /\ Older(a).age = a.age \/ Older(a).age = a.age + 1
<1>1. Older(a).age = NextAge(a) /\ a.age \in Nat
  BY Ages DEF Older, Account
<1>2. NextAge(a) = a.age \/ NextAge(a) = a.age + 1
  BY DEF NextAge
<1>3. /\ Older(a).phase = a.phase /\ Older(a).inactive = a.inactive
      /\ Older(a).warned = a.warned /\ Older(a).lapsed = a.lapsed
  BY DEF Older, Account
<1> QED
  BY <1>1, <1>2, <1>3

LEMMA LapsedFields ==
    ASSUME NEW a \in Account
    PROVE  /\ Lapsed(a) \in Account
           /\ Lapsed(a).phase = a.phase /\ Lapsed(a).inactive = a.inactive
           /\ Lapsed(a).age = a.age
           /\ Lapsed(a).lapsed \/ Lapsed(a).warned = a.warned
           /\ a.lapsed \/ a.phase = "live" => Lapsed(a).lapsed
BY AccountsTyped DEF Lapsed, Account

LEMMA OlderLapsedFields ==
    ASSUME NEW a \in Account
    PROVE  /\ Older(Lapsed(a)).phase = a.phase /\ Older(Lapsed(a)).inactive = a.inactive
           /\ Older(Lapsed(a)).lapsed \/ Older(Lapsed(a)).warned = a.warned
           /\ a.lapsed \/ a.phase = "live" => Older(Lapsed(a)).lapsed
           /\ Older(Lapsed(a)).age = a.age \/ Older(Lapsed(a)).age = a.age + 1
<1>1. PICK b \in Account : b = Lapsed(a)
  BY LapsedFields
<1>2. /\ b.phase = a.phase /\ b.inactive = a.inactive /\ b.age = a.age
      /\ b.lapsed \/ b.warned = a.warned
      /\ a.lapsed \/ a.phase = "live" => b.lapsed
  BY <1>1, LapsedFields
<1>3. /\ Older(b).phase = b.phase /\ Older(b).inactive = b.inactive
      /\ Older(b).warned = b.warned /\ Older(b).lapsed = b.lapsed
      /\ Older(b).age = b.age \/ Older(b).age = b.age + 1
  BY OlderFields
<1> QED
  BY <1>1, <1>2, <1>3

\* The rest of the invariant asks nothing of the age but that it does not fall.
LEMMA TimeKeepsRuns ==
    ASSUME TypeOK, Kept, NEW u \in Users, NEW q \in Runs,
           account'[u] = Older(account[u]) \/ account'[u] = Older(Lapsed(account[u])),
           run'[q] = run[q] \/ run'[q].copy[u] = "none"
    PROVE  Announced(q, u)' /\ Sound(q, u)'
<1>1. Announced(q, u) /\ Sound(q, u) /\ account[u] \in Account
  BY DEF Kept, TypeOK
<1>2. /\ account'[u].phase = account[u].phase /\ account'[u].inactive = account[u].inactive
      /\ account'[u].lapsed \/ account'[u].warned = account[u].warned
      /\ account[u].lapsed => account'[u].lapsed
      /\ account'[u].age = account[u].age \/ account'[u].age = account[u].age + 1
  <2>1. CASE account'[u] = Older(account[u])
    BY <1>1, <2>1, OlderFields
  <2>2. CASE account'[u] = Older(Lapsed(account[u]))
    BY <1>1, <2>2, OlderLapsedFields
  <2> QED
    BY <2>1, <2>2
<1>3. account[u].age >= LimitAge => account'[u].age >= LimitAge
  BY <1>1, <1>2, Ages DEF Account
<1> QED
  BY <1>1, <1>2, <1>3 DEF Announced, Sound, Live

LEMMA TickKeeps ==
    ASSUME TypeOK, Kept, Tick
    PROVE  Kept'
<1>1. ASSUME NEW u \in Users
      PROVE  account'[u] = Older(IF run["nightly"].task \in WarningTasks THEN Lapsed(account[u]) ELSE account[u])
  BY DEF Tick
<1>2. hour \in Nat /\ hour' = hour + 1 /\ run' = run
  BY Ages DEF Tick, TypeOK
<1>3. ASSUME NEW u \in Users, NEW t \in WarningTasks
      PROVE  Covered(u, t)'
  <2>1. Covered(u, t) /\ account[u] \in Account /\ WarnAge(t) \in Nat
    BY Ages DEF Kept, TypeOK
  <2>2. CASE run["nightly"].task \in WarningTasks
    <3>1. Live(u)' => account'[u].lapsed
      BY <1>1, <2>1, <2>2, OlderLapsedFields DEF Live
    <3> QED
      BY <3>1 DEF Covered, Active
  <2>3. CASE run["nightly"].task \notin WarningTasks
    <3>1. account'[u] = Older(account[u])
      BY <1>1, <2>3
    <3>2. ~YetToWarn(u, t)
      BY <2>3 DEF YetToWarn, WarningTasks
    <3>3. Active(u)' = Active(u) /\ account'[u].lapsed = account[u].lapsed /\ account'[u].warned = account[u].warned
      BY <2>1, <3>1, OlderFields DEF Active, Live
    <3>4. account'[u].age - hour' >= WarnAge(t) => account[u].age - hour >= WarnAge(t)
      BY <1>2, <2>1, <3>1, OlderFields
    <3> QED
      BY <2>1, <3>2, <3>3, <3>4 DEF Covered
  <2> QED
    BY <2>2, <2>3
<1>4. ASSUME NEW u \in Users, NEW q \in Runs
      PROVE  Announced(q, u)' /\ Sound(q, u)'
  BY <1>1, <1>2, TimeKeepsRuns
<1> QED
  BY <1>3, <1>4 DEF Kept

\* A day after the last run: an account that is not warned yet was not yet of the
\* age of the window's first day, so it is now within the window.
LEMMA CronKeeps ==
    ASSUME TypeOK, Kept, Cron
    PROVE  Kept'
<1>1. /\ \A u \in Users : account'[u] = Older(account[u])
      /\ run["nightly"].task = "idle" /\ hour = Day - 1 /\ hour' = 0
      /\ run'["nightly"] = At("one_week") /\ run'["button"] = run["button"]
  BY DEF Cron, TypeOK, Runs
<1>2. ASSUME NEW u \in Users, NEW t \in WarningTasks
      PROVE  Covered(u, t)'
  <2>1. Covered(u, t) /\ account[u] \in Account /\ WarnAge(t) \in Nat /\ Day \in Nat
    BY Ages DEF Kept, TypeOK
  <2>2. ~YetToWarn(u, t)
    BY <1>1 DEF YetToWarn, WarningTasks
  <2>3. YetToWarn(u, t)'
    BY <1>1, RunFields DEF YetToWarn, WarningTasks
  <2>4. Active(u)' = Active(u) /\ account'[u].lapsed = account[u].lapsed /\ account'[u].warned = account[u].warned
    BY <1>1, <2>1, OlderFields DEF Active, Live
  <2>5. account[u].age - hour >= WarnAge(t) \/ account'[u].age < WarnAge(t) + Day
    BY <1>1, <2>1, OlderFields
  <2> QED
    BY <1>1, <2>1, <2>2, <2>3, <2>4, <2>5 DEF Covered
<1>3. ASSUME NEW u \in Users, NEW q \in Runs
      PROVE  Announced(q, u)' /\ Sound(q, u)'
  BY <1>1, RunFields, TimeKeepsRuns DEF Runs
<1> QED
  BY <1>2, <1>3 DEF Kept

LEMMA NightWithoutCronKeeps ==
    ASSUME TypeOK, Kept, NightWithoutCron
    PROVE  Kept'
<1>1. (\A u \in Users : account'[u] = Older(Lapsed(account[u]))) /\ run' = run
  BY DEF NightWithoutCron
<1>2. ASSUME NEW u \in Users, NEW t \in WarningTasks
      PROVE  Covered(u, t)'
  <2>1. account[u] \in Account
    BY DEF TypeOK
  <2>2. Live(u)' => account'[u].lapsed
    BY <1>1, <2>1, OlderLapsedFields DEF Live
  <2> QED
    BY <2>2 DEF Covered, Active
<1>3. ASSUME NEW u \in Users, NEW q \in Runs
      PROVE  Announced(q, u)' /\ Sound(q, u)'
  BY <1>1, TimeKeepsRuns
<1> QED
  BY <1>2, <1>3 DEF Kept

-----------------------------------------------------------------------------
(* Users and administrators *)

LEMMA SignInKeeps ==
    ASSUME TypeOK, Kept, NEW u \in Users, SignIn(u)
    PROVE  Kept'
<1>1. /\ hour' = hour /\ run' = Outdated(u)
      /\ \A v \in Users \ {u} : account'[v] = account[v]
      /\ account'[u] = [NoAccount EXCEPT !.phase = "live"]
  BY DEF SignIn, TypeOK
<1>2. account'[u].age = 0 /\ ~account'[u].inactive /\ account'[u].phase = "live"
  BY <1>1 DEF NoAccount
<1>3. \A q \in Runs :
         /\ run'[q].task = run[q].task
         /\ run'[q].loaded = run[q].loaded
         /\ run'[q].copy[u] # "current"
         /\ \A v \in Users \ {u} : run'[q].copy[v] = run[q].copy[v]
  BY <1>1, OutdatedFields
<1>4. ASSUME NEW v \in Users, NEW t \in WarningTasks
      PROVE  Covered(v, t)'
  <2>1. Covered(v, t)
    BY DEF Kept
  <2>2. CASE v = u
    <3>1. hour \in Nat /\ WarnAge(t) \in Nat /\ WarnAge(t) >= 1
      BY Ages DEF TypeOK
    <3>2. ~(account'[u].age - hour' >= WarnAge(t))
      BY <1>1, <1>2, <3>1
    <3> QED
      BY <2>2, <3>2 DEF Covered
  <2>3. CASE v # u
    <3>1. YetToWarn(v, t) => YetToWarn(v, t)'
      BY <1>3, <2>3 DEF YetToWarn, Runs
    <3> QED
      BY <1>1, <2>1, <2>3, <3>1, CoveredStays
  <2> QED
    BY <2>2, <2>3
<1>5. ASSUME NEW v \in Users, NEW q \in Runs
      PROVE  Announced(q, v)' /\ Sound(q, v)'
  <2>1. Announced(q, v) /\ Sound(q, v)
    BY DEF Kept
  <2>2. CASE v = u
    BY <1>2, <1>3, <2>2 DEF Announced, Sound
  <2>3. CASE v # u
    BY <1>1, <1>3, <2>1, <2>3 DEF Announced, Sound, Live
  <2> QED
    BY <2>2, <2>3
<1> QED
  BY <1>4, <1>5 DEF Kept

LEMMA DestroyKeeps ==
    ASSUME TypeOK, Kept, NEW u \in Users, Destroy(u)
    PROVE  Kept'
<1>1. /\ hour' = hour /\ run' = Outdated(u)
      /\ \A v \in Users \ {u} : account'[v] = account[v]
      /\ account'[u] = [NoAccount EXCEPT !.phase = "gone"]
  BY DEF Destroy, TypeOK
<1>2. ~account'[u].inactive /\ account'[u].phase = "gone"
  BY <1>1 DEF NoAccount
<1>3. \A q \in Runs :
         /\ run'[q].task = run[q].task
         /\ run'[q].loaded = run[q].loaded
         /\ run'[q].copy[u] # "current"
         /\ \A v \in Users \ {u} : run'[q].copy[v] = run[q].copy[v]
  BY <1>1, OutdatedFields
<1>4. ASSUME NEW v \in Users, NEW t \in WarningTasks
      PROVE  Covered(v, t)'
  <2>1. Covered(v, t)
    BY DEF Kept
  <2>2. CASE v = u
    BY <1>2, <2>2 DEF Covered, Active, Live
  <2>3. CASE v # u
    <3>1. YetToWarn(v, t) => YetToWarn(v, t)'
      BY <1>3, <2>3 DEF YetToWarn, Runs
    <3> QED
      BY <1>1, <2>1, <2>3, <3>1, CoveredStays
  <2> QED
    BY <2>2, <2>3
<1>5. ASSUME NEW v \in Users, NEW q \in Runs
      PROVE  Announced(q, v)' /\ Sound(q, v)'
  <2>1. Announced(q, v) /\ Sound(q, v)
    BY DEF Kept
  <2>2. CASE v = u
    BY <1>2, <1>3, <2>2 DEF Announced, Sound
  <2>3. CASE v # u
    BY <1>1, <1>3, <2>1, <2>3 DEF Announced, Sound, Live
  <2> QED
    BY <2>2, <2>3
<1> QED
  BY <1>4, <1>5 DEF Kept

\* The steps that touch one row and no run: a new account, the inactive box.
LEMMA RowKeeps ==
    ASSUME TypeOK, Kept, NEW u \in Users, Create(u) \/ SetInactive(u) \/ Reactivate(u)
    PROVE  Kept'
<1>1. /\ hour' = hour /\ run' = run
      /\ \A v \in Users \ {u} : account'[v] = account[v]
  BY DEF Create, SetInactive, Reactivate, TypeOK
<1>2. \/ Create(u) /\ ~Live(u) /\ account'[u].age = 0 /\ ~account'[u].inactive
      \/ /\ Live(u) /\ account'[u].phase = account[u].phase
         /\ account'[u].lapsed /\ account'[u].age = account[u].age
  <2>1. account[u] \in Account /\ (account[u].inactive => account[u].lapsed)
    BY DEF TypeOK, Kept, Sound, Runs
  <2>2. CASE Create(u)
    <3>1. account'[u] = [NoAccount EXCEPT !.phase = "live"] /\ ~Live(u)
      BY <2>2 DEF Create, TypeOK, Live
    <3> QED
      BY <2>2, <3>1 DEF NoAccount
  <2>3. CASE SetInactive(u)
    BY <2>1, <2>3 DEF SetInactive, Deactivated, TypeOK, Account, Active, Live
  <2>4. CASE Reactivate(u)
    BY <2>1, <2>4 DEF Reactivate, TypeOK, Account, Live
  <2> QED
    BY <2>2, <2>3, <2>4
<1>3. ASSUME NEW v \in Users, NEW t \in WarningTasks
      PROVE  Covered(v, t)'
  <2>1. Covered(v, t) /\ (YetToWarn(v, t) => YetToWarn(v, t)')
    BY <1>1 DEF Kept, YetToWarn
  <2>2. CASE v # u
    BY <1>1, <2>1, <2>2, CoveredStays
  <2>3. CASE v = u /\ account'[u].lapsed
    BY <2>3 DEF Covered
  <2>4. CASE v = u /\ account'[u].age = 0
    <3>1. hour \in Nat /\ WarnAge(t) \in Nat /\ WarnAge(t) >= 1
      BY Ages DEF TypeOK
    <3>2. ~(account'[v].age - hour' >= WarnAge(t))
      BY <1>1, <2>4, <3>1
    <3> QED
      BY <3>2 DEF Covered
  <2> QED
    BY <1>2, <2>2, <2>3, <2>4
<1>4. ASSUME NEW v \in Users, NEW q \in Runs
      PROVE  Announced(q, v)' /\ Sound(q, v)'
  <2>1. Announced(q, v) /\ Sound(q, v)
    BY DEF Kept
  <2>2. CASE v # u
    BY <1>1, <2>1, <2>2 DEF Announced, Sound, Live
  <2>3. CASE v = u
    BY <1>1, <1>2, <2>1, <2>3 DEF Announced, Sound, Live
  <2> QED
    BY <2>2, <2>3
<1> QED
  BY <1>3, <1>4 DEF Kept

-----------------------------------------------------------------------------

LEMMA InvariantPreserved == IInv /\ [Next]_vars => IInv'
<1>a. IInv => TypeOK /\ Kept
  BY Parts DEF Kept
<1>b. TypeOK' /\ Kept' => IInv'
  BY DEF Kept, Covered, Announced, Sound, IInv, WindowsMeet, DeactivationWasAnnounced, Runs
<1> SUFFICES ASSUME TypeOK, Kept, [Next]_vars
             PROVE  Kept'
  BY <1>a, <1>b, TypePreserved
<1>1. CASE NightlyStep
  BY <1>1, LoadKeeps, WarnKeeps, DeactivateKeeps, EndTaskKeeps DEF NightlyStep, Runs
<1>2. ASSUME NEW u \in Users, Deactivate("button", u)
      PROVE  Kept'
  BY <1>2, DeactivateKeeps DEF Runs
<1>3. CASE PressInactivate \/ EndTask("button")
  BY <1>3, PressKeeps, EndTaskKeeps DEF Runs
<1>4. ASSUME NEW p \in Runs, Die(p)
      PROVE  Kept'
  BY <1>4, DieKeeps
<1>5. CASE Tick \/ Cron \/ NightWithoutCron
  BY <1>5, TickKeeps, CronKeeps, NightWithoutCronKeeps
<1>6. ASSUME NEW u \in Users, Create(u) \/ SignIn(u) \/ SetInactive(u) \/ Reactivate(u) \/ Destroy(u)
      PROVE  Kept'
  BY <1>6, RowKeeps, SignInKeeps, DestroyKeeps
<1>7. CASE UNCHANGED vars
  BY <1>7 DEF vars, Kept, Covered, Announced, Sound, YetToWarn, Active, Live
<1> QED
  BY <1>1, <1>2, <1>3, <1>4, <1>5, <1>6, <1>7 DEF Next

LEMMA InvariantInit == Init => IInv
<1> SUFFICES ASSUME Init
             PROVE  IInv
  OBVIOUS
<1>1. ~NoAccount.inactive /\ NoAccount.phase = "unborn"
  BY DEF NoAccount
<1>2. \A u \in Users : ~account[u].inactive /\ account[u].phase = "unborn"
  BY <1>1 DEF Init
<1>3. \A p \in Runs : run[p].task = "idle" /\ \A u \in Users : run[p].copy[u] = "none"
  BY RunFields DEF Init
<1> QED
  BY <1>2, <1>3, TypeInit, Parts DEF Covered, Announced, Sound, Active, Live

\* The invariant holds in every reachable state, for any accounts and thresholds.
THEOREM Invariant == Spec => []IInv
BY InvariantInit, InvariantPreserved, PTL DEF Spec

\* Nobody is on the list of a deactivation, but for who signed in since it was loaded,
\* without being beyond the limit; nor without having been sent both warnings, unless
\* the nights failed or the account was inactive for a while.
THEOREM AnnouncedHolds == Spec => []DeactivationWasAnnounced
<1>1. IInv => DeactivationWasAnnounced
  BY DEF IInv
<1> QED
  BY Invariant, <1>1, PTL

=============================================================================
