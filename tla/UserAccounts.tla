---------------------------- MODULE UserAccounts ----------------------------
(***************************************************************************)
(* The accounts that nobody uses: app/models/user.rb, the daily tasks that *)
(* warn their owners and deactivate them, and what the users' controller   *)
(* does to an account in between.                                          *)
(*                                                                         *)
(* The cron script runs three tasks one after the other: warn one week     *)
(* ahead, warn two weeks ahead, deactivate.  Each loads the accounts it    *)
(* selects and then goes through the loaded ones; a warning is sent by a   *)
(* window of one day on the age of the last sign-in and recorded nowhere.  *)
(*                                                                         *)
(* Time passes in ticks, Day ticks a day; an account has an age, the ticks *)
(* since its last sign-in (its creation, when nobody has signed in), which *)
(* stops at Old, beyond every threshold.                                   *)
(***************************************************************************)
EXTENDS Integers

CONSTANTS
    Users,
    Limit,        \* the days without sign-in after which an account goes: 90
    Week,         \* the days of a week: 7
    Day,          \* the ticks of a day
    MaxFailures   \* bound on tasks that die and on nights without cron

ASSUME DaysAssumption ==
    /\ Limit \in Nat /\ Week \in Nat \ {0} /\ Day \in Nat \ {0}
    /\ 2 * Week < Limit
ASSUME FailuresAssumption == MaxFailures \in Nat

WarningTasks == {"one_week", "two_weeks"}

\* How many days ahead of the deactivation a task warns.
Ahead(t) == IF t = "one_week" THEN Week ELSE 2 * Week

\* The age at which the window of a warning begins, and that of deactivation.
WarnAge(t) == (Limit - Ahead(t)) * Day

LimitAge == Limit * Day

Old == LimitAge + Day

\* nightly is the cron script, button is "inactivate" in the users' list.
Runs == {"nightly", "button"}

VARIABLES
    account,    \* the rows of users
    hour,       \* the tick of the day; cron is set for hour 0
    run,        \* the task each run is at, and the rows it has loaded
    failures    \* how many tasks died and how many nights cron did not run

vars == <<account, hour, run, failures>>

\* lapsed: since the last sign-in the account was inactive for a while or warnings
\* were late or failed; warned: the warnings sent since, while not lapsed (history).
Account == [phase : {"unborn", "live", "gone"}, inactive : BOOLEAN, age : 0 .. Old,
            warned : SUBSET WarningTasks, lapsed : BOOLEAN]

NoAccount == [phase |-> "unborn", inactive |-> FALSE, age |-> 0, warned |-> {}, lapsed |-> FALSE]

\* What a run holds of an account: nothing, the row as it is, or the row from
\* before a sign-in or a deletion.
Copies == {"none", "current", "stale"}

Run == [task : WarningTasks \cup {"deactivate", "idle"}, loaded : BOOLEAN, copy : [Users -> Copies]]

Nothing == [u \in Users |-> "none"]

At(task) == [task |-> task, loaded |-> FALSE, copy |-> Nothing]

TypeOK ==
    /\ account \in [Users -> Account]
    /\ hour \in 0 .. Day - 1
    /\ run \in [Runs -> Run]
    /\ failures \in 0 .. MaxFailures

Init ==
    /\ account = [u \in Users |-> NoAccount]
    /\ hour = 0
    /\ run = [p \in Runs |-> At("idle")]
    /\ failures = 0

-----------------------------------------------------------------------------
(* The tasks *)

Live(u) == account[u].phase = "live"

Active(u) == Live(u) /\ ~account[u].inactive

\* Mutant: the window has no width.
Pending_noDay(t) == {u \in Users : Active(u) /\ account[u].age = WarnAge(t)}

\* Mutant: the window excludes its ends.
Pending_exclusive(t) ==
    {u \in Users : Active(u) /\ WarnAge(t) < account[u].age /\ account[u].age < WarnAge(t) + Day}

\* deactivation_pending: BETWEEN includes both ends of its window.
Pending(t) == {u \in Users : Active(u) /\ WarnAge(t) <= account[u].age /\ account[u].age <= WarnAge(t) + Day}

\* Mutant: the deactivation too selects by a window of one day.
Overdue_window == {u \in Users : Active(u) /\ LimitAge <= account[u].age /\ account[u].age < LimitAge + Day}

\* What deactivate_inactive_accounts! selects.
Overdue == {u \in Users : Active(u) /\ account[u].age >= LimitAge}

Loaded(task, selected) ==
    [task |-> task, loaded |-> TRUE,
     copy |-> [u \in Users |-> IF u \in selected THEN "current" ELSE "none"]]

Load(t) ==
    /\ run["nightly"].task = t
    /\ ~run["nightly"].loaded
    /\ run' = [run EXCEPT !["nightly"] =
          Loaded(t, IF t \in WarningTasks THEN Pending(t) ELSE Overdue)]
    /\ UNCHANGED <<account, hour, failures>>

\* inactivate! of the users' controller runs the same deactivation in a request.
PressInactivate ==
    /\ run["button"].task = "idle"
    /\ run' = [run EXCEPT !["button"] = Loaded("deactivate", Overdue)]
    /\ UNCHANGED <<account, hour, failures>>

Dropped(p, u) == [run EXCEPT ![p].copy[u] = "none"]

\* The mail goes to the loaded address, whatever the account has become.
Warn(u) ==
    /\ run["nightly"].task \in WarningTasks
    /\ run["nightly"].copy[u] # "none"
    /\ run' = Dropped("nightly", u)
    /\ account' = IF run["nightly"].copy[u] = "current" /\ ~account[u].lapsed
                    THEN [account EXCEPT ![u].warned = @ \cup {run["nightly"].task}]
                    ELSE account
    /\ UNCHANGED <<hour, failures>>

Deactivated(a) == [a EXCEPT !.inactive = TRUE, !.lapsed = TRUE, !.warned = {}]

\* deactivate!: the UPDATE names the row and repeats no condition of the SELECT.
Deactivate(p, u) ==
    /\ run[p].task = "deactivate"
    /\ run[p].copy[u] # "none"
    /\ run' = Dropped(p, u)
    /\ account' = IF Live(u) THEN [account EXCEPT ![u] = Deactivated(@)] ELSE account
    /\ UNCHANGED <<hour, failures>>

NextTask(p) ==
    CASE run[p].task = "one_week" -> "two_weeks"
      [] run[p].task = "two_weeks" -> "deactivate"
      [] OTHER -> "idle"

EndTask(p) ==
    /\ run[p].loaded
    /\ run[p].copy = Nothing
    /\ run' = [run EXCEPT ![p] = At(NextTask(p))]
    /\ UNCHANGED <<account, hour, failures>>

\* Whom a warning task has not reached yet.
Unreached(u) ==
    /\ run["nightly"].task \in WarningTasks
    /\ run["nightly"].loaded => run["nightly"].copy[u] # "none"

Lapsed(a) == IF a.phase = "live" THEN [a EXCEPT !.lapsed = TRUE, !.warned = {}] ELSE a

\* A task dies, or the mail queue refuses its next mail.  The script goes on with
\* the task after it.
Die(p) ==
    /\ run[p].task # "idle"
    /\ failures < MaxFailures
    /\ failures' = failures + 1
    /\ run' = [run EXCEPT ![p] = At(NextTask(p))]
    /\ account' = [u \in Users |->
          IF p = "nightly" /\ Unreached(u) THEN Lapsed(account[u]) ELSE account[u]]
    /\ UNCHANGED hour

-----------------------------------------------------------------------------
(* Time *)

NextAge(a) == IF a.phase = "live" /\ a.age < Old THEN a.age + 1 ELSE a.age

Older(a) == [a EXCEPT !.age = NextAge(a)]

\* Warnings that time overtakes are late.  A night's run ends before the next.
Tick ==
    /\ hour < Day - 1
    /\ hour' = hour + 1
    /\ account' = [u \in Users |->
          Older(IF run["nightly"].task \in WarningTasks THEN Lapsed(account[u]) ELSE account[u])]
    /\ UNCHANGED <<run, failures>>

Cron ==
    /\ hour = Day - 1
    /\ run["nightly"].task = "idle"
    /\ hour' = 0
    /\ account' = [u \in Users |-> Older(account[u])]
    /\ run' = [run EXCEPT !["nightly"] = At("one_week")]
    /\ UNCHANGED failures

NightWithoutCron ==
    /\ hour = Day - 1
    /\ run["nightly"].task = "idle"
    /\ failures < MaxFailures
    /\ failures' = failures + 1
    /\ hour' = 0
    /\ account' = [u \in Users |-> Older(Lapsed(account[u]))]
    /\ UNCHANGED run

-----------------------------------------------------------------------------
(* Users and administrators *)

\* The rows the runs have loaded of an account are no longer the row.
Outdated(u) ==
    [p \in Runs |-> [run[p] EXCEPT !.copy[u] = IF run[p].copy[u] = "none" THEN "none" ELSE "stale"]]

Create(u) ==
    /\ account[u].phase = "unborn"
    /\ account' = [account EXCEPT ![u] = [NoAccount EXCEPT !.phase = "live"]]
    /\ UNCHANGED <<hour, run, failures>>

\* An inactive account is turned away before current_sign_in_at is written.
SignIn(u) ==
    /\ Active(u)
    /\ account' = [account EXCEPT ![u] = [NoAccount EXCEPT !.phase = "live"]]
    /\ run' = Outdated(u)
    /\ UNCHANGED <<hour, failures>>

\* update with the inactive box, and deactivate when login.gov purged the account.
SetInactive(u) ==
    /\ Active(u)
    /\ account' = [account EXCEPT ![u] = Deactivated(@)]
    /\ UNCHANGED <<hour, run, failures>>

\* reactivate, and update without the inactive box: the last sign-in stays.
Reactivate(u) ==
    /\ Live(u)
    /\ account[u].inactive
    /\ account' = [account EXCEPT ![u].inactive = FALSE]
    /\ UNCHANGED <<hour, run, failures>>

Destroy(u) ==
    /\ Live(u)
    /\ account' = [account EXCEPT ![u] = [NoAccount EXCEPT !.phase = "gone"]]
    /\ run' = Outdated(u)
    /\ UNCHANGED <<hour, failures>>

-----------------------------------------------------------------------------

NightlyStep ==
    \/ \E t \in WarningTasks \cup {"deactivate"} : Load(t)
    \/ \E u \in Users : Warn(u) \/ Deactivate("nightly", u)
    \/ EndTask("nightly")

Next ==
    \/ NightlyStep
    \/ PressInactivate
    \/ \E u \in Users : Deactivate("button", u)
    \/ EndTask("button")
    \/ \E p \in Runs : Die(p)
    \/ Tick \/ Cron \/ NightWithoutCron
    \/ \E u \in Users : Create(u) \/ SignIn(u) \/ SetInactive(u) \/ Reactivate(u) \/ Destroy(u)

Spec == Init /\ [][Next]_vars

\* Days pass, and cron runs the tasks on each: .circleci/config.yml, cron.sh.
DailyStep == NightlyStep \/ Tick \/ Cron

FairSpec == Spec /\ WF_vars(DailyStep)

-----------------------------------------------------------------------------
(* Properties *)

\* Whoever is on the list of a deactivation, and has not signed in since it was
\* loaded, is beyond the limit and has been sent both warnings after the last
\* sign-in; the windows of successive nights leave no gap, unless a night's warnings
\* were late or failed or the account was inactive for a while.
DeactivationWasAnnounced ==
    \A p \in Runs : \A u \in Users :
        run[p].task = "deactivate" /\ run[p].copy[u] = "current" =>
            /\ account[u].age >= LimitAge
            /\ account[u].lapsed \/ account[u].warned = WarningTasks

\* The night's run is still to send the account this warning.
YetToWarn(u, t) ==
    LET night == run["nightly"]
    IN  \/ night.task = "one_week" /\ t = "two_weeks"
        \/ night.task = t /\ (night.loaded => night.copy[u] = "current")

\* The windows leave no gap: a warning whose window had begun when the latest run
\* was due has been sent, or that run is on time and still to send it.
WindowsMeet ==
    \A u \in Users : \A t \in WarningTasks :
        Active(u) /\ ~account[u].lapsed /\ account[u].age - hour >= WarnAge(t) =>
            \/ t \in account[u].warned
            \/ YetToWarn(u, t) /\ hour = 0 /\ account[u].age < WarnAge(t) + Day

IInv ==
    /\ TypeOK
    /\ \A u \in Users : account[u].inactive => account[u].lapsed
    /\ \A p \in Runs : \A u \in Users : run[p].copy[u] = "current" => Live(u)
    /\ WindowsMeet
    /\ DeactivationWasAnnounced

\* "Touchpoints accounts are automatically inactivated after 90 days without
\* login": an account that is active beyond the limit, be it reactivated or missed
\* in a night that failed, does not stay so unless its owner signs in.
IdleIsDeactivated ==
    \A u \in Users :
        Active(u) /\ account[u].age >= LimitAge ~> ~(Active(u) /\ account[u].age >= LimitAge)

=============================================================================
