--------------------------- MODULE ResponseIntake ---------------------------
(***************************************************************************)
(* What a visitor's page may rely on when it posts a response: the four    *)
(* ways in which an attempt ends, and what each says about the database.   *)
(* Intake implements it, Widget is written against it.                     *)
(*                                                                         *)
(*   thanked   201, the response is stored and its event is recorded       *)
(*   fooled    201 for a bot, nothing is stored                            *)
(*   refused   422, nothing is stored, the page may try again              *)
(*   failed    500, or no answer at all: it may be stored or not           *)
(***************************************************************************)

CONSTANT Attempts   \* POST requests, each of which is sent at most once

VARIABLES
    status,      \* how far each attempt has got
    stored,      \* the attempts that left a response in the database
    announced    \* the attempts whose submission event is recorded

promiseVars == <<status, stored, announced>>

Endings == {"thanked", "fooled", "refused", "failed"}

Init ==
    /\ status = [a \in Attempts |-> "unsent"]
    /\ stored = {}
    /\ announced = {}

\* An attempt that is refused at once never shows as open.
Arrive(a) ==
    /\ status[a] = "unsent"
    /\ \E s \in {"open", "refused"} : status' = [status EXCEPT ![a] = s]
    /\ UNCHANGED <<stored, announced>>

Keep(a) ==
    /\ status[a] = "open"
    /\ a \notin stored
    /\ stored' = stored \cup {a}
    /\ UNCHANGED <<status, announced>>

Announce(a) ==
    /\ status[a] = "open"
    /\ a \in stored
    /\ announced' = announced \cup {a}
    /\ UNCHANGED <<status, stored>>

Thank(a) ==
    /\ status[a] = "open"
    /\ a \in stored \cap announced
    /\ status' = [status EXCEPT ![a] = "thanked"]
    /\ UNCHANGED <<stored, announced>>

\* Nothing was stored, whether the visitor is told so or not.
Decline(a) ==
    /\ status[a] = "open"
    /\ a \notin stored
    /\ \E s \in {"fooled", "refused"} : status' = [status EXCEPT ![a] = s]
    /\ UNCHANGED <<stored, announced>>

Fail(a) ==
    /\ status[a] = "open"
    /\ status' = [status EXCEPT ![a] = "failed"]
    /\ UNCHANGED <<stored, announced>>

Serve(a) == Keep(a) \/ Announce(a) \/ Thank(a) \/ Decline(a) \/ Fail(a)

Next == \E a \in Attempts : Arrive(a) \/ Serve(a)

Spec == Init /\ [][Next]_promiseVars

=============================================================================
