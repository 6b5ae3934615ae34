------------------------------ MODULE MCIntake ------------------------------
(* Instances of Intake for TLC. *)
EXTENDS Intake, TLC

CONSTANTS a1, a2, t1, t2

AttemptSymmetry == Permutations(Attempts)

\* A required question with radio buttons and an optional text; the second version
\* replaces the text by another and drops an option.
MCForm == <<
    [asked |-> {"radio", "old"}, required |-> {"radio"}, chosen |-> {"radio"},
     accepts |-> [radio |-> {"x", "y"}, old |-> Values, new |-> Values]],
    [asked |-> {"radio", "new"}, required |-> {"radio"}, chosen |-> {"radio"},
     accepts |-> [radio |-> {"y"}, old |-> Values, new |-> Values]]>>

Clean == [page |-> 1, answers |-> [radio |-> "x", old |-> "y", new |-> Blank], bait |-> FALSE,
          foreign |-> FALSE, token |-> t1, authentic |-> TRUE]

MCPayloads ==
    {[Clean EXCEPT !.token = t] : t \in {t1, t2, NoToken}}
    \cup {[Clean EXCEPT !.page = 2, !.answers = [radio |-> v, old |-> Blank, new |-> "x"]] : v \in {"y", Blank}}
    \cup {[Clean EXCEPT !.bait = TRUE, !.token = t] : t \in {t1, NoToken}}
    \cup {[Clean EXCEPT !.foreign = TRUE], [Clean EXCEPT !.authentic = FALSE]}

=============================================================================
