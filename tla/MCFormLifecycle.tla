--------------------------- MODULE MCFormLifecycle ---------------------------
(***************************************************************************)
(* Instances of FormLifecycle for TLC.                                     *)
(***************************************************************************)
EXTENDS FormLifecycle, TLC

CONSTANTS r1, r2

RequestSymmetry == Permutations(Requests)

\* A form whose date and OMB number no longer agree takes two handlers and four updates
\* to make; lifecycle_refused gets there from Init.  The two larger instances start with
\* the first form unborn or in that state.
TornRow(x, n) == [NewRow EXCEPT !.phase = "live", !.expires = x, !.omb = n]

TornRows == {TornRow(x, NoNumber) : x \in EndDates}
            \cup IF EndDates = {} THEN {TornRow(NoDate, n) : n \in OmbNumbers} ELSE {}

TornInit ==
    /\ today = 1
    /\ approval \in ApprovalSettings
    /\ form \in {[f \in Forms |-> IF f = 1 THEN row ELSE NewRow] : row \in TornRows \cup {NewRow}}
    /\ request = [r \in Requests |-> Idle]
    /\ job = IdleJob
    /\ kills = 0
    /\ log = {}
    /\ mails = {}
    /\ reached = {}
    /\ refused = {}

TornSpec == TornInit /\ [][Next]_vars

TornFairSpec == TornSpec /\ WF_vars(JobStep)

\* To keep the job's instance small, the form that it comes to last keeps its end date
\* and is only archived; otherwise the handler may do with it what it likes.
SecondIsQuiet ==
    /\ \A r \in Requests : request'[r].pc = "logged" /\ request'[r].form = 2 =>
          request'[r].event = "archive"
    /\ form[2].phase = "live" => form'[2].expires = form[2].expires

=============================================================================
