----------------------------- MODULE MCFormCache -----------------------------
(* Instances of FormCache for TLC. *)
EXTENDS FormCache

CONSTANTS r1, r2, d1, d2

=============================================================================
