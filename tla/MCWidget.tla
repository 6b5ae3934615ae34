------------------------------ MODULE MCWidget ------------------------------
(* Instances of Widget for TLC. *)
EXTENDS Widget, TLC
=============================================================================
