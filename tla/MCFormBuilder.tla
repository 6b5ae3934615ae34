---------------------------- MODULE MCFormBuilder ----------------------------
(***************************************************************************)
(* Two handlers, which are interchangeable.  To keep the instance small, a *)
(* behaviour mixes the operations of one group, which the first state      *)
(* picks: those that a section's position, an answer field and the order   *)
(* of questions, or a question's section depend on.  Only the first group  *)
(* uses a third section.                                                   *)
(***************************************************************************)
EXTENDS FormBuilder, TLC

CONSTANTS r1, r2

VARIABLE mix

Handlers == Permutations({r1, r2})

Positioning == {"new_section", "update_section", "destroy_section", "sort_sections"}
Answering == {"create_question", "update_question", "destroy_question", "sort_questions"}
Housing == {"create_question", "update_question", "destroy_section", "new_section"}

MCInit == Init /\ mix \in {Positioning, Answering, Housing}

MCNext ==
    /\ Next
    /\ \A r \in Requests : request'[r].pc # "idle" => request'[r].op \in mix
    /\ mix = Housing => section'[3].phase = "unborn"
    /\ UNCHANGED mix

MCSpec == MCInit /\ [][MCNext]_<<vars, mix>>

=============================================================================
