---------------------------- MODULE MCSubmissions ----------------------------
(***************************************************************************)
(* Two handlers, which are interchangeable.  To keep the instance small, a *)
(* behaviour is about one of four things: any decisions about one response *)
(* (Races); two responses, the trash, the purge and the destruction of the *)
(* form (Trash); the tags of one response that is archived and brought     *)
(* back (Tagging); or the tags of two, by handlers that take turns         *)
(* (Filing).                                                               *)
(***************************************************************************)
EXTENDS Submissions, TLC

CONSTANTS r1, r2

VARIABLE mix

\* "Help" and "help" are typed, "help" is stored; likewise "bug".
MCNormal == [t \in RawTags |-> IF t = "bug" THEN "bug" ELSE "help"]

Handlers == Permutations({r1, r2})

Races == Decisions \cup {"create"}
Trash == {"create", "delete", "undelete", "destroy"}
Tagging == {"create", "archive", "unarchive", "add_tag", "remove_tag", "search", "destroy"}
Filing == {"create", "archive", "add_tag", "search"}

MCInit == Init /\ mix \in {Races, Trash, Tagging, Filing}

MCNext ==
    /\ Next
    /\ \A r \in Requests : request'[r].pc # "idle" => request'[r].op \in mix
    /\ mix \in {Races, Tagging} => row'[2].phase = "unborn"
    /\ mix # Trash => today' = 1 /\ purge'.pc = "idle" /\ deaths' = 0
    /\ mix = Filing => \E r \in Requests : \A q \in Requests \ {r} : request'[q].pc = "idle"
    /\ UNCHANGED mix

MCSpec == MCInit /\ [][MCNext]_<<vars, mix>>

=============================================================================
