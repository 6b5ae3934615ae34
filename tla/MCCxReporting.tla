---------------------------- MODULE MCCxReporting ----------------------------
(***************************************************************************)
(* Two handlers, which are interchangeable.  To keep the instance small, a *)
(* behaviour is about the reviews of two collections, one a copy of the    *)
(* other, or about the files of one.                                       *)
(***************************************************************************)
EXTENDS CxReporting, TLC

CONSTANTS r1, r2

VARIABLE mix

Handlers == Permutations({r1, r2})

Reviews == EventOps \cup {"create", "copy", "destroy"}
Files == {"create", "destroy", "create_detail", "destroy_detail", "upload", "process", "destroy_upload"}

MCInit == Init /\ mix \in {Reviews, Files}

MCNext ==
    /\ Next
    /\ \A r \in Requests : request'[r].pc # "idle" => request'[r].op \in mix
    /\ mix = Files => collection'[2].phase = "unborn"
    /\ \A r \in Requests, j \in Jobs :
          request'[r].job # request[r].job /\ j < request'[r].job => ~FreshJob(j)
    /\ UNCHANGED mix

MCSpec == MCInit /\ [][MCNext]_<<vars, mix>>

=============================================================================
