---------------------------- MODULE ActiveRecord ----------------------------
(***************************************************************************)
(* What the modules of this project take from Rails: a request loads a row *)
(* into an object, assigns some attributes and saves.  Between the load    *)
(* and the save other requests may have written the same row; the save     *)
(* sends an UPDATE of the attributes whose value changed in memory, and of *)
(* no others (partial writes).  No table of the application has a          *)
(* lock_version column and no code calls lock! or with_lock.               *)
(***************************************************************************)

\* The column after a save: the value assigned, when it differs from the value
\* the object was loaded with, and otherwise whatever the row holds by now.
Written(column, loaded, assigned) ==
    IF assigned = loaded THEN column ELSE assigned

=============================================================================
