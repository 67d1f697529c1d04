----------------------------- MODULE MCJobQueue -----------------------------
(* The job queue with a small number of jobs, calls and changes.           *)
EXTENDS JobQueue

Plain     == [automatic |-> FALSE, load_on_start |-> FALSE, transition |-> FALSE]
Automatic == [automatic |-> TRUE, load_on_start |-> TRUE, transition |-> TRUE]
MCConfigs == {Plain, Automatic}
=============================================================================
