----------------------------- MODULE PrintStats -----------------------------
(***************************************************************************)
(* klippy/extras/print_stats.py: the state of the job as Moonraker and the *)
(* screens are told it.                                                    *)
(***************************************************************************)
EXTENDS Naturals

VARIABLES
    state,                \* self.state
    started               \* self.print_start_time is not None

statsVars == <<state, started>>

JobStates ==
    {"standby", "extracting", "printing", "paused", "complete", "cancelled",
     "error"}

StatsTypeOK ==
    /\ state \in JobStates
    /\ started \in BOOLEAN

StatsInit ==
    /\ state = "standby"
    /\ started = FALSE

NoteStart ==
    /\ state' = "printing"
    /\ started' = TRUE

\* Mutant of NotePause: the pause is not noted.
NotePause_Forgotten == UNCHANGED statsVars

NotePause ==
    /\ state' = (IF state = "error" THEN state ELSE "paused")
    /\ UNCHANGED started

\* Mutant of NoteFinish: the test of print_start_time is missing.
NoteFinish_Always(final) ==
    /\ state' = final
    /\ started' = FALSE

\* note_complete, note_error and note_cancel: a job that is not under way
\* keeps the state it has.
NoteFinish(final) ==
    /\ state' = (IF started THEN final ELSE state)
    /\ started' = FALSE

StatsReset ==
    /\ state' = "standby"
    /\ started' = FALSE

\* note_extracting_start, right after a reset.
NoteExtracting ==
    /\ state' = "extracting"
    /\ started' = FALSE
=============================================================================
