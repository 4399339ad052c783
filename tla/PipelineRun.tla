----------------------------- MODULE PipelineRun -----------------------------
(***************************************************************************)
(* What the engine promises of a run, seen from outside: the run is at one *)
(* stage at a time, goes from stage to stage along the moves of the        *)
(* pipeline, ends successfully only at an end of the pipeline, and after   *)
(* any interruption goes on at the stage it was at.                        *)
(***************************************************************************)
CONSTANTS Stages,   \* the stages of the pipeline
          Entry,    \* the stage a run begins with
          Moves,    \* the pairs of stages a run may go through
          Ends      \* the stages at which a run may succeed

VARIABLES active,   \* is a process working on the run?
          at,       \* the stage it works on (Entry when there is none)
          saved     \* the stage a new process would begin with

vars == <<active, at, saved>>

Init == active = FALSE /\ at = Entry /\ saved = Entry

Begin ==
    /\ ~active
    /\ active' = TRUE
    /\ at' = saved
    /\ UNCHANGED saved

Move ==
    /\ active
    /\ at' \in Stages /\ <<at, at'>> \in Moves
    /\ saved' = at'
    /\ UNCHANGED active

\* Interrupted, failed or canceled: the place is kept.
Stop ==
    /\ active
    /\ active' = FALSE
    /\ at' = Entry
    /\ UNCHANGED saved

\* Succeeded: the run would begin anew.
Succeed ==
    /\ active /\ at \in Ends
    /\ active' = FALSE
    /\ at' = Entry
    /\ saved' = Entry

Next == Begin \/ Move \/ Stop \/ Succeed

Spec == Init /\ [][Next]_vars
=============================================================================
