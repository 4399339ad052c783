---------------------------- MODULE MCRunManager -----------------------------
(* Two runs, of which the first asks a question.                            *)
EXTENDS RunManager, TLC

Runs     == {"r1", "r2"}
OneRun   == {"r1"}
OneOwner == "q1" :> "r1"
=============================================================================
