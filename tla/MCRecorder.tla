----------------------------- MODULE MCRecorder -----------------------------
(* A parallel stage with two agents, or two stages without any.  Each queue *)
(* holds one event.                                                         *)
EXTENDS Recorder, TLC

CONSTANTS a, b   \* the agents, who are alike

SmallRuns == { << {a, b} >>, << {}, {} >> }

Alike == Permutations({a, b})
=============================================================================
