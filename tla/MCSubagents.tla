----------------------------- MODULE MCSubagents -----------------------------
(* Two names, more children than names, two callers.                        *)
EXTENDS SubagentManager
=============================================================================
