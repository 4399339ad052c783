------------------------------ MODULE MCSession ------------------------------
(***************************************************************************)
(* A small session, whose model asks for one tool call or two of a kind    *)
(* and says nothing in its second round, and the loop detector on all      *)
(* sequences of up to eight calls.                                         *)
(***************************************************************************)
EXTENDS Requests

One   == {"x"}
Three == {"x", "y", "z"}

\* Record reports a call if and only if it ends a loop among all calls
\* (theorem RecordReportsLoops of AgentProofs).
ASSUME RecordReportsLoops ==
    \A k \in 0..7 : \A made \in [1..k -> Three], sig \in Three :
        Record(Window(made, 6), sig, 6) <=> Looping(Append(made, sig))
=============================================================================
