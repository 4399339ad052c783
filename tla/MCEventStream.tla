---------------------------- MODULE MCEventStream ----------------------------
(* A client and the connection with which it resumes.                       *)
EXTENDS EventStream, TLC

AgainConn == {"a", "a2"}
AgainPrev == "a" :> "none" @@ "a2" :> "a"
=============================================================================
