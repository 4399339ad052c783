------------------------------ MODULE MCFanOut -------------------------------
(***************************************************************************)
(* Four branches, two at a time: one may fail or ask for a retry, one has  *)
(* no handler, the others are manager loops that read one context; one of  *)
(* them waits between its cycles, the other has two children and a stop    *)
(* condition; or the one has no children and the condition of the other is *)
(* malformed.                                                              *)
(***************************************************************************)
EXTENDS ManagerLoop, TLC

R(s) == [status |-> s, err |-> FALSE]

Branches == {"a", "b", "c", "d"}
Results ==
    "a" :> {R("SUCCESS"), R("RETRY"), Empty} @@ "b" :> {R("SUCCESS"), R("FAIL")}
        @@ "c" :> {R("SUCCESS"), R("FAIL")} @@ "d" :> {}
M(children, actions, condition) ==
    [children |-> children, actions |-> actions, condition |-> condition]

ManagerSetups ==
    { "b" :> M(1, {"observe", "wait"}, "none") @@ "c" :> M(2, {"observe"}, "valid"),
      "b" :> M(0, {"observe", "wait"}, "none") @@ "c" :> M(1, {"wait"}, "invalid") }
=============================================================================
