------------------------------- MODULE MCEngine ------------------------------
(***************************************************************************)
(* Pipelines for the model checker, as values of the constants of Engine.  *)
(* They put the features of the fixtures of testdata/pipelines together,   *)
(* with smaller retry budgets.                                             *)
(***************************************************************************)
EXTENDS Engine, TLC

Keys == {"outcome", "verdict"}

Task == [shape |-> "box", type |-> "codergen", goalGate |-> FALSE,
         maxRetries |-> Unset, allowPartial |-> FALSE,
         retryTarget |-> Unset, fallbackTarget |-> Unset,
         join |-> "wait_all", errorPolicy |-> "continue", k |-> 0,
         handled |-> TRUE, mayError |-> FALSE]

Start == [Task EXCEPT !.shape = "Mdiamond", !.type = ""]
Exit  == [Task EXCEPT !.shape = "Msquare", !.type = ""]

E(from, to) == [from |-> from, to |-> to, cond |-> {}, label |-> "", weight |-> 0]
OnOutcome(op, status) ==
    {[src |-> "outcome", key |-> "", op |-> op, val |-> status]}
EIf(from, to, cond) == [E(from, to) EXCEPT !.cond = cond]

O(status) == [status |-> status, label |-> "", suggested |-> <<>>, updates |-> NoUpdates]
Sets(status, val) == [O(status) EXCEPT !.updates["verdict"] = val]

-----------------------------------------------------------------------------
(***************************************************************************)
(* Two goal gates with retry targets.  The one is a branch of a fan-out    *)
(* that the run can go around and that fails fast, with a branch that has  *)
(* no handler; the other is executed behind it.                            *)
(***************************************************************************)
GatedNodes == <<"start", "plan", "fan_out", "alpha", "beta", "fan_in", "check", "exit">>

GatedAttr ==
    "start"   :> Start @@
    "plan"    :> [Task EXCEPT !.allowPartial = TRUE] @@
    "fan_out" :> [Task EXCEPT !.type = "parallel", !.errorPolicy = "fail_fast"] @@
    "alpha"   :> [Task EXCEPT !.goalGate = TRUE, !.maxRetries = 1,
                              !.retryTarget = "nowhere", !.fallbackTarget = "plan"] @@
    "beta"    :> [Task EXCEPT !.handled = FALSE] @@
    "fan_in"  :> [Task EXCEPT !.type = "parallel.fan_in"] @@
    "check"   :> [Task EXCEPT !.goalGate = TRUE, !.mayError = TRUE] @@
    "exit"    :> Exit

GatedGraphAttr == [maxRetries |-> 1, retryTarget |-> Unset, fallbackTarget |-> "plan"]

GatedEdges ==
    << E("start", "plan"),
       EIf("plan", "fan_out", {[src |-> "context", key |-> "verdict", op |-> "=", val |-> "hard"]}),
       E("plan", "check"),
       E("fan_out", "alpha"), E("fan_out", "beta"), E("alpha", "fan_in"), E("beta", "fan_in"),
       E("fan_in", "check"), EIf("check", "exit", OnOutcome("=", "SUCCESS")) >>

GatedOutcome ==
    "start"   :> {O("SUCCESS")} @@
    "plan"    :> {Sets("SUCCESS", "hard"), Sets("SUCCESS", "easy")} @@
    "fan_out" :> {} @@
    "alpha"   :> {O("SUCCESS"), O("FAIL")} @@
    "beta"    :> {} @@
    "fan_in"  :> {} @@
    "check"   :> {O("SUCCESS"), O("FAIL"), O("RETRY")} @@
    "exit"    :> {O("SUCCESS")}

-----------------------------------------------------------------------------
(***************************************************************************)
(* Without retry targets and cycles: a manager loop over two children, one *)
(* of them a fan-out itself, which fails and is left behind all the same;  *)
(* a stage that may send the run to a stage that is no exit, a fan-out     *)
(* with a goal gate among its branches, and a goal gate behind the fan-in. *)
(***************************************************************************)
StraightNodes == <<"start", "boss", "child", "split", "route", "fan_out", "alpha", "beta", "fan_in",
                   "check", "dead_end", "exit">>

StraightAttr ==
    "start"    :> Start @@
    "boss"     :> [Task EXCEPT !.type = "stack.manager_loop"] @@
    "child"    :> Task @@
    "split"    :> [Task EXCEPT !.type = "parallel"] @@
    "route"    :> Task @@
    "fan_out"  :> [Task EXCEPT !.type = "parallel"] @@
    "alpha"    :> [Task EXCEPT !.goalGate = TRUE] @@
    "beta"     :> Task @@
    "fan_in"   :> [Task EXCEPT !.type = "parallel.fan_in"] @@
    "check"    :> [Task EXCEPT !.goalGate = TRUE] @@
    "dead_end" :> Task @@
    "exit"     :> Exit

StraightGraphAttr == [maxRetries |-> 1, retryTarget |-> Unset, fallbackTarget |-> Unset]

StraightEdges ==
    << E("start", "boss"), E("boss", "child"), E("boss", "split"),
       E("child", "route"), E("split", "route"),
       [E("route", "fan_out") EXCEPT !.weight = 1], E("route", "dead_end"),
       E("fan_out", "alpha"), E("fan_out", "beta"), E("alpha", "fan_in"), E("beta", "fan_in"),
       [E("fan_in", "check") EXCEPT !.label = "ready"],
       [E("fan_in", "dead_end") EXCEPT !.label = "stuck"],
       E("check", "exit") >>

StraightOutcome ==
    "start"    :> {O("SUCCESS")} @@
    "boss"     :> {O("FAIL")} @@
    "child"    :> {Sets("SUCCESS", "a")} @@
    "split"    :> {O("SUCCESS")} @@
    "route"    :> {O("SUCCESS"), [O("SUCCESS") EXCEPT !.suggested = <<"none", "dead_end">>]} @@
    "fan_out"  :> {} @@
    "alpha"    :> {Sets("SUCCESS", "a"), O("FAIL")} @@
    "beta"     :> {Sets("SUCCESS", "b"), O("RETRY")} @@
    "fan_in"   :> {} @@
    "check"    :> {O("SUCCESS"), O("FAIL")} @@
    "dead_end" :> {O("SUCCESS"), O("RETRY")} @@
    "exit"     :> {O("SUCCESS")}

=============================================================================
