----------------------------- MODULE ManagerLoop -----------------------------
(***************************************************************************)
(* Branches of a parallel stage that are manager loops (handler/           *)
(* manager_loop.go): each executes its children over and over, until the   *)
(* context says that they are through, a condition holds, or the cycles    *)
(* are used up.  Children write to the one context of the pipeline at once *)
(* (engine.go, executeNode), where other branches' updates wait for the    *)
(* join: managers at work at the same time read each other's.              *)
(*                                                                         *)
(* Of the context the model keeps stack.child.status and whether the stop  *)
(* condition holds.  The children's preambles are left out.                *)
(***************************************************************************)
EXTENDS FanOut

CONSTANTS
    Managers,   \* the branches that are manager loops
    MaxCycles,  \* manager.max_cycles
    Setups      \* for each manager m the number of its children, its actions, and
                \* whether its stop condition is "none", "valid" or "invalid"

ASSUME ManagerAssumption ==
    /\ Managers \subseteq Handled /\ MaxCycles \in Nat
    /\ Setups \subseteq [Managers -> [children : Nat, actions : SUBSET {"observe", "wait"},
                                      condition : {"none", "valid", "invalid"}]]
    /\ \A m \in Managers : Own[m] = {[status |-> s, err |-> FALSE] : s \in {"SUCCESS", "FAIL"}}

VARIABLES
    setup,   \* one of Setups
    at,      \* at[m]: "entry", "children", "loop", "wait"
    child,   \* child[m]: the child that is executed
    cycle,   \* cycle[m]: executions of the children that were begun
    status,  \* in the context: what children said of themselves
    met,     \* in the context: does a stop condition hold?
    late     \* history: late[m], executions begun after the context was done

managerVars == <<setup, at, child, cycle, status, met, late>>

ManagerInit ==
    /\ Init /\ setup \in Setups
    /\ at = [m \in Managers |-> "entry"]
    /\ child = [m \in Managers |-> 0] /\ cycle = [m \in Managers |-> 0]
    /\ status = "running" /\ met = FALSE
    /\ late = [m \in Managers |-> 0]

At(m, place) == m \in Managers /\ pc[m] = "running" /\ at[m] = place

\* Execute returns.
Return(m, s) ==
    /\ pc' = [pc EXCEPT ![m] = "returned"]
    /\ result' = [result EXCEPT ![m] = [status |-> s, err |-> FALSE]]
    /\ UNCHANGED <<setup, at, child, cycle, late, sem, runDone, execDone, preamble, read>>

Canceled(m) == execDone /\ Return(m, "FAIL") /\ cut' = cut \cup {m}

\* The children, once more.
Execute(m) ==
    /\ at' = [at EXCEPT ![m] = "children"]
    /\ child' = [child EXCEPT ![m] = 1]
    /\ cycle' = [cycle EXCEPT ![m] = @ + 1]
    /\ late' = [late EXCEPT ![m] = IF execDone THEN @ + 1 ELSE @]
    /\ UNCHANGED <<vars, setup>>

Enter(m) ==
    /\ At(m, "entry")
    /\ \/ setup[m].children = 0 /\ Return(m, "SUCCESS") /\ UNCHANGED cut
       \/ /\ setup[m].children > 0
          /\ \/ setup[m].condition = "invalid" /\ Return(m, "FAIL") /\ UNCHANGED cut
             \/ setup[m].condition # "invalid" /\ Execute(m)
    /\ UNCHANGED <<status, met>>

\* An error of a child, of its own or because the context is done, ends the
\* manager; otherwise the child's updates are merged.
ChildReturns(m) ==
    /\ At(m, "children")
    /\ \/ /\ Return(m, "FAIL")
          /\ cut' = IF execDone THEN cut \cup {m} ELSE cut
          /\ UNCHANGED <<status, met>>
       \/ /\ status' \in {status, "running", "SUCCESS", "FAIL"} /\ met' \in BOOLEAN
          /\ IF child[m] < setup[m].children
             THEN child' = [child EXCEPT ![m] = @ + 1] /\ UNCHANGED at
             ELSE at' = [at EXCEPT ![m] = "loop"] /\ UNCHANGED child
          /\ UNCHANGED <<vars, setup, cycle, late>>

Holds(m) == setup[m].condition = "valid" /\ met

\* What the manager makes of what it observes, "" if it goes on.
Verdict(m) ==
    IF "observe" \notin setup[m].actions THEN ""
    ELSE IF status \in {"SUCCESS", "FAIL"} THEN status
    ELSE IF Holds(m) THEN "SUCCESS" ELSE ""

GoOn(m) ==
    IF "wait" \in setup[m].actions
    THEN at' = [at EXCEPT ![m] = "wait"] /\ UNCHANGED <<vars, setup, child, cycle, late>>
    ELSE Execute(m)

Loop_Blind(m) ==
    /\ At(m, "loop")
    /\ \/ cycle[m] >= MaxCycles /\ Return(m, "FAIL") /\ UNCHANGED cut
       \/ cycle[m] < MaxCycles /\ Verdict(m) # "" /\ Return(m, Verdict(m)) /\ UNCHANGED cut
       \/ cycle[m] < MaxCycles /\ Verdict(m) = "" /\ GoOn(m)
    /\ UNCHANGED <<status, met>>

\* The head of the loop.
Loop(m) ==
    /\ At(m, "loop")
    /\ \/ cycle[m] >= MaxCycles /\ Return(m, "FAIL") /\ UNCHANGED cut
       \/ cycle[m] < MaxCycles /\ Canceled(m)
       \/ /\ cycle[m] < MaxCycles /\ ~execDone
          /\ \/ Verdict(m) # "" /\ Return(m, Verdict(m)) /\ UNCHANGED cut
             \/ Verdict(m) = "" /\ GoOn(m)
    /\ UNCHANGED <<status, met>>

\* The timer fires or the context is done; select takes either if both are.
Wait(m) ==
    /\ At(m, "wait")
    /\ Execute(m) \/ Canceled(m)
    /\ UNCHANGED <<status, met>>

ManagerStep(m) == Enter(m) \/ ChildReturns(m) \/ Loop(m) \/ Wait(m)

OtherStep(c) ==
    /\ ~ (c \in Managers /\ pc[c] = "running")
    /\ BranchStep(c)
    /\ UNCHANGED managerVars

ManagedStep(c) == ManagerStep(c) \/ OtherStep(c)

ManagedNext ==
    \/ Cancel /\ UNCHANGED managerVars
    \/ \E c \in Child : ManagedStep(c)
    \/ \E c \in Child \ Managers : ReadPreamble(c) /\ UNCHANGED managerVars

\* Handlers return, those of the children too (an assumption, see FairSpec of
\* FanOut), and timers fire.
ManagedSpec ==
    /\ ManagerInit /\ [][ManagedNext]_<<vars, managerVars>>
    /\ \A c \in Child : WF_<<vars, managerVars>>(ManagedStep(c))

-----------------------------------------------------------------------------
(***************************************************************************)
(* Properties.                                                             *)
(***************************************************************************)
\* A manager that is interrupted, at whatever point, begins to execute its
\* children at most once more, whether or not it waits between cycles.
CancelStopsManagers == \A m \in Managers : late[m] <= 1
=============================================================================
