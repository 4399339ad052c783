--------------------------- MODULE SubagentManager ---------------------------
(***************************************************************************)
(* Child sessions of an agent (internal/agent/subagent.go).  The mutex     *)
(* guards the map only: Wait and Close use the child they looked up after  *)
(* they released it, and the result of a child passes through a channel    *)
(* that holds one result and is read by whoever comes first.               *)
(*                                                                         *)
(* Of the child's session, which module Session is about, the model keeps  *)
(* that it ends.  Callers are the goroutines that use the manager: tools   *)
(* of the parent (internal/agent/tool/subagent.go) or code around it.      *)
(***************************************************************************)
EXTENDS Integers, FiniteSets

CONSTANTS
    Id,         \* names of subagents
    Child,      \* bound: the sessions that may be spawned, under any name
    Caller,
    Depth,      \* nesting level of the manager
    MaxDepth,   \* defaultMaxDepth
    MaxWaits,   \* bound: calls of Wait by one caller
    MayClose,   \* do callers use Close and CloseAll?
    Nil

ASSUME SubagentAssumption ==
    /\ Depth \in Nat /\ MaxDepth \in Nat /\ MaxWaits \in Nat
    /\ MayClose \in BOOLEAN /\ Nil \notin Child

VARIABLES
    agents,     \* agents[i]: the child registered as i, or Nil
    state,      \* state[c]: "unused", "running", "ran" (result not sent), "ended"
    result,     \* the children whose channel done holds a result
    canceled,   \* the children whose context is canceled
    caller,     \* caller[p]: the child p waits for, or Nil
    waits,      \* waits[p]: calls of Wait that have begun
    closing,    \* the children that a Close or CloseAll has removed from the
                \* map and not yet canceled
    taken       \* history: taken[c], how many Waits have returned c's result

agentVars == <<agents, state, result, canceled, caller, waits, closing, taken>>

ManagerInit ==
    /\ agents = [i \in Id |-> Nil]
    /\ state = [c \in Child |-> "unused"]
    /\ result = {} /\ canceled = {} /\ closing = {}
    /\ caller = [p \in Caller |-> Nil]
    /\ waits = [p \in Caller |-> 0]
    /\ taken = [c \in Child |-> 0]

\* A name in use and a manager at the depth limit are refused.
Spawn(i, c) ==
    /\ agents[i] = Nil /\ Depth < MaxDepth
    /\ state[c] = "unused"
    /\ agents' = [agents EXCEPT ![i] = c]
    /\ state' = [state EXCEPT ![c] = "running"]
    /\ UNCHANGED <<result, canceled, caller, waits, closing, taken>>

\* The session of c returns.
RunEnds(c) ==
    /\ state[c] = "running"
    /\ state' = [state EXCEPT ![c] = "ran"]
    /\ UNCHANGED <<agents, result, canceled, caller, waits, closing, taken>>

SendResult_Unbuffered(c) ==
    /\ state[c] = "ran" /\ \E p \in Caller : caller[p] = c
    /\ state' = [state EXCEPT ![c] = "ended"]
    /\ result' = result \cup {c}
    /\ UNCHANGED <<agents, canceled, caller, waits, closing, taken>>

SendResult_IfAwaited(c) ==
    /\ state[c] = "ran"
    /\ state' = [state EXCEPT ![c] = "ended"]
    /\ result' = IF \E p \in Caller : caller[p] = c THEN result \cup {c} ELSE result
    /\ UNCHANGED <<agents, canceled, caller, waits, closing, taken>>

\* The channel has room for the result.
SendResult(c) ==
    /\ state[c] = "ran" /\ c \notin result
    /\ state' = [state EXCEPT ![c] = "ended"]
    /\ result' = result \cup {c}
    /\ UNCHANGED <<agents, canceled, caller, waits, closing, taken>>

BeginWait(p, i) ==
    /\ caller[p] = Nil /\ agents[i] # Nil /\ waits[p] < MaxWaits
    /\ caller' = [caller EXCEPT ![p] = agents[i]]
    /\ waits' = [waits EXCEPT ![p] = @ + 1]
    /\ UNCHANGED <<agents, state, result, canceled, closing, taken>>

EndWait_Peeks(p) ==
    /\ caller[p] # Nil /\ caller[p] \in result
    /\ caller' = [caller EXCEPT ![p] = Nil]
    /\ taken' = [taken EXCEPT ![caller[p]] = @ + 1]
    /\ UNCHANGED <<agents, state, result, canceled, waits, closing>>

\* Wait takes the result out of the channel.
EndWait(p) ==
    /\ caller[p] # Nil /\ caller[p] \in result
    /\ caller' = [caller EXCEPT ![p] = Nil]
    /\ result' = result \ {caller[p]}
    /\ taken' = [taken EXCEPT ![caller[p]] = @ + 1]
    /\ UNCHANGED <<agents, state, canceled, waits, closing>>

\* Close and CloseAll take children out of the map ...
TakeOut(names) ==
    /\ MayClose
    /\ LET children == {agents[i] : i \in names} \ {Nil} IN
       /\ children # {}
       /\ closing' = closing \cup children
    /\ agents' = [i \in Id |-> IF i \in names THEN Nil ELSE agents[i]]
    /\ UNCHANGED <<state, result, canceled, caller, waits, taken>>

Close(i) == TakeOut({i})
CloseAll == TakeOut(Id)

CancelAndDrain_Keeps(c) ==
    /\ c \in closing
    /\ closing' = closing \ {c}
    /\ result' = result \ {c}
    /\ UNCHANGED <<agents, state, canceled, caller, waits, taken>>

\* ... and then cancel them and drain a result that is there.
CancelAndDrain(c) ==
    /\ c \in closing
    /\ closing' = closing \ {c}
    /\ canceled' = canceled \cup {c}
    /\ result' = result \ {c}
    /\ UNCHANGED <<agents, state, caller, waits, taken>>

ChildStep(c) == RunEnds(c) \/ SendResult(c)

ManagerNext ==
    \/ \E i \in Id, c \in Child : Spawn(i, c)
    \/ \E c \in Child : ChildStep(c) \/ CancelAndDrain(c)
    \/ \E p \in Caller : EndWait(p) \/ \E i \in Id : BeginWait(p, i)
    \/ \E i \in Id : Close(i)
    \/ CloseAll

ManagerSpec == ManagerInit /\ [][ManagerNext]_agentVars

\* The sessions of children end, which is an assumption: one whose streamed model
\* call is canceled may block in it (SessionEnds of Session).  A result that is
\* there is received, and Close goes on; no caller has to call anything.
FairManagerSpec ==
    /\ ManagerSpec
    /\ \A c \in Child : WF_agentVars(ChildStep(c)) /\ WF_agentVars(CancelAndDrain(c))
    /\ \A p \in Caller : WF_agentVars(EndWait(p))

-----------------------------------------------------------------------------
(***************************************************************************)
(* Properties.                                                             *)
(***************************************************************************)
\* Every variable stays in its range.
ManagerTypeOK ==
    /\ agents \in [Id -> Child \cup {Nil}]
    /\ state \in [Child -> {"unused", "running", "ran", "ended"}]
    /\ result \in SUBSET Child /\ canceled \in SUBSET Child /\ closing \in SUBSET Child
    /\ caller \in [Caller -> Child \cup {Nil}]
    /\ waits \in [Caller -> Nat]
    /\ taken \in [Child -> Nat]

\* A child that can no longer be reached through the manager does not run on:
\* it has ended, or it is canceled, or the Close that removed it is about to
\* cancel it.
NoOrphans ==
    \A c \in Child :
        state[c] \in {"running", "ran"} /\ c \notin {agents[i] : i \in Id} =>
            c \in canceled \cup closing

\* The result of a child is returned by at most one Wait, and only once the
\* child has ended.
ResultOnce ==
    \A c \in Child :
        /\ taken[c] <= 1
        /\ taken[c] = 1 => state[c] = "ended" /\ c \notin result

\* The goroutine of a child whose session ends never hangs on its result,
\* whether somebody waits for it or not.
ChildrenEnd ==
    \A c \in Child : state[c] = "running" ~> state[c] = "ended"

\* A Wait for a child whose session ends returns, unless another Wait was given the result or
\* the child was closed: a result that is ready before, or after, anybody asks
\* for it is not lost.
WaitReturns ==
    \A p \in Caller, c \in Child :
        caller[p] = c ~> caller[p] # c \/ taken[c] > 0 \/ c \in canceled
=============================================================================
