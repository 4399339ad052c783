-------------------------------- MODULE FanOut --------------------------------
(***************************************************************************)
(* The goroutines of a parallel stage (handler/parallel.go, Execute), each *)
(* of which executes a branch through the engine (engine.go, executeNode). *)
(* Module Engine takes the stage for one step and says which results it    *)
(* may leave; here are the steps.                                          *)
(*                                                                         *)
(* Branches share the context of the pipeline, of which the model keeps    *)
(* the key internal.preamble: executeNode sets it for a branch just before *)
(* the handler of the branch, which may read it, is called.  The branches  *)
(* have different fidelities, so that their preambles differ.              *)
(***************************************************************************)
EXTENDS Outcomes

CONSTANTS
    Child,        \* the branches
    MaxParallel,
    FailFast,     \* error_policy is "fail_fast"
    Own,          \* Own[c]: the results of the handler of c
    Handled,      \* the branches for which the registry has a handler
    MayError,     \* those whose handler may return an error when interrupted
    Full          \* the branches with fidelity "full", whose preamble is empty

ASSUME FanOutAssumption ==
    /\ IsFiniteSet(Child) /\ MaxParallel \in Nat \ {0} /\ FailFast \in BOOLEAN
    /\ Own \in [Child -> SUBSET BranchResult]
    /\ Handled \subseteq Child /\ MayError \subseteq Child /\ Full \subseteq Child

VARIABLES
    pc,        \* pc[c]: "launched", "holding" (a slot), "preparing", "running",
               \* "returned", "done"
    sem,       \* slots taken
    result,    \* result[c]
    runDone,   \* is the context of the run done, and that of the branches?
    execDone,
    preamble,  \* whose preamble the context holds: a branch, or "earlier" for
               \* that of a stage before this one
    read,      \* history: read[c], whose preamble the handler of c found
    cut        \* history: the branches that ended because execDone

vars == <<pc, sem, result, runDone, execDone, preamble, read, cut>>

Empty     == [status |-> NoStatus, err |-> TRUE]
Cancelled == [status |-> "FAIL", err |-> TRUE]

Init ==
    /\ pc = [c \in Child |-> "launched"]
    /\ sem = 0
    /\ result = [c \in Child |-> Empty]
    /\ runDone = FALSE /\ execDone = FALSE
    /\ preamble = "earlier" /\ read = [c \in Child |-> "nothing"]
    /\ cut = {}

Go(c, from, to) == pc[c] = from /\ pc' = [pc EXCEPT ![c] = to]

Cancel ==
    /\ ~runDone
    /\ runDone' = TRUE /\ execDone' = TRUE
    /\ UNCHANGED <<pc, sem, result, preamble, read, cut>>

CutShort(c) ==
    /\ execDone
    /\ result' = [result EXCEPT ![c] = Cancelled]
    /\ cut' = cut \cup {c}

Acquire(c) ==
    /\ Go(c, "launched", "holding") /\ sem < MaxParallel
    /\ sem' = sem + 1
    /\ UNCHANGED <<result, runDone, execDone, preamble, read, cut>>

CutWaiting_Releases(c) ==
    /\ Go(c, "launched", "done") /\ CutShort(c)
    /\ sem' = sem - 1
    /\ UNCHANGED <<runDone, execDone, preamble, read>>

CutWaiting(c) ==
    /\ Go(c, "launched", "done") /\ CutShort(c)
    /\ UNCHANGED <<sem, runDone, execDone, preamble, read>>

\* A branch that got its slot looks at the context again.
CutHolding(c) ==
    /\ Go(c, "holding", "done") /\ CutShort(c)
    /\ sem' = sem - 1
    /\ UNCHANGED <<runDone, execDone, preamble, read>>

Check(c) ==
    /\ Go(c, "holding", "preparing") /\ ~execDone
    /\ UNCHANGED <<sem, result, runDone, execDone, preamble, read, cut>>

NoHandler(c) ==
    /\ Go(c, "preparing", "returned") /\ c \notin Handled
    /\ result' = [result EXCEPT ![c] = Empty]
    /\ UNCHANGED <<sem, runDone, execDone, preamble, read, cut>>

\* An empty preamble is not set.
SetPreamble(c) ==
    /\ Go(c, "preparing", "running") /\ c \in Handled
    /\ preamble' = IF c \in Full THEN preamble ELSE c
    /\ UNCHANGED <<sem, result, runDone, execDone, read, cut>>

ReadPreamble(c) ==
    /\ pc[c] = "running" /\ read[c] = "nothing"
    /\ read' = [read EXCEPT ![c] = preamble]
    /\ UNCHANGED <<pc, sem, result, runDone, execDone, preamble, cut>>

\* What a handler returns because the context is done.
Stopped(c) == {[status |-> "FAIL", err |-> FALSE]} \cup (IF c \in MayError THEN {Empty} ELSE {})

\* The handler returns, on its own or because the context is done.
HandlerReturns(c) ==
    /\ Go(c, "running", "returned")
    /\ \/ /\ result' \in {[result EXCEPT ![c] = r] : r \in Own[c]}
          /\ UNCHANGED cut
       \/ /\ execDone
          /\ result' \in {[result EXCEPT ![c] = r] : r \in Stopped(c)}
          /\ cut' = cut \cup {c}
    /\ UNCHANGED <<sem, runDone, execDone, preamble, read>>

BranchEnds_AlwaysCancels(c) ==
    /\ Go(c, "returned", "done")
    /\ execDone' = TRUE
    /\ sem' = sem - 1
    /\ UNCHANGED <<result, runDone, preamble, read, cut>>

BranchEnds_KeepsSlot(c) ==
    /\ Go(c, "returned", "done")
    /\ execDone' = (execDone \/ (FailFast /\ Failed(result[c])))
    /\ UNCHANGED <<sem, result, runDone, preamble, read, cut>>

\* A failure cancels the other branches under fail_fast; the slot is given
\* back.
BranchEnds(c) ==
    /\ Go(c, "returned", "done")
    /\ execDone' = (execDone \/ (FailFast /\ Failed(result[c])))
    /\ sem' = sem - 1
    /\ UNCHANGED <<result, runDone, preamble, read, cut>>

BranchStep(c) ==
    \/ Acquire(c) \/ CutWaiting(c) \/ CutHolding(c) \/ Check(c)
    \/ NoHandler(c) \/ SetPreamble(c) \/ HandlerReturns(c) \/ BranchEnds(c)

Next == Cancel \/ \E c \in Child : BranchStep(c) \/ ReadPreamble(c)

Spec == Init /\ [][Next]_vars

\* The handlers of branches return, which is an assumption: a streamed model
\* call that is canceled need not (see LLMStream).
FairSpec == Spec /\ \A c \in Child : WF_vars(BranchStep(c))

-----------------------------------------------------------------------------
(***************************************************************************)
(* Properties.                                                             *)
(***************************************************************************)
AllDone == \A c \in Child : pc[c] = "done"

\* Every variable stays in its range.
TypeOK ==
    /\ pc \in [Child -> {"launched", "holding", "preparing", "running", "returned", "done"}]
    /\ sem \in Nat
    /\ result \in [Child -> BranchResult]
    /\ runDone \in BOOLEAN /\ execDone \in BOOLEAN
    /\ preamble \in Child \cup {"earlier"}
    /\ read \in [Child -> Child \cup {"earlier", "nothing"}]
    /\ cut \subseteq Child

\* No more branches execute at a time than max_parallel, whichever way the
\* ones before them ended, and a slot that is taken has a branch that holds it.
WithinLimit ==
    LET holders == {c \in Child : pc[c] \in {"holding", "preparing", "running", "returned"}}
    IN  Cardinality(holders) <= MaxParallel /\ sem = Cardinality(holders)

\* What a branch yields by itself, and when the context is done.
Branch(c)      == IF c \in Handled THEN Own[c] ELSE {Empty}
Interrupted(c) == {Cancelled} \cup (IF c \in Handled THEN Stopped(c) ELSE {})

\* When the branches are joined, each has a result of its own unless it was
\* interrupted; and it was only because the run was canceled, or a branch that
\* was not interrupted itself failed under fail_fast.  So the results are among
\* those that module Engine takes for possible.
ResultsExplained ==
    AllDone =>
        /\ \A c \in Child \ cut : result[c] \in Branch(c)
        /\ cut # {} => runDone \/ (FailFast /\ \E c \in Child \ cut : Failed(result[c]))
        /\ result \in JoinedResults([c \in Child |-> Branch(c)],
                                    [c \in Child |-> Interrupted(c)], FailFast, runDone)

\* Every branch ends whose handler returns, however the branches wait for slots
\* and are interrupted.
BranchesEnd == <>AllDone

\* A handler finds the preamble of its own branch.
\* (The code does not keep this: see the README.)
OwnPreamble == \A c \in Child \ Full : read[c] \in {c, "nothing"}

\* A handler with fidelity "full" finds no preamble.
\* (The code does not keep this: see the README.)
FullFindsNone == \A c \in Full : read[c] = "nothing"
=============================================================================
