----------------------------- MODULE FanOutProofs -----------------------------
(***************************************************************************)
(* Theorems about a parallel stage with any number of branches and slots,  *)
(* any results of the handlers, and any setups of the manager loops among  *)
(* the branches.                                                           *)
(***************************************************************************)
EXTENDS ManagerLoop, FiniteSetTheorems, TLAPS

-----------------------------------------------------------------------------
(***************************************************************************)
(* Types.                                                                  *)
(***************************************************************************)
\* A result that a handler, or the stage for it, may report.
LEMMA ResultsTyped ==
    /\ Empty \in BranchResult /\ Cancelled \in BranchResult
    /\ \A c \in Child : Stopped(c) \subseteq BranchResult
    /\ \A c \in Child : Own[c] \subseteq BranchResult
<1>1. /\ Empty \in BranchResult /\ Cancelled \in BranchResult
      /\ [status |-> "FAIL", err |-> FALSE] \in BranchResult
  BY DEF Empty, Cancelled, BranchResult, StageStatus, NoStatus
<1>2. \A c \in Child : Own[c] \subseteq BranchResult
  BY FanOutAssumption
<1> QED BY <1>1, <1>2 DEF Stopped

-----------------------------------------------------------------------------
(***************************************************************************)
(* The slots.  That sem stays a natural number depends on a branch giving  *)
(* back only what it holds, so that types and slots are proved together.   *)
(***************************************************************************)
Holders == {c \in Child : pc[c] \in {"holding", "preparing", "running", "returned"}}

SlotsHeld == Cardinality(Holders) <= MaxParallel /\ sem = Cardinality(Holders)

LEMMA SlotsAreWithinLimit == SlotsHeld <=> WithinLimit
BY DEF SlotsHeld, Holders, WithinLimit

\* What a branch does to its slot when it goes from one place to another.
LEMMA HoldersStep ==
    ASSUME TypeOK, NEW c \in Child, NEW from, NEW to, Go(c, from, to)
    PROVE  LET held == {"holding", "preparing", "running", "returned"} IN
           /\ IsFiniteSet(Holders) /\ Cardinality(Holders) \in Nat
           /\ (from \in held <=> to \in held) => Holders' = Holders
           /\ from \notin held /\ to \in held => Cardinality(Holders') = Cardinality(Holders) + 1
           /\ from \in held /\ to \notin held =>
                  Cardinality(Holders) > 0 /\ Cardinality(Holders') = Cardinality(Holders) - 1
<1> DEFINE held == {"holding", "preparing", "running", "returned"}
<1>1. IsFiniteSet(Holders) /\ Cardinality(Holders) \in Nat
  BY FanOutAssumption, FS_Subset, FS_CardinalityType DEF Holders
<1>2. Holders' = IF to \in held THEN Holders \cup {c} ELSE Holders \ {c}
  BY DEF TypeOK, Go, Holders
<1>3. c \in Holders <=> from \in held
  BY DEF Go, Holders
<1>4. c \in Holders => Cardinality(Holders) > 0
  BY <1>1, FS_EmptySet
<1>5. /\ Cardinality(Holders \cup {c}) =
             IF c \in Holders THEN Cardinality(Holders) ELSE Cardinality(Holders) + 1
      /\ Cardinality(Holders \ {c}) =
             IF c \in Holders THEN Cardinality(Holders) - 1 ELSE Cardinality(Holders)
  BY <1>1, FS_AddElement, FS_RemoveElement
<1> HIDE DEF held
<1>6. (from \in held <=> to \in held) => Holders' = Holders
  BY <1>2, <1>3
<1>7. from \notin held /\ to \in held => Cardinality(Holders') = Cardinality(Holders) + 1
  BY <1>2, <1>3, <1>5
<1>8. from \in held /\ to \notin held =>
          Cardinality(Holders) > 0 /\ Cardinality(Holders') = Cardinality(Holders) - 1
  BY <1>2, <1>3, <1>4, <1>5
<1> QED BY <1>1, <1>6, <1>7, <1>8 DEF held

LEMMA SlotsInit == Init => TypeOK /\ SlotsHeld
<1> SUFFICES ASSUME Init PROVE TypeOK /\ SlotsHeld
  OBVIOUS
<1>1. TypeOK
  BY ResultsTyped DEF Init, TypeOK
<1>2. Holders = {}
  BY DEF Init, Holders
<1> QED BY <1>1, <1>2, FS_EmptySet, FanOutAssumption DEF Init, SlotsHeld

LEMMA SlotsStep == TypeOK /\ SlotsHeld /\ [Next]_vars => TypeOK' /\ SlotsHeld'
<1> SUFFICES ASSUME TypeOK, SlotsHeld, [Next]_vars PROVE TypeOK' /\ SlotsHeld'
  OBVIOUS
<1> DEFINE Goal == TypeOK' /\ SlotsHeld'
<1>1. CASE Cancel
  BY <1>1 DEF Cancel, TypeOK, SlotsHeld, Holders
<1>2. ASSUME NEW c \in Child, Acquire(c) PROVE Goal
  <2>1. Cardinality(Holders) \in Nat /\ Cardinality(Holders') = Cardinality(Holders) + 1
    BY <1>2, HoldersStep DEF Acquire
  <2> QED BY <1>2, <2>1, FanOutAssumption DEF Acquire, Go, TypeOK, SlotsHeld
<1>3. ASSUME NEW c \in Child, CutWaiting(c) PROVE Goal
  <2>1. Holders' = Holders
    BY <1>3, HoldersStep DEF CutWaiting
  <2> QED BY <1>3, <2>1, ResultsTyped DEF CutWaiting, CutShort, Go, TypeOK, SlotsHeld
<1>4. ASSUME NEW c \in Child, CutHolding(c) PROVE Goal
  <2>1. /\ Cardinality(Holders) \in Nat /\ Cardinality(Holders) > 0
        /\ Cardinality(Holders') = Cardinality(Holders) - 1
    BY <1>4, HoldersStep DEF CutHolding
  <2>2. sem' \in Nat /\ SlotsHeld'
    BY <1>4, <2>1, FanOutAssumption DEF CutHolding, SlotsHeld
  <2> QED BY <1>4, <2>2, ResultsTyped DEF CutHolding, CutShort, Go, TypeOK
<1>5. ASSUME NEW c \in Child, Check(c) PROVE Goal
  <2>1. Holders' = Holders
    BY <1>5, HoldersStep DEF Check
  <2> QED BY <1>5, <2>1 DEF Check, Go, TypeOK, SlotsHeld
<1>6. ASSUME NEW c \in Child, NoHandler(c) PROVE Goal
  <2>1. Holders' = Holders
    BY <1>6, HoldersStep DEF NoHandler
  <2> QED BY <1>6, <2>1, ResultsTyped DEF NoHandler, Go, TypeOK, SlotsHeld
<1>7. ASSUME NEW c \in Child, SetPreamble(c) PROVE Goal
  <2>1. Holders' = Holders
    BY <1>7, HoldersStep DEF SetPreamble
  <2> QED BY <1>7, <2>1 DEF SetPreamble, Go, TypeOK, SlotsHeld
<1>8. ASSUME NEW c \in Child, HandlerReturns(c) PROVE Goal
  <2>1. Holders' = Holders
    BY <1>8, HoldersStep DEF HandlerReturns
  <2>2. PICK r \in BranchResult : result' = [result EXCEPT ![c] = r]
    BY <1>8, ResultsTyped DEF HandlerReturns
  <2>3. cut' \in {cut, cut \cup {c}}
    BY <1>8 DEF HandlerReturns
  <2>4. result' \in [Child -> BranchResult] /\ cut' \in SUBSET Child
    BY <2>2, <2>3 DEF TypeOK
  <2> QED BY <1>8, <2>1, <2>4 DEF HandlerReturns, Go, TypeOK, SlotsHeld
<1>9. ASSUME NEW c \in Child, BranchEnds(c) PROVE Goal
  <2>1. /\ Cardinality(Holders) \in Nat /\ Cardinality(Holders) > 0
        /\ Cardinality(Holders') = Cardinality(Holders) - 1
    BY <1>9, HoldersStep DEF BranchEnds
  <2>2. sem' \in Nat /\ SlotsHeld'
    BY <1>9, <2>1, FanOutAssumption DEF BranchEnds, SlotsHeld
  <2> QED BY <1>9, <2>2 DEF BranchEnds, Go, TypeOK
<1>10. ASSUME NEW c \in Child, ReadPreamble(c) PROVE Goal
  BY <1>10 DEF ReadPreamble, TypeOK, SlotsHeld, Holders
<1>11. CASE UNCHANGED vars
  BY <1>11 DEF vars, TypeOK, SlotsHeld, Holders
<1> QED BY <1>1, <1>2, <1>3, <1>4, <1>5, <1>6, <1>7, <1>8, <1>9, <1>10, <1>11 DEF Next, BranchStep

LEMMA TypeAndSlots == Spec => [](TypeOK /\ SlotsHeld)
BY SlotsInit, SlotsStep, PTL DEF Spec

\* However the branches end, interleave or are interrupted, no more of them
\* than max_parallel execute at a time, and every slot that is taken belongs
\* to one that does: none leaks, none is given back twice (parallel.go, the
\* semaphore and its deferred release).
THEOREM SlotsNeverLeak == Spec => []WithinLimit
BY TypeAndSlots, SlotsAreWithinLimit, PTL

-----------------------------------------------------------------------------
(***************************************************************************)
(* The results.                                                            *)
(***************************************************************************)
\* A branch whose result is there was interrupted, or reports its own.  Branches
\* are interrupted only once the context is done; without somebody who
\* cancels the run it is a branch that failed by itself, and has ended, that
\* brought that about.
Explained ==
    /\ \A c \in Child :
        /\ c \in cut => pc[c] \in {"returned", "done"} /\ result[c] \in Interrupted(c)
        /\ pc[c] \in {"returned", "done"} /\ c \notin cut => result[c] \in Branch(c)
        /\ pc[c] = "running" => c \in Handled
    /\ cut # {} \/ runDone => execDone
    /\ execDone /\ ~runDone =>
           FailFast /\ \E c \in Child \ cut : pc[c] = "done" /\ Failed(result[c])

LEMMA ExplainedSuffices == TypeOK /\ Explained => ResultsExplained
<1> SUFFICES ASSUME TypeOK, Explained, AllDone
             PROVE  /\ \A c \in Child \ cut : result[c] \in Branch(c)
                    /\ cut # {} => runDone \/ (FailFast /\ \E c \in Child \ cut : Failed(result[c]))
                    /\ result \in JoinedResults([c \in Child |-> Branch(c)],
                                    [c \in Child |-> Interrupted(c)], FailFast, runDone)
  BY DEF ResultsExplained
<1>1. \A c \in Child \ cut : result[c] \in Branch(c)
  BY DEF Explained, AllDone
<1>2. cut # {} => runDone \/ (FailFast /\ \E c \in Child \ cut : Failed(result[c]))
  BY DEF Explained, TypeOK
<1>3. \A c \in cut : result[c] \in Interrupted(c)
  BY DEF Explained, TypeOK
<1> DEFINE own          == [c \in Child |-> Branch(c)]
           interruption == [c \in Child |-> Interrupted(c)]
<1>4. \A c \in Child : own[c] = Branch(c) /\ interruption[c] = Interrupted(c)
  OBVIOUS
<1>5. DOMAIN own = Child
  OBVIOUS
<1> HIDE DEF own, interruption
<1>6. \A c \in Child : result[c] \in own[c] \cup interruption[c]
  BY <1>1, <1>3, <1>4
<1>7. result \in [Child -> UNION {own[c] \cup interruption[c] : c \in Child}]
  BY <1>6 DEF TypeOK
<1>8. \/ \A c \in Child : result[c] \in own[c]
      \/ runDone
      \/ FailFast /\ \E c \in Child : result[c] \in own[c] /\ Failed(result[c])
  BY <1>1, <1>2, <1>4
<1>9. result \in JoinedResults(own, interruption, FailFast, runDone)
  BY <1>5, <1>6, <1>7, <1>8 DEF JoinedResults
<1> QED BY <1>1, <1>2, <1>9 DEF own, interruption

\* A step that moves a branch and leaves the contexts alone keeps the branch
\* that failed first.
LEMMA CulpritStays ==
    ASSUME TypeOK, Explained, NEW c \in Child, NEW from, NEW to, Go(c, from, to),
           from # "done", UNCHANGED <<runDone, execDone>>, cut' \subseteq cut \cup {c},
           \A d \in Child \ {c} : result'[d] = result[d]
    PROVE  execDone' /\ ~runDone' =>
               FailFast /\ \E d \in (Child \ cut)' : (pc[d] = "done" /\ Failed(result[d]))'
BY DEF TypeOK, Explained, Go, Failed

LEMMA ExplainedStep == TypeOK /\ Explained /\ [Next]_vars => Explained'
<1> SUFFICES ASSUME TypeOK, Explained, [Next]_vars PROVE Explained'
  OBVIOUS
<1> USE DEF TypeOK
<1>0. \A c \in Child : Cancelled \in Interrupted(c)
  BY DEF Interrupted
<1>1. CASE Cancel
  BY <1>1 DEF Cancel, Explained
<1>2. ASSUME NEW c \in Child, Acquire(c) PROVE Explained'
  <2>1. execDone' /\ ~runDone' =>
            FailFast /\ \E d \in (Child \ cut)' : (pc[d] = "done" /\ Failed(result[d]))'
    BY <1>2, CulpritStays DEF Acquire
  <2> QED BY <1>2, <2>1 DEF Acquire, Go, Explained
<1>3. ASSUME NEW c \in Child, CutWaiting(c) PROVE Explained'
  <2>1. execDone' /\ ~runDone' =>
            FailFast /\ \E d \in (Child \ cut)' : (pc[d] = "done" /\ Failed(result[d]))'
    BY <1>3, CulpritStays DEF CutWaiting, CutShort
  <2> QED BY <1>0, <1>3, <2>1 DEF CutWaiting, CutShort, Go, Explained
<1>4. ASSUME NEW c \in Child, CutHolding(c) PROVE Explained'
  <2>1. execDone' /\ ~runDone' =>
            FailFast /\ \E d \in (Child \ cut)' : (pc[d] = "done" /\ Failed(result[d]))'
    BY <1>4, CulpritStays DEF CutHolding, CutShort
  <2> QED BY <1>0, <1>4, <2>1 DEF CutHolding, CutShort, Go, Explained
<1>5. ASSUME NEW c \in Child, Check(c) PROVE Explained'
  <2>1. execDone' /\ ~runDone' =>
            FailFast /\ \E d \in (Child \ cut)' : (pc[d] = "done" /\ Failed(result[d]))'
    BY <1>5, CulpritStays DEF Check
  <2> QED BY <1>5, <2>1 DEF Check, Go, Explained
<1>6. ASSUME NEW c \in Child, NoHandler(c) PROVE Explained'
  <2>1. execDone' /\ ~runDone' =>
            FailFast /\ \E d \in (Child \ cut)' : (pc[d] = "done" /\ Failed(result[d]))'
    BY <1>6, CulpritStays DEF NoHandler
  <2>2. result'[c] \in Branch(c)
    BY <1>6 DEF NoHandler, Branch
  <2> QED BY <1>6, <2>1, <2>2 DEF NoHandler, Go, Explained
<1>7. ASSUME NEW c \in Child, SetPreamble(c) PROVE Explained'
  <2>1. execDone' /\ ~runDone' =>
            FailFast /\ \E d \in (Child \ cut)' : (pc[d] = "done" /\ Failed(result[d]))'
    BY <1>7, CulpritStays DEF SetPreamble
  <2> QED BY <1>7, <2>1 DEF SetPreamble, Go, Explained
<1>8. ASSUME NEW c \in Child, HandlerReturns(c) PROVE Explained'
  <2>1. execDone' /\ ~runDone' =>
            FailFast /\ \E d \in (Child \ cut)' : (pc[d] = "done" /\ Failed(result[d]))'
    BY <1>8, CulpritStays DEF HandlerReturns
  <2>2. IF c \in cut' THEN result'[c] \in Interrupted(c) ELSE result'[c] \in Branch(c)
    <3>1. pc[c] = "running" /\ c \in Handled /\ c \notin cut
      BY <1>8 DEF HandlerReturns, Go, Explained
    <3> QED BY <1>8, <3>1 DEF HandlerReturns, Branch, Interrupted
  <2> QED BY <1>8, <2>1, <2>2 DEF HandlerReturns, Go, Explained
<1>9. ASSUME NEW c \in Child, BranchEnds(c) PROVE Explained'
  <2>1. c \in cut => execDone
    BY DEF Explained
  <2>2. execDone' /\ ~runDone' =>
            FailFast /\ \E d \in (Child \ cut)' : (pc[d] = "done" /\ Failed(result[d]))'
    <3>1. CASE execDone
      BY <1>9, <3>1 DEF BranchEnds, Go, Explained, Failed
    <3>2. CASE ~execDone
      BY <1>9, <2>1, <3>2 DEF BranchEnds, Go, Explained, Failed
    <3> QED BY <3>1, <3>2
  <2> QED BY <1>9, <2>2 DEF BranchEnds, Go, Explained
<1>10. ASSUME NEW c \in Child, ReadPreamble(c) PROVE Explained'
  BY <1>10 DEF ReadPreamble, Explained
<1>11. CASE UNCHANGED vars
  BY <1>11 DEF vars, Explained
<1> QED BY <1>1, <1>2, <1>3, <1>4, <1>5, <1>6, <1>7, <1>8, <1>9, <1>10, <1>11 DEF Next, BranchStep

\* The results the branches are joined with are their own, but for those of
\* branches that were interrupted, and these are explained by a cancellation of
\* the run or by a branch that failed by itself under fail_fast (parallel.go,
\* Execute).  Module Engine, to which the stage is one step, chooses its results
\* by the same operator (FanOutResults).
THEOREM ResultsAreExplained == Spec => []ResultsExplained
<1>1. Init => Explained
  BY DEF Init, Explained
<1> QED BY <1>1, TypeAndSlots, ExplainedStep, ExplainedSuffices, PTL DEF Spec

-----------------------------------------------------------------------------
(***************************************************************************)
(* Manager loops.                                                          *)
(***************************************************************************)
\* A step of a manager is, for the stage, its handler's return or nothing.
LEMMA ManagerReturns ==
    ASSUME NEW m \in Managers, NEW place, At(m, place), NEW s \in {"SUCCESS", "FAIL"}, Return(m, s),
           \/ UNCHANGED cut
           \/ execDone /\ s = "FAIL" /\ cut' = cut \cup {m}
    PROVE  HandlerReturns(m)
<1>1. Go(m, "running", "returned")
  BY DEF At, Return, Go
<1>2. CASE UNCHANGED cut
  <2>1. [status |-> s, err |-> FALSE] \in Own[m]
    BY ManagerAssumption
  <2> QED BY <1>1, <1>2, <2>1 DEF HandlerReturns, Return
<1>3. CASE execDone /\ s = "FAIL" /\ cut' = cut \cup {m}
  <2>1. [status |-> s, err |-> FALSE] \in Stopped(m)
    BY <1>3 DEF Stopped
  <2> QED BY <1>1, <1>3, <2>1 DEF HandlerReturns, Return
<1> QED BY <1>2, <1>3

LEMMA ManagerStepIsBranchStep ==
    ASSUME NEW m \in Child, ManagerStep(m)
    PROVE  UNCHANGED vars \/ HandlerReturns(m)
<1>0. m \in Managers
  BY DEF ManagerStep, Enter, ChildReturns, Loop, Wait, At
<1>1. CASE Enter(m)
  BY <1>0, <1>1, ManagerReturns DEF Enter, Execute
<1>2. CASE ChildReturns(m)
  BY <1>0, <1>2, ManagerReturns DEF ChildReturns
<1>3. CASE Loop(m)
  <2>1. Verdict(m) # "" => Verdict(m) \in {"SUCCESS", "FAIL"}
    BY DEF Verdict
  <2> QED BY <1>0, <1>3, <2>1, ManagerReturns DEF Loop, Canceled, GoOn, Execute
<1>4. CASE Wait(m)
  BY <1>0, <1>4, ManagerReturns DEF Wait, Canceled, Execute
<1> QED BY <1>1, <1>2, <1>3, <1>4 DEF ManagerStep

LEMMA ManagedStepIsStep == [ManagedNext]_<<vars, managerVars>> => [Next]_vars
<1> SUFFICES ASSUME [ManagedNext]_<<vars, managerVars>> PROVE [Next]_vars
  OBVIOUS
<1>1. ASSUME NEW c \in Child, ManagerStep(c) PROVE [Next]_vars
  BY <1>1, ManagerStepIsBranchStep DEF Next, BranchStep
<1>2. ASSUME NEW c \in Child, OtherStep(c) PROVE [Next]_vars
  BY <1>2 DEF OtherStep, Next
<1>3. CASE ManagedNext
  BY <1>1, <1>2, <1>3 DEF ManagedNext, ManagedStep, Next
<1>4. CASE UNCHANGED <<vars, managerVars>>
  BY <1>4
<1> QED BY <1>3, <1>4

\* To the stage a manager loop is a handler like any other: everything proved
\* of the branches holds of branches that are manager loops.
THEOREM ManagersAreHandlers == ManagedSpec => Spec
<1>1. ManagerInit => Init
  BY DEF ManagerInit
<1> QED BY <1>1, ManagedStepIsStep, PTL DEF ManagedSpec, Spec

\* Where a manager is that began to execute its children after the context was
\* done: before the look at the context that ends it.
Stopping ==
    /\ at \in [Managers -> {"entry", "children", "loop", "wait"}]
    /\ late \in [Managers -> {0, 1}]
    /\ \A m \in Managers : late[m] = 1 => execDone /\ at[m] \in {"children", "loop"}

LEMMA StoppingStep == Stopping /\ [ManagedNext]_<<vars, managerVars>> => Stopping'
<1> SUFFICES ASSUME Stopping, [ManagedNext]_<<vars, managerVars>> PROVE Stopping'
  OBVIOUS
<1> USE DEF Stopping
<1>1. CASE Cancel /\ UNCHANGED managerVars
  BY <1>1 DEF Cancel, managerVars
<1>2. ASSUME NEW m \in Managers, Execute(m), at[m] \in {"entry", "wait"} \/ ~execDone
      PROVE  Stopping'
  BY <1>2 DEF Execute, vars
<1>3. ASSUME NEW m \in Managers, NEW s, Return(m, s) PROVE Stopping'
  BY <1>3 DEF Return
<1>4. ASSUME NEW m \in Child, ManagerStep(m) PROVE Stopping'
  <2>0. m \in Managers
    BY <1>4 DEF ManagerStep, Enter, ChildReturns, Loop, Wait, At
  <2>1. CASE Enter(m)
    BY <1>2, <1>3, <2>0, <2>1 DEF Enter, At
  <2>2. CASE ChildReturns(m)
    BY <1>3, <2>0, <2>2 DEF ChildReturns, vars, At
  <2>3. CASE Loop(m)
    <3>1. CASE ~execDone /\ GoOn(m)
      BY <1>2, <2>0, <2>3, <3>1 DEF Loop, GoOn, At, vars
    <3> QED BY <1>3, <2>0, <2>3, <3>1 DEF Loop, Canceled
  <2>4. CASE Wait(m)
    BY <1>2, <1>3, <2>0, <2>4 DEF Wait, Canceled, At
  <2> QED BY <1>4, <2>1, <2>2, <2>3, <2>4 DEF ManagerStep
<1>5. ASSUME NEW c \in Child, OtherStep(c) PROVE Stopping'
  <2>1. execDone => execDone'
    BY <1>5 DEF OtherStep, BranchStep, Acquire, CutWaiting, CutHolding, Check, NoHandler,
                SetPreamble, HandlerReturns, BranchEnds
  <2> QED BY <1>5, <2>1 DEF OtherStep, managerVars
<1>6. ASSUME NEW c \in Child, ReadPreamble(c) /\ UNCHANGED managerVars PROVE Stopping'
  BY <1>6 DEF ReadPreamble, managerVars
<1>7. CASE UNCHANGED <<vars, managerVars>>
  BY <1>7 DEF vars, managerVars
<1> QED BY <1>1, <1>4, <1>5, <1>6, <1>7 DEF ManagedNext, ManagedStep

\* A manager loop that is interrupted begins at most one more execution of its
\* children, wherever in its cycle it was and whether or not it waits between
\* cycles (manager_loop.go, the look at the context at the head of the loop).
THEOREM InterruptedManagersStop == ManagedSpec => []CancelStopsManagers
<1>1. ManagerInit => Stopping
  BY DEF ManagerInit, Stopping
<1>2. Stopping => CancelStopsManagers
  BY DEF Stopping, CancelStopsManagers
<1> QED BY <1>1, <1>2, StoppingStep, PTL DEF ManagedSpec
=============================================================================
