---------------------------- MODULE EngineProofs ----------------------------
(***************************************************************************)
(* Theorems about the engine for every valid pipeline, every set of        *)
(* outcomes its handlers may return and any number of processes.           *)
(***************************************************************************)
EXTENDS Engine, FiniteSetTheorems, WellFoundedInduction, NaturalsInduction, TLAPS

-----------------------------------------------------------------------------
(***************************************************************************)
(* Positions, stages and edges.                                            *)
(***************************************************************************)

\* The first of a set of positions is one of them and precedes the others.
LEMMA FirstIsLeast ==
    ASSUME NEW S \in SUBSET Nat, S # {}
    PROVE  First(S) \in S /\ \A j \in S : First(S) <= j
<1>1. PICK i \in S : \A j \in S : ~(<<j, i>> \in OpToRel(<, Nat))
  BY NatLessThanWellFounded, WFMin
<1>2. \A j \in S : ~(j < i)
  <2> SUFFICES ASSUME NEW j \in S, j < i PROVE FALSE
    OBVIOUS
  <2>1. <<j, i>> \in Nat \X Nat /\ <<j, i>>[1] < <<j, i>>[2]
    OBVIOUS
  <2>2. <<j, i>> \in OpToRel(<, Nat)
    BY <2>1 DEF OpToRel
  <2> QED BY <1>1, <2>2
<1>3. \A j \in S : i <= j
  BY <1>2
<1> QED
  BY <1>3 DEF First

COROLLARY FirstIsMember ==
    ASSUME NEW S \in SUBSET Nat, S # {}
    PROVE  First(S) \in S
BY FirstIsLeast

\* The data every pipeline has.
LEMMA GraphTypes ==
    /\ Len(NodeOrder) \in Nat /\ DOMAIN NodeOrder = 1..Len(NodeOrder)
    /\ Unset \notin Node /\ Unset \notin Int
    /\ StartNode \in Node
    /\ DOMAIN Edges \subseteq Nat
    /\ \A i \in DOMAIN Edges : Edges[i].from \in Node /\ Edges[i].to \in Node
    /\ \A n \in Node : Attr[n].goalGate \in BOOLEAN
    /\ \A n \in Node : MaxRetries(n) \in Int
<1> USE ValidGraph DEF GraphAssumption
<1>1. NodeOrder \in Seq(STRING) /\ Unset \notin Node /\ Unset \notin Int
  BY DEF WellFormed
<1>2. Len(NodeOrder) \in Nat /\ DOMAIN NodeOrder = 1..Len(NodeOrder)
  BY <1>1
<1>3. StartNode \in Node
  <2>1. StartNodes # {}
    BY FS_EmptySet DEF StartNodeRule
  <2> QED BY <2>1 DEF StartNode, StartNodes
<1>4. \A i \in DOMAIN Edges : Edges[i].from \in Node /\ Edges[i].to \in Node
  BY DEF EdgeTargetExists
<1>5. DOMAIN Edges \subseteq Nat
  BY DEF WellFormed
<1>6. \A n \in Node : MaxRetries(n) \in Int
  BY DEF WellFormed, MaxRetries
<1>7. \A n \in Node : Attr[n].goalGate \in BOOLEAN
  BY DEF WellFormed
<1> QED BY <1>1, <1>2, <1>3, <1>4, <1>5, <1>6, <1>7

\* A retry target is a stage.
LEMMA RetryTargetIsNode ==
    ASSUME NEW n
    PROVE  ResolveRetryTarget(n) # Unset => ResolveRetryTarget(n) \in Node
<1> DEFINE C == {i \in 1..4 : RetryCandidates(n)[i] \in Node}
<1>1. ResolveRetryTarget(n) = IF C = {} THEN Unset ELSE RetryCandidates(n)[First(C)]
  BY DEF ResolveRetryTarget
<1>2. C # {} => First(C) \in C
  BY FirstIsMember
<1> QED BY <1>1, <1>2

\* A fan-out resumes at a stage.
LEMMA ConvergenceIsNode ==
    ASSUME NEW S
    PROVE  FindConvergence(S) # Unset => FindConvergence(S) \in Node
<1> DEFINE C == {i \in DOMAIN NodeOrder : \A c \in S : NodeOrder[i] \in Successors(c)}
<1>1. FindConvergence(S) = IF S = {} \/ C = {} THEN Unset ELSE NodeOrder[First(C)]
  BY DEF FindConvergence
<1>2. C # {} => First(C) \in DOMAIN NodeOrder
  BY FirstIsMember, GraphTypes
<1> QED BY <1>1, <1>2 DEF Node

\* A manager loop resumes at a stage.
LEMMA ContinuationIsNode ==
    ASSUME NEW n
    PROVE  Continuation(n) # Unset => Continuation(n) \in Node
<1> DEFINE L == {i \in OutEdges(n) : OutEdges(Edges[i].to) # {}}
           O == OutEdges(Edges[First(L)].to)
<1>1. Continuation(n) = IF L = {} THEN Unset ELSE Edges[First(O)].to
  BY DEF Continuation
<1>2. L # {} => First(L) \in L
  BY FirstIsMember, GraphTypes DEF OutEdges
<1>3. L # {} => First(O) \in O
  <2>1. O \in SUBSET Nat
    BY GraphTypes DEF OutEdges
  <2>2. L # {} => O # {}
    BY <1>2
  <2> QED BY <2>1, <2>2, FirstIsMember
<1>4. O \subseteq DOMAIN Edges
  BY DEF OutEdges
<1> QED BY <1>1, <1>3, <1>4, GraphTypes

\* Among some edges there is a heaviest one: of the sets of edges without one,
\* take a smallest and remove an edge.
LEMMA HeaviestExists ==
    ASSUME NEW S \in SUBSET DOMAIN Edges, S # {}
    PROVE  \E i \in S : \A j \in S : Edges[i].weight >= Edges[j].weight
<1> DEFINE HasHeaviest(T) == \E i \in T : \A j \in T : Edges[i].weight >= Edges[j].weight
           Sizes == {k \in Nat : \E T \in SUBSET DOMAIN Edges :
                        /\ IsFiniteSet(T) /\ Cardinality(T) = k
                        /\ T # {} /\ ~HasHeaviest(T)}
<1>1. Len(Edges) \in Nat /\ DOMAIN Edges = 1..Len(Edges)
      /\ \A i \in DOMAIN Edges : Edges[i].weight \in Int
  BY ValidGraph DEF GraphAssumption, WellFormed
<1>2. Sizes = {}
  <2> SUFFICES ASSUME Sizes # {} PROVE FALSE
    OBVIOUS
  <2>1. First(Sizes) \in Sizes /\ \A k \in Sizes : First(Sizes) <= k
    BY FirstIsLeast
  <2>2. PICK T \in SUBSET DOMAIN Edges : /\ IsFiniteSet(T) /\ Cardinality(T) = First(Sizes)
                                         /\ T # {} /\ ~HasHeaviest(T)
    BY <2>1
  <2>3. PICK x \in T : TRUE
    BY <2>2
  <2>4. IsFiniteSet(T \ {x}) /\ Cardinality(T \ {x}) = Cardinality(T) - 1
    BY <2>2, FS_RemoveElement
  <2>5. Cardinality(T \ {x}) \in Nat
    BY <2>4, FS_CardinalityType
  <2>6. CASE T \ {x} = {}
    <3>1. T = {x}
      BY <2>6, <2>3
    <3>2. Edges[x].weight \in Int
      BY <1>1, <2>3
    <3> QED BY <3>1, <3>2, <2>2
  <2>7. CASE T \ {x} # {}
    <3>1. HasHeaviest(T \ {x})
      <4> SUFFICES ASSUME ~HasHeaviest(T \ {x}) PROVE FALSE
        OBVIOUS
      <4>1. Cardinality(T \ {x}) \in Sizes
        BY <2>4, <2>5, <2>7
      <4>2. Cardinality(T) \in Nat
        BY <2>2, <2>1
      <4> HIDE DEF Sizes
      <4> QED BY <4>1, <4>2, <2>1, <2>2, <2>4
    <3>2. PICK y \in T \ {x} : \A j \in T \ {x} : Edges[y].weight >= Edges[j].weight
      BY <3>1
    <3>3. \A j \in T : Edges[j].weight \in Int
      BY <1>1
    <3>4. CASE Edges[y].weight >= Edges[x].weight
      BY <3>2, <3>4, <2>2
    <3>5. CASE ~(Edges[y].weight >= Edges[x].weight)
      <4>1. \A j \in T : Edges[x].weight >= Edges[j].weight
        BY <3>2, <3>3, <3>5
      <4> QED BY <4>1, <2>2, <2>3
    <3> QED BY <3>4, <3>5
  <2> QED BY <2>6, <2>7
<1>3. IsFiniteSet(DOMAIN Edges)
  BY <1>1, FS_Interval
<1>4. IsFiniteSet(S) /\ Cardinality(S) \in Nat
  BY <1>3, FS_Subset, FS_CardinalityType
<1> QED BY <1>2, <1>4

\* Select answers an outgoing edge whenever there is one.
LEMMA SelectIsEdge ==
    ASSUME NEW n, NEW status, NEW label, NEW ids \in Seq(STRING), NEW ctx
    PROVE  IF OutEdges(n) = {} THEN Select(n, status, label, ids, ctx) = Unset
           ELSE Select(n, status, label, ids, ctx) \in OutEdges(n)
<1>1. CASE OutEdges(n) = {}
  BY <1>1 DEF Select
<1>2. CASE OutEdges(n) # {}
  <2> DEFINE sel == Select(n, status, label, ids, ctx)
             M == Matching(n, status, label, ctx)
             L == Labelled(n, label)
             G == Suggested(n, ids)
             id == ids[First(G)]
             T == {i \in OutEdges(n) : Edges[i].to = id}
             U == Unconditional(n)
             H == Heaviest(n)
  <2>1. sel = IF M # {} THEN First(M)
              ELSE IF L # {} THEN First(L)
              ELSE IF G # {} THEN First(T)
              ELSE IF U # {} THEN First(H)
              ELSE First(OutEdges(n))
    BY <1>2 DEF Select
  <2>2. OutEdges(n) \in SUBSET Nat
    BY GraphTypes DEF OutEdges
  <2>3. M # {} => First(M) \in OutEdges(n)
    BY <2>2, FirstIsMember DEF Matching
  <2>4. L # {} => First(L) \in OutEdges(n)
    BY <2>2, FirstIsMember DEF Labelled
  <2>5. G # {} => First(T) \in OutEdges(n)
    <3>1. G # {} => First(G) \in G
      BY FirstIsMember DEF Suggested
    <3>2. G # {} => T # {}
      BY <3>1 DEF Suggested, Successors
    <3> QED BY <3>2, <2>2, FirstIsMember
  <2>6. U # {} => First(H) \in OutEdges(n)
    <3>1. U \subseteq OutEdges(n) /\ U \subseteq DOMAIN Edges
      BY DEF Unconditional, OutEdges
    <3>2. U # {} => H # {}
      BY <3>1, HeaviestExists DEF Heaviest
    <3>3. H \subseteq U
      BY DEF Heaviest
    <3> QED BY <3>1, <3>2, <3>3, <2>2, FirstIsMember
  <2>7. First(OutEdges(n)) \in OutEdges(n)
    BY <1>2, <2>2, FirstIsMember
  <2> HIDE DEF M, L, G, T, U, H, sel
  <2>8. sel \in OutEdges(n)
    BY <2>1, <2>3, <2>4, <2>5, <2>6, <2>7
  <2> QED BY <1>2, <2>8 DEF sel
<1> QED BY <1>1, <1>2

-----------------------------------------------------------------------------
(***************************************************************************)
(* Lemmas on the pure parts of an iteration.                               *)
(***************************************************************************)

\* A gate that checkGoalGates reports is a stage; none is reported only when
\* every gate's visit succeeded.
LEMMA GoalGateFound ==
    ASSUME NEW visits
    PROVE  /\ CheckGoalGates(visits) # Unset =>
                  CheckGoalGates(visits) \in Node
           /\ CheckGoalGates(visits) = Unset =>
                  \A n \in Gates : IsSuccess(visits[n].status)
<1> DEFINE U == {i \in DOMAIN NodeOrder :
                    /\ Attr[NodeOrder[i]].goalGate
                    /\ ~IsSuccess(visits[NodeOrder[i]].status)}
<1>1. CheckGoalGates(visits) = IF U = {} THEN Unset ELSE NodeOrder[First(U)]
  BY DEF CheckGoalGates
<1>2. U \subseteq Nat /\ U \subseteq DOMAIN NodeOrder
  BY GraphTypes
<1>3. U # {} => NodeOrder[First(U)] \in Node
  BY <1>2, FirstIsMember DEF Node
<1>4. U = {} => \A n \in Gates : IsSuccess(visits[n].status)
  BY DEF Gates, Node
<1> HIDE DEF U
<1> QED BY <1>1, <1>3, <1>4, GraphTypes

\* What it reports is a goal gate.
LEMMA ReportedIsGate ==
    ASSUME NEW visits, CheckGoalGates(visits) # Unset
    PROVE  CheckGoalGates(visits) \in Gates
<1> DEFINE U == {i \in DOMAIN NodeOrder :
                    /\ Attr[NodeOrder[i]].goalGate
                    /\ ~IsSuccess(visits[NodeOrder[i]].status)}
<1>1. U # {} /\ CheckGoalGates(visits) = NodeOrder[First(U)]
  BY DEF CheckGoalGates
<1>2. U \in SUBSET Nat
  BY GraphTypes
<1>3. First(U) \in U
  BY <1>1, <1>2, FirstIsMember
<1> QED BY <1>1, <1>3 DEF Gates, Node

\* The context keeps its type through the updates of a handler.
LEMMA AppliedTyped ==
    ASSUME NEW ctx \in [CtxKey -> STRING], NEW out \in StageOutcome
    PROVE  Applied(ctx, out) \in [CtxKey -> STRING]
<1>1. out.status \in STRING /\ out.label \in STRING /\ out.updates \in Updates
  BY StatusesAreStrings DEF StageOutcome
<1>2. Merge(ctx, out.updates) \in [CtxKey -> STRING]
  BY <1>1 DEF Merge, Updates
<1> QED BY <1>1, <1>2 DEF Applied

\* The context keeps its type through the updates of the branches.
LEMMA MergedContextTyped ==
    ASSUME NEW ctx \in [CtxKey -> STRING], NEW S, NEW res \in [S -> Result],
           NEW rank \in Ranks(S)
    PROVE  MergedContext(ctx, res, rank) \in [CtxKey -> STRING]
<1> SUFFICES ASSUME NEW k \in CtxKey PROVE MergedContext(ctx, res, rank)[k] \in STRING
  BY DEF MergedContext
<1> DEFINE W == {c \in DOMAIN res : res[c].updates[k] # Unset}
           IsLast(c) == \A d \in W : rank[c] <= rank[d]
           last == CHOOSE c \in W : IsLast(c)
<1>1. MergedContext(ctx, res, rank)[k] = IF W = {} THEN ctx[k] ELSE res[last].updates[k]
  BY DEF MergedContext
<1>2. ASSUME W # {} PROVE \E c \in W : IsLast(c)
  <2> DEFINE R == {rank[c] : c \in W}
  <2>1. R \in SUBSET Nat /\ R # {}
    BY <1>2 DEF Ranks
  <2>2. First(R) \in R /\ \A r \in R : First(R) <= r
    BY <2>1, FirstIsLeast
  <2> QED BY <2>2
<1>3. W # {} => last \in W
  BY <1>2
<1>4. \A c \in W : res[c].updates[k] \in STRING
  BY DEF Result, Updates
<1> QED BY <1>1, <1>3, <1>4

LEMMA SuccessorsAreNodes == \A n \in Node : Successors(n) \subseteq Node
BY GraphTypes DEF Successors, OutEdges

\* A parallel stage leaves a result for each branch.
LEMMA FanOutResultsAreResults ==
    ASSUME NEW n \in FanOuts, NEW res \in FanOutResults(n)
    PROVE  res \in [Successors(n) -> Result]
<1>1. Successors(n) \subseteq Node
  BY SuccessorsAreNodes DEF FanOuts
<1>2. NoUpdates \in Updates
  BY DEF NoUpdates, Updates
<1>3. ASSUME NEW c \in Node PROVE Branch(c) \cup Interrupted(c) \subseteq Result
  <2>1. \A o \in Outcome[c] : o.status \in StageStatus /\ o.updates \in Updates
    BY EngineAssumption DEF StageOutcome
  <2>2. Empty \in Result /\ CutShort \in Result /\ [CutShort EXCEPT !.err = FALSE] \in Result
    BY <1>2 DEF Empty, CutShort, Result, StageStatus
  <2>3. Branch(c) \subseteq Result
    <3>1. \A o \in Outcome[c] :
              [status |-> o.status, updates |-> o.updates, err |-> FALSE] \in Result
      BY <2>1 DEF Result
    <3> QED BY <2>2, <3>1 DEF Branch
  <2> QED BY <2>2, <2>3 DEF Interrupted
<1>4. DOMAIN [c \in Successors(n) |-> Branch(c)] = Successors(n)
  OBVIOUS
<1> QED BY <1>1, <1>3, <1>4 DEF FanOutResults, JoinedResults

\* Its results are typed.
LEMMA FanOutResultsTyped ==
    ASSUME NEW n \in FanOuts
    PROVE  FanOutResults(n) \subseteq ResultSet
BY FanOutResultsAreResults DEF ResultSet

\* What a handler returns, and the results it leaves.
LEMMA HandlerTyped ==
    ASSUME TypeOK, NEW out \in Returned(cur), HandlerReturns(cur, out)
    PROVE  out \in StageOutcome /\ results' \in ResultSet
<1>1. NoUpdates \in Updates
  BY DEF NoUpdates, Updates
<1>2. out \in StageOutcome
  <2>1. \A status \in {"SUCCESS", "FAIL"} : Plain(status) \in StageOutcome
    <3>1. <<>> \in Seq(STRING)
      OBVIOUS
    <3>2. "" \in STRING
      BY StatusesAreStrings DEF NoStatus
    <3> QED BY <1>1, <3>1, <3>2 DEF Plain, StageOutcome, StageStatus
  <2> QED BY <2>1, EngineAssumption DEF Returned, TypeOK
<1>3. results' \in ResultSet
  <2>1. Attr[cur].type = "parallel" => cur \in FanOuts
    BY DEF FanOuts, TypeOK
  <2> QED BY <2>1, FanOutResultsTyped DEF HandlerReturns, TypeOK, MemoryTypeOK
<1> QED BY <1>2, <1>3

\* What a handler at work leaves alone (engine.go, executeNode: ChildEngine merges
\* into the context and does nothing else).
LEMMA HandlerStepLeaves ==
    ASSUME HandlerStep
    PROVE  /\ pc = "exec"
           /\ UNCHANGED <<pc, cur, canceled, counters, completed, latest, stage, durable, runs>>
BY DEF HandlerStep, ChildMerges, InnerFanOutEnds

\* What it writes to the context keeps the types.
LEMMA HandlerStepTyped ==
    ASSUME TypeOK, HandlerStep
    PROVE  pctx' \in [CtxKey -> STRING] /\ results' \in ResultSet
<1>1. CASE ChildMerges
  <2>1. PICK m \in Loops : \E c \in Successors(m) : \E out \in Outcome[c] :
                                pctx' = Merge(pctx, out.updates)
    BY <1>1 DEF ChildMerges
  <2>2. PICK c \in Successors(m) : \E out \in Outcome[c] : pctx' = Merge(pctx, out.updates)
    BY <2>1
  <2>3. PICK out \in Outcome[c] : pctx' = Merge(pctx, out.updates)
    BY <2>2
  <2>4. c \in Node
    BY SuccessorsAreNodes DEF Loops
  <2>5. out.updates \in Updates
    BY <2>4, EngineAssumption DEF StageOutcome
  <2>6. pctx' \in [CtxKey -> STRING]
    BY <2>3, <2>5 DEF Merge, Updates, TypeOK, MemoryTypeOK
  <2> QED BY <1>1, <2>6 DEF ChildMerges, TypeOK, MemoryTypeOK
<1>2. CASE InnerFanOutEnds
  <2>1. PICK n \in FanOuts : results' \in FanOutResults(n)
    BY <1>2 DEF InnerFanOutEnds
  <2> QED BY <1>2, <2>1, FanOutResultsTyped DEF InnerFanOutEnds, TypeOK, MemoryTypeOK
<1> QED BY <1>1, <1>2 DEF HandlerStep

\* The visit a handler's result is recorded with.
LEMMA VisitedTyped ==
    ASSUME TypeOK, NEW out \in StageOutcome
    PROVE  Visited(cur, out) \in [Node -> Visit]
BY DEF Visited, Visit, TypeOK, MemoryTypeOK, StageOutcome

\* What a stage that is done adds to the memory.
LEMMA CompletesTyped ==
    ASSUME TypeOK, NEW out \in StageOutcome, results' \in ResultSet,
           Completes(out)
    PROVE  /\ completed' \in SUBSET Node
           /\ latest' \in [Node -> Visit]
           /\ pctx' \in [CtxKey -> STRING]
<1>1. Visited(cur, out) \in [Node -> Visit] /\ Applied(pctx, out) \in [CtxKey -> STRING]
  BY VisitedTyped, AppliedTyped DEF TypeOK, MemoryTypeOK
<1>2. CASE BranchesDone(out) /\ results' # Unset
  <2>1. PICK S \in SUBSET Node : results' \in [S -> Result]
    BY <1>2, SuccessorsAreNodes DEF ResultSet, FanOuts
  <2>2. completed' \in SUBSET Node
    BY <1>2, <2>1 DEF BranchesDone, TypeOK, MemoryTypeOK
  <2>3. \A n \in S : [status |-> results'[n].status, attempt |-> 1] \in Visit
    BY <2>1 DEF Result, Visit
  <2>4. latest' \in [Node -> Visit]
    BY <1>1, <1>2, <2>1, <2>3 DEF BranchesDone
  <2>5. pctx' \in [CtxKey -> STRING]
    BY <1>1, <1>2, <2>1, MergedContextTyped DEF BranchesDone
  <2> QED BY <2>2, <2>4, <2>5
<1>3. CASE OnlyStageDone(out)
  BY <1>1, <1>3 DEF OnlyStageDone, TypeOK, MemoryTypeOK
<1>4. CASE ChildrenDone(out)
  <2>1. Successors(cur) \subseteq Node
    BY SuccessorsAreNodes DEF TypeOK
  <2> QED BY <1>1, <1>4, <2>1 DEF ChildrenDone, TypeOK, MemoryTypeOK
<1> QED BY <1>2, <1>3, <1>4 DEF Completes

\* A checkpoint of a typed memory is typed.
LEMMA SaveTyped ==
    ASSUME TypeOK, MemoryTypeOK', NEW node \in Node \cup {Unset}, SaveCheckpoint(node)
    PROVE  disk' \in Checkpoint \cup {NoCheckpoint}
BY DEF SaveCheckpoint, Checkpoint, TypeOK, MemoryTypeOK

\* Where a fan-out or a manager loop jumps to is a stage.
LEMMA JumpIsNode ==
    Jump(cur) # Unset => Jump(cur) \in Node
BY ConvergenceIsNode, ContinuationIsNode DEF Jump

\* The edge the engine follows leaves the current stage and leads to a stage;
\* none is found only if there is none.
LEMMA SelectedIsEdge ==
    ASSUME NEW out \in StageOutcome
    PROVE  /\ SelectedEdge(out) # Unset =>
                  /\ SelectedEdge(out) \in OutEdges(cur)
                  /\ Edges[SelectedEdge(out)].to \in Node
           /\ SelectedEdge(out) = Unset => OutEdges(cur) = {}
<1>1. out.suggested \in Seq(STRING)
  BY DEF StageOutcome
<1>2. IF OutEdges(cur) = {} THEN SelectedEdge(out) = Unset
      ELSE SelectedEdge(out) \in OutEdges(cur)
  BY <1>1, SelectIsEdge DEF SelectedEdge
<1>3. OutEdges(cur) \subseteq DOMAIN Edges /\ OutEdges(cur) \subseteq Nat
  BY GraphTypes DEF OutEdges
<1>4. Unset \notin OutEdges(cur)
  BY <1>3, GraphTypes
<1> QED BY <1>2, <1>3, <1>4, GraphTypes

-----------------------------------------------------------------------------
(***************************************************************************)
(* Type correctness.                                                       *)
(***************************************************************************)
LEMMA InitTyped == Init => TypeOK
<1> SUFFICES ASSUME Init PROVE TypeOK
  OBVIOUS
<1>1. "" \in STRING
  BY StatusesAreStrings DEF NoStatus
<1>2. MemoryTypeOK
  BY <1>1 DEF Init, FreshMemory, MemoryTypeOK, NoRetries, NoVisits, EmptyContext,
              Unvisited, Visit, NoStatus, ResultSet
<1> QED BY <1>2, GraphTypes DEF Init, TypeOK, Running, Stopped, NoCheckpoint

LEMMA ForgetTyped == ForgetMemory => MemoryTypeOK'
<1>1. "" \in STRING
  BY StatusesAreStrings DEF NoStatus
<1>2. NoRetries \in [Node -> Nat] /\ EmptyContext \in [CtxKey -> STRING]
  BY <1>1 DEF NoRetries, EmptyContext
<1>3. NoVisits \in [Node -> Visit]
  BY DEF NoVisits, Unvisited, Visit
<1> QED
  BY <1>2, <1>3 DEF ForgetMemory, MemoryTypeOK, ResultSet

\* Every step keeps the types.
LEMMA NextTyped == TypeOK /\ [Next]_vars => TypeOK'
<1> SUFFICES ASSUME TypeOK, [Next]_vars PROVE TypeOK'
  OBVIOUS
<1> USE GraphTypes DEF Running, Stopped, NoCheckpoint
<1>1. CASE UNCHANGED vars
  BY <1>1 DEF vars, memory, durable, TypeOK, MemoryTypeOK, Checkpoint
<1>2. CASE StartFresh
  <2>1. MemoryTypeOK'
    BY <1>2, ForgetTyped DEF StartFresh
  <2>2. runs' \in Nat
    BY <1>2 DEF StartFresh, StartProcess, TypeOK
  <2>3. disk' \in Checkpoint \cup {NoCheckpoint}
    BY <1>2 DEF StartFresh, StartProcess, TypeOK
  <2> QED BY <1>2, <2>1, <2>2, <2>3 DEF StartFresh, StartProcess, TypeOK
<1>3. CASE Resume
  <2>1. disk \in Checkpoint
    BY <1>3 DEF Resume, TypeOK
  <2>2. MemoryTypeOK' /\ cur' \in Node
    BY <1>3, <2>1 DEF Resume, Checkpoint, MemoryTypeOK
  <2>3. runs' \in Nat
    BY <1>3 DEF Resume, StartProcess, TypeOK
  <2>4. disk' \in Checkpoint \cup {NoCheckpoint}
    BY <1>3 DEF Resume, StartProcess, TypeOK
  <2> QED BY <1>3, <2>2, <2>3, <2>4 DEF Resume, StartProcess, TypeOK
<1>4. CASE Crash
  BY <1>4, ForgetTyped DEF Crash, TypeOK, durable
<1>5. CASE Cancel
  BY <1>5 DEF Cancel, TypeOK, MemoryTypeOK, memory, durable
<1>6. CASE StopOnCancel
  BY <1>6 DEF StopOnCancel, TypeOK, MemoryTypeOK, memory, durable
<1>7. CASE BeginStage
  BY <1>7 DEF BeginStage, TypeOK, MemoryTypeOK, memory, durable
<1>8. CASE AcceptExit
  <2>1. [status |-> "SUCCESS", attempt |-> 1] \in Visit
    BY DEF Visit, StageStatus
  <2> QED BY <1>8, <2>1 DEF AcceptExit, TypeOK, MemoryTypeOK, durable
<1>9. CASE RetryGateAtExit
  <2> DEFINE gate == CheckGoalGates(latest)
  <2>1. gate \in Node
    BY <1>9, GoalGateFound DEF RetryGateAtExit
  <2>2. MemoryTypeOK'
    BY <1>9, <2>1 DEF RetryGateAtExit, Charge, TypeOK, MemoryTypeOK
  <2>3. SaveCheckpoint(gate)
    BY <1>9 DEF RetryGateAtExit
  <2>4. disk' \in Checkpoint \cup {NoCheckpoint}
    BY <2>1, <2>2, <2>3, SaveTyped
  <2>5. cur' \in Node
    BY <1>9, <2>1, RetryTargetIsNode DEF RetryGateAtExit
  <2> QED BY <1>9, <2>2, <2>4, <2>5 DEF RetryGateAtExit, TypeOK
<1>10. CASE FailGateAtExit
  BY <1>10 DEF FailGateAtExit, Fail, TypeOK, MemoryTypeOK, memory, durable
<1>11. CASE StageError
  BY <1>11 DEF StageError, Fail, TypeOK, MemoryTypeOK, memory, durable
<1>12. ASSUME NEW out \in Returned(cur), RetryStage(out) PROVE TypeOK'
  <2>1. out \in StageOutcome /\ results' \in ResultSet
    BY <1>12, HandlerTyped DEF RetryStage
  <2>2. Visited(cur, out) \in [Node -> Visit] /\ Applied(pctx, out) \in [CtxKey -> STRING]
    BY <2>1, VisitedTyped, AppliedTyped DEF TypeOK, MemoryTypeOK
  <2>3. MemoryTypeOK'
    <3>1. counters' \in [Node -> Nat]
      BY <1>12 DEF RetryStage, Charge, TypeOK, MemoryTypeOK
    <3>2. completed' \in SUBSET Node
      BY <1>12 DEF RetryStage, TypeOK, MemoryTypeOK
    <3>3. latest' \in [Node -> Visit] /\ pctx' \in [CtxKey -> STRING]
      BY <1>12, <2>2 DEF RetryStage
    <3> QED BY <2>1, <3>1, <3>2, <3>3 DEF MemoryTypeOK
  <2>4. disk' \in Checkpoint \cup {NoCheckpoint}
    BY <1>12, <2>3, SaveTyped DEF RetryStage, TypeOK
  <2> QED BY <1>12, <2>3, <2>4 DEF RetryStage, TypeOK
<1>13. ASSUME NEW out \in Returned(cur), FailGate(out) PROVE TypeOK'
  <2>1. out \in StageOutcome /\ results' \in ResultSet
    BY <1>13, HandlerTyped DEF FailGate
  <2>2. Visited(cur, out) \in [Node -> Visit] /\ Applied(pctx, out) \in [CtxKey -> STRING]
    BY <2>1, VisitedTyped, AppliedTyped DEF TypeOK, MemoryTypeOK
  <2>3. MemoryTypeOK'
    BY <1>13, <2>1, <2>2 DEF FailGate, TypeOK, MemoryTypeOK
  <2> QED BY <1>13, <2>3 DEF FailGate, Fail, TypeOK, durable
<1>14. ASSUME NEW out \in Returned(cur), StageDone(out), Completes(out)
       PROVE  out \in StageOutcome /\ MemoryTypeOK' /\ (stage' \in Node \cup {Unset})
  <2>1. out \in StageOutcome /\ results' \in ResultSet
    BY <1>14, HandlerTyped DEF StageDone
  <2>2. MemoryTypeOK'
    BY <1>14, <2>1, CompletesTyped DEF StageDone, TypeOK, MemoryTypeOK
  <2> QED BY <1>14, <2>1, <2>2 DEF StageDone, TypeOK
<1>15. ASSUME NEW out \in Returned(cur), JumpAhead(out) PROVE TypeOK'
  <2>1. Jump(cur) \in Node
    BY <1>15, JumpIsNode DEF JumpAhead
  <2>2. MemoryTypeOK' /\ stage' \in Node \cup {Unset}
    BY <1>14, <1>15 DEF JumpAhead
  <2>3. disk' \in Checkpoint \cup {NoCheckpoint}
    BY <1>15, <2>1, <2>2, SaveTyped DEF JumpAhead, GoTo
  <2> QED BY <1>15, <2>1, <2>2, <2>3 DEF JumpAhead, GoTo, StageDone, TypeOK
<1>16. ASSUME NEW out \in Returned(cur), FollowEdge(out) PROVE TypeOK'
  <2>1. out \in StageOutcome /\ MemoryTypeOK' /\ stage' \in Node \cup {Unset}
    BY <1>14, <1>16 DEF FollowEdge
  <2> DEFINE next == Edges[SelectedEdge(out)].to
  <2>2. next \in Node
    BY <1>16, <2>1, SelectedIsEdge DEF FollowEdge
  <2>3. disk' \in Checkpoint \cup {NoCheckpoint}
    BY <1>16, <2>1, <2>2, SaveTyped DEF FollowEdge, GoTo
  <2> QED BY <1>16, <2>1, <2>2, <2>3 DEF FollowEdge, GoTo, StageDone, TypeOK
<1>17. ASSUME NEW out \in Returned(cur), StopAtSink(out) PROVE TypeOK'
  <2>1. MemoryTypeOK' /\ stage' \in Node \cup {Unset}
    BY <1>14, <1>17 DEF StopAtSink
  <2> QED BY <1>17, <2>1 DEF StopAtSink, StageDone, TypeOK
<1>18. CASE BackoffEnds
  BY <1>18 DEF BackoffEnds, TypeOK, MemoryTypeOK, memory, durable
<1>19. CASE SaveFinal
  <2>1. MemoryTypeOK'
    BY <1>19 DEF SaveFinal, TypeOK, MemoryTypeOK, memory
  <2>2. disk' \in Checkpoint \cup {NoCheckpoint}
    BY <1>19, <2>1, SaveTyped DEF SaveFinal
  <2> QED BY <1>19, <2>1, <2>2 DEF SaveFinal, TypeOK
<1>20. CASE WriteManifest
  BY <1>20 DEF WriteManifest, TypeOK, MemoryTypeOK, memory
<1>21. CASE HandlerStep
  <2>1. pctx' \in [CtxKey -> STRING] /\ results' \in ResultSet
    BY <1>21, HandlerStepTyped
  <2>2. UNCHANGED <<pc, cur, canceled, counters, completed, latest, stage, durable, runs>>
    BY <1>21, HandlerStepLeaves
  <2> QED BY <2>1, <2>2 DEF TypeOK, MemoryTypeOK, durable
<1> QED
  BY <1>1, <1>2, <1>3, <1>4, <1>5, <1>6, <1>7, <1>8, <1>9, <1>10, <1>11, <1>12, <1>13,
     <1>15, <1>16, <1>17, <1>18, <1>19, <1>20, <1>21
     DEF Next, EngineStep, HandlerEnds

\* Every variable stays in its range.
THEOREM TypeCorrect == Spec => []TypeOK
BY InitTyped, NextTyped, PTL DEF Spec

-----------------------------------------------------------------------------
(***************************************************************************)
(* The retry budget.  RetryBudget is inductive: a stage is charged only    *)
(* with retries left, a visit is numbered by the counter, and a checkpoint *)
(* holds counters and visits of the memory.                                *)
(***************************************************************************)
LEMMA BudgetIsNat == \A n \in Node : Budget(n) \in Nat
BY GraphTypes DEF Budget

\* Nothing is charged in a fresh memory.
LEMMA FreshWithinBudget == WithinBudget(NoRetries, NoVisits)
BY BudgetIsNat DEF WithinBudget, NoRetries, NoVisits, Unvisited

\* One more retry is within the budget of a stage that has some left.
LEMMA ChargeWithinBudget ==
    ASSUME TypeOK, WithinBudget(counters, latest), NEW n \in Node, RetriesLeft(n), Charge(n)
    PROVE  \A m \in Node : counters'[m] <= Budget(m)
<1>1. \A m \in Node : counters'[m] = IF m = n THEN counters[m] + 1 ELSE counters[m]
  BY DEF Charge, TypeOK, MemoryTypeOK
<1>2. counters[n] \in Nat /\ MaxRetries(n) \in Int
  BY GraphTypes DEF TypeOK, MemoryTypeOK
<1>3. counters[n] + 1 <= Budget(n)
  BY <1>2 DEF RetriesLeft, Budget
<1> QED BY <1>1, <1>3 DEF WithinBudget

\* A visit is numbered within the budget.
LEMMA VisitedWithinBudget ==
    ASSUME TypeOK, WithinBudget(counters, latest), NEW out
    PROVE  \A n \in Node : Visited(cur, out)[n].attempt <= Budget(n) + 1
<1>1. \A n \in Node : Visited(cur, out)[n] =
                        IF n = cur THEN [status |-> out.status, attempt |-> counters[cur] + 1]
                        ELSE latest[n]
  BY DEF Visited, TypeOK, MemoryTypeOK
<1>2. counters[cur] \in Nat /\ cur \in Node
  BY DEF TypeOK, MemoryTypeOK
<1> QED BY <1>1, <1>2, BudgetIsNat DEF WithinBudget

\* So are the visits of a stage that is done and of its branches.
LEMMA CompletesWithinBudget ==
    ASSUME TypeOK, WithinBudget(counters, latest), NEW out, Completes(out),
           UNCHANGED counters
    PROVE  WithinBudget(counters', latest')
<1>1. \A n \in Node : \/ latest'[n].attempt = 1
                       \/ latest'[n] = Visited(cur, out)[n]
  BY DEF Completes, BranchesDone, OnlyStageDone, ChildrenDone
<1>2. \A n \in Node : latest'[n].attempt <= Budget(n) + 1
  BY <1>1, VisitedWithinBudget, BudgetIsNat
<1> QED BY <1>2 DEF WithinBudget

\* A checkpoint of a memory within the budget is within the budget.
LEMMA SaveWithinBudget ==
    ASSUME RetryBudget, WithinBudget(counters', latest'), NEW node, SaveCheckpoint(node)
    PROVE  RetryBudget'
BY DEF SaveCheckpoint, RetryBudget, WithinBudget

LEMMA BudgetStep == TypeOK /\ RetryBudget /\ [Next]_vars => RetryBudget'
<1> SUFFICES ASSUME TypeOK, RetryBudget, [Next]_vars PROVE RetryBudget'
  OBVIOUS
<1>0. WithinBudget(counters, latest)
  BY DEF RetryBudget
<1>1. ASSUME UNCHANGED <<counters, latest, disk>> PROVE RetryBudget'
  BY <1>1 DEF RetryBudget, WithinBudget
<1>2. CASE StartFresh
  BY <1>2, FreshWithinBudget DEF StartFresh, StartProcess, ForgetMemory, RetryBudget
<1>3. CASE Resume
  BY <1>3 DEF Resume, StartProcess, RetryBudget
<1>4. CASE Crash
  BY <1>4, FreshWithinBudget DEF Crash, durable, ForgetMemory, RetryBudget
<1>5. CASE AcceptExit
  <2>1. \A n \in Node : latest'[n].attempt = 1 \/ latest'[n] = latest[n]
    BY <1>5 DEF AcceptExit, TypeOK, MemoryTypeOK
  <2>2. WithinBudget(counters', latest')
    BY <1>5, <1>0, <2>1, BudgetIsNat DEF AcceptExit, WithinBudget
  <2> QED BY <1>5, <2>2 DEF AcceptExit, durable, RetryBudget
<1>6. CASE RetryGateAtExit
  <2> DEFINE gate == CheckGoalGates(latest)
  <2>1. gate \in Node
    BY <1>6, GoalGateFound DEF RetryGateAtExit
  <2>2. \A m \in Node : counters'[m] <= Budget(m)
    BY <1>0, <1>6, <2>1, ChargeWithinBudget DEF RetryGateAtExit
  <2>3. WithinBudget(counters', latest')
    BY <1>0, <1>6, <2>2 DEF RetryGateAtExit, WithinBudget
  <2>4. SaveCheckpoint(gate)
    BY <1>6 DEF RetryGateAtExit
  <2> HIDE DEF gate
  <2> QED BY <2>3, <2>4, SaveWithinBudget
<1>7. ASSUME NEW out \in Returned(cur), RetryStage(out) PROVE RetryBudget'
  <2>1. \A m \in Node : counters'[m] <= Budget(m)
    BY <1>0, <1>7, ChargeWithinBudget DEF RetryStage, TypeOK
  <2>2. WithinBudget(counters', latest')
    BY <1>0, <1>7, <2>1, VisitedWithinBudget DEF RetryStage, WithinBudget
  <2> QED BY <1>7, <2>2, SaveWithinBudget DEF RetryStage
<1>8. ASSUME NEW out \in Returned(cur), FailGate(out) PROVE RetryBudget'
  <2>1. WithinBudget(counters', latest')
    BY <1>0, <1>8, VisitedWithinBudget DEF FailGate, WithinBudget
  <2> QED BY <1>8, <2>1 DEF FailGate, Fail, durable, RetryBudget
<1>9. ASSUME NEW out \in Returned(cur), StageDone(out), Completes(out)
      PROVE  WithinBudget(counters', latest')
  BY <1>0, <1>9, CompletesWithinBudget DEF StageDone
<1>10. ASSUME NEW out \in Returned(cur), JumpAhead(out) PROVE RetryBudget'
  BY <1>9, <1>10, SaveWithinBudget DEF JumpAhead, GoTo
<1>11. ASSUME NEW out \in Returned(cur), FollowEdge(out) PROVE RetryBudget'
  BY <1>9, <1>11, SaveWithinBudget DEF FollowEdge, GoTo
<1>12. ASSUME NEW out \in Returned(cur), StopAtSink(out) PROVE RetryBudget'
  BY <1>9, <1>12 DEF StopAtSink, RetryBudget
<1>13. CASE SaveFinal
  BY <1>0, <1>13, SaveWithinBudget DEF SaveFinal, memory
<1>14. CASE Cancel \/ StopOnCancel \/ BeginStage \/ BackoffEnds
  BY <1>1, <1>14 DEF Cancel, StopOnCancel, BeginStage, BackoffEnds, memory, durable
<1>15. CASE FailGateAtExit \/ StageError \/ WriteManifest \/ UNCHANGED vars
  BY <1>1, <1>15 DEF FailGateAtExit, StageError, WriteManifest, Fail, vars, memory, durable
<1>16. CASE HandlerStep
  BY <1>1, <1>16, HandlerStepLeaves DEF durable
<1> QED
  BY <1>2, <1>3, <1>4, <1>5, <1>6, <1>7, <1>8, <1>10, <1>11, <1>12, <1>13, <1>14, <1>15, <1>16
     DEF Next, EngineStep, HandlerEnds

\* No stage is ever charged more retries than max_retries allows, whatever
\* crashes, resumes, fails to be written or fails to be read.
THEOREM RetriesBounded == Spec => []RetryBudget
<1>1. Init => RetryBudget
  BY FreshWithinBudget DEF Init, FreshMemory, RetryBudget
<1>2. TypeOK /\ RetryBudget /\ [Next]_vars => RetryBudget'
  BY BudgetStep
<1> QED BY <1>1, <1>2, TypeCorrect, PTL DEF Spec

-----------------------------------------------------------------------------
(***************************************************************************)
(* Goal gates.  A run that has ended at an exit stage has passed           *)
(* AcceptExit: a handler is never executed at an exit stage.               *)
(***************************************************************************)
ExitsNotExecuted == pc \in {"exec", "backoff"} => ~IsExit(cur)

LEMMA GatesStep ==
    TypeOK /\ GatesHold /\ ExitsNotExecuted /\ [Next]_vars
        => GatesHold' /\ ExitsNotExecuted'
<1> SUFFICES ASSUME TypeOK, GatesHold, ExitsNotExecuted, [Next]_vars
             PROVE  GatesHold' /\ ExitsNotExecuted'
  OBVIOUS
<1> USE DEF GatesHold, ExitsNotExecuted, IsExit
<1>1. CASE StartFresh \/ Resume \/ Crash
  BY <1>1 DEF StartFresh, Resume, Crash, StartProcess
<1>2. CASE Cancel \/ StopOnCancel \/ BeginStage \/ BackoffEnds
  BY <1>2 DEF Cancel, StopOnCancel, BeginStage, BackoffEnds, AtLoop, memory
<1>3. CASE AcceptExit
  <2>1. \A n \in Gates : IsSuccess(latest[n].status)
    BY <1>3, GoalGateFound DEF AcceptExit
  <2>2. \A n \in Gates : IsSuccess(latest'[n].status)
    BY <1>3, <2>1 DEF AcceptExit, TypeOK, MemoryTypeOK, Gates, IsSuccess
  <2> QED BY <1>3, <2>2 DEF AcceptExit
<1>4. CASE RetryGateAtExit \/ FailGateAtExit \/ StageError
  BY <1>4 DEF RetryGateAtExit, FailGateAtExit, StageError, Fail, AtLoop
<1>5. ASSUME NEW out \in Returned(cur), RetryStage(out) \/ FailGate(out)
      PROVE  GatesHold' /\ ExitsNotExecuted'
  BY <1>5 DEF RetryStage, FailGate, Fail
<1>6. ASSUME NEW out \in Returned(cur), JumpAhead(out) \/ FollowEdge(out) \/ StopAtSink(out)
      PROVE  GatesHold' /\ ExitsNotExecuted'
  BY <1>6 DEF JumpAhead, FollowEdge, StopAtSink, StageDone, GoTo
<1>7. CASE SaveFinal \/ WriteManifest \/ UNCHANGED vars
  BY <1>7 DEF SaveFinal, WriteManifest, vars, memory
<1>8. CASE HandlerStep
  BY <1>8, HandlerStepLeaves
<1> QED BY <1>1, <1>2, <1>3, <1>4, <1>5, <1>6, <1>7, <1>8 DEF Next, EngineStep, HandlerEnds

\* A run that completes at an exit stage has every goal gate satisfied.
THEOREM GatesEnforced == Spec => []GatesHold
<1>1. Init => GatesHold /\ ExitsNotExecuted
  BY DEF Init, GatesHold, ExitsNotExecuted
<1>2. TypeOK /\ GatesHold /\ ExitsNotExecuted /\ [Next]_vars
        => GatesHold' /\ ExitsNotExecuted'
  BY GatesStep
<1> QED BY <1>1, <1>2, TypeCorrect, PTL DEF Spec

-----------------------------------------------------------------------------
(***************************************************************************)
(* Crash recovery, as long as the run directory can be written and read.   *)
(***************************************************************************)
NoFaults == ~SaveFaults /\ ~LoadFaults

\* Without faults a checkpoint is a record of the memory.
LEMMA SaveIsRecord ==
    ASSUME NoFaults, MemoryTypeOK', NEW node \in Node \cup {Unset}, SaveCheckpoint(node)
    PROVE  /\ disk' # NoCheckpoint
           /\ disk' = [current |-> node, counters |-> counters', completed |-> completed',
                       latest |-> latest', pctx |-> pctx', results |-> results']
<1>1. disk' = [current |-> node, counters |-> counters', completed |-> completed',
               latest |-> latest', pctx |-> pctx', results |-> results']
  BY DEF SaveCheckpoint, NoFaults
<1>2. disk' \in Checkpoint
  BY <1>1 DEF Checkpoint, MemoryTypeOK
<1> QED BY <1>1, <1>2, EngineAssumption DEF NoCheckpoint

LEMMA SaveKeepsMemory ==
    ASSUME NoFaults, MemoryTypeOK', NEW node \in Node, SaveCheckpoint(node), cur' = node
    PROVE  CheckpointIsMemory' /\ ResumesInFlight'
<1>1. /\ disk' # NoCheckpoint
      /\ disk' = [current |-> node, counters |-> counters', completed |-> completed',
                  latest |-> latest', pctx |-> pctx', results |-> results']
  BY SaveIsRecord
<1>2. CheckpointIsMemory'
  BY <1>1 DEF CheckpointIsMemory, Saved
<1>3. ResumesInFlight'
  BY <1>1, GraphTypes DEF ResumesInFlight, ResumePoint
<1> QED BY <1>2, <1>3

\* A stage that is done and a stage that is retried leave a checkpoint of the
\* memory that names the stage the engine goes on with.
LEMMA StageStepKeepsMemory ==
    ASSUME NoFaults, TypeOK, TypeOK', NEW out \in Returned(cur),
           RetryStage(out) \/ JumpAhead(out) \/ FollowEdge(out)
    PROVE  CheckpointIsMemory' /\ ResumesInFlight'
<1>1. MemoryTypeOK' /\ cur' \in Node /\ cur \in Node
  BY DEF TypeOK
<1>2. CASE RetryStage(out)
  BY <1>1, <1>2, SaveKeepsMemory DEF RetryStage
<1>3. CASE JumpAhead(out)
  BY <1>1, <1>3, SaveKeepsMemory DEF JumpAhead, GoTo
<1>4. CASE FollowEdge(out)
  BY <1>1, <1>4, SaveKeepsMemory DEF FollowEdge, GoTo
<1> QED BY <1>2, <1>3, <1>4

\* What was not written by a stage the handler executes is as it was saved; the
\* stages a handler executes depend on the current stage only.
LEMMA MemoryStep ==
    ASSUME NoFaults, TypeOK, TypeOK', CheckpointIsMemory, [Next]_vars
    PROVE  CheckpointIsMemory'
<1>1. CASE StartFresh
  BY <1>1 DEF StartFresh, StartProcess, ForgetMemory, CheckpointIsMemory, Saved, NoFaults
<1>2. CASE Resume
  BY <1>2 DEF Resume, StartProcess, CheckpointIsMemory, Saved
<1>3. CASE Crash \/ StopOnCancel \/ AcceptExit \/ FailGateAtExit \/ StageError
           \/ SaveFinal \/ WriteManifest
  BY <1>3 DEF Crash, StopOnCancel, AcceptExit, FailGateAtExit, StageError, Fail,
              SaveFinal, WriteManifest, CheckpointIsMemory
<1>4. CASE Cancel \/ BeginStage \/ BackoffEnds \/ UNCHANGED vars
  <2>1. UNCHANGED <<cur, memory, disk>> /\ pc \in Running \cup Stopped
    BY <1>4 DEF Cancel, BeginStage, BackoffEnds, vars, durable, TypeOK
  <2>2. pc' \in {"loop", "exec", "backoff"} => pc \in {"loop", "exec", "backoff"}
    BY <1>4 DEF Cancel, BeginStage, BackoffEnds, AtLoop, vars
  <2>3. pc' = "exec" \/ pc # "exec"
    BY <1>4 DEF Cancel, BeginStage, BackoffEnds, AtLoop, vars
  <2>4. UNCHANGED Saved
    BY <2>1 DEF Saved
  <2>5. LeftByInnerFanOut => LeftByInnerFanOut'
    BY <2>1, <2>3 DEF LeftByInnerFanOut, memory
  <2>6. ASSUME NEW k \in CtxKey PROVE WrittenByChild(k) => WrittenByChild(k)'
    BY <2>1, <2>3 DEF WrittenByChild, memory
  <2> QED BY <2>1, <2>2, <2>4, <2>5, <2>6 DEF CheckpointIsMemory, memory
<1>5. CASE RetryGateAtExit
  <2> DEFINE gate == CheckGoalGates(latest)
  <2>1. gate \in Node /\ SaveCheckpoint(gate)
    BY <1>5, GoalGateFound DEF RetryGateAtExit
  <2>2. MemoryTypeOK'
    BY DEF TypeOK
  <2> HIDE DEF gate
  <2>3. /\ disk' # NoCheckpoint
        /\ disk' = [current |-> gate, counters |-> counters', completed |-> completed',
                    latest |-> latest', pctx |-> pctx', results |-> results']
    BY <2>1, <2>2, SaveIsRecord
  <2> QED BY <2>3 DEF CheckpointIsMemory, Saved
<1>6. ASSUME NEW out \in Returned(cur),
             RetryStage(out) \/ JumpAhead(out) \/ FollowEdge(out)
      PROVE  CheckpointIsMemory'
  BY <1>6, StageStepKeepsMemory
<1>7. ASSUME NEW out \in Returned(cur), FailGate(out) \/ StopAtSink(out)
      PROVE  CheckpointIsMemory'
  BY <1>7 DEF FailGate, StopAtSink, Fail, CheckpointIsMemory
<1>8. CASE HandlerStep
  <2>1. /\ pc = "exec" /\ pc' = "exec" /\ UNCHANGED Saved
        /\ UNCHANGED <<cur, counters, completed, latest>>
    BY <1>8, HandlerStepLeaves DEF Saved, durable
  <2>2. \A k \in CtxKey : pctx'[k] = pctx[k] \/ WrittenByChild(k)'
    BY <1>8, <2>1 DEF HandlerStep, ChildMerges, InnerFanOutEnds, Merge, WrittenByChild
  <2>3. ASSUME NEW k \in CtxKey, pctx'[k] = pctx[k], WrittenByChild(k)
        PROVE  WrittenByChild(k)'
    BY <2>1, <2>3 DEF WrittenByChild
  <2>4. \A k \in CtxKey : pctx'[k] = Saved'.pctx[k] \/ WrittenByChild(k)'
    BY <2>1, <2>2, <2>3 DEF CheckpointIsMemory
  <2>5. results' = results \/ LeftByInnerFanOut'
    <3>1. CASE ChildMerges
      BY <3>1 DEF ChildMerges
    <3>2. CASE InnerFanOutEnds
      <4>1. PICK n \in (FanOuts \cap Executed[cur]) \ {cur} : results' \in FanOutResults(n)
        BY <3>2 DEF InnerFanOutEnds
      <4>2. results' \in [Successors(n) -> Result]
        BY <4>1, FanOutResultsAreResults
      <4> QED BY <2>1, <4>1, <4>2 DEF LeftByInnerFanOut
    <3> QED BY <1>8, <3>1, <3>2 DEF HandlerStep
  <2>6. results' = Saved'.results \/ LeftByInnerFanOut'
    BY <2>1, <2>5 DEF CheckpointIsMemory, LeftByInnerFanOut
  <2> QED BY <2>1, <2>4, <2>6 DEF CheckpointIsMemory
<1> QED BY <1>1, <1>2, <1>3, <1>4, <1>5, <1>6, <1>7, <1>8 DEF Next, EngineStep, HandlerEnds

\* Whenever the engine waits, a crash takes back nothing but what stages wrote
\* that the handler it waits for executes itself (engine.go, execute and
\* saveCheckpoint).
THEOREM CrashLosesLittle ==
    ASSUME NoFaults
    PROVE  Spec => []CheckpointIsMemory
<1>1. Init => CheckpointIsMemory
  BY DEF Init, CheckpointIsMemory
<1>2. TypeOK /\ TypeOK' /\ CheckpointIsMemory /\ [Next]_vars => CheckpointIsMemory'
  BY MemoryStep
<1> QED BY <1>1, <1>2, TypeCorrect, PTL DEF Spec

\* The gates' retry targets are why a resumed run may begin elsewhere.
NoRetryTargets == \A n \in Node : ResolveRetryTarget(n) = Unset

LEMMA ResumeStep ==
    ASSUME NoFaults, NoRetryTargets, TypeOK, TypeOK', ResumesInFlight, [Next]_vars
    PROVE  ResumesInFlight'
<1> USE DEF ResumesInFlight
<1>1. CASE StartFresh \/ Resume
  BY <1>1 DEF StartFresh, Resume, StartProcess, ResumePoint, NoFaults
<1>2. CASE Crash \/ StopOnCancel \/ FailGateAtExit \/ StageError \/ SaveFinal \/ WriteManifest
  BY <1>2 DEF Crash, StopOnCancel, FailGateAtExit, StageError, Fail, SaveFinal, WriteManifest
<1>3. CASE Cancel \/ BeginStage \/ AcceptExit \/ BackoffEnds \/ UNCHANGED vars
  BY <1>3 DEF Cancel, BeginStage, AcceptExit, BackoffEnds, AtLoop, vars, durable, ResumePoint
<1>4. CASE RetryGateAtExit
  <2> DEFINE gate == CheckGoalGates(latest)
  <2>1. gate \in Node /\ SaveCheckpoint(gate)
    BY <1>4, GoalGateFound DEF RetryGateAtExit
  <2>2. cur' = gate
    BY <1>4, <2>1 DEF RetryGateAtExit, NoRetryTargets
  <2>3. MemoryTypeOK'
    BY DEF TypeOK
  <2> HIDE DEF gate
  <2> QED BY <2>1, <2>2, <2>3, SaveKeepsMemory
<1>5. ASSUME NEW out \in Returned(cur),
             RetryStage(out) \/ JumpAhead(out) \/ FollowEdge(out)
      PROVE  ResumesInFlight'
  BY <1>5, StageStepKeepsMemory
<1>6. ASSUME NEW out \in Returned(cur), FailGate(out)
      PROVE  ResumesInFlight'
  BY <1>6 DEF FailGate, Fail
<1>7. ASSUME NEW out \in Returned(cur), StopAtSink(out)
      PROVE  ResumesInFlight'
  BY <1>7 DEF StopAtSink, StageDone, ResumePoint
<1>8. CASE HandlerStep
  BY <1>8, HandlerStepLeaves DEF durable, ResumePoint
<1> QED BY <1>1, <1>2, <1>3, <1>4, <1>5, <1>6, <1>7, <1>8 DEF Next, EngineStep, HandlerEnds

\* Without retry targets a resumed run begins at the stage that was
\* interrupted.
THEOREM ResumesWhereInterrupted ==
    ASSUME NoFaults, NoRetryTargets
    PROVE  Spec => []ResumesInFlight
<1>1. Init => ResumesInFlight
  BY DEF Init, ResumesInFlight
<1>2. TypeOK /\ TypeOK' /\ ResumesInFlight /\ [Next]_vars => ResumesInFlight'
  BY ResumeStep
<1> QED BY <1>1, <1>2, TypeCorrect, PTL DEF Spec

-----------------------------------------------------------------------------
(***************************************************************************)
(* Goal gates are satisfied when the engine moves on from them.            *)
(***************************************************************************)
\* A gate whose visit no branch writes again: a fan-out has branches, and none
\* of them is the fan-out itself.
VisitedByItself(n) ==
    Attr[n].type = "parallel" => Successors(n) # {} /\ n \notin Successors(n)

\* Such a gate is left with the status its handler returned, and without
\* allow_partial only a success lets the engine go on.
LEMMA GateLeftSatisfied ==
    ASSUME TypeOK, cur \in Gates, ~Attr[cur].allowPartial, VisitedByItself(cur),
           NEW out \in Returned(cur), StageDone(out), Completes(out)
    PROVE  IsSuccess(latest'[cur].status)
<1>1. cur \in Node /\ Attr[cur].goalGate
  BY DEF Gates
<1>2. out.status \in StageStatus
  BY HandlerTyped DEF StageDone, StageOutcome
<1>3. out.status # "FAIL"
  BY <1>1 DEF StageDone, RetryWanted, GateFailed, Settled
<1>4. out.status # "RETRY"
  BY <1>1 DEF StageDone, RetryWanted, GateFailed, Settled
<1>5. latest'[cur] = Visited(cur, out)[cur]
  <2>1. CASE Attr[cur].type = "parallel" /\ results' # Unset
    <3>1. results' \in FanOutResults(cur)
      BY <2>1 DEF StageDone, HandlerReturns, VisitedByItself
    <3>2. DOMAIN results' = Successors(cur)
      BY <3>1 DEF FanOutResults, JoinedResults
    <3>3. cur \notin DOMAIN results'
      BY <2>1, <3>2 DEF VisitedByItself
    <3>4. latest' = [n \in Node |->
                        IF n \in DOMAIN results'
                        THEN [status |-> results'[n].status, attempt |-> 1]
                        ELSE Visited(cur, out)[n]]
      BY <2>1 DEF Completes, BranchesDone
    <3> QED BY <1>1, <3>3, <3>4
  <2>2. CASE ~(Attr[cur].type = "parallel" /\ results' # Unset)
    BY <2>2 DEF Completes, ChildrenDone, OnlyStageDone
  <2> QED BY <2>1, <2>2
<1>6. latest'[cur].status = out.status
  BY <1>1, <1>5 DEF Visited, TypeOK, MemoryTypeOK
<1> QED BY <1>2, <1>3, <1>4, <1>6 DEF IsSuccess, StageStatus

\* If no goal gate accepts a partial result, the engine never moves on from a
\* gate the exit will reject (engine.go, execute).  A fan-out needs branches
\* other than itself: their visits, or those an earlier fan-out left behind,
\* are written after its own (handleParallelComplete).
THEOREM GatesAreLeftSatisfied ==
    ASSUME \A n \in Gates : ~Attr[n].allowPartial /\ VisitedByItself(n)
    PROVE  Spec => GatePassedSatisfied
<1> DEFINE Left == pc = "exec" /\ pc' \in {"loop", "finalize"} /\ cur \in Gates =>
                      IsSuccess(latest'[cur].status)
<1>1. TypeOK /\ [Next]_vars => [Left]_vars
  <2> SUFFICES ASSUME TypeOK, [Next]_vars, pc = "exec", pc' \in {"loop", "finalize"}, cur \in Gates
               PROVE  IsSuccess(latest'[cur].status)
    OBVIOUS
  <2>1. \E out \in Returned(cur) : JumpAhead(out) \/ FollowEdge(out) \/ StopAtSink(out)
    BY DEF Next, EngineStep, HandlerEnds, StopOnCancel, BeginStage, AcceptExit, RetryGateAtExit,
           FailGateAtExit, BackoffEnds, SaveFinal, WriteManifest, StartFresh, Resume, StartProcess,
           Stopped, Crash, Cancel, HandlerStep, ChildMerges, InnerFanOutEnds, StageError,
           RetryStage, FailGate, Fail, AtLoop, vars
  <2> QED BY <2>1, GateLeftSatisfied DEF JumpAhead, FollowEdge, StopAtSink
<1> QED BY <1>1, TypeCorrect, PTL DEF Spec, GatePassedSatisfied

-----------------------------------------------------------------------------
(***************************************************************************)
(* Durable progress, as long as the checkpoint can be read: a running      *)
(* process is never behind the checkpoint.                                 *)
(***************************************************************************)
AtLeast(done, retries) ==
    disk # NoCheckpoint =>
        /\ disk.completed \subseteq done
        /\ \A n \in Node : disk.counters[n] <= retries[n]

NotBehind == pc \in Running => AtLeast(completed, counters)

Progress ==
    disk # NoCheckpoint =>
        /\ disk' # NoCheckpoint
        /\ disk.completed \subseteq disk'.completed
        /\ \A n \in Node : disk.counters[n] <= disk'.counters[n]

\* The checkpoint that is there is typed, so its counters are numbers.
LEMMA CountersOnDisk ==
    ASSUME TypeOK, disk # NoCheckpoint
    PROVE  \A n \in Node : disk.counters[n] \in Nat
BY DEF TypeOK, Checkpoint

LEMMA UnchangedDiskProgress ==
    ASSUME TypeOK, UNCHANGED disk
    PROVE  Progress
BY CountersOnDisk DEF Progress

LEMMA SaveProgress ==
    ASSUME TypeOK, TypeOK', NEW node \in Node \cup {Unset}, SaveCheckpoint(node),
           AtLeast(completed', counters')
    PROVE  Progress /\ NotBehind'
<1>1. CASE UNCHANGED disk
  BY <1>1, UnchangedDiskProgress DEF AtLeast, NotBehind
<1>2. CASE disk' = [current |-> node, counters |-> counters', completed |-> completed',
                    latest |-> latest', pctx |-> pctx', results |-> results']
  <2>1. disk' \in Checkpoint /\ disk' # NoCheckpoint
    BY <1>2, EngineAssumption DEF Checkpoint, TypeOK, MemoryTypeOK, NoCheckpoint
  <2>2. \A n \in Node : counters'[n] \in Nat
    BY DEF TypeOK, MemoryTypeOK
  <2> QED BY <1>2, <2>1, <2>2 DEF AtLeast, Progress, NotBehind
<1> QED BY <1>1, <1>2 DEF SaveCheckpoint

LEMMA ProgressStep ==
    ASSUME ~LoadFaults, TypeOK, TypeOK', NotBehind, [Next]_vars
    PROVE  Progress /\ NotBehind'
<1>1. CASE StartFresh
  BY <1>1, UnchangedDiskProgress DEF StartFresh, StartProcess, NotBehind, AtLeast
<1>2. CASE Resume
  BY <1>2, UnchangedDiskProgress, CountersOnDisk DEF Resume, StartProcess, NotBehind, AtLeast
<1>3. CASE Crash
  BY <1>3, UnchangedDiskProgress DEF Crash, durable, NotBehind, Running
<1>4. ASSUME pc \in Running, UNCHANGED <<counters, disk>>, completed \subseteq completed'
      PROVE  Progress /\ NotBehind'
  BY <1>4, UnchangedDiskProgress DEF NotBehind, AtLeast
<1>5. CASE Cancel \/ StopOnCancel \/ BeginStage \/ BackoffEnds
  BY <1>4, <1>5 DEF Cancel, StopOnCancel, BeginStage, BackoffEnds, AtLoop, memory, durable, Running
<1>6. CASE AcceptExit \/ FailGateAtExit \/ StageError \/ WriteManifest
  BY <1>4, <1>6 DEF AcceptExit, FailGateAtExit, StageError, Fail, WriteManifest, AtLoop,
                    memory, durable, Running
<1>7. ASSUME NEW n \in Node, Charge(n), pc \in Running, UNCHANGED completed
      PROVE  AtLeast(completed', counters')
  <2>1. \A m \in Node : counters[m] <= counters'[m] /\ counters[m] \in Nat /\ counters'[m] \in Nat
    BY <1>7 DEF Charge, TypeOK, MemoryTypeOK
  <2> QED BY <1>7, <2>1, CountersOnDisk DEF NotBehind, AtLeast
<1>8. CASE RetryGateAtExit
  <2> DEFINE gate == CheckGoalGates(latest)
  <2>1. gate \in Node /\ SaveCheckpoint(gate) /\ Charge(gate)
    BY <1>8, GoalGateFound DEF RetryGateAtExit
  <2>2. pc \in Running /\ UNCHANGED completed
    BY <1>8 DEF RetryGateAtExit, AtLoop, Running
  <2> HIDE DEF gate
  <2> QED BY <1>7, <2>1, <2>2, SaveProgress
<1>9. ASSUME NEW out \in Returned(cur), RetryStage(out)
      PROVE  Progress /\ NotBehind'
  <2>1. cur \in Node /\ SaveCheckpoint(cur) /\ Charge(cur)
    BY <1>9 DEF RetryStage, TypeOK
  <2>2. pc \in Running /\ UNCHANGED completed
    BY <1>9 DEF RetryStage, Running
  <2> QED BY <1>7, <2>1, <2>2, SaveProgress
<1>10. ASSUME NEW out \in Returned(cur), FailGate(out)
       PROVE  Progress /\ NotBehind'
  BY <1>4, <1>10 DEF FailGate, Fail, durable, Running
<1>11. ASSUME NEW out \in Returned(cur), StageDone(out), Completes(out)
       PROVE  pc \in Running /\ completed \subseteq completed' /\ UNCHANGED counters
  BY <1>11 DEF StageDone, Completes, BranchesDone, OnlyStageDone, ChildrenDone, Running
<1>12. ASSUME NEW out \in Returned(cur), JumpAhead(out) \/ FollowEdge(out)
       PROVE  Progress /\ NotBehind'
  <2>1. AtLeast(completed', counters')
    BY <1>11, <1>12 DEF JumpAhead, FollowEdge, NotBehind, AtLeast
  <2>2. SaveCheckpoint(cur') /\ cur' \in Node
    BY <1>12 DEF JumpAhead, FollowEdge, GoTo, TypeOK
  <2> QED BY <2>1, <2>2, SaveProgress
<1>13. ASSUME NEW out \in Returned(cur), StopAtSink(out)
       PROVE  Progress /\ NotBehind'
  BY <1>4, <1>11, <1>13 DEF StopAtSink
<1>14. CASE SaveFinal
  <2>1. SaveCheckpoint(Unset) /\ AtLeast(completed', counters')
    BY <1>14 DEF SaveFinal, memory, NotBehind, AtLeast, Running
  <2> QED BY <2>1, SaveProgress
<1>15. CASE UNCHANGED vars
  BY <1>15, UnchangedDiskProgress DEF vars, memory, durable, NotBehind, AtLeast
<1>16. CASE HandlerStep
  BY <1>4, <1>16, HandlerStepLeaves DEF durable, Running
<1> QED
  BY <1>1, <1>2, <1>3, <1>5, <1>6, <1>8, <1>9, <1>10, <1>12, <1>13, <1>14, <1>15, <1>16
     DEF Next, EngineStep, HandlerEnds

\* No checkpoint takes back what an earlier one recorded, even if some could
\* not be written.
THEOREM ProgressIsDurable ==
    ASSUME ~LoadFaults
    PROVE  Spec => DurableProgress
<1>1. Init => NotBehind
  BY DEF Init, NotBehind, Running
<1>2. TypeOK /\ TypeOK' /\ NotBehind /\ [Next]_vars => Progress /\ NotBehind'
  BY ProgressStep
<1>3. Progress => [disk # NoCheckpoint =>
          /\ disk' # NoCheckpoint
          /\ disk.completed \subseteq disk'.completed
          /\ \A n \in Node : disk.counters[n] <= disk'.counters[n]]_vars
  BY DEF Progress
<1> QED BY <1>1, <1>2, <1>3, TypeCorrect, PTL DEF Spec, DurableProgress

-----------------------------------------------------------------------------
(***************************************************************************)
(* Refinement: under the same assumptions every step of the engine is a    *)
(* step of PipelineRun or a stutter.                                       *)
(***************************************************************************)
EndsAtAnEnd == pc = "finalize" => cur \in ExitNodes \cup Sinks

LEMMA EndsStep == TypeOK /\ EndsAtAnEnd /\ [Next]_vars => EndsAtAnEnd'
<1> SUFFICES ASSUME TypeOK, EndsAtAnEnd, [Next]_vars PROVE EndsAtAnEnd'
  OBVIOUS
<1> USE DEF EndsAtAnEnd
<1>1. CASE StartFresh \/ Resume \/ Crash
  BY <1>1 DEF StartFresh, Resume, Crash, StartProcess
<1>2. CASE Cancel \/ StopOnCancel \/ BeginStage \/ BackoffEnds
  BY <1>2 DEF Cancel, StopOnCancel, BeginStage, BackoffEnds
<1>3. CASE AcceptExit \/ RetryGateAtExit \/ FailGateAtExit \/ StageError
  BY <1>3 DEF AcceptExit, RetryGateAtExit, FailGateAtExit, StageError, Fail, AtLoop, IsExit
<1>4. ASSUME NEW out \in Returned(cur),
             RetryStage(out) \/ FailGate(out) \/ JumpAhead(out) \/ FollowEdge(out)
      PROVE  EndsAtAnEnd'
  BY <1>4 DEF RetryStage, FailGate, Fail, JumpAhead, FollowEdge, GoTo
<1>5. ASSUME NEW out \in Returned(cur), StopAtSink(out) PROVE EndsAtAnEnd'
  <2>1. out \in StageOutcome
    BY <1>5, HandlerTyped DEF StopAtSink, StageDone
  <2>2. OutEdges(cur) = {}
    BY <1>5, <2>1, SelectedIsEdge DEF StopAtSink
  <2> QED BY <1>5, <2>2 DEF StopAtSink, Sinks, TypeOK
<1>6. CASE SaveFinal \/ WriteManifest \/ UNCHANGED vars
  BY <1>6 DEF SaveFinal, WriteManifest, vars
<1>7. CASE HandlerStep
  BY <1>7, HandlerStepLeaves
<1> QED BY <1>1, <1>2, <1>3, <1>4, <1>5, <1>6, <1>7 DEF Next, EngineStep, HandlerEnds

\* The step an engine takes from stage to stage is a move of the pipeline.
LEMMA StageMoves ==
    ASSUME NoFaults, TypeOK, TypeOK', NEW out \in Returned(cur),
           RetryStage(out) \/ JumpAhead(out) \/ FollowEdge(out)
    PROVE  <<cur, cur'>> \in Moves
<1>1. cur \in Node
  BY DEF TypeOK
<1>2. CASE RetryStage(out)
  BY <1>1, <1>2 DEF RetryStage, Moves, FanOuts
<1>3. CASE JumpAhead(out)
  BY <1>1, <1>3 DEF JumpAhead, GoTo, Jump, Moves, FanOuts, Loops
<1>4. CASE FollowEdge(out)
  <2>1. out \in StageOutcome
    BY <1>4, HandlerTyped DEF FollowEdge, StageDone
  <2>2. SelectedEdge(out) \in DOMAIN Edges /\ Edges[SelectedEdge(out)].from = cur
    BY <1>4, <2>1, SelectedIsEdge DEF FollowEdge, OutEdges
  <2> QED BY <1>4, <2>2 DEF FollowEdge, GoTo, Moves, FanOuts
<1> QED BY <1>2, <1>3, <1>4

LEMMA PromiseStep ==
    ASSUME NoFaults, NoRetryTargets, TypeOK, TypeOK', ResumesInFlight, ResumesInFlight',
           EndsAtAnEnd, [Next]_vars
    PROVE  [Promise!Next]_(Promise!vars)
<1>0. cur \in Node /\ cur' \in Node
  BY DEF TypeOK
<1> USE DEF Active, Promise!Next, Promise!vars
\* A step of a process that goes on: to another stage, or in place.
<1>1. ASSUME Active, Active', <<cur, cur'>> \in Moves \/ UNCHANGED <<cur, disk>>
      PROVE  [Promise!Next]_(Promise!vars)
  <2>1. ResumePoint = cur /\ ResumePoint' = cur'
    BY <1>1 DEF ResumesInFlight
  <2> QED BY <1>0, <1>1, <2>1 DEF Promise!Move, ResumePoint
\* A process that ends without success keeps its place.
<1>2. ASSUME ~Active', UNCHANGED disk
      PROVE  [Promise!Next]_(Promise!vars)
  BY <1>2 DEF Promise!Stop, ResumePoint
<1>3. CASE StartFresh \/ Resume
  <2>1. ~Active /\ Active' /\ UNCHANGED disk
    BY <1>3 DEF StartFresh, Resume, StartProcess, Stopped
  <2>2. ResumePoint' = ResumePoint /\ cur' = ResumePoint
    BY <1>3, <2>1 DEF StartFresh, Resume, ResumePoint, NoFaults
  <2> QED BY <2>1, <2>2 DEF Promise!Begin
<1>4. CASE Crash \/ StopOnCancel \/ FailGateAtExit \/ StageError
  BY <1>2, <1>4 DEF Crash, StopOnCancel, FailGateAtExit, StageError, Fail, durable
<1>5. CASE BeginStage \/ AcceptExit \/ BackoffEnds
  BY <1>1, <1>5 DEF BeginStage, AcceptExit, BackoffEnds, AtLoop, durable
<1>6. CASE RetryGateAtExit
  <2> DEFINE gate == CheckGoalGates(latest)
  <2>1. gate # Unset /\ gate \in Node
    BY <1>6, GoalGateFound DEF RetryGateAtExit
  <2>2. gate \in Gates
    BY <2>1, ReportedIsGate
  <2>3. cur' = gate
    BY <1>6, <2>1 DEF RetryGateAtExit, NoRetryTargets
  <2>4. cur \in ExitNodes /\ pc = "loop" /\ pc' = "loop"
    BY <1>6 DEF RetryGateAtExit, AtLoop, IsExit
  <2> HIDE DEF gate
  <2>5. <<cur, cur'>> \in Moves
    BY <2>2, <2>3, <2>4 DEF Moves, FanOuts
  <2> QED BY <1>1, <2>4, <2>5
<1>7. ASSUME NEW out \in Returned(cur),
             RetryStage(out) \/ JumpAhead(out) \/ FollowEdge(out)
      PROVE  [Promise!Next]_(Promise!vars)
  <2>1. Active /\ Active'
    BY <1>7 DEF RetryStage, JumpAhead, FollowEdge, StageDone, GoTo
  <2> QED BY <1>1, <1>7, <2>1, StageMoves
<1>8. ASSUME NEW out \in Returned(cur), FailGate(out)
      PROVE  [Promise!Next]_(Promise!vars)
  BY <1>2, <1>8 DEF FailGate, Fail, durable
<1>9. ASSUME NEW out \in Returned(cur), StopAtSink(out)
      PROVE  [Promise!Next]_(Promise!vars)
  BY <1>1, <1>9 DEF StopAtSink, StageDone
<1>10. CASE SaveFinal
  <2>1. MemoryTypeOK' /\ SaveCheckpoint(Unset)
    BY <1>10 DEF SaveFinal, TypeOK
  <2>2. disk'.current = Unset
    BY <2>1, SaveIsRecord
  <2>3. ResumePoint' = StartNode
    BY <2>2 DEF ResumePoint
  <2>4. Active /\ ~Active' /\ cur \in ExitNodes \cup Sinks
    BY <1>10 DEF SaveFinal, EndsAtAnEnd
  <2> QED BY <2>3, <2>4 DEF Promise!Succeed
<1>11. CASE WriteManifest
  BY <1>2, <1>11 DEF WriteManifest
<1>12. CASE Cancel \/ UNCHANGED vars
  BY <1>12 DEF Cancel, vars, durable, ResumePoint
<1>13. CASE HandlerStep
  BY <1>13, HandlerStepLeaves DEF durable, ResumePoint
<1> QED
  BY <1>3, <1>4, <1>5, <1>6, <1>7, <1>8, <1>9, <1>10, <1>11, <1>12, <1>13
     DEF Next, EngineStep, HandlerEnds

\* The engine keeps what PipelineRun promises.
THEOREM EngineKeepsPromise ==
    ASSUME NoFaults, NoRetryTargets
    PROVE  Spec => KeepsPromise
<1>1. Init => Promise!Init
  BY DEF Init, Promise!Init, Active, ResumePoint
<1>2. Init => EndsAtAnEnd
  BY DEF Init, EndsAtAnEnd
<1>3. TypeOK /\ EndsAtAnEnd /\ [Next]_vars => EndsAtAnEnd'
  BY EndsStep
<1>4. TypeOK /\ TypeOK' /\ ResumesInFlight /\ ResumesInFlight' /\ EndsAtAnEnd /\ [Next]_vars
        => [Promise!Next]_(Promise!vars)
  BY PromiseStep
<1> QED
  BY <1>1, <1>2, <1>3, <1>4, TypeCorrect, ResumesWhereInterrupted, PTL
     DEF Spec, KeepsPromise, Promise!Spec
=============================================================================
