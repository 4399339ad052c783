---------------------------- MODULE PipelineGraph ----------------------------
(***************************************************************************)
(* A parsed pipeline: the graph of model/graph.go with the attributes the  *)
(* engine reads, the validation rules that every executed graph has passed *)
(* (validate/rules.go, severity error), the edge selector (edge/selector.go)*)
(* with the condition evaluator (cond/cond.go), and the engine's own graph *)
(* queries (engine.go: retry targets, convergence, continuation).          *)
(*                                                                         *)
(* An edge is named by its index in Edges, which is its declaration order. *)
(***************************************************************************)
EXTENDS Integers, Sequences, FiniteSets

CONSTANTS
    NodeOrder,   \* the stages in declaration order (Graph.Nodes)
    Edges,       \* the edges in declaration order: [from, to, cond, label, weight]
    Attr,        \* Attr[n]: the attributes of stage n
    GraphAttr,   \* graph attributes: [maxRetries, retryTarget, fallbackTarget]
    CtxKey,      \* keys of the pipeline context that conditions may read
    Unset        \* an attribute, stage or edge that is not there

Node == {NodeOrder[i] : i \in DOMAIN NodeOrder}

(***************************************************************************)
(* Graph queries.                                                          *)
(***************************************************************************)
First(S) == CHOOSE i \in S : \A j \in S : i <= j

OutEdges(n)   == {i \in DOMAIN Edges : Edges[i].from = n}
InEdges(n)    == {i \in DOMAIN Edges : Edges[i].to = n}
Successors(n) == {Edges[i].to : i \in OutEdges(n)}

StartNodes == {n \in Node : Attr[n].shape = "Mdiamond"}
ExitNodes  == {n \in Node : Attr[n].shape = "Msquare"}
StartNode  == CHOOSE n \in StartNodes : TRUE
IsExit(n)  == n \in ExitNodes

Gates == {n \in Node : Attr[n].goalGate}

\* node.IntAttr("max_retries", g.IntAttr("default_max_retry", 50))
MaxRetries(n) ==
    IF Attr[n].maxRetries # Unset THEN Attr[n].maxRetries
    ELSE IF GraphAttr.maxRetries # Unset THEN GraphAttr.maxRetries ELSE 50

\* The first of the retry-target attributes that names a stage, else Unset.
RetryCandidates(n) ==
    << Attr[n].retryTarget, Attr[n].fallbackTarget,
       GraphAttr.retryTarget, GraphAttr.fallbackTarget >>

ResolveRetryTarget_Unchecked(n) ==
    LET named == {i \in 1..4 : RetryCandidates(n)[i] # Unset} IN
    IF named = {} THEN Unset ELSE RetryCandidates(n)[First(named)]

ResolveRetryTarget(n) ==
    LET named == {i \in 1..4 : RetryCandidates(n)[i] \in Node} IN
    IF named = {} THEN Unset ELSE RetryCandidates(n)[First(named)]

\* The first stage, by declaration order, that follows every child.
FindConvergence(children) ==
    LET common == {i \in DOMAIN NodeOrder :
                      \A c \in children : NodeOrder[i] \in Successors(c)} IN
    IF children = {} \/ common = {} THEN Unset ELSE NodeOrder[First(common)]

\* The first successor of the first managed child that has one.
Continuation(n) ==
    LET leading == {i \in OutEdges(n) : OutEdges(Edges[i].to) # {}} IN
    IF leading = {} THEN Unset
    ELSE Edges[First(OutEdges(Edges[First(leading)].to))].to

(***************************************************************************)
(* Conditions.  A condition is the set of its clauses; {} is no condition. *)
(* A clause reads the outcome, the preferred label, or a context key.      *)
(***************************************************************************)
Clause == [src : {"outcome", "preferred_label", "context"},
           key : STRING, op : {"=", "!=", "truthy"}, val : STRING]

Resolve(c, status, label, ctx) ==
    CASE c.src = "outcome"         -> status
      [] c.src = "preferred_label" -> label
      [] OTHER                     -> IF c.key \in CtxKey THEN ctx[c.key] ELSE ""

EvalClause(c, status, label, ctx) ==
    LET actual == Resolve(c, status, label, ctx) IN
    CASE c.op = "="  -> actual = c.val
      [] c.op = "!=" -> actual # c.val
      [] OTHER       -> actual # ""

Eval(cond, status, label, ctx) ==
    \A c \in cond : EvalClause(c, status, label, ctx)

(***************************************************************************)
(* Edge selection: five steps in order of priority.                        *)
(***************************************************************************)
Unconditional(n) == {i \in OutEdges(n) : Edges[i].cond = {}}

Matching(n, status, label, ctx) ==
    {i \in OutEdges(n) : /\ Edges[i].cond # {}
                         /\ Eval(Edges[i].cond, status, label, ctx)}

Labelled(n, label) ==
    {i \in OutEdges(n) : label # "" /\ Edges[i].label = label}

Suggested(n, ids) ==
    {k \in DOMAIN ids : ids[k] \in Successors(n)}

Heaviest(n) ==
    {i \in Unconditional(n) :
        \A j \in Unconditional(n) : Edges[i].weight >= Edges[j].weight}

Select(n, status, label, ids, ctx) ==
    IF OutEdges(n) = {} THEN Unset
    ELSE IF Matching(n, status, label, ctx) # {}
      THEN First(Matching(n, status, label, ctx))
    ELSE IF Labelled(n, label) # {} THEN First(Labelled(n, label))
    ELSE IF Suggested(n, ids) # {}
      THEN LET id == ids[First(Suggested(n, ids))]
           IN  First({i \in OutEdges(n) : Edges[i].to = id})
    ELSE IF Unconditional(n) # {} THEN First(Heaviest(n))
    ELSE First(OutEdges(n))

(***************************************************************************)
(* What the engine may rely on: the shape of the data, and the validation  *)
(* rules whose violation makes Prepare refuse the pipeline.                *)
(***************************************************************************)
WellFormed ==
    /\ NodeOrder \in Seq(STRING)
    /\ \A i, j \in DOMAIN NodeOrder : NodeOrder[i] = NodeOrder[j] => i = j
    /\ Unset \notin Node /\ Unset \notin Int
    /\ DOMAIN Attr = Node
    /\ \A n \in Node : /\ Attr[n].goalGate \in BOOLEAN
                       /\ Attr[n].allowPartial \in BOOLEAN
                       /\ Attr[n].maxRetries \in Int \cup {Unset}
    /\ GraphAttr.maxRetries \in Int \cup {Unset}
    /\ DOMAIN Edges = 1..Len(Edges)
    /\ \A i \in DOMAIN Edges : Edges[i].weight \in Int

EdgeTargetExists == \A i \in DOMAIN Edges : {Edges[i].from, Edges[i].to} \subseteq Node
StartNodeRule    == Cardinality(StartNodes) = 1
TerminalNode     == ExitNodes # {}
StartNoIncoming  == \A n \in StartNodes : InEdges(n) = {}
ExitNoOutgoing   == \A n \in ExitNodes : OutEdges(n) = {}

\* Reachability: the only set of stages that holds the start and is closed
\* under the edges is the whole graph.
Reachability ==
    \A S \in SUBSET Node :
        (/\ StartNodes \subseteq S
         /\ \A i \in DOMAIN Edges : Edges[i].from \in S => Edges[i].to \in S)
        => S = Node

GraphAssumption ==
    /\ WellFormed
    /\ EdgeTargetExists /\ StartNodeRule /\ TerminalNode
    /\ StartNoIncoming /\ ExitNoOutgoing /\ Reachability

ASSUME ValidGraph == GraphAssumption
=============================================================================
