------------------------------- MODULE Prepare -------------------------------
(***************************************************************************)
(* What becomes of a pipeline before it runs (engine.go, Prepare): it is   *)
(* parsed, its stylesheet is applied, it is validated and the run is       *)
(* initialised.  What is left is the graph the Engine module assumes.      *)
(***************************************************************************)
EXTENDS DotParser, Stylesheet, Validation

CONSTANTS
    Sheets,   \* Sheets[v]: the stylesheet a model_stylesheet attribute holds
    Unset     \* an attribute that is not there

\* Every stylesheet that a text may name is there.
ASSUME PrepareAssumption ==
    /\ Unset \notin STRING /\ Unset \notin Int
    /\ \A v \in DOMAIN Sheets :
          Sheets[v] \in Seq([selector : [type : {"", "*", ".", "#"}, value : STRING],
                             body : Seq(STRING \X STRING), closed : BOOLEAN])
    /\ \A stmt \in Statements : \A k \in DOMAIN stmt.attrs :
          stmt.attrs[k][1] = "model_stylesheet" => stmt.attrs[k][2] \in DOMAIN Sheets \cup {""}

VARIABLES
    phase,      \* "parse", "style", "validate", "initialize", "ready", "failed"
    parsed,     \* history: the graph before it was styled
    warnings    \* what validation logged

vars == <<parserVars, phase, parsed, warnings>>

Init ==
    /\ ParserInit
    /\ phase = "parse" /\ parsed = graph /\ warnings = {}

ParsePipeline ==
    /\ phase = "parse" /\ Parse
    /\ phase' = CASE parsing' = "parsed" -> "style" [] parsing' = "error" -> "failed"
                  [] OTHER -> phase
    /\ parsed' = graph'
    /\ UNCHANGED warnings

Sheet == IF Get(graph.set, "model_stylesheet") = "" THEN << >>
         ELSE Sheets[graph.set["model_stylesheet"]]

\* applyStylesheet
ApplyStylesheet ==
    /\ phase = "style"
    /\ \/ Malformed(Sheet) /\ phase' = "failed" /\ UNCHANGED graph
       \/ /\ ~Malformed(Sheet) /\ phase' = "validate"
          /\ graph' = [graph EXCEPT !.attrs =
                [n \in NodeIds(graph) |-> Styled(Rules(Sheet), n, graph.attrs[n])]]
    /\ UNCHANGED <<parsing, text, defaults, parsed, warnings>>

\* validate: an error stops the run, a warning is logged.
Validate ==
    /\ phase = "validate"
    /\ phase' = IF Errors(graph) = {} THEN "initialize" ELSE "failed"
    /\ warnings' = Warnings(graph)
    /\ UNCHANGED <<parserVars, parsed>>

\* initialize: the run directory, the recorder, a checkpoint to resume from.
Initialize ==
    /\ phase = "initialize" /\ phase' \in {"ready", "failed"}
    /\ UNCHANGED <<parserVars, parsed, warnings>>

Next == ParsePipeline \/ ApplyStylesheet \/ Validate \/ Initialize

Spec == Init /\ [][Next]_vars

-----------------------------------------------------------------------------
(***************************************************************************)
(* The pipeline as the engine reads it.                                    *)
(***************************************************************************)
EngineAttr(attrs) ==
    [shape |-> Get(attrs, "shape"), type |-> Get(attrs, "type"),
     goalGate |-> IsTrue(Get(attrs, "goal_gate")),
     allowPartial |-> IsTrue(Get(attrs, "allow_partial")),
     maxRetries |-> Unset,
     retryTarget |-> Get(attrs, "retry_target"),
     fallbackTarget |-> Get(attrs, "fallback_retry_target")]

Pipeline == INSTANCE PipelineGraph WITH
    NodeOrder <- graph.nodes,
    Attr      <- [n \in NodeIds(graph) |-> EngineAttr(graph.attrs[n])],
    Edges     <- [e \in DOMAIN graph.edges |->
                    [from |-> graph.edges[e].from, to |-> graph.edges[e].to,
                     cond |-> {}, label |-> Get(graph.edges[e].attrs, "label"), weight |-> 0]],
    GraphAttr <- [maxRetries |-> Unset, retryTarget |-> Get(graph.set, "retry_target"),
                  fallbackTarget |-> Get(graph.set, "fallback_retry_target")],
    CtxKey    <- {}

-----------------------------------------------------------------------------
(***************************************************************************)
(* Properties.                                                             *)
(***************************************************************************)
\* The graph is what the text says, in a sense that needs no parser: a node has
\* for each key the value of the last statement that names it with one, or the
\* default in force there if that statement has none, and defaults end with
\* their subgraph; the edges are those of the chains, one after the other.
ParsedAsWritten == parsing # "error" => MeaningOfText(parsed)

\* A pipeline that may run is one the engine was written for: all that the
\* Engine module assumes of its graph holds, whatever text it came from, and
\* every condition can be evaluated.
PreparedIsValid ==
    phase \in {"initialize", "ready"} =>
        /\ Pipeline!GraphAssumption
        /\ \A e \in DOMAIN graph.edges :
            Get(graph.edges[e].attrs, "condition") \notin MalformedConditions

\* A node keeps every attribute the pipeline gives it; any other has the value
\* of the most specific rule that matches the node as it was written, the last
\* of these if there are several.
Deciding(n, key) ==
    {k \in MatchingRules(Rules(Sheet), n, parsed.attrs[n]) : key \in DOMAIN Rules(Sheet)[k].props}

StyleResolved ==
    phase \in {"validate", "initialize", "ready"} =>
        \A n \in NodeIds(graph) :
            /\ \A key \in DOMAIN parsed.attrs[n] : graph.attrs[n][key] = parsed.attrs[n][key]
            /\ \A key \in DOMAIN graph.attrs[n] \ DOMAIN parsed.attrs[n] :
                \E k \in Deciding(n, key) :
                    /\ graph.attrs[n][key] = Rules(Sheet)[k].props[key]
                    /\ \A j \in Deciding(n, key) \ {k} :
                        LET s == Specificity(Rules(Sheet)[j].selector)
                            t == Specificity(Rules(Sheet)[k].selector)
                        IN  s < t \/ (s = t /\ j < k)
            /\ \A key \in UNION {DOMAIN Rules(Sheet)[k].props : k \in DOMAIN Rules(Sheet)} :
                Deciding(n, key) # {} => key \in DOMAIN graph.attrs[n]
=============================================================================
