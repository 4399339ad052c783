----------------------------- MODULE Validation -----------------------------
(***************************************************************************)
(* The rules a parsed pipeline is checked by (internal/attractor/validate/ *)
(* rules.go).  A graph is what DotParser builds; a diagnostic is a rule    *)
(* that has something to say, an error or a warning.                       *)
(***************************************************************************)
EXTENDS Attributes, Integers, Sequences, FiniteSets, SequencesExt

CONSTANTS
    MalformedConditions,   \* values of the attribute condition that do not parse
    KnownTypes,            \* handler types of the registry
    Modes                  \* fidelity modes

NodeIds(g) == ToSet(g.nodes)

\* strconv.ParseBool
IsTrue(value) == value \in {"1", "t", "T", "true", "TRUE", "True"}

Shaped(g, shape) == {n \in NodeIds(g) : Get(g.attrs[n], "shape") = shape}
Starts(g) == Shaped(g, "Mdiamond")
Exits(g)  == Shaped(g, "Msquare")

From(g, n) == {e \in DOMAIN g.edges : g.edges[e].from = n}
To(g, n)   == {e \in DOMAIN g.edges : g.edges[e].to = n}

\* StartNode: the first one declared.
Start(g) == g.nodes[Min({i \in DOMAIN g.nodes : g.nodes[i] \in Starts(g)})]

\* The walk along the edges, as many steps as there are nodes.
Walk(g) ==
    LET walked[n \in 0..Len(g.nodes)] ==
            IF n = 0 THEN {Start(g)}
            ELSE walked[n - 1]
                 \cup {g.edges[e].to : e \in {e \in DOMAIN g.edges : g.edges[e].from \in walked[n - 1]}}
    IN  walked[Len(g.nodes)]

-----------------------------------------------------------------------------
(***************************************************************************)
(* Rules with severity error.                                              *)
(***************************************************************************)
startNodeRule_AtLeastOne(g) == Starts(g) # {}

startNodeRule(g) == Cardinality(Starts(g)) = 1

terminalNodeRule(g) == Exits(g) # {}

\* Without a start node the next two have nothing to say.
startNoIncomingRule(g) == Starts(g) = {} \/ To(g, Start(g)) = {}

reachabilityRule(g) == Starts(g) = {} \/ NodeIds(g) \subseteq Walk(g)

exitNoOutgoingRule(g) == \A n \in Exits(g) : From(g, n) = {}

edgeTargetExistsRule(g) ==
    \A e \in DOMAIN g.edges : {g.edges[e].from, g.edges[e].to} \subseteq NodeIds(g)

conditionSyntaxRule(g) ==
    \A e \in DOMAIN g.edges : Get(g.edges[e].attrs, "condition") \notin MalformedConditions

Errors(g) ==
    {rule \in {"start_node", "terminal_node", "start_no_incoming", "reachability",
               "exit_no_outgoing", "edge_target_exists", "condition_syntax"} :
        CASE rule = "start_node"         -> ~startNodeRule(g)
          [] rule = "terminal_node"      -> ~terminalNodeRule(g)
          [] rule = "start_no_incoming"  -> ~startNoIncomingRule(g)
          [] rule = "reachability"       -> ~reachabilityRule(g)
          [] rule = "exit_no_outgoing"   -> ~exitNoOutgoingRule(g)
          [] rule = "edge_target_exists" -> ~edgeTargetExistsRule(g)
          [] rule = "condition_syntax"   -> ~conditionSyntaxRule(g)}

-----------------------------------------------------------------------------
(***************************************************************************)
(* Rules with severity warning.                                            *)
(***************************************************************************)
goalGateRetryRule(attrs) ==
    IsTrue(Get(attrs, "goal_gate")) => "max_retries" \in DOMAIN attrs

promptOnLLMRule(attrs) == Get(attrs, "type") = "codergen" => "prompt" \in DOMAIN attrs

typeKnownRule(attrs) == Get(attrs, "type") \in KnownTypes \cup {""}

fidelityValidRule(attrs) == "fidelity" \in DOMAIN attrs => attrs["fidelity"] \in Modes

retryTargetExistsRule(g, attrs) ==
    \A key \in {"retry_target", "fallback_retry_target"} :
        Get(attrs, key) \in NodeIds(g) \cup {""}

Warnings(g) ==
    LET nodes == {g.attrs[n] : n \in NodeIds(g)}
        edges == {g.edges[e].attrs : e \in DOMAIN g.edges}
    IN {rule \in {"goal_gate_has_retry", "prompt_on_llm_nodes", "type_known",
                  "fidelity_valid", "retry_target_exists"} :
        CASE rule = "goal_gate_has_retry" -> \E a \in nodes : ~goalGateRetryRule(a)
          [] rule = "prompt_on_llm_nodes" -> \E a \in nodes : ~promptOnLLMRule(a)
          [] rule = "type_known"          -> \E a \in nodes : ~typeKnownRule(a)
          [] rule = "fidelity_valid"      -> \E a \in nodes \cup edges \cup {g.set} :
                                                ~fidelityValidRule(a)
          [] rule = "retry_target_exists" -> \E a \in nodes : ~retryTargetExistsRule(g, a)}
=============================================================================
