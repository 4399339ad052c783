------------------------------ MODULE DotParser ------------------------------
(***************************************************************************)
(* The parser of pipelines (internal/attractor/dot/parser.go) and what it  *)
(* does to the graph it builds (model/graph.go), one action per kind of    *)
(* statement.  The text is read statement by statement: which comes next   *)
(* is free, and so is a place where the tokens do not fit the grammar.     *)
(* Tokens and their characters (dot/lexer.go) are left out.                *)
(*                                                                         *)
(* An attribute list is a sequence of <<key, value>> pairs, in the order   *)
(* written.                                                                *)
(***************************************************************************)
EXTENDS Attributes, Integers, Sequences, FiniteSets, SequencesExt

CONSTANTS
    Statements,      \* [kind, ids, attrs]: what a text may consist of
    MaxStatements    \* bound: statements of a text

\* A statement names one node, a chain of nodes, or none.
ASSUME ParserAssumption ==
    /\ MaxStatements \in Nat
    /\ \A stmt \in Statements :
          /\ stmt.kind \in {"graph", "node", "edge", "open", "close", "stage", "chain"}
          /\ stmt.ids \in Seq(STRING) /\ stmt.attrs \in Seq(STRING \X STRING)
          /\ stmt.kind = "stage" => Len(stmt.ids) = 1
          /\ stmt.kind = "chain" => Len(stmt.ids) >= 2
          /\ stmt.kind \notin {"stage", "chain"} => stmt.ids = <<>>

VARIABLES
    parsing,    \* "reading", "parsed", "error"
    text,       \* history: the statements read
    graph,      \* [nodes, attrs, edges, set]: Nodes, their Attrs, Edges, the graph's Attrs
    defaults    \* the defaultAttrs of the scopes entered, the innermost last

parserVars == <<parsing, text, graph, defaults>>

\* One pair after the other: later ones win.
AttrList(pairs) ==
    LET read[n \in 0..Len(pairs)] ==
            IF n = 0 THEN NoAttrs ELSE Assigned(read[n - 1], pairs[n][1], pairs[n][2])
    IN  read[Len(pairs)]

Scope == defaults[Len(defaults)]

ParserInit ==
    /\ parsing = "reading" /\ text = <<>>
    /\ graph = [nodes |-> <<>>, attrs |-> NoAttrs, edges |-> <<>>, set |-> NoAttrs]
    /\ defaults = << [node |-> NoAttrs, edge |-> NoAttrs] >>

-----------------------------------------------------------------------------
(***************************************************************************)
(* The graph.                                                              *)
(***************************************************************************)
\* AddNode: the attributes of a node that is there already are merged.
AddNode(g, id, attrs) ==
    IF id \in DOMAIN g.attrs THEN [g EXCEPT !.attrs[id] = Merged(attrs, @)]
    ELSE [g EXCEPT !.nodes = Append(@, id), !.attrs = Assigned(@, id, attrs)]

\* A node that an edge names for the first time.
EnsureNode(g, id) ==
    IF id \in DOMAIN g.attrs THEN g ELSE AddNode(g, id, Scope.node)

EnsureNodes(g, ids) ==
    LET after[n \in 0..Len(ids)] == IF n = 0 THEN g ELSE EnsureNode(after[n - 1], ids[n])
    IN  after[Len(ids)]

AddEdges(g, ids, attrs) ==
    [g EXCEPT !.edges = @ \o [i \in 1..Len(ids) - 1 |->
                                 [from |-> ids[i], to |-> ids[i + 1], attrs |-> attrs]]]

-----------------------------------------------------------------------------
(***************************************************************************)
(* Statements.                                                             *)
(***************************************************************************)
Reads(stmt) ==
    /\ parsing = "reading" /\ Len(text) < MaxStatements
    /\ text' = Append(text, stmt)
    /\ UNCHANGED parsing

\* graph [...] and key = value
GraphAttrStmt(stmt) ==
    /\ stmt.kind = "graph" /\ Reads(stmt)
    /\ graph' = [graph EXCEPT !.set = Merged(AttrList(stmt.attrs), @)]
    /\ UNCHANGED defaults

\* node [...] and edge [...]
DefaultsStmt(stmt) ==
    /\ stmt.kind \in {"node", "edge"} /\ Reads(stmt)
    /\ defaults' = [defaults EXCEPT ![Len(defaults)][stmt.kind] =
                                          Merged(AttrList(stmt.attrs), @)]
    /\ UNCHANGED graph

\* A subgraph starts with a copy of the defaults around it.
OpenSubgraph(stmt) ==
    /\ stmt.kind = "open" /\ Reads(stmt)
    /\ defaults' = Append(defaults, Scope)
    /\ UNCHANGED graph

CloseSubgraph_Leaks(stmt) ==
    /\ stmt.kind = "close" /\ Len(defaults) > 1 /\ Reads(stmt)
    /\ defaults' = Append(SubSeq(defaults, 1, Len(defaults) - 2), Scope)
    /\ UNCHANGED graph

CloseSubgraph(stmt) ==
    /\ stmt.kind = "close" /\ Len(defaults) > 1 /\ Reads(stmt)
    /\ defaults' = Front(defaults)
    /\ UNCHANGED graph

NodeStmt(stmt) ==
    /\ stmt.kind = "stage" /\ Reads(stmt)
    /\ graph' = AddNode(graph, stmt.ids[1], Merged(AttrList(stmt.attrs), Scope.node))
    /\ UNCHANGED defaults

\* a -> b -> c [...]: the attributes apply to every edge of the chain.
EdgeStmt(stmt) ==
    /\ stmt.kind = "chain" /\ Reads(stmt)
    /\ graph' = AddEdges(EnsureNodes(graph, stmt.ids), stmt.ids,
                         Merged(AttrList(stmt.attrs), Scope.edge))
    /\ UNCHANGED defaults

Statement ==
    \E stmt \in Statements :
        \/ GraphAttrStmt(stmt) \/ DefaultsStmt(stmt)
        \/ OpenSubgraph(stmt) \/ CloseSubgraph(stmt)
        \/ NodeStmt(stmt) \/ EdgeStmt(stmt)

\* expect: the next token fits no statement, or not the one begun.
UnexpectedToken ==
    /\ parsing = "reading" /\ parsing' = "error"
    /\ UNCHANGED <<text, graph, defaults>>

\* The brace that closes the digraph; in a subgraph the text ends too early.
EndOfDigraph ==
    /\ parsing = "reading"
    /\ parsing' = IF Len(defaults) = 1 THEN "parsed" ELSE "error"
    /\ UNCHANGED <<text, graph, defaults>>

Parse == Statement \/ UnexpectedToken \/ EndOfDigraph

-----------------------------------------------------------------------------
(***************************************************************************)
(* What a text means, without a parser.                                    *)
(***************************************************************************)
Depth(i) == Cardinality({j \in 1..i - 1 : text[j].kind = "open"})
            - Cardinality({j \in 1..i - 1 : text[j].kind = "close"})

\* Is what is said at j still in force at i?
InScope(j, i) == j < i /\ \A k \in j..i : Depth(k) >= Depth(j)

Gives(i, key) == \E k \in DOMAIN text[i].attrs : text[i].attrs[k][1] = key
Given(i, key) ==
    text[i].attrs[Max({k \in DOMAIN text[i].attrs : text[i].attrs[k][1] = key})][2]

Defaulting(kind, i, key) ==
    {j \in DOMAIN text : text[j].kind = kind /\ InScope(j, i) /\ Gives(j, key)}

Names(i) == ToSet(text[i].ids)
FirstNamed(i, id) == id \in Names(i) /\ \A j \in 1..i - 1 : id \notin Names(j)

\* The statements that give a node, or an edge, a value for the key: its own,
\* or a default.
WritesNode(id, key) ==
    {i \in DOMAIN text :
        /\ id \in Names(i)
        /\ \/ text[i].kind = "stage" /\ Gives(i, key)
           \/ /\ text[i].kind = "stage" \/ FirstNamed(i, id)
              /\ Defaulting("node", i, key) # {}}

WritesEdge(i, key) == Gives(i, key) \/ Defaulting("edge", i, key) # {}

Own == [node |-> "stage", edge |-> "chain"]
Written(kind, i, key) ==
    IF text[i].kind = Own[kind] /\ Gives(i, key) THEN Given(i, key)
    ELSE Given(Max(Defaulting(kind, i, key)), key)

EdgesOf(i) == [k \in 1..Len(text[i].ids) - 1 |-> <<text[i].ids[k], text[i].ids[k + 1], i>>]
WrittenEdges ==
    FlattenSeq([i \in DOMAIN text |-> IF text[i].kind = "chain" THEN EdgesOf(i) ELSE <<>>])

Keys == UNION {{pair[1] : pair \in ToSet(text[i].attrs)} : i \in DOMAIN text}

WritesGraph(key) == {i \in DOMAIN text : text[i].kind = "graph" /\ Gives(i, key)}

MeaningOfText(g) ==
    /\ ToSet(g.nodes) = UNION {Names(i) : i \in DOMAIN text}
    /\ IsInjective(g.nodes)
    /\ \A id \in ToSet(g.nodes) :
        g.attrs[id] = [key \in {k \in Keys : WritesNode(id, k) # {}} |->
                          Written("node", Max(WritesNode(id, key)), key)]
    /\ g.edges = [e \in DOMAIN WrittenEdges |->
        LET w == WrittenEdges[e] IN
        [from |-> w[1], to |-> w[2],
         attrs |-> [key \in {k \in Keys : WritesEdge(w[3], k)} |->
                       Written("edge", w[3], key)]]]
    /\ g.set = [key \in {k \in Keys : WritesGraph(k) # {}} |-> Given(Max(WritesGraph(key)), key)]
=============================================================================
