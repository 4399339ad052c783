----------------------------- MODULE Attributes ------------------------------
(***************************************************************************)
(* The attributes of a node, an edge or a graph: a map from strings to     *)
(* strings (model/graph.go, Attrs), here a function from the keys that are *)
(* set.  @@ and :> of module TLC would do for the updates; they are        *)
(* spelled out because the provers do not know that module.                *)
(***************************************************************************)

NoAttrs == [key \in {} |-> ""]

Get(attrs, key) == IF key \in DOMAIN attrs THEN attrs[key] ELSE ""

Assigned(attrs, key, value) ==
    [k \in DOMAIN attrs \cup {key} |-> IF k = key THEN value ELSE attrs[k]]

\* What the first map says wins.
Merged(new, old) ==
    [k \in DOMAIN new \cup DOMAIN old |-> IF k \in DOMAIN new THEN new[k] ELSE old[k]]
=============================================================================
