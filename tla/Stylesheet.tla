----------------------------- MODULE Stylesheet -----------------------------
(***************************************************************************)
(* Model stylesheets (internal/attractor/style/stylesheet.go).  The text   *)
(* of a sheet is a sequence of blocks, [selector, body, closed]: a body is *)
(* a sequence of <<property, value>> pairs, "" where something is missing. *)
(* A selector is [type, value]; the classes of a node are a sequence.      *)
(***************************************************************************)
EXTENDS Attributes, Integers, Sequences, FiniteSets, SequencesExt

CONSTANT Classes   \* Classes[v]: the names in a class attribute, a comma-separated
                   \* list; an empty text holds one name, the empty one

Specificity(selector) ==
    CASE selector.type = "*" -> 0 [] selector.type = "." -> 1 [] selector.type = "#" -> 2

Matches(selector, id, attrs) ==
    CASE selector.type = "*" -> TRUE
      [] selector.type = "#" -> id = selector.value
      [] selector.type = "." -> \/ Get(attrs, "shape") = selector.value
                                \/ \E k \in DOMAIN Classes[Get(attrs, "class")] :
                                      Classes[Get(attrs, "class")][k] = selector.value

Malformed(sheet) == \E k \in DOMAIN sheet : sheet[k].selector.type = "" \/ ~sheet[k].closed

\* parseProperties: an incomplete line is skipped, later ones win.
Properties(body) ==
    LET props[n \in 0..Len(body)] ==
            IF n = 0 THEN NoAttrs
            ELSE IF "" \in {body[n][1], body[n][2]} THEN props[n - 1]
            ELSE Assigned(props[n - 1], body[n][1], body[n][2])
    IN  props[Len(body)]

\* ParseStylesheet: rules without properties are left out.
Rules(sheet) ==
    LET rules[n \in 0..Len(sheet)] ==
            IF n = 0 THEN <<>>
            ELSE LET props == Properties(sheet[n].body) IN
                 IF DOMAIN props = {} THEN rules[n - 1]
                 ELSE Append(rules[n - 1], [selector |-> sheet[n].selector, props |-> props])
    IN  rules[Len(sheet)]

MatchingRules(rules, id, attrs) == {k \in DOMAIN rules : Matches(rules[k].selector, id, attrs)}

\* The properties of the chosen rules on top of others, later ones winning.
InOrder(rules, chosen, props) ==
    LET merged[n \in 0..Len(rules)] ==
            IF n = 0 THEN props
            ELSE IF n \in chosen THEN Merged(rules[n].props, merged[n - 1]) ELSE merged[n - 1]
    IN  merged[Len(rules)]

\* Resolve: sorted by specificity, and in the order of the sheet among equals.
Resolve_InOrder(rules, id, attrs) == InOrder(rules, MatchingRules(rules, id, attrs), NoAttrs)

Resolve(rules, id, attrs) ==
    LET Of(s) == {k \in MatchingRules(rules, id, attrs) : Specificity(rules[k].selector) = s}
    IN  InOrder(rules, Of(2), InOrder(rules, Of(1), InOrder(rules, Of(0), NoAttrs)))

\* Apply: what a node says itself stays.
Styled(rules, id, attrs) == Merged(attrs, Resolve(rules, id, attrs))
=============================================================================
