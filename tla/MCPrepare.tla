------------------------------ MODULE MCPrepare ------------------------------
(***************************************************************************)
(* Texts over three nodes.  Start and exit may get their shape from the    *)
(* node, from a default or from the stylesheet.                            *)
(***************************************************************************)
EXTENDS Prepare

S(kind, ids, attrs) == [kind |-> kind, ids |-> ids, attrs |-> attrs]

SmallStatements == {
    S("graph", << >>, << <<"model_stylesheet", "sheet">> >>),
    S("graph", << >>, << <<"model_stylesheet", "broken">> >>),
    S("node",  << >>, << <<"shape", "Mdiamond">> >>),
    S("node",  << >>, << <<"llm_model", "small">>, <<"class", "fast">> >>),
    S("edge",  << >>, << <<"condition", "outcome=">> >>),
    S("open",  << >>, << >>),
    S("close", << >>, << >>),
    S("stage", <<"s">>, << <<"shape", "Mdiamond">> >>),
    S("stage", <<"x">>, << <<"shape", "Msquare">>, <<"llm_model", "large">> >>),
    S("stage", <<"a">>, << <<"shape", "box">>, <<"shape", "Msquare">> >>),
    S("chain", <<"s", "x">>, << >>),
    S("chain", <<"s", "a", "x">>, << >>),
    S("chain", <<"x", "a">>, << >>),
    S("chain", <<"a", "s">>, << <<"condition", "outcome=SUCCESS">> >>) }

Select(type, value) == [type |-> type, value |-> value]
Block(selector, body, closed) == [selector |-> selector, body |-> body, closed |-> closed]

SmallSheets ==
    "sheet" :> << Block(Select("#", "x"), << <<"llm_model", "huge">>, <<"shape", "Msquare">> >>, TRUE),
                  Block(Select(".", "Msquare"), << <<"effort", "low">>, <<"effort", "">> >>, TRUE),
                  Block(Select(".", "fast"), << <<"effort", "high">>, <<"llm_model", "small">> >>, TRUE),
                  Block(Select("*", ""), << <<"llm_model", "any">>, <<"effort", "any">>, <<"shape", "box">> >>, TRUE),
                  Block(Select("*", ""), << >>, TRUE) >> @@
    "broken" :> << Block(Select("*", ""), << <<"llm_model", "any">> >>, FALSE) >>

SmallClasses == "" :> <<"">> @@ "fast" :> <<"fast">>
=============================================================================
