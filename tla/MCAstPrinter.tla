--------------------------- MODULE MCAstPrinter ---------------------------
(***************************************************************************)
(* AstPrinter with callers that build a few nodes: one that rewrites its   *)
(* tree, and others whose trees have the kinds that the printer treats in  *)
(* ways of their own beside each other.                                    *)
(***************************************************************************)
EXTENDS AstPrinter

Builds(kinds) == [kinds |-> kinds, rewrites |-> FALSE]

MCOffers ==
    {[kinds |-> <<"leaf", "typed", "plain">>, rewrites |-> TRUE],
     Builds(<<"leaf", "leaf", "matchCase">>),
     Builds(<<"leaf", "primitive", "leaf", "forStmt">>),
     Builds(<<"string", "leaf", "stringExpr", "typed">>),
     Builds(<<"leaf", "leaf", "plain", "plain">>)}

MCFilters == {{}, {"leaf"}}
=============================================================================
