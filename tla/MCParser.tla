------------------------------ MODULE MCParser ------------------------------
(***************************************************************************)
(* Texts for TLC: short ones of any tokens, and longer ones of the tokens  *)
(* that one part of the grammar is made of.                                *)
(***************************************************************************)
EXTENDS Parser

Text(start, tokens, length) == [start |-> start, tokens |-> tokens, length |-> length]

ArgumentTokens  == {"ident", "<", ">", ">>", "Comma", "::", "["}
StatementTokens == {"switch", "match", "if", "else", "for", "in", "LBrace", "RBrace", "ident",
                    "=>", "as"}
FunctionTokens  == {"extern", "func", "quote", "&", "ident", "(", ")", "...", "=", "Comma",
                    "prim", "LBrace", "RBrace"}

MCTexts == <<Text("compilationUnit", Tokens, 4), Text("statement", Tokens, 2),
             Text("expression", Tokens, 2), Text("type", Tokens, 3),
             Text("type", ArgumentTokens, 9), Text("expression", ArgumentTokens, 7),
             Text("statement", StatementTokens, 7), Text("declaration", FunctionTokens, 8)>>

MCBlockTexts ==
    <<Text("compilationUnit", {"func", "ident", "prim", "LBrace", "RBrace", "+", "Semicolon"}, 8)>>

MCShiftTexts ==
    <<Text("compilationUnit", {"var", "ident", ":", "=", "<", ">", ">>"}, 10)>>
=============================================================================
