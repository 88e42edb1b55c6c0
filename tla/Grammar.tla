------------------------------ MODULE Grammar ------------------------------
(***************************************************************************)
(* The parse functions of Parser (src/src/frontend/parser.cpp) as the      *)
(* sequences of steps they take: what they check, consume, call, report    *)
(* and return.  Module Parser runs them on a stack.                        *)
(*                                                                         *)
(* Every way out of a parse function is here, the tree it builds is not.   *)
(* Tokens that no parse function tells apart share a name: "literal" is    *)
(* any literal but a string, "prim" a primitive type but bool and auto,    *)
(* "var" also const, "break" also continue, "return" also yield, and an    *)
(* operator also stands for those of its level ("+" for -, "/" for %,      *)
(* "==" for !=, "<=" for >=, "++" for --, "op=" for the assignments that   *)
(* compute).  Braces, comma and semicolon have the names TokenKind gives   *)
(* them (token.hpp), "quote" is the backtick and "other" any token that no *)
(* parse function asks for.                                                *)
(***************************************************************************)
EXTENDS Sequences

Tokens == {"ident", "literal", "string", "LString", "RString", "prim", "bool",
           "=", "op=", "?", ":", "||", "|", "^", "==", "<", "<=", ">", "..",
           "..<", "<<", ">>", "+", "*", "/", "++", "!", "~", "&", "&&", "as",
           "!:", "(", ")", "[", "]", "LBrace", "RBrace", "Comma", "Semicolon", ".", "&.", "...",
           "::", "=>", "->", "@", "quote", "other",
           "func", "var", "auto", "struct", "class", "enum", "type", "import",
           "test", "from", "module", "pub", "extern", "priv", "if", "else",
           "while", "for", "in", "switch", "match", "break", "defer", "return"}

EOF == "EOF"

Primitive == {"prim", "bool", "auto"}
Literal == {"literal", "string"}
AssignmentOperator == {"=", "op="}

\* what synchronize() leaves behind it, and where it stops
Separator == {"Comma", "Semicolon", "RBrace", ")", "]"}
SynchronizationPoint == Separator \cup {"func", "var", "struct", "enum", "type"}

StatementStart == {"break", "defer", "return", "LBrace", "if", "while", "for",
                   "match", "func", "var", "struct", "enum", "type"}

-----------------------------------------------------------------------------
(* Steps.  A program is a sequence of them.                                *)

Expect(k)  == <<[op |-> "expect", kind |-> k]>>   \* or report and fail
Advance    == <<[op |-> "advance"]>>
Report     == <<[op |-> "report"]>>
Fail       == <<[op |-> "fail"]>>                 \* return nullptr
Synchronize == <<[op |-> "synchronize"]>>
EnterTemplate == <<[op |-> "enter"]>>
ExitTemplate  == <<[op |-> "exit"]>>

Call(r)          == <<[op |-> "call", rule |-> r, bare |-> FALSE]>>
CallBare(r, bare) == <<[op |-> "call", rule |-> r, bare |-> bare]>>

\* the first case the token at position i is one of, i = 1 the current one
Ahead(i, cases, otherwise) ==
    <<[op |-> "select", at |-> i, cases |-> cases, otherwise |-> otherwise]>>
Select(cases, otherwise) == Ahead(1, cases, otherwise)
If(ks, then, otherwise)  == Select(<< <<ks, then>> >>, otherwise)

While(ks, body) == <<[op |-> "while", kinds |-> ks, body |-> body]>>
Until(ks, body) == <<[op |-> "until", kinds |-> ks, body |-> body]>>

\* where body fails, handler goes on
Attempt(body, handler) ==
    <<[op |-> "attempt", body |-> body, handler |-> handler]>>
Catch(handler) == <<[op |-> "catch", handler |-> handler]>>

\* the local flags of parse functions
Mark(f)    == <<[op |-> "mark", flag |-> f]>>
Clear(fs)  == <<[op |-> "clear", flags |-> fs]>>
IfMarked(f, then, otherwise) ==
    <<[op |-> "marked", flag |-> f, then |-> then, otherwise |-> otherwise]>>

Error          == Report \o Fail
When(ks, body) == If(ks, body, <<>>)
Unless(ks, body) == If(ks, <<>>, body)
Optional(k)    == When({k}, Advance)
Reject(ks)     == When(ks, Error)
Consume(ks)    == If(ks, Advance, Error)
Require(b)     == IF b THEN <<>> ELSE Error

\* a list whose last comma may be followed by the closer
TrailingList(closers, item) ==
    item \o While({"Comma"}, Advance \o Unless(closers, item))

\* a list whose last comma may not
StrictList(closer, item) ==
    item \o While({"Comma"}, Advance \o Reject({closer}) \o item)

-----------------------------------------------------------------------------
(* Expressions.  bare is withoutStructLiterals.                            *)

LeftAssociative(operand, operators, bare) ==
    CallBare(operand, bare) \o While(operators, Advance \o CallBare(operand, bare))

ParseExpression(bare) == CallBare("assignment", bare)

ParseAssignmentExpression(bare) ==
    CallBare("conditional", bare)
        \o When(AssignmentOperator, Advance \o CallBare("assignment", bare))

ParseConditionalExpression(bare) ==
    CallBare("logicalOr", bare)
        \o When({"?"}, Advance \o CallBare("expression", bare) \o Expect(":")
                          \o CallBare("conditional", bare))

ParseLogicalOrExpression(bare)  == LeftAssociative("logicalAnd", {"||"}, bare)
ParseLogicalAndExpression(bare) == LeftAssociative("bitwiseOr", {"&&"}, bare)
ParseBitwiseOrExpression(bare)  == LeftAssociative("bitwiseXor", {"|"}, bare)
ParseBitwiseXorExpression(bare) == LeftAssociative("bitwiseAnd", {"^"}, bare)
ParseBitwiseAndExpression(bare) == LeftAssociative("equality", {"&"}, bare)
ParseEqualityExpression(bare)   == LeftAssociative("relational", {"=="}, bare)
ParseRelationalExpression(bare) == LeftAssociative("range", {"<", "<=", ">"}, bare)

\* after the left side, or where there is none; the right side of .. may be
\* missing, that of ..< may not
RangeEnd(bare) ==
    Select(<< <<{".."}, Advance \o Unless({EOF, "]", "Comma", ")", "RBrace", "Semicolon"},
                                          CallBare("shift", bare))>>,
              <<{"..<"}, Advance \o CallBare("shift", bare)>> >>, <<>>)

ParseRangeExpression(bare) ==
    If({"..", "..<"}, RangeEnd(bare), CallBare("shift", bare) \o RangeEnd(bare))

ParseShiftExpression(bare)      == LeftAssociative("additive", {"<<", ">>"}, bare)
ParseAdditiveExpression(bare)   == LeftAssociative("multiplicative", {"+"}, bare)
ParseMultiplicativeExpression(bare) == LeftAssociative("cast", {"*", "/"}, bare)

ParseCastExpression(bare) ==
    CallBare("unary", bare) \o While({"as", "!:"}, Advance \o Call("type"))

ParseUnaryExpression(bare) ==
    If({"++", "+", "!", "~", "&", "&&", "^"},
       Advance \o CallBare("unary", bare), CallBare("postfix", bare))

Arguments ==
    If({")"}, Advance, TrailingList({")"}, Call("expression")) \o Expect(")"))

ParsePostfixExpression(bare) ==
    LET Postfix == Select(
          << <<{"["}, Advance \o Call("expression") \o Expect("]")>>,
             <<{"."}, Advance \o CallBare("primary", bare)>>,
             <<{"&."}, Advance \o If({"ident"}, CallBare("identifier", TRUE), Error)>>,
             <<{"("}, Advance \o Arguments>> >>, Advance)
    IN  CallBare("primary", bare) \o While({"++", "(", "[", ".", "&."}, Postfix)

ParsePrimaryExpression(bare) ==
    Select(<< <<{"..."}, Advance \o Reject({"..."})
                             \o Attempt(CallBare("postfix", bare), Error)>>,
              <<{"["}, Call("arrayLiteral")>>,
              <<IF bare THEN {} ELSE {"LBrace"}, Call("anonymousStruct")>>,
              <<{"("}, Call("tupleOrGrouped")>>,
              <<Literal, Call("literal")>>,
              <<{"LString"}, Call("interpolatedString")>>,
              <<{"::"}, Advance \o If({"ident"}, Call("pathInExpression"), Error)>>,
              <<{"ident"}, Ahead(2, << <<{"!"}, Call("macroCall")>> >>,
                                 CallBare("identifier", bare))>> >>, Error)

\* the value of an identifier or a literal is there whenever the lexer made one
ParseLiteralExpression == If(Literal, Call("literalToken"), Error)
ParseLiteralToken      == Consume(Literal)
ParseStringLiteral     == Consume({"string"})

ParseIdentifierExpression(bare) ==
    Consume({"ident"}) \o IF bare THEN <<>> ELSE When({"LBrace"}, Call("typedStruct"))

ParseMacroCall ==
    Consume({"ident"}) \o Expect("!") \o When({"("}, Advance \o Arguments)

ParseArrayLiteral ==
    Expect("[") \o If({"]"}, Advance,
                      TrailingList({"]"}, Call("expression")) \o Expect("]"))

ParseTupleOrGroupedExpression ==
    Expect("(") \o Reject({")"})
        \o TrailingList({")"}, Call("expression")) \o Expect(")")

ParseStructLiteral(typed) ==
    LET Field == Consume({"ident"}) \o When({":"}, Advance \o Call("expression"))
    IN  Expect("LBrace") \o If({"RBrace"}, Advance \o Require(typed),
                          TrailingList({"RBrace"}, Field) \o Expect("RBrace"))

ParseInterpolatedString ==
    Consume({"LString"})
        \o Until({"RString"}, If({"string"}, Advance, Call("expression")))
        \o Advance

-----------------------------------------------------------------------------
(* Types.                                                                  *)

ParseTypeExpression == Call("unionType")

ParseUnionType ==
    Call("primaryType") \o While({"|"}, Advance \o Call("primaryType"))

ParsePrimaryType ==
    Select(<< <<{"&"}, Call("referenceType")>>, <<{"*"}, Call("pointerType")>>,
              <<{"?"}, Call("optionalType")>>,  <<{"!"}, Call("resultType")>>,
              <<{"func"}, Call("functionType")>>, <<{"["}, Call("arrayType")>>,
              <<{"("}, Call("tupleType")>>, <<Primitive, Advance>>,
              <<{"ident"}, Ahead(2, << <<{".", "<"}, Call("qualifiedPath")>> >>,
                                 Advance)>> >>, Error)

\* mutant: the closing bracket may be missing
ParseArrayTypeUnclosed ==
    Expect("[") \o Unless({"]"}, Call("expression")) \o Optional("]")
        \o Call("primaryType")

ParseArrayType ==
    Expect("[") \o Unless({"]"}, Call("expression")) \o Expect("]")
        \o Call("primaryType")

ParseReferenceType == Expect("&") \o Call("primaryType")
ParsePointerType   == Expect("*") \o Call("primaryType")
ParseOptionalType  == Expect("?") \o Call("primaryType")
ParseResultType    == Expect("!") \o Call("primaryType")

ParseFunctionType ==
    Expect("func") \o Expect("(") \o Unless({")"}, StrictList(")", Call("type")))
        \o Expect(")") \o Expect("->") \o Call("type")

ParseTupleType ==
    Expect("(") \o If({")"}, Advance, StrictList(")", Call("type")) \o Expect(")"))

ParseQualifiedPath(inExpression) ==
    LET Segment == Consume({"ident"})
                     \o When({"<"}, Call(IF inExpression THEN "argumentsInExpression"
                                         ELSE "genericArguments"))
    IN  Segment \o While({"."}, Advance \o Segment)

\* mutant: a missing > leaves the lexer in the template context
ParseGenericArgumentsUnclosed(inExpression) ==
    Expect("<") \o EnterTemplate
        \o Attempt(Call("type"), ExitTemplate \o Fail) \o Expect(">") \o ExitTemplate

\* every way out but the first leaves the template context
ParseGenericArguments(inExpression) ==
    LET Leave == ExitTemplate \o Fail
        ArgumentOf(rule) == Attempt(Call(rule), Leave)
        Argument == IF inExpression
                    THEN If({"::"}, Advance \o If({"ident"}, ArgumentOf("qualifiedPath"),
                                                  Report \o Leave),
                            ArgumentOf("type"))
                    ELSE ArgumentOf("type")
    IN  Expect("<") \o EnterTemplate
          \o When({">"}, Report \o Advance \o Leave)
          \o Argument
          \o While({"Comma"}, Advance \o When({">"}, Report \o Leave) \o Argument)
          \o Attempt(Expect(">"), Leave) \o ExitTemplate

-----------------------------------------------------------------------------
(* Statements.                                                             *)

ParseStatement ==
    When({"@"}, Call("attributeList"))
        \o Select(<< <<{"break"}, Call("break")>>, <<{"LBrace"}, Call("block")>>,
                     <<{"defer"}, Call("defer")>>, <<{"return"}, Call("return")>>,
                     <<{"var", "auto"}, Call("variable")>>, <<{"if"}, Call("if")>>,
                     <<{"while"}, Call("while")>>, <<{"for"}, Call("for")>>,
                     <<{"switch"}, Call("switch")>>, <<{"match"}, Call("match")>> >>,
                  Call("expressionStatement"))

ParseBreakStatement == Expect("break") \o Optional("Semicolon")

ParseBlockStatement ==
    Expect("LBrace") \o Until({"RBrace", EOF}, Attempt(Call("statement"), Synchronize))
        \o Attempt(Expect("RBrace"), Error)

ParseDeferStatement == Expect("defer") \o Attempt(Call("statement"), Error)

\* an expression that fails does not fail the statement
ParseReturnStatement ==
    Expect("return") \o Unless({"Semicolon", EOF} \cup StatementStart,
                               Attempt(Call("expression"), <<>>))
        \o Optional("Semicolon")

ParseExpressionStatement == Call("expression") \o Optional("Semicolon")

\* a body: any statement where the condition was parenthesised, else a block
Body(parenthesised) ==
    If({"LBrace"}, Call("block"), IF parenthesised THEN Call("statement") ELSE Error)

Condition(bare) ==
    If({"var", "auto"}, Call("conditionVariable"), CallBare("expression", bare))

ParseIfStatement ==
    LET Rest(p) == Body(p) \o When({"else"}, Advance \o If({"if"}, Call("if"), Body(p)))
    IN  Expect("if") \o If({"("}, Advance \o Condition(FALSE) \o Expect(")") \o Rest(TRUE),
                           Condition(TRUE) \o Rest(FALSE))

ParseWhileStatement ==
    Expect("while")
        \o Select(<< <<{"LBrace"}, Body(FALSE)>>,
                     <<{"("}, Advance \o Condition(FALSE) \o Expect(")") \o Body(TRUE)>> >>,
                  Condition(TRUE) \o Body(FALSE))

ParseForStatement ==
    LET Over(bare) == TrailingList({"in"}, Consume({"ident"}))
                        \o Attempt(Expect("in"), Error)
                        \o CallBare("expression", bare)
                        \o When({"Comma"}, Advance \o CallBare("expression", bare))
    IN  Expect("for") \o If({"("}, Advance \o Over(FALSE) \o Expect(")") \o Body(TRUE),
                            Over(TRUE) \o Body(FALSE))

Cases(rule) ==
    Attempt(Expect("LBrace"), Error) \o Until({"RBrace", EOF}, Call(rule))
        \o Attempt(Expect("RBrace"), Error)

ParseSwitchStatement ==
    Expect("switch")
        \o If({"("}, Advance \o Condition(FALSE) \o Expect(")"), Condition(TRUE))
        \o Cases("case")

ParseCaseStatement ==
    If({"..."}, Advance, TrailingList({"=>"}, Call("expression")))
        \o Attempt(Expect("=>"), Error) \o Body(TRUE)

ParseMatchStatement ==
    Expect("match")
        \o If({"("}, Advance \o Call("expression") \o Expect(")"),
              CallBare("expression", TRUE))
        \o Cases("matchCase")

ParseMatchCaseStatement ==
    If({"..."}, Advance, TrailingList({"as", "=>"}, Call("type")))
        \o When({"as"}, Advance \o If({"ident"}, Call("identifier"), Error))
        \o Attempt(Expect("=>"), Error) \o Body(TRUE)

-----------------------------------------------------------------------------
(* Declarations.                                                           *)

\* after a comma that no name follows the list ends
ParseMoreNames == When({"Comma"}, Advance \o When({"ident"}, Advance \o Call("moreNames")))

ParseVariableDeclaration(single, isExtern) ==
    LET Initializer == Advance \o Call("expression") \o Require(~ isExtern)
    IN  Consume({"var", "auto"}) \o Consume({"ident"})
          \o (IF single THEN Reject({"Comma"}) ELSE Call("moreNames"))
          \o If({":"}, Advance \o Call("type") \o If({"="}, Initializer, Require(~ single)),
                If({"="}, Initializer, Error))
          \o Optional("Semicolon")

ParseDeclaration ==
    LET Definition(isExtern) ==
          Select(<< <<{"var", "auto"}, Call(IF isExtern THEN "externVariable" ELSE "variable")>>,
                    <<{"func"}, Call(IF isExtern THEN "externFunction" ELSE "function")>>,
                    <<{"enum"}, Require(~ isExtern) \o Call("enum")>>,
                    <<{"type"}, Require(~ isExtern) \o Call("typeDeclaration")>>,
                    <<{"struct", "class"}, Require(~ isExtern) \o Call("structOrClass")>> >>,
                 Error)
    IN  If({"import"}, Call("import"),
           When({"@"}, Call("attributeList"))
             \o Select(<< <<{"pub"}, Advance \o Definition(FALSE)>>,
                          <<{"extern"}, Advance \o Definition(TRUE)>> >>, Definition(FALSE)))

ParseFunctionParamDeclaration ==
    Optional("...") \o Consume({"ident"}) \o Attempt(Call("type"), Error)
        \o When({"="}, Advance \o Call("expression") \o Mark("defaulted"))

\* hasVariadicParam, hasDefaultParam, hasDefault and parameters.size() > 0
ListFlags == {"variadic", "defaults", "defaulted", "parameters"}

\* parameters up to the closer: none after a variadic one, none without a
\* default after one that has it
ParameterList(rule, closer) ==
    Until({closer, EOF},
        IfMarked("variadic", Error, <<>>)
          \o When({"..."}, Mark("variadic")) \o Clear({"defaulted"})
          \o Call(rule)
          \o IfMarked("defaulted", Mark("defaults"), IfMarked("defaults", Error, <<>>))
          \o Mark("parameters")
          \o Select(<< <<{"Comma"}, Advance>>, <<{closer}, <<>> >> >>, Error))

\* the operators with a name in the tables, alone or made of two or three tokens
BinaryOperator == {"+", "*", "/", "==", "<", "<=", ">", "&&", "||", "|", "^",
                   "&", "<<", ">>", "op="}

OverloadedOperator ==
    Select(<< <<{"("}, Ahead(2, << <<{")"}, Advance \o Advance>> >>, Error)>>,
              <<{"["}, Advance \o If({"]"}, Advance \o Optional("="), Error)>>,
              <<{"&", "^", "&&"}, Advance \o Mark("prefix")>>,
              <<{"&.", "..", "bool", "++"} \cup BinaryOperator, Advance>> >>, Error)

\* a failed list of generic parameters does not fail the declaration unless it
\* failed at a closing >
ParseFunctionDeclaration(isExtern) ==
    LET Outside == Require(~ isExtern)
        ReturnType == If({"=>", "LBrace", EOF}, Require(~ isExtern), Call("type"))
    IN  Expect("func") \o Clear({"prefix"})
          \o Select(<< <<{"quote"}, Advance \o OverloadedOperator \o Expect("quote")>>,
                       <<{"ident"}, Advance>> >>, Error)
          \o When({"<"}, Outside \o Attempt(Call("genericParameters"), When({">"}, Fail)))
          \o Clear(ListFlags)
          \o When({"("}, Advance \o ParameterList("functionParam", ")") \o Expect(")"))
          \o ReturnType
          \o Select(<< <<{"=>"}, Outside \o Advance \o Call("expression")>>,
                       <<{"LBrace"}, Outside \o Call("block")>> >>, <<>>)
          \o IfMarked("prefix", IfMarked("parameters", <<>>, Error), <<>>)

ParseAttributeList ==
    When({"@"}, Advance
        \o If({"["}, Advance \o TrailingList({"]"}, Call("attribute"))
                             \o Attempt(Expect("]"), Error),
              Call("attribute") \o Call("attributeList")))

\* mutant: a missing name is not reported
ParseAttributeSilently ==
    If({"ident"}, Advance, Fail) \o When({"("}, Call("attributeArguments"))

ParseAttribute == Consume({"ident"}) \o When({"("}, Call("attributeArguments"))

ParseAttributeArguments ==
    LET Value == Attempt(Call("literal"), Error)
        Positional == IfMarked("named", Error, Value)
        Argument == If({"ident"},
                       Ahead(2, << <<{":"}, Mark("named") \o Advance \o Advance \o Value>> >>,
                             Positional),
                       Positional)
    IN  Expect("(") \o Clear({"named"})
          \o If({")"}, Advance,
                TrailingList({")"}, Argument) \o Attempt(Expect(")"), Error))

ParseGenericParameter ==
    Optional("...") \o Consume({"ident"}) \o When({":"}, Advance \o Call("type"))
        \o When({"="}, Advance \o Call("type") \o Mark("defaulted"))

ParseGenericParameters ==
    Expect("<") \o Clear(ListFlags) \o Reject({">"})
        \o ParameterList("genericParameter", ">") \o Expect(">")

ParseEnumDeclaration ==
    Expect("enum") \o Consume({"ident"}) \o When({":"}, Advance \o Call("type"))
        \o Expect("LBrace")
        \o Until({"RBrace", EOF}, Call("enumOption")
                               \o Select(<< <<{"Comma"}, Advance>>,
                                            <<{"RBrace"}, <<>> >> >>, Error))
        \o Expect("RBrace")

ParseEnumOption ==
    When({"@"}, Call("attributeList")) \o Consume({"ident"})
        \o When({"="}, Advance \o Call("expression"))

\* a failed list of generic parameters has reported an error, which fails it
ParseTypeDeclaration ==
    Expect("type") \o Consume({"ident"}) \o When({"<"}, Call("genericParameters"))
        \o Expect("=") \o Attempt(Call("type"), Error)

ParseImportDeclaration ==
    LET Alias == When({"as"}, Advance \o Consume({"ident"}))
        From  == Expect("from") \o If({"string"}, Call("stringLiteral"), Error)
    IN  Expect("import") \o Optional("test")
          \o Select(<< <<{"string"}, Call("stringLiteral") \o Alias>>,
                       <<{"ident"}, Advance \o Alias \o From>>,
                       <<{"LBrace"}, Advance \o Reject({"RBrace"})
                                  \o TrailingList({"RBrace"}, Consume({"ident"}) \o Alias)
                                  \o Expect("RBrace") \o From>> >>, Error)

\* mutant: no recovery between declarations
ParseCompilationUnitUnsynchronized ==
    Until({EOF}, If(Separator, Advance, Attempt(Call("declaration"), <<>>)))

ParseCompilationUnit ==
    When({"module"}, Advance \o Consume({"ident"}))
        \o While({"import"}, Call("declaration"))
        \o Until({EOF}, If(Separator, Advance, Attempt(Call("declaration"), Synchronize)))

ParseStructOrClassDeclaration ==
    Consume({"struct", "class"}) \o Consume({"ident"})
        \o When({"<"}, Call("genericParameters")) \o When({":"}, Call("inheritance"))
        \o Expect("LBrace") \o While({"quote"}, Call("annotation"))
        \o Until({"RBrace", EOF}, Call("member")) \o Expect("RBrace")

ParseStructOrClassMember ==
    When({"@"}, Call("attributeList")) \o Optional("priv")
        \o Select(<< <<{"func"}, Call("function")>>, <<{"ident"}, Call("field")>> >>, Error)

ParseFieldDeclaration ==
    LET Value == Advance \o Call("expression")
    IN  Consume({"ident"}) \o If({"="}, Value, Call("type") \o When({"="}, Value))
          \o Optional("Semicolon")

ParseAnnotationDeclaration ==
    Expect("quote") \o Consume({"ident"}) \o Expect("=") \o Call("expression")

ParseInheritanceClause == Expect(":") \o Attempt(Call("type"), Error)

-----------------------------------------------------------------------------
ExpressionRules(bare) ==
    [expression |-> ParseExpression(bare),
     assignment |-> ParseAssignmentExpression(bare),
     conditional |-> ParseConditionalExpression(bare),
     logicalOr |-> ParseLogicalOrExpression(bare),
     logicalAnd |-> ParseLogicalAndExpression(bare),
     bitwiseOr |-> ParseBitwiseOrExpression(bare),
     bitwiseXor |-> ParseBitwiseXorExpression(bare),
     bitwiseAnd |-> ParseBitwiseAndExpression(bare),
     equality |-> ParseEqualityExpression(bare),
     relational |-> ParseRelationalExpression(bare),
     range |-> ParseRangeExpression(bare),
     shift |-> ParseShiftExpression(bare),
     additive |-> ParseAdditiveExpression(bare),
     multiplicative |-> ParseMultiplicativeExpression(bare),
     cast |-> ParseCastExpression(bare),
     unary |-> ParseUnaryExpression(bare),
     postfix |-> ParsePostfixExpression(bare),
     primary |-> ParsePrimaryExpression(bare),
     identifier |-> ParseIdentifierExpression(bare)]

Bare    == ExpressionRules(TRUE)
NotBare == ExpressionRules(FALSE)

OtherRules ==
    [literal |-> ParseLiteralExpression, literalToken |-> ParseLiteralToken,
     stringLiteral |-> ParseStringLiteral, macroCall |-> ParseMacroCall,
     arrayLiteral |-> ParseArrayLiteral,
     tupleOrGrouped |-> ParseTupleOrGroupedExpression,
     typedStruct |-> ParseStructLiteral(TRUE),
     anonymousStruct |-> ParseStructLiteral(FALSE),
     interpolatedString |-> ParseInterpolatedString,
     type |-> ParseTypeExpression, unionType |-> ParseUnionType,
     primaryType |-> ParsePrimaryType, arrayType |-> ParseArrayType,
     referenceType |-> ParseReferenceType, pointerType |-> ParsePointerType,
     optionalType |-> ParseOptionalType, resultType |-> ParseResultType,
     functionType |-> ParseFunctionType, tupleType |-> ParseTupleType,
     qualifiedPath |-> ParseQualifiedPath(FALSE),
     pathInExpression |-> ParseQualifiedPath(TRUE),
     genericArguments |-> ParseGenericArguments(FALSE),
     argumentsInExpression |-> ParseGenericArguments(TRUE),
     statement |-> ParseStatement, break |-> ParseBreakStatement,
     block |-> ParseBlockStatement, defer |-> ParseDeferStatement,
     return |-> ParseReturnStatement,
     expressionStatement |-> ParseExpressionStatement,
     if |-> ParseIfStatement, while |-> ParseWhileStatement,
     for |-> ParseForStatement, switch |-> ParseSwitchStatement,
     case |-> ParseCaseStatement, match |-> ParseMatchStatement,
     matchCase |-> ParseMatchCaseStatement,
     moreNames |-> ParseMoreNames,
     variable |-> ParseVariableDeclaration(FALSE, FALSE),
     externVariable |-> ParseVariableDeclaration(FALSE, TRUE),
     conditionVariable |-> ParseVariableDeclaration(TRUE, FALSE),
     declaration |-> ParseDeclaration,
     functionParam |-> ParseFunctionParamDeclaration,
     function |-> ParseFunctionDeclaration(FALSE),
     externFunction |-> ParseFunctionDeclaration(TRUE),
     attributeList |-> ParseAttributeList, attribute |-> ParseAttribute,
     attributeArguments |-> ParseAttributeArguments,
     genericParameter |-> ParseGenericParameter,
     genericParameters |-> ParseGenericParameters,
     enum |-> ParseEnumDeclaration, enumOption |-> ParseEnumOption,
     typeDeclaration |-> ParseTypeDeclaration,
     import |-> ParseImportDeclaration,
     compilationUnit |-> ParseCompilationUnit,
     structOrClass |-> ParseStructOrClassDeclaration,
     member |-> ParseStructOrClassMember, field |-> ParseFieldDeclaration,
     annotation |-> ParseAnnotationDeclaration,
     inheritance |-> ParseInheritanceClause]

Rules == DOMAIN NotBare \cup DOMAIN OtherRules

\* the steps of a parse function
ProgramOf(rule, bare) ==
    IF rule \in DOMAIN OtherRules THEN OtherRules[rule]
    ELSE IF bare THEN Bare[rule] ELSE NotBare[rule]

=============================================================================
