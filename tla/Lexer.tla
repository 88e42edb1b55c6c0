------------------------------- MODULE Lexer -------------------------------
(***************************************************************************)
(* Lexer (src/src/frontend/lexer.cpp): a stack of buffers, the main text   *)
(* and the texts included into it, and a stack of contexts, one for each   *)
(* interpolated string that is being read.  A string with an expression in *)
(* braces is several tokens: LString up to the first brace, String between *)
(* two expressions, RString up to the closing quote, and between them the  *)
(* tokens of the expressions, strings of the same kind among them.  So the *)
(* meaning of a brace depends on the contexts, and they have to follow the *)
(* nesting of the tokens over any text, with errors and includes.          *)
(*                                                                         *)
(* A buffer is its name and what is left of its text.  The caller asks for *)
(* tokens, and between two of them may include a text or switch the        *)
(* template context.  What it gives the lexer to read is chosen at the     *)
(* beginning.                                                              *)
(***************************************************************************)
EXTENDS Lexemes

CONSTANTS Files,   \* name -> text, for the files that can be included
          Callers  \* the texts a caller has read, and bounds on its includes
                   \* and on the nesting of its template contexts

ASSUME FilesAssumption == \A f \in DOMAIN Files : Files[f] \in Seq(Chars)
ASSUME CallersAssumption ==
    \A c \in Callers : /\ c.texts \subseteq Seq(Chars)
                       /\ c.includes \in Nat /\ c.templates \in Nat

VARIABLES caller,         \* the bounds of one of the Callers
          buffers,        \* bufferStack, the main text first
          contexts,       \* interpolationStack, outermost first
          templateDepth,
          token,          \* the last token, and the text it was made of
          errors,         \* what was reported so far
          includes,       \* includes made so far
          nesting         \* history: of the tokens, below

vars == <<caller, buffers, contexts, templateDepth, token, errors, includes, nesting>>

Kinds == {"none", "EoF", "Error", "Word", "Symbol", LeftBrace, RightBrace, "Integer", "Float",
          "Character", "String", "LString", "RString"}
Errors == {"character", "string", "interpolation", "comment", "number", "overflow", "utf8",
           "unknown", "include"}

\* InterpolationContext; active is always true
Context == [inExpression : BOOLEAN, braceDepth : Nat]

Main == "main"

TypeOK ==
    /\ caller \in [includes : Nat, templates : Nat]
    /\ buffers \in Seq([file : {Main} \cup DOMAIN Files, rest : Seq(Chars)]) \ {<<>>}
    /\ contexts \in Seq(Context)
    /\ templateDepth \in Nat
    /\ token \in [kind : Kinds, value : 0 .. IntegerMax, text : Seq(Chars)]
    /\ errors \subseteq Errors
    /\ includes \in Nat
    /\ nesting \in Seq(Int) \ {<<>>}

Init ==
    /\ \E c \in Callers :
          /\ caller = [includes |-> c.includes, templates |-> c.templates]
          /\ \E text \in c.texts : buffers = <<[file |-> Main, rest |-> text]>>
    /\ contexts = <<>>
    /\ templateDepth = 0
    /\ token = [kind |-> "none", value |-> 0, text |-> <<>>]
    /\ errors = {}
    /\ includes = 0
    /\ nesting = <<0>>

-----------------------------------------------------------------------------
(* What nextToken finds.                                                   *)

Starts == [i \in DOMAIN buffers |-> Trivia(buffers[i].rest)]

\* The loop of nextToken leaves the included buffers that have no token left
Reached ==
    Max({1} \cup {i \in DOMAIN buffers : Starts[i].to <= Len(buffers[i].rest)})

\* the text from the first character of the token on
Ahead == LET rest == buffers[Reached].rest
         IN  SubSeq(rest, Starts[Reached].to, Len(rest))

first == At(Ahead, 1)

OpenComments ==
    When(\E i \in Reached .. Len(buffers) : Starts[i].open, "comment")

\* The nesting of the tokens as their reader sees it: for each string that
\* began and did not end, innermost first, the braces open in it, and last
\* those open outside of strings, where a } too many is ignored.
NestingAfter(kind) ==
    LET top == Head(nesting)
    IN  CASE kind = "LString" -> <<0>> \o nesting
          [] kind = "RString" -> IF Len(nesting) = 1 THEN <<-1>> ELSE Tail(nesting)
          [] kind = LeftBrace -> <<top + 1>> \o Tail(nesting)
          [] kind = RightBrace -> IF Len(nesting) = 1 /\ top = 0
                                  THEN nesting
                                  ELSE <<top - 1>> \o Tail(nesting)
          [] OTHER -> nesting

\* The call returns the token lex, with the contexts left as in ctxs
Return(lex, ctxs) ==
    /\ buffers' = [SubSeq(buffers, 1, Reached) EXCEPT
                      ![Reached].rest = SubSeq(Ahead, lex.to, Len(Ahead))]
    /\ contexts' = ctxs
    /\ token' = [kind |-> lex.kind, value |-> lex.value, text |-> SubSeq(Ahead, 1, lex.to - 1)]
    /\ errors' = errors \cup lex.errors \cup OpenComments
    /\ nesting' = NestingAfter(lex.kind)
    /\ UNCHANGED <<caller, templateDepth, includes>>

-----------------------------------------------------------------------------
(* nextToken.                                                              *)

EndOfText ==
    /\ Ahead = <<>>
    /\ Return(Lexeme("EoF", 1, {}), contexts)

LexWord ==
    /\ first \in WordStart
    /\ ~(first = "r" /\ At(Ahead, 2) = Quote)
    /\ Return(Word(Ahead), contexts)

LexRawString ==
    /\ first = "r" /\ At(Ahead, 2) = Quote
    /\ Return(RawString(Ahead), contexts)

LexNumber ==
    /\ first \in Digits(10)
    /\ Return(Number(Ahead), contexts)

LexCharacter ==
    /\ first = Apostrophe
    /\ Return(Character(Ahead), contexts)

LexSymbol ==
    /\ first \in SymbolStart
    /\ Return(Symbol(Ahead, templateDepth > 0), contexts)

\* Mutant: the character that no token begins with is looked at again.
LexUnknownAgain ==
    /\ first \in Others \cup {Backslash}
    /\ Return(Lexeme("Error", 1, {"unknown"}), contexts)

LexUnknown ==
    /\ first \in Others \cup {Backslash}
    /\ Return(Lexeme("Error", 2, {"unknown"}), contexts)

InExpression == contexts # <<>> /\ Last(contexts).inExpression

Braces(n) == [contexts EXCEPT ![Len(contexts)].braceDepth = @ + n]

LexLeftBrace ==
    /\ first = LeftBrace
    /\ Return(Lexeme(LeftBrace, 2, {}), IF InExpression THEN Braces(1) ELSE contexts)

\* A } that ends no expression
LexRightBrace ==
    /\ first = RightBrace
    /\ InExpression => Last(contexts).braceDepth > 0
    /\ Return(Lexeme(RightBrace, 2, {}), IF InExpression THEN Braces(-1) ELSE contexts)

\* Mutant: the count of the expression before is kept.
StringPartCounting(from, outer, kind) ==
    LET stop == Unescaped(Ahead, from, {Quote, LeftBrace})
        inner == Past(Ahead, stop + 1, White)
        In(b) == Append(outer, [inExpression |-> b,
                                braceDepth |-> IF contexts = <<>> THEN 0 ELSE Len(outer)])
    IN  CASE At(Ahead, stop) = LeftBrace ->
               Return(IF At(Ahead, inner) = RightBrace
                      THEN Lexeme("Error", inner, {"interpolation"})
                      ELSE Lexeme(kind, inner, {}),
                      In(TRUE))
          [] At(Ahead, stop) = Quote -> Return(Lexeme("RString", stop + 1, {}), outer)
          [] OTHER -> Return(Lexeme("Error", stop, {"string"}), In(FALSE))

\* The text of an interpolated string from a position on, up to the next
\* expression, the closing quote or the end of the buffer: lexInterpolatedString
\* and continueStringAfterExpression, which differ in the kind of the token
\* before an expression.  outer are the contexts around the string's own.
StringPart(from, outer, kind) ==
    LET stop == Unescaped(Ahead, from, {Quote, LeftBrace})
        inner == Past(Ahead, stop + 1, White)
        In(b) == Append(outer, [inExpression |-> b, braceDepth |-> 0])
    IN  CASE At(Ahead, stop) = LeftBrace ->
               Return(IF At(Ahead, inner) = RightBrace
                      THEN Lexeme("Error", inner, {"interpolation"})
                      ELSE Lexeme(kind, inner, {}),
                      In(TRUE))
          [] At(Ahead, stop) = Quote -> Return(Lexeme("RString", stop + 1, {}), outer)
          [] OTHER -> Return(Lexeme("Error", stop, {"string"}), In(FALSE))

\* The } that ends an expression: the text of its string goes on
LexStringAgain ==
    /\ first = RightBrace
    /\ InExpression /\ Last(contexts).braceDepth = 0
    /\ StringPart(2, Front(contexts), "String")

LexString ==
    /\ first = Quote
    /\ IF HasInterpolation(Ahead, 2)
       THEN StringPart(2, contexts, "LString")
       ELSE Return(RegularString(Ahead), contexts)

NextToken ==
    \/ EndOfText
    \/ LexWord \/ LexRawString \/ LexNumber \/ LexCharacter
    \/ LexSymbol \/ LexLeftBrace \/ LexRightBrace
    \/ LexStringAgain \/ LexString
    \/ LexUnknown

-----------------------------------------------------------------------------
(* The caller's other calls.                                               *)

\* A file that is being read already is refused
PushBuffer(f) ==
    /\ includes < caller.includes
    /\ includes' = includes + 1
    /\ IF \E i \in DOMAIN buffers : buffers[i].file = f
       THEN errors' = errors \cup {"include"} /\ UNCHANGED buffers
       ELSE /\ buffers' = Append(buffers, [file |-> f, rest |-> Files[f]])
            /\ UNCHANGED errors
    /\ UNCHANGED <<caller, contexts, templateDepth, token, nesting>>

EnterTemplateContext ==
    /\ templateDepth < caller.templates
    /\ templateDepth' = templateDepth + 1
    /\ UNCHANGED <<caller, buffers, contexts, token, errors, includes, nesting>>

\* Mutant: the depth is counted down whatever it is.
ExitTemplateContextAnyway ==
    /\ templateDepth' = templateDepth - 1
    /\ UNCHANGED <<caller, buffers, contexts, token, errors, includes, nesting>>

\* At depth 0 it changes nothing
ExitTemplateContext ==
    /\ templateDepth > 0
    /\ templateDepth' = templateDepth - 1
    /\ UNCHANGED <<caller, buffers, contexts, token, errors, includes, nesting>>

Next ==
    \/ NextToken
    \/ \E f \in DOMAIN Files : PushBuffer(f)
    \/ EnterTemplateContext
    \/ ExitTemplateContext

Spec == Init /\ [][Next]_vars

-----------------------------------------------------------------------------
(* Properties.                                                             *)

\* As long as every string that began could be read on, the contexts are the
\* nesting of the tokens: one for each string that an LString began and no
\* RString ended, in its expression, with the braces that are open there.  So
\* no RString comes without its LString, and no } of an expression is taken
\* for the end of it, whatever is included in between.  Inclusion is of text: braces
\* of a text that is included count for the string that is open there.
StringTokensNest ==
    {"string", "interpolation"} \cap errors = {} =>
        /\ contexts = [i \in 1 .. Len(nesting) - 1 |->
                          [inExpression |-> TRUE, braceDepth |-> nesting[Len(nesting) - i]]]
        /\ Last(nesting) >= 0

\* hasInterpolation and the scan of the text, which have loops of their own,
\* agree: a string is read as interpolated only if the scan stops at a brace,
\* and always if that brace is not the one of \u{.
LookaheadAgrees ==
    first = Quote =>
        LET stop == Unescaped(Ahead, 2, {Quote, LeftBrace})
            brace == At(Ahead, stop) = LeftBrace
        IN  /\ HasInterpolation(Ahead, 2) => brace
            /\ brace /\ (stop > 3 => SubSeq(Ahead, stop - 2, stop - 1) # <<Backslash, "u">>)
                 => HasInterpolation(Ahead, 2)

\* What a 1 is worth in a number with n digits behind it
Weight(base, n) ==
    LET power[k \in 0 .. n] == IF k = 0 THEN 1 ELSE base * power[k - 1]
    IN  power[n]

\* The number that the digits between two positions say, underscores aside:
\* each by the digits behind it
NumberSaid(s, from, to, base) ==
    LET digits == {i \in from .. to - 1 : s[i] # Underscore}
        Behind(i) == {j \in digits : j > i}
    IN  SumFunction([i \in digits |->
                        DigitValue[s[i]] * Weight(base, Cardinality(Behind(i)))])

\* An integer literal is the number its digits say, or the largest that fits
\* when that is larger, which is reported.
IntegersSaturate ==
    token.kind = "Integer" =>
        LET s == token.text
            base == Base(s)
            stop == Past(s, AfterPrefix(s), Digits(base) \cup {Underscore})
            said == NumberSaid(s, AfterPrefix(s), stop, base)
        IN  /\ token.value = Min({said, IntegerMax})
            /\ said > IntegerMax => "overflow" \in errors

\* The characters left to read in some buffers
LeftIn(bs) ==
    LET left[i \in 0 .. Len(bs)] == IF i = 0 THEN 0 ELSE left[i - 1] + Len(bs[i].rest)
    IN  left[Len(bs)]

Left == LeftIn(buffers)

\* Every token takes some of the text, whether it is one or an error, so that
\* a caller that asks until the end gets there; and the end is that of the
\* main text, with all of it and of what it includes read.
EveryTokenReadsOn ==
    [][NextToken =>
          \/ Left' < Left /\ token'.kind # "EoF"
          \/ Left' = 0 /\ token'.kind = "EoF" /\ Len(buffers') = 1]_vars

=============================================================================
