------------------------------- MODULE Parser -------------------------------
(***************************************************************************)
(* Parser (src/src/frontend/parser.cpp) reading tokens from a Lexer that   *)
(* it switches in and out of the template context, in which the lexer      *)
(* takes >> for two closing >.                                             *)
(*                                                                         *)
(* The parser is a stack of steps: what is left to do of the parse         *)
(* functions that are being called, innermost first.  The text is chosen   *)
(* while it is read: a token of the window is unread until the parser      *)
(* looks at it, and remembers only whether it was lexed in the template    *)
(* context, since that is all that the lexer takes from the parser.        *)
(***************************************************************************)
EXTENDS Grammar, Integers, SequencesExt, FiniteSetsExt

\* what callers ask for: a parse function to start with, the tokens of the
\* text, and a bound on its length
CONSTANT Texts

ASSUME TextsAssumption ==
    Texts \in Seq([start : Rules, tokens : SUBSET Tokens, length : Nat])

VARIABLES window,   \* current(), lookahead(1) and lookahead(2)
          stack,    \* the steps left, of all calls
          marks,    \* the flags of parse functions that are set
          depth,    \* Lexer::templateDepth
          errors,   \* whether errors_ has an error
          result,   \* what the first call returned, "none" before
          text,     \* the text, a member of Texts
          left,     \* the tokens that it may still have
          open      \* history: the brackets consumed and not closed, until
                    \* the first error

vars == <<window, stack, marks, depth, errors, result, text, left, open>>

Unread == "unread"
Flags == ListFlags \cup {"prefix", "named"}
Opener == [k \in {")", "]", "RBrace", "RString"} |->
             CASE k = ")" -> "(" [] k = "]" -> "["
               [] k = "RBrace" -> "LBrace" [] k = "RString" -> "LString"]
Closers == DOMAIN Opener

\* split: lexed in the template context; torn: the first half of a >>
Slot == [kind : Tokens \cup {EOF, Unread}, split : BOOLEAN, torn : BOOLEAN]

current == window[1].kind

TypeOK ==
    /\ window \in [1 .. 3 -> Slot]
    /\ \A i \in DOMAIN stack : stack[i].op = "call" => stack[i].rule \in Rules
    /\ marks \subseteq Flags
    /\ depth \in Nat
    /\ errors \in BOOLEAN
    /\ result \in {"none", "node", "null"}
    /\ text \in DOMAIN Texts
    /\ left \in Nat
    /\ Range(open) \subseteq Range(Opener) \cup {"mismatch"}

Lexed(kind) == [kind |-> kind, split |-> depth > 0, torn |-> FALSE]

Init ==
    /\ window = [i \in 1 .. 3 |-> [kind |-> Unread, split |-> FALSE, torn |-> FALSE]]
    /\ text \in DOMAIN Texts
    /\ stack = Call(Texts[text].start)
    /\ left = Texts[text].length
    /\ marks = {}
    /\ depth = 0
    /\ errors = FALSE
    /\ result = "none"
    /\ open = <<>>

-----------------------------------------------------------------------------
Top == Head(stack)
AtStep(op) == stack # <<>> /\ Top.op = op
GoOnWith(steps) == stack' = steps \o Tail(stack)

\* the token the next step looks at, 0 for none
LooksAt == CASE stack = <<>> -> 0
             [] AtStep("select") -> Top.at
             [] stack # <<>> /\ Top.op \in {"expect", "advance", "while", "until",
                                          "synchronize"} -> 1
             [] OTHER -> 0

\* Mutant: the text goes on behind its end.
ReadOn ==
    /\ LooksAt # 0
    /\ window[LooksAt].kind = Unread
    /\ \E k \in Texts[text].tokens \cup {EOF} :
         /\ window' = [window EXCEPT ![LooksAt].kind = k]
         /\ left' = IF k = EOF THEN left ELSE left - 1
    /\ UNCHANGED <<stack, marks, depth, errors, result, text, open>>

\* Lexer::nextToken, as far as the text is chosen when it is looked at: there
\* is another token, of which >> is torn in the template context, or no more
Read ==
    /\ LooksAt # 0
    /\ window[LooksAt].kind = Unread
    /\ \E k \in Texts[text].tokens \cup {EOF} :
         /\ (left = 0 \/ \E i \in 1 .. LooksAt - 1 : window[i].kind = EOF) => k = EOF
         /\ window' = IF k = ">>" /\ window[LooksAt].split
                      THEN [window EXCEPT ![LooksAt].kind = ">", ![LooksAt].torn = TRUE,
                                          ![LooksAt + 1].kind = ">"]
                      ELSE [window EXCEPT ![LooksAt].kind = k]
         /\ left' = IF k = EOF THEN left ELSE left - 1
    /\ UNCHANGED <<stack, marks, depth, errors, result, text, open>>

Looking == LooksAt # 0 /\ window[LooksAt].kind # Unread
seen == window[LooksAt].kind

\* the loop of the compilation unit skips brackets that close nothing
Lingering == Len(stack) = 2 /\ stack[2].op = "until" /\ stack[2].kinds = {EOF}

OpenAfter(k) ==
    CASE errors -> <<>>
      [] ~ errors /\ k \in Range(Opener) -> <<k>> \o open
      [] ~ errors /\ k \in Closers -> IF open # <<>> /\ Head(open) = Opener[k] THEN Tail(open)
                                      ELSE IF Lingering THEN open ELSE <<"mismatch">> \o open
      [] OTHER -> open

\* advance()
Shift ==
    /\ window' = <<window[2], window[3],
                   Lexed(IF window[3].kind = EOF THEN EOF ELSE Unread)>>
    /\ open' = OpenAfter(current)

\* reportError()
ReportError ==
    /\ errors' = TRUE
    /\ open' = <<>>

\* return nullptr, up to the call whose failure its caller handles
ReturnNull ==
    LET catches == {i \in DOMAIN stack : stack[i].op = "catch"}
    IN  IF catches = {}
        THEN stack' = <<>> /\ result' = "null"
        ELSE /\ stack' = LET i == Min(catches)
                         IN  stack[i].handler \o SubSeq(stack, i + 1, Len(stack))
             /\ UNCHANGED result

-----------------------------------------------------------------------------
(* Steps.                                                                  *)

\* expect(kind)
Expected ==
    /\ AtStep("expect") /\ Looking /\ seen = Top.kind
    /\ Shift
    /\ GoOnWith(<<>>)
    /\ UNCHANGED <<marks, depth, errors, result, text, left>>

NotExpected ==
    /\ AtStep("expect") /\ Looking /\ seen # Top.kind
    /\ ReportError
    /\ ReturnNull
    /\ UNCHANGED <<window, marks, depth, text, left>>

AdvanceOne ==
    /\ AtStep("advance") /\ Looking
    /\ Shift
    /\ GoOnWith(<<>>)
    /\ UNCHANGED <<marks, depth, errors, result, text, left>>

ReportOne ==
    /\ AtStep("report")
    /\ ReportError
    /\ GoOnWith(<<>>)
    /\ UNCHANGED <<window, marks, depth, result, text, left>>

FailOne ==
    /\ AtStep("fail")
    /\ ReturnNull
    /\ UNCHANGED <<window, marks, depth, errors, text, left, open>>

CallOne ==
    /\ AtStep("call")
    /\ GoOnWith(ProgramOf(Top.rule, Top.bare))
    /\ UNCHANGED <<window, marks, depth, errors, result, text, left, open>>

SelectOne ==
    /\ AtStep("select") /\ Looking
    /\ LET hits == {i \in DOMAIN Top.cases : seen \in Top.cases[i][1]}
       IN  GoOnWith(IF hits = {} THEN Top.otherwise ELSE Top.cases[Min(hits)][2])
    /\ UNCHANGED <<window, marks, depth, errors, result, text, left, open>>

Loops == \/ AtStep("while") /\ Looking /\ seen \in Top.kinds
         \/ AtStep("until") /\ Looking /\ seen \notin Top.kinds

LoopAgain ==
    /\ Loops
    /\ stack' = Top.body \o stack
    /\ UNCHANGED <<window, marks, depth, errors, result, text, left, open>>

LoopEnds ==
    /\ AtStep("while") \/ AtStep("until")
    /\ Looking
    /\ ~ Loops
    /\ GoOnWith(<<>>)
    /\ UNCHANGED <<window, marks, depth, errors, result, text, left, open>>

AttemptOne ==
    /\ AtStep("attempt")
    /\ GoOnWith(Top.body \o Catch(Top.handler))
    /\ UNCHANGED <<window, marks, depth, errors, result, text, left, open>>

AttemptSucceeds ==
    /\ AtStep("catch")
    /\ GoOnWith(<<>>)
    /\ UNCHANGED <<window, marks, depth, errors, result, text, left, open>>

\* Lexer::enterTemplateContext and exitTemplateContext
SwitchTemplate ==
    /\ depth' = CASE AtStep("enter") -> depth + 1
                  [] AtStep("exit") -> IF depth > 0 THEN depth - 1 ELSE 0
    /\ GoOnWith(<<>>)
    /\ UNCHANGED <<window, marks, errors, result, text, left, open>>

SetFlags ==
    /\ marks' = CASE AtStep("mark") -> marks \cup {Top.flag}
                  [] AtStep("clear") -> marks \ Top.flags
    /\ GoOnWith(<<>>)
    /\ UNCHANGED <<window, depth, errors, result, text, left, open>>

TestFlag ==
    /\ AtStep("marked")
    /\ GoOnWith(IF Top.flag \in marks THEN Top.then ELSE Top.otherwise)
    /\ UNCHANGED <<window, marks, depth, errors, result, text, left, open>>

\* synchronize(): skip to a synchronization point, and over it if it separates
SkipToken ==
    /\ AtStep("synchronize") /\ Looking
    /\ seen \notin SynchronizationPoint \cup {EOF}
    /\ Shift
    /\ UNCHANGED <<stack, marks, depth, errors, result, text, left>>

StopSkipping ==
    /\ AtStep("synchronize") /\ Looking
    /\ seen \in SynchronizationPoint \cup {EOF}
    /\ IF seen \in Separator THEN Shift ELSE UNCHANGED <<window, open>>
    /\ GoOnWith(<<>>)
    /\ UNCHANGED <<marks, depth, errors, result, text, left>>

\* the first call returns its node
ReturnNode ==
    /\ stack = <<>> /\ result = "none"
    /\ result' = "node"
    /\ UNCHANGED <<window, stack, marks, depth, errors, text, left, open>>

\* the caller has its result
Returned == result # "none" /\ UNCHANGED vars

Next ==
    \/ Read
    \/ Expected \/ NotExpected \/ AdvanceOne \/ ReportOne \/ FailOne \/ CallOne
    \/ SelectOne \/ LoopAgain \/ LoopEnds \/ AttemptOne \/ AttemptSucceeds
    \/ (AtStep("enter") \/ AtStep("exit")) /\ SwitchTemplate
    \/ (AtStep("mark") \/ AtStep("clear")) /\ SetFlags
    \/ TestFlag \/ SkipToken \/ StopSkipping
    \/ ReturnNode \/ Returned

\* one thread runs the parser to its end
Spec == Init /\ [][Next]_vars /\ WF_vars(Next)

-----------------------------------------------------------------------------
(* Properties.                                                             *)

\* A call fails, or the recovery skips tokens, only with an error reported:
\* a caller that looks at errors_ or at the diagnostics never takes a text
\* that was not parsed for one that was.
NothingLostSilently ==
    result = "null" \/ AtStep("synchronize") => errors

\* What is accepted without an error has its brackets balanced and closed by
\* their own kind, but for those that close nothing between declarations.
AcceptedIsBalanced ==
    /\ "mismatch" \notin Range(open)
    /\ result = "node" => open = <<>>

\* Whatever way generic arguments are left, the lexer is out of the template
\* context when the call returns and when the recovery skips.
TemplateContextEnds ==
    result # "none" \/ AtStep("synchronize") => depth = 0

\* the generic arguments that are being parsed
ArgumentsOpen == Cardinality({i \in DOMAIN stack : stack[i].op = "exit"})

\* The > that closes generic arguments within generic arguments was lexed in
\* the template context: a >> there is two tokens.
NestedArgumentsAreSplit ==
    AtStep("expect") /\ Top.kind = ">" /\ ArgumentsOpen >= 2 => window[1].split

\* a block whose next statement starts with the keyword of a declaration,
\* which parseStatement does not take and synchronize does not skip
StuckInBlock ==
    /\ AtStep("until") /\ Top.kinds = {"RBrace", EOF}
    /\ current \in {"func", "struct", "enum", "type"}
    /\ errors

\* The parser comes to the end of every text, but for texts that leave a
\* block in front of such a keyword.
EndsUnlessStuckInBlock == <>(result # "none" \/ StuckInBlock)

\* "Error in statement parsing - try to recover", "Continue parsing other
\* statements in the block": the parser comes to the end of every text.
RecoveryEnds == <>(result # "none")

\* "Normal >> handling outside template context": a >> is torn only where
\* generic arguments are being parsed.
TornOnlyInArguments == window[1].torn => depth > 0

\* The template context begins and ends with the generic arguments.
TemplateContextFollows == TemplateContextEnds /\ NestedArgumentsAreSplit

=============================================================================
