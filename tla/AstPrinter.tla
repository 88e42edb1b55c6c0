---------------------------- MODULE AstPrinter ----------------------------
(***************************************************************************)
(* The printer of syntax trees (src/src/frontend/ast/printer.cpp), a       *)
(* visitor with a visit of its own, over the trees that Ast builds and     *)
(* beside the searches of Visitor.                                         *)
(*                                                                         *)
(* The output is a sequence of pieces: a bracket that opens a node, with   *)
(* how deep in the tree the node is and how far it is indented, the        *)
(* bracket that closes it, its attributes, a name or a text without        *)
(* brackets, and the dots in place of what is too deep.  Names, spaces and *)
(* line breaks are left out.                                               *)
(***************************************************************************)
EXTENDS Visitor, Integers

CONSTANTS MaxDepths,   \* values of PrinterConfig::maxDepth
          Filters,     \* sets of kinds that a node filter rejects
          DepthRange   \* 2^32, the number of values of currentDepth_

\* Depths and widths are small beside the range of the counter.
ASSUME DepthAssumption ==
    /\ MaxDepths \subseteq Nat /\ 0 \in MaxDepths /\ {} \in Filters
    /\ DepthRange \in Nat
    /\ \A o \in Offers, d \in MaxDepths : Len(o.kinds) + d < DepthRange

VARIABLES config,  \* the printer's configuration
          out,     \* what was printed
          depth,   \* currentDepth_
          indent   \* indentLevel_

printVars == <<config, out, depth, indent>>
vars == <<treeVars, visitorVars, printVars>>

Config == [compact : BOOLEAN, maxDepth : MaxDepths, hidden : Filters]

Piece == [what : {"open", "close", "attributes", "name", "text", "error", "dots"},
          node : Nodes, level : Nat, indent : Nat]

TypeOK ==
    /\ TreeTypeOK
    /\ VisitorTypeOK
    /\ config \in Config
    /\ out \in Seq(Piece)
    /\ depth \in 0 .. DepthRange - 1
    /\ indent \in Nat

Init ==
    /\ TreeInit
    /\ VisitorInit
    /\ config = [compact |-> FALSE, maxDepth |-> 0, hidden |-> {}]
    /\ out = <<>>
    /\ depth = 0
    /\ indent = 0

-----------------------------------------------------------------------------
(* Pieces.                                                                 *)

Kind(n) == nodes[n].kind

\* shouldPrintInline
Inline(n) == Kind(n) \in {"leaf", "string"}

\* The kinds whose hook the printer overrides
Overridden(n) == Kind(n) # "plain"

Put(what, n) == [what |-> what, node |-> n, level |-> Len(stack) - 1, indent |-> indent]

\* printNodeStart, printNodeStartInline
Opening(n) == <<Put("open", n), Put("attributes", n)>>

\* Nodes that close themselves in their hook: literals and identifiers; a
\* primitive type only where everything is on one line.
PrimitiveType(n) ==
    IF config.compact THEN <<Put("open", n), Put("attributes", n), Put("close", n)>>
                      ELSE <<Put("open", n)>>

\* The list of the variables of a for statement: names, or an error for what
\* is no identifier
Variables(n) ==
    [i \in DOMAIN nodes[n].items |->
        LET v == nodes[n].items[i]
        IN  Put(IF Kind(v) = "leaf" THEN "name" ELSE "error", v)]

Printed(n) ==
    CASE Inline(n) -> Opening(n) \o <<Put("close", n)>>
      [] Kind(n) = "primitive" -> PrimitiveType(n)
      [] Kind(n) = "forStmt" -> Opening(n) \o Variables(n)
      [] OTHER -> Opening(n)

-----------------------------------------------------------------------------
(* What each hook leaves to be visited.                                    *)

Text(n) == [do |-> "text", node |-> n]

\* The parts of an interpolated string: literals as they are, expressions as
\* nodes, and on one line the bracket
Parts(n) ==
    [i \in DOMAIN nodes[n].items |->
        IF Kind(nodes[n].items[i]) = "string" THEN Text(nodes[n].items[i])
                                              ELSE Visit(nodes[n].items[i])]
    \o IF config.compact THEN <<[do |-> "close", node |-> None]>> ELSE <<>>

VisitPart(c) == IF c = None THEN <<>> ELSE <<Visit(c)>>

\* Mutant: the condition is forgotten.
ForPartsWithoutCondition(n) ==
    VisitPart(nodes[n].args[1]) \o VisitPart(nodes[n].args[2])

\* Range, condition and body, those that there are
ForParts(n) ==
    VisitPart(nodes[n].args[1]) \o VisitPart(nodes[n].args[3])
                                \o VisitPart(nodes[n].args[2])

\* Whether visit goes on to the children by itself, indenting them
Descends(n) == Kind(n) \in {"typed", "matchCase", "plain"}

\* Mutant: the for statement lets visit go on to the children, as the comment at
\* its end has it.
ToVisitTwice(n) ==
    CASE Descends(n) -> Visits(nodes[n].children)
      [] Kind(n) = "stringExpr" -> Parts(n)
      [] Kind(n) = "forStmt" -> ForParts(n) \o Visits(nodes[n].children)
      [] OTHER -> <<>>

ToVisit(n) ==
    CASE Descends(n) -> Visits(nodes[n].children)
      [] Kind(n) = "stringExpr" -> Parts(n)
      [] Kind(n) = "forStmt" -> ForParts(n)
      [] OTHER -> <<>>

\* How far the hook indents: visitNode and the for statement by one level each,
\* which nothing takes back
HookIndents(n) == IF Kind(n) \in {"plain", "forStmt"} THEN 1 ELSE 0

\* ASTPrinter::visitNode counts the level that it enters, no other hook does
DepthWithin(n) == IF Overridden(n) THEN depth ELSE (depth + 1) % DepthRange

\* Mutant: the counter is signed.
DepthBehindSigned(n) == depth - 1

\* visitNodePost counts down for each
DepthBehind(n) == (depth + DepthRange - 1) % DepthRange

-----------------------------------------------------------------------------
(* Operations.                                                             *)

\* printToStream, with the state reset
BeginPrint(r) ==
    /\ Begin("print", r)
    /\ config' \in Config
    /\ out' = <<>>
    /\ depth' = 0
    /\ indent' = 0
    /\ want' = {}
    /\ UNCHANGED treeVars

Printing == Running({"print"}) /\ UNCHANGED <<treeVars, job, done, root, want, result, config>>

\* Mutant: one level more than the limit.
CutBehind == config.maxDepth > 0 /\ depth > config.maxDepth

Cut == config.maxDepth > 0 /\ depth >= config.maxDepth

\* A node that the filter rejects is skipped with all below it
SkipNode(n) ==
    /\ Printing
    /\ NextStep(Visit(n))
    /\ Kind(n) \in config.hidden
    /\ stack' = Advanced
    /\ UNCHANGED <<entered, out, depth, indent>>

CutNode(n) ==
    /\ Printing
    /\ NextStep(Visit(n))
    /\ Kind(n) \notin config.hidden
    /\ Cut
    /\ stack' = Advanced
    /\ out' = Append(out, Put("dots", n))
    /\ UNCHANGED <<entered, depth, indent>>

PrintNode(n) ==
    /\ Printing
    /\ NextStep(Visit(n))
    /\ Kind(n) \notin config.hidden
    /\ ~Cut
    /\ entered' = Append(entered, n)
    /\ stack' = Append(Advanced, [node |-> n, todo |-> ToVisit(n), indented |-> Descends(n)])
    /\ out' = out \o Printed(n)
    /\ depth' = DepthWithin(n)
    /\ indent' = indent + HookIndents(n) + IF Descends(n) THEN 1 ELSE 0

\* The raw text of a string literal, and the bracket of the string on one line,
\* with its attributes once more
PrintText ==
    /\ Printing
    /\ LET top == Last(stack)
       IN  /\ top.todo # <<>>
           /\ Head(top.todo).do # "visit"
           /\ out' = out \o IF Head(top.todo).do = "text"
                            THEN <<Put("text", Head(top.todo).node)>>
                            ELSE <<Put("attributes", top.node), Put("close", top.node)>>
    /\ stack' = Advanced
    /\ UNCHANGED <<entered, depth, indent>>

\* dispatchVisitPost: visitNodePost closes every node that is not inline
LeavePrinted ==
    /\ Printing
    /\ NodeDone
    /\ LET n == Last(stack).node
       IN  /\ out' = IF Inline(n) THEN out ELSE Append(out, Put("close", n))
           /\ depth' = DepthBehind(n)
    /\ indent' = IF Last(stack).indented /\ indent > 0 THEN indent - 1 ELSE indent
    /\ stack' = Front(stack)
    /\ UNCHANGED entered

EndPrint ==
    /\ Running({"print"})
    /\ Return
    /\ UNCHANGED <<treeVars, printVars>>

ForgetOutput ==
    /\ Forget
    /\ config' = [compact |-> FALSE, maxDepth |-> 0, hidden |-> {}]
    /\ out' = <<>>
    /\ depth' = 0
    /\ indent' = 0
    /\ UNCHANGED treeVars

Next ==
    \/ job = "idle" /\ TreeNext /\ UNCHANGED <<visitorVars, printVars>>
    \/ VisitorNext /\ UNCHANGED <<treeVars, printVars>>
    \/ \E n \in Nodes : BeginPrint(n) \/ SkipNode(n) \/ CutNode(n) \/ PrintNode(n)
    \/ PrintText
    \/ LeavePrinted
    \/ EndPrint
    \/ ForgetOutput

Spec == Init /\ [][Next]_vars

-----------------------------------------------------------------------------
(* Properties                                                              *)

W == INSTANCE Walk WITH tree <- [n \in Nodes |-> nodes[n].children],
                        open <- [i \in 1 .. Len(stack) - 1 |-> stack[i + 1].node],
                        seen <- ToSet(entered)

\* Whatever the hooks answer, and whatever the printer visits by hand, skips and
\* cuts, a walk enters each node once at most, below its parent, and leaves the
\* nodes in the reverse order.
ImplementsWalk == W!Spec

Pieces(what) == {i \in DOMAIN out : out[i].what = what}
Times(what, n) == Cardinality({i \in Pieces(what) : out[i].node = n})

\* "(NodeKind value children...)" (docs/SEXPR.md): each node that is printed is
\* opened and closed once, with its attributes.  On one line primitive types and
\* interpolated strings are closed by their hook and by visitNodePost, the latter
\* with the attributes twice; elsewhere a primitive type has no attributes.
NodesAreWhole ==
    done /\ job = "print" =>
        \A n \in ToSet(entered) :
            LET kind == Kind(n)
            IN  /\ Times("open", n) = 1
                /\ Times("close", n) =
                      IF config.compact /\ kind \in {"primitive", "stringExpr"} THEN 2 ELSE 1
                /\ Times("attributes", n) =
                      IF config.compact /\ kind = "stringExpr" THEN 2
                      ELSE IF ~config.compact /\ kind = "primitive" THEN 0 ELSE 1

\* What the printer is meant to print of a tree, in order: each node once, a for
\* statement by its fields, nothing below a variable or a node the filter rejects.
Raw(n, c) == \/ Kind(n) = "forStmt" /\ c \in ToSet(nodes[n].items)
             \/ Kind(n) = "stringExpr" /\ Kind(c) = "string"

Present(c) == IF c = None THEN <<>> ELSE <<c>>

InOrder(n) == IF Kind(n) = "forStmt"
              THEN nodes[n].items \o Present(nodes[n].args[1]) \o Present(nodes[n].args[3])
                                  \o Present(nodes[n].args[2])
              ELSE nodes[n].children

Expected(r) ==
    LET order[k \in Nat] ==
            [n \in Nodes |->
                IF k = 0 \/ Kind(n) \in config.hidden THEN <<>>
                ELSE <<n>> \o FlattenSeq([i \in DOMAIN InOrder(n) |->
                                 IF Raw(n, InOrder(n)[i]) THEN <<InOrder(n)[i]>>
                                 ELSE order[k - 1][InOrder(n)[i]]])]
    IN  order[Len(nodes)][r]

\* The nodes that pieces of the output show
Shown(pieces) ==
    FlattenSeq([i \in DOMAIN pieces |->
                   IF pieces[i].what \in {"open", "name", "error", "text"}
                   THEN <<pieces[i].node>> ELSE <<>>])

\* Without a depth limit the output has every node that the filter accepts
\* exactly once, in the order of the text, whatever was attached, replaced and
\* moved before: what a class keeps in fields of its own and prints from them is
\* what its children are.
PrintedOnce ==
    done /\ job = "print" /\ config.maxDepth = 0 => Shown(out) = Expected(root)

\* Only nodes at the depth limit or below are cut, and all of those, until a node
\* with a hook of its own is left: its level was not counted on the way in and is
\* taken back on the way out, below zero, that is to 2^32 - 1.
DepthLimit ==
    \A i \in DOMAIN out :
        LET left == \E j \in 1 .. i - 1 : out[j].what = "close" /\ Overridden(out[j].node)
            within == \E j \in 1 .. i - 1 : out[j].what = "open" /\ Overridden(out[j].node)
        IN  /\ out[i].what = "dots" =>
                  config.maxDepth > 0 /\ (out[i].level >= config.maxDepth \/ left)
            /\ out[i].what = "open" =>
                  config.maxDepth = 0 \/ out[i].level < config.maxDepth \/ within

\* A node is indented by its depth in the tree, up to the first node that has no
\* hook of its own, for statement or interpolated string: the first two indent by
\* a level that they do not take back, the last does not indent its parts.
IndentedByDepth ==
    \A i \in Pieces("open") :
        (\A j \in 1 .. i - 1 : out[j].what = "open" =>
             Kind(out[j].node) \notin {"plain", "forStmt", "stringExpr"})
        => out[i].indent = out[i].level

\* The output is the tree: whole nodes, each once and in order.
OutputIsTheTree == NodesAreWhole /\ PrintedOnce

\* The two counters of levels, of the depth limit and of the indentation, are
\* right up to the nodes at which they go wrong.
LevelsCounted == DepthLimit /\ IndentedByDepth

=============================================================================
