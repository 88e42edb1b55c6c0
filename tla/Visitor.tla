------------------------------ MODULE Visitor ------------------------------
(***************************************************************************)
(* Walks over a syntax tree (src/src/frontend/ast/visitor.cpp and the      *)
(* functions of src/include/cxy/ast/visitor.hpp that are built on them).   *)
(* The recursion of visit is a stack of frames, each with what is left to  *)
(* do in a node; AstPrinter, a visitor that overrides visit, uses the same *)
(* stack.                                                                  *)
(***************************************************************************)
EXTENDS Ast

VARIABLES job,      \* the call in progress, or "idle"
          done,     \* whether it has returned, with its answer still there
          root,     \* its tree
          want,     \* the nodes a search is for
          stack,    \* frames: of the caller, and of the nodes being visited
          entered,  \* nodes whose hook was called, in order
          result    \* what a search has found so far

walkVars == <<root, want, stack, entered, result>>
visitorVars == <<job, done, walkVars>>

\* collectNodes, findNode, a visitor of its own, and ASTPrinter::print
Searches == {"collect", "find"}
Jobs == Searches \cup {"visit", "print"}

\* A step within a node: visiting a child, or, for the printer, text and the
\* bracket it closes by hand
Steps == [do : {"visit", "text"}, node : Nodes] \cup [do : {"close"}, node : {None}]

Frame == [node : MaybeNode, todo : Seq(Steps), indented : BOOLEAN]

VisitorTypeOK ==
    /\ job \in Jobs \cup {"idle"}
    /\ done \in BOOLEAN
    /\ root \in MaybeNode
    /\ want \subseteq Nodes
    /\ stack \in Seq(Frame)
    /\ entered \in Seq(Nodes)
    /\ result \in Seq(Nodes)

VisitorInit ==
    /\ job = "idle"
    /\ done = FALSE
    /\ root = None
    /\ want = {}
    /\ stack = <<>>
    /\ entered = <<>>
    /\ result = <<>>

Visit(n) == [do |-> "visit", node |-> n]
Visits(cs) == [i \in DOMAIN cs |-> Visit(cs[i])]

\* What callers visit is a tree: no node is a child twice.  (A node whose parent
\* pointer is lost is still visited.)
IsTree(r) ==
    \A n, m \in Below(r) : \A i \in DOMAIN nodes[n].children, j \in DOMAIN nodes[m].children :
        nodes[n].children[i] = nodes[m].children[j] => n = m /\ i = j

Begin(what, r) ==
    /\ job = "idle"
    /\ Len(nodes) = Len(offer.kinds)
    /\ nodes[r].parent = None
    /\ IsTree(r)
    /\ job' = what
    /\ root' = r
    /\ stack' = <<[node |-> None, todo |-> <<Visit(r)>>, indented |-> FALSE]>>
    /\ UNCHANGED <<done, entered, result>>

Running(jobs) == job \in jobs /\ ~done

\* The call returns; the answer is looked at, and then forgotten
Return ==
    /\ Len(stack) = 1 /\ Last(stack).todo = <<>>
    /\ done' = TRUE
    /\ stack' = <<>>
    /\ UNCHANGED <<job, root, want, entered, result>>

Forget ==
    /\ done
    /\ job' = "idle"
    /\ done' = FALSE
    /\ root' = None
    /\ want' = {}
    /\ entered' = <<>>
    /\ result' = <<>>
    /\ UNCHANGED stack

\* The innermost frame, where it is that of a node, has nothing left to do
NodeDone == Len(stack) > 1 /\ Last(stack).todo = <<>>

\* The step the innermost frame does next
NextStep(step) == Last(stack).todo # <<>> /\ Head(Last(stack).todo) = step

\* The frames once it is done
Advanced == [stack EXCEPT ![Len(stack)].todo = Tail(@)]

-----------------------------------------------------------------------------
(* ASTVisitor::visit and ConstASTVisitor::visit, with the hooks of a       *)
(* search or any others.  dispatchVisit calls the hook of the node's kind, *)
(* and every hook that is not overridden calls visitNode.                  *)

\* Mutant: collectNodes does not look below a match.
HookStops(n, descend) ==
    /\ descend = (n \notin want)
    /\ result' = IF n \in want THEN Append(result, n) ELSE result

\* The hook of a search puts down a match; findNode's does not descend below
\* one, collectNodes' does.  Other visitors descend as they like.
Hook(n, descend) ==
    /\ CASE job = "collect" -> descend = TRUE
         [] job = "find" -> descend = (n \notin want)
         [] OTHER -> TRUE
    /\ result' = CASE n \notin want -> result
                   [] n \in want /\ job = "collect" -> Append(result, n)
                   [] n \in want /\ job # "collect" -> <<n>>

EnterNode(n) ==
    /\ Running(Searches \cup {"visit"})
    /\ NextStep(Visit(n))
    /\ \E descend \in BOOLEAN :
          /\ Hook(n, descend)
          /\ stack' = Append(Advanced, [node |-> n, indented |-> FALSE,
                                        todo |-> IF descend THEN Visits(nodes[n].children)
                                                            ELSE <<>>])
    /\ entered' = Append(entered, n)
    /\ UNCHANGED <<job, done, root, want>>

\* dispatchVisitPost, whatever the hook has answered
LeaveNode ==
    /\ Running(Searches \cup {"visit"})
    /\ NodeDone
    /\ stack' = Front(stack)
    /\ UNCHANGED <<job, done, root, want, entered, result>>

BeginSearch(what, r) ==
    /\ Begin(what, r)
    /\ want' \in IF what = "visit" THEN {{}} ELSE SUBSET Below(r)

EndSearch ==
    /\ Running(Searches \cup {"visit"})
    /\ Return

VisitorNext ==
    \/ \E what \in Searches \cup {"visit"}, r \in Nodes : BeginSearch(what, r)
    \/ \E n \in Nodes : EnterNode(n)
    \/ LeaveNode
    \/ EndSearch

-----------------------------------------------------------------------------
(* Properties                                                              *)

\* The nodes below r, each before its children and these in order
Preorder(r) ==
    LET order[k \in Nat] ==
            [n \in Nodes |->
                IF k = 0 THEN <<>>
                ELSE <<n>> \o FlattenSeq([i \in DOMAIN nodes[n].children |->
                                            order[k - 1][nodes[n].children[i]]])]
    IN  order[Len(nodes)][r]

\* The matches that have no match above them
Outermost == {n \in want : \A m \in want : n \in Below(m) => m = n}

\* The members of S among the elements of a sequence, in its order
Only(s, S) == FlattenSeq([i \in DOMAIN s |-> IF s[i] \in S THEN <<s[i]>> ELSE <<>>])

\* collectNodes returns every match in the order of the text; findNode returns a
\* match where there is one, and of the outermost ones the last: false from the
\* hook ends the descent, not the search, so that a later match is found over the
\* first one that it is documented to return (visitor.hpp:641).
SearchAnswers ==
    /\ done /\ job = "collect" => result = Only(Preorder(root), want)
    /\ done /\ job = "find" =>
          LET outermost == Only(Preorder(root), Outermost)
          IN  result = IF outermost = <<>> THEN <<>> ELSE <<Last(outermost)>>

=============================================================================
