-------------------------------- MODULE Ast --------------------------------
(***************************************************************************)
(* The syntax tree (src/include/cxy/ast/node.hpp and the node classes      *)
(* beside it): nodes that are constructed over existing ones, and the      *)
(* setters and adders that attach a node to another.                       *)
(*                                                                         *)
(* A node is its position in nodes, None the null pointer.  The classes    *)
(* differ in the fields a child can be in: those that the constructor      *)
(* fills (args), one with a setter (field), a list (items).  A child is    *)
(* recorded three times, in such a field, in the children of its parent    *)
(* and by its own parent pointer, and the methods have to keep these in    *)
(* step.                                                                   *)
(***************************************************************************)
EXTENDS Naturals, Sequences, SequencesExt, FiniteSets

CONSTANTS Offers,      \* what callers build: the kinds of their nodes, in order, and
                       \* whether they rewrite, attaching nodes that have a parent
          MaxChildren  \* bound on the children of a node

VARIABLES offer,  \* the caller's
          nodes,  \* all nodes in the arena
          moved   \* history: nodes attached while they had a parent

treeVars == <<offer, nodes, moved>>

None == 0

\* The classes by what the constructors, setters and visitors tell apart:
\* literals and identifiers, of which string literals are one; primitive types;
\* nodes whose class has a visitor hook of its own in the printer, the case of a
\* match among them; those that have not; interpolated strings; for statements.
Kinds == {"leaf", "string", "primitive", "typed", "matchCase", "plain", "stringExpr",
          "forStmt"}

ASSUME OffersAssumption == \A o \in Offers : o.kinds \in Seq(Kinds)

\* The number of children a constructor takes
Arity(kind) == CASE kind = "typed" -> 2
                 [] kind = "forStmt" -> 3
                 [] OTHER -> 0

WithField == {"typed", "plain"}
WithItems == {"typed", "matchCase", "plain", "stringExpr", "forStmt"}

Nodes == DOMAIN nodes
MaybeNode == {None} \cup Nodes

Node == [kind : Kinds, children : Seq(Nodes), parent : MaybeNode,
         args : Seq(MaybeNode), field : MaybeNode, items : Seq(Nodes)]

TreeTypeOK ==
    /\ offer \in Offers
    /\ nodes \in Seq(Node)
    /\ moved \subseteq Nodes

TreeInit ==
    /\ offer \in Offers
    /\ nodes = <<>>
    /\ moved = {}

-----------------------------------------------------------------------------
(* ASTNode::addChild and removeChild, on a sequence of nodes ns.           *)

AddChild(ns, n, c) ==
    IF c = None THEN ns
    ELSE [ns EXCEPT ![c].parent = n, ![n].children = Append(@, c)]

\* Mutant: the parent pointer is left.
RemoveChildOnly(ns, n, c) ==
    IF c \in ToSet(ns[n].children) THEN [ns EXCEPT ![n].children = RemoveFirst(@, c)] ELSE ns

\* The parent pointer is cleared even if the child has another parent by now
RemoveChild(ns, n, c) ==
    IF c \in ToSet(ns[n].children)
    THEN [ns EXCEPT ![c].parent = None, ![n].children = RemoveFirst(@, c)]
    ELSE ns

AddChildren(ns, n, cs) ==
    LET added[i \in 0 .. Len(cs)] ==
            IF i = 0 THEN ns ELSE AddChild(added[i - 1], n, cs[i])
    IN  added[Len(cs)]

-----------------------------------------------------------------------------
(* What a caller may attach.                                               *)

\* The children of the members of S are members
Closed(S) == \A x \in S : ToSet(nodes[x].children) \subseteq S

\* The nodes of the tree below n, and n
Below(n) == {m \in Nodes : \A S \in SUBSET Nodes : n \in S /\ Closed(S) => m \in S}

\* A node that has a parent is attached only in order to rewrite the tree, once
\* at most in the model.
Placeable(c) == nodes[c].parent = None \/ (offer.rewrites /\ c \notin moved)

\* A tree has no cycles.
Attachable(n, c) ==
    /\ n \notin Below(c)
    /\ Len(nodes[n].children) < MaxChildren
    /\ Placeable(c)

Move(cs) == moved' = moved \cup {c \in cs : c # None /\ nodes[c].parent # None}

-----------------------------------------------------------------------------
(* Operations.                                                             *)

\* The order in which a constructor adds its arguments: a for statement has
\* range, body and condition, and adds the condition before the body.
Added(kind, args) == IF kind = "forStmt" THEN <<args[1], args[3], args[2]>> ELSE args

\* createX
Construct ==
    /\ Len(nodes) < Len(offer.kinds)
    /\ LET new == Len(nodes) + 1
           kind == offer.kinds[new]
       IN  \E args \in [1 .. Arity(kind) -> MaybeNode] :
              /\ \A i, j \in DOMAIN args : args[i] = args[j] /\ i # j => args[i] = None
              /\ \A i \in DOMAIN args :
                    args[i] # None => Placeable(args[i])
              /\ nodes' = AddChildren(Append(nodes, [kind |-> kind, children |-> <<>>,
                                                     parent |-> None, args |-> args,
                                                     field |-> None, items |-> <<>>]),
                                      new, Added(kind, args))
              /\ Move(ToSet(args))
    /\ UNCHANGED offer

\* addX: a null pointer is not added, nor a value or a type to the default case of a
\* switch or a match; nothing happens then, and those are no steps.  A default case is a
\* node of its kind that callers add no more to.
AddItem(n, c) ==
    /\ nodes[n].kind \in WithItems
    /\ Attachable(n, c)
    /\ nodes' = AddChild([nodes EXCEPT ![n].items = Append(@, c)], n, c)
    /\ Move({c})
    /\ UNCHANGED offer

\* setX: takes out the child that was in the field; null empties the field
SetField(n, c) ==
    /\ nodes[n].kind \in WithField
    /\ c # None => Attachable(n, c)
    /\ nodes' = AddChild([RemoveChild(nodes, n, nodes[n].field) EXCEPT ![n].field = c], n, c)
    /\ Move({c})
    /\ UNCHANGED offer

\* MatchCaseNode::setBinding ignores null and takes nothing out
SetBinding(n, c) ==
    /\ nodes[n].kind = "matchCase"
    /\ Attachable(n, c)
    /\ nodes' = AddChild([nodes EXCEPT ![n].field = c], n, c)
    /\ Move({c})
    /\ UNCHANGED offer

\* removeAnnotation, removeAttribute
RemoveItem(n, c) ==
    /\ nodes[n].kind = "plain"
    /\ c \in ToSet(nodes[n].items)
    /\ nodes' = RemoveChild([nodes EXCEPT ![n].items = RemoveFirst(@, c)], n, c)
    /\ UNCHANGED <<offer, moved>>

TreeNext ==
    \/ Construct
    \/ \E n, c \in Nodes : AddItem(n, c) \/ SetBinding(n, c) \/ RemoveItem(n, c)
    \/ \E n \in Nodes, c \in MaybeNode : SetField(n, c)

-----------------------------------------------------------------------------
(* Properties                                                              *)

IsChild(n, c) == c \in ToSet(nodes[n].children)

\* The fields and the list of a node
Named(n) == (ToSet(nodes[n].args) \cup {nodes[n].field} \cup ToSet(nodes[n].items)) \ {None}

\* "Parent-child relationships maintained automatically" (node.hpp:27): a parent
\* pointer names a node that has the child, whatever is rewritten; and a child
\* of a node has its parent pointer, unless it was once attached while it had
\* another parent, which then takes the pointer away with the child.
ParentsAgree ==
    \A n, c \in Nodes :
        /\ nodes[c].parent = n => IsChild(n, c)
        /\ IsChild(n, c) /\ c \notin moved => nodes[c].parent = n

\* What a class keeps in its fields is among the children that visitors see, and
\* the children are what the fields hold; a match case that is given another
\* binding keeps the first one as a child that no field holds.
ChildrenAreFields ==
    \A n \in Nodes :
        /\ Named(n) \subseteq ToSet(nodes[n].children)
        /\ nodes[n].kind # "matchCase" => ToSet(nodes[n].children) = Named(n)

\* The three records of a child agree as far as the operations keep them so.
TreeAgrees == ParentsAgree /\ ChildrenAreFields

=============================================================================
