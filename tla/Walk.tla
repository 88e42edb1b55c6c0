-------------------------------- MODULE Walk --------------------------------
(***************************************************************************)
(* What every visitor of a syntax tree promises: it enters a node below    *)
(* the one that it is in, and leaves the nodes in the reverse order, each  *)
(* at most once.  Visitor and AstPrinter implement it, whatever their      *)
(* hooks decide and whatever they print.                                   *)
(***************************************************************************)
EXTENDS Naturals, Sequences, SequencesExt

VARIABLES tree,  \* node -> its children, in order
          open,  \* the nodes being visited, the root first
          seen   \* the nodes entered in this walk

vars == <<tree, open, seen>>

Init ==
    /\ tree = <<>>
    /\ open = <<>>
    /\ seen = {}

\* Between walks the tree changes
Rebuild ==
    /\ open = <<>>
    /\ open' = <<>>
    /\ seen' = {}

Enter(n) ==
    /\ n \notin seen
    /\ open = <<>> => seen = {}
    /\ open # <<>> => n \in ToSet(tree[Last(open)])
    /\ open' = Append(open, n)
    /\ seen' = seen \cup {n}
    /\ UNCHANGED tree

Leave ==
    /\ open # <<>>
    /\ open' = Front(open)
    /\ UNCHANGED <<tree, seen>>

Next == Rebuild \/ Leave \/ \E n \in DOMAIN tree : Enter(n)

Spec == Init /\ [][Next]_vars

=============================================================================
