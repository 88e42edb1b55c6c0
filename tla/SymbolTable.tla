---------------------------- MODULE SymbolTable ----------------------------
(***************************************************************************)
(* The scopes and symbols of src/src/stages/symbols.cpp: a tree of scopes  *)
(* that only grows, a current scope that moves down by pushScope and up by *)
(* popScope, and in each scope a hash table of symbols.                    *)
(*                                                                         *)
(* A scope is the position in the sequence scopes at which it was created; *)
(* the global scope is 1 and its parent, a null pointer, is 0.  A caller   *)
(* may keep the Scope pointers it is given, those of popped scopes too,    *)
(* and define symbols through them.                                        *)
(***************************************************************************)
EXTENDS Integers, Sequences

CONSTANTS Names,         \* interned names
          Nodes,         \* AST nodes, declarations and references alike
          Null,          \* the null pointer
          IndexModulus,  \* 2^16 in the code: the range of a uint16_t
          MaxScopes      \* bound on the scopes created

ASSUME NullAssumption == Null \notin Nodes
ASSUME IndexModulusAssumption == IndexModulus \in Nat \ {0}
ASSUME MaxScopesAssumption == MaxScopes \in Nat \ {0}

VARIABLES scopes,   \* all scopes, in the order of their creation
          current,  \* currentScope_
          popped,   \* history: the scopes popScope has left
          unused    \* history: the names the last popScope reported as unused

vars == <<scopes, current, popped, unused>>

Global == 1

Ids == 1 .. Len(scopes)

\* used is a history field: since its definition the symbol was found by
\* lookupSymbol or given a reference by updateSymbolReference.
Symbol == [index : 0 .. IndexModulus - 1, declaration : Nodes,
           lastReference : Nodes \cup {Null}, used : BOOLEAN]

\* A Scope, without enumerating all symbol tables
IsScope(s) ==
    /\ s \in [parent : Nat, level : Nat, nextIndex : 0 .. IndexModulus - 1,
              symbols : {s.symbols}]
    /\ DOMAIN s.symbols \subseteq Names
    /\ s.symbols \in [DOMAIN s.symbols -> Symbol]

TypeOK ==
    /\ scopes \in Seq({scopes[i] : i \in Ids})
    /\ \A i \in Ids : IsScope(scopes[i])
    /\ current \in Ids
    /\ popped \subseteq Ids
    /\ unused \subseteq Names

NewScope(parent, level) ==
    [parent |-> parent, level |-> level, nextIndex |-> 0, symbols |-> <<>>]

Init ==
    /\ scopes = <<NewScope(0, 0)>>
    /\ current = Global
    /\ popped = {}
    /\ unused = {}

-----------------------------------------------------------------------------

Defines(s, n) == n \in DOMAIN scopes[s].symbols

\* SymbolTable::findSymbolInScopeChain: the scope in which the walk from s
\* along the parents finds n, or 0
FindInChain(s, n) ==
    LET find[i \in 0 .. Len(scopes)] ==
            IF i = 0 THEN 0
            ELSE IF Defines(i, n) THEN i ELSE find[scopes[i].parent]
    IN  find[s]

\* Mutant: the index is counted without a width.
DefineInUnbounded(s, n, node) ==
    LET symbol == [index |-> scopes[s].nextIndex, declaration |-> node,
                   lastReference |-> Null, used |-> FALSE]
    IN  scopes' = [scopes EXCEPT
            ![s].nextIndex = @ + 1,
            ![s].symbols = [x \in DOMAIN @ \cup {n} |-> IF x = n THEN symbol ELSE @[x]]]

\* Scope::defineSymbol in scope s.  The index counts modulo its width.
DefineIn(s, n, node) ==
    LET symbol == [index |-> scopes[s].nextIndex, declaration |-> node,
                   lastReference |-> Null, used |-> FALSE]
    IN  scopes' = [scopes EXCEPT
            ![s].nextIndex = (@ + 1) % IndexModulus,
            ![s].symbols   = [x \in DOMAIN @ \cup {n} |->
                                 IF x = n THEN symbol ELSE @[x]]]

\* Mutant: a second definition replaces the first.
DefineSymbolAgain(s, n, node) ==
    /\ DefineIn(s, n, node)
    /\ UNCHANGED <<current, popped, unused>>

\* SymbolTable::defineSymbol, or Scope::defineSymbol through a kept pointer.
\* A name the scope has already is refused, with an error from the table.
DefineSymbol(s, n, node) ==
    /\ ~Defines(s, n)
    /\ DefineIn(s, n, node)
    /\ UNCHANGED <<current, popped, unused>>

Reference(s, n, node) ==
    scopes' = [scopes EXCEPT ![s].symbols[n].lastReference = node,
                             ![s].symbols[n].used = TRUE]

\* Mutant: the walk begins at the scope created last.
LookupSymbolFromNewest(n) ==
    LET s == FindInChain(Len(scopes), n)
    IN  /\ s # 0
        /\ Reference(s, n, Null)
        /\ UNCHANGED <<current, popped, unused>>

\* SymbolTable::lookupSymbol has no node at hand for the reference
LookupSymbol(n) ==
    LET s == FindInChain(current, n)
    IN  /\ s # 0
        /\ Reference(s, n, Null)
        /\ UNCHANGED <<current, popped, unused>>

\* SymbolTable::updateSymbolReference; an unknown name is ignored
UpdateSymbolReference(n, node) ==
    LET s == FindInChain(current, n)
    IN  /\ s # 0
        /\ Reference(s, n, node)
        /\ UNCHANGED <<current, popped, unused>>

\* Mutant: the level is not counted on.
PushScopeSameLevel ==
    /\ Len(scopes) < MaxScopes
    /\ scopes' = Append(scopes, NewScope(current, scopes[current].level))
    /\ current' = Len(scopes) + 1
    /\ UNCHANGED <<popped, unused>>

PushScope ==
    /\ Len(scopes) < MaxScopes
    /\ scopes' = Append(scopes, NewScope(current, scopes[current].level + 1))
    /\ current' = Len(scopes) + 1
    /\ UNCHANGED <<popped, unused>>

\* reportUnusedSymbolsInScope
Unused(s) ==
    {n \in DOMAIN scopes[s].symbols : scopes[s].symbols[n].lastReference = Null}

\* Mutant: the report comes after the step to the parent.
PopScopeThenReport ==
    /\ current # Global
    /\ scopes[current].parent # 0
    /\ unused' = Unused(scopes[current].parent)
    /\ current' = scopes[current].parent
    /\ popped' = popped \cup {current}
    /\ UNCHANGED scopes

\* SymbolTable::popScope.  At the global scope, and at a scope without a
\* parent, it only logs.
PopScope ==
    /\ current # Global
    /\ scopes[current].parent # 0
    /\ unused' = Unused(current)
    /\ current' = scopes[current].parent
    /\ popped' = popped \cup {current}
    /\ UNCHANGED scopes

Next ==
    \/ \E s \in Ids, n \in Names, node \in Nodes : DefineSymbol(s, n, node)
    \/ \E n \in Names : LookupSymbol(n)
    \/ \E n \in Names, node \in Nodes : UpdateSymbolReference(n, node)
    \/ PushScope
    \/ PopScope

Spec == Init /\ [][Next]_vars

-----------------------------------------------------------------------------
(* Properties                                                              *)

\* The parents form a tree rooted in the global scope, numbered in the order
\* of creation, with a level one above the parent's.  So the walk of
\* findSymbolInScopeChain ends, and popScope's "non-global scope has no
\* parent" is never reached.
ScopeTree ==
    /\ scopes[Global].parent = 0 /\ scopes[Global].level = 0
    /\ \A i \in Ids \ {Global} :
          /\ scopes[i].parent \in 1 .. i - 1
          /\ scopes[i].level = scopes[scopes[i].parent].level + 1

\* A scope popScope has left is never current again, nor an ancestor of the
\* current one: its unused symbols are reported once, and a name it defines
\* is never visible to a lookup again.
PoppedScopesStayClosed ==
    LET chain[i \in 0 .. Len(scopes)] ==
            IF i = 0 THEN {} ELSE {i} \cup chain[scopes[i].parent]
    IN  chain[current] \cap popped = {}

\* Scopes nest, and a scope that was left stays left.
ScopesNest == ScopeTree /\ PoppedScopesStayClosed

\* What a name means in a scope changes only when an inner scope on the walk
\* defines it anew; popping, pushing and using symbols rebind nothing, and no
\* binding is lost or redefined.
BindingsOnlyShadowed ==
    [][\A s \in Ids, n \in Names :
          LET before == FindInChain(s, n)
              after  == FindInChain(s, n)'
          IN  /\ after # before => /\ after > before
                                   /\ ~Defines(after, n)
              /\ before # 0 => /\ scopes'[before].symbols[n].declaration =
                                       scopes[before].symbols[n].declaration
                               /\ scopes'[before].symbols[n].index =
                                       scopes[before].symbols[n].index]_vars

\* A use is recorded in the innermost declaration visible from the current
\* scope and never in one that it shadows, nor in a sibling's or a popped
\* scope's.
UseRecordedWhereVisible ==
    [][\A s \in Ids, n \in Names :
          Defines(s, n) /\ scopes'[s].symbols[n] # scopes[s].symbols[n] =>
              /\ s = FindInChain(current, n)
              /\ s \notin popped]_vars

\* popScope reports every symbol of the scope that was never used.
NeverUsedIsReported ==
    [][\A s \in popped' \ popped : \A n \in DOMAIN scopes[s].symbols :
          ~scopes[s].symbols[n].used => n \in unused']_vars

\* popScope reports no symbol that was looked up or referenced: lookupSymbol
\* runs to "Update last reference for usage tracking" (symbols.cpp:90).
UsedIsNotReported ==
    [][\A s \in popped' \ popped : \A n \in DOMAIN scopes[s].symbols :
          n \in unused' => ~scopes[s].symbols[n].used]_vars

=============================================================================
