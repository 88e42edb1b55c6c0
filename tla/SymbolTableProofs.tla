------------------------ MODULE SymbolTableProofs ------------------------
(***************************************************************************)
(* Proofs about the symbol table: its type invariant, the tree of scopes,  *)
(* what names mean in it, and what is recorded and reported of their use.  *)
(***************************************************************************)
EXTENDS SymbolTable, FiniteSetTheorems, SequenceTheorems, WellFoundedInduction, TLAPS

-----------------------------------------------------------------------------
(* Induction over the natural numbers, about a set: the numbers for which  *)
(* a claim holds.  (The library's is about an operator P(_), which the     *)
(* provers cannot instantiate.)                                            *)

\* A set of natural numbers that is not empty has a least member.
LEMMA LeastNatural ==
    ASSUME NEW S \in SUBSET Nat, S # {}
    PROVE  \E n \in S : \A m \in S : n <= m
<1>1. PICK n \in S : \A m \in S : <<m, n>> \notin OpToRel(<, Nat)
  BY NatLessThanWellFounded, WFMin, Zenon
<1>2. \A m \in S : ~ (m < n)
  BY <1>1, Zenon DEF OpToRel
<1> QED
  BY <1>2

\* A set that has 0 and with each natural number the next has them all.
LEMMA SimpleInduction ==
    ASSUME NEW S, 0 \in S, \A n \in Nat : n \in S => n + 1 \in S
    PROVE  Nat \subseteq S
<1> SUFFICES ASSUME Nat \ S # {}
             PROVE  FALSE
  OBVIOUS
<1>1. PICK n \in Nat \ S : \A m \in Nat \ S : n <= m
  BY LeastNatural
<1>2. n # 0 /\ n - 1 \in Nat
  OBVIOUS
<1> QED
  BY <1>1, <1>2

\* A set that has a natural number whenever it has all smaller ones has them all.
LEMMA StrongInduction ==
    ASSUME NEW S, \A n \in Nat : (\A m \in 0 .. n - 1 : m \in S) => n \in S
    PROVE  Nat \subseteq S
<1> SUFFICES ASSUME Nat \ S # {}
             PROVE  FALSE
  OBVIOUS
<1>1. PICK n \in Nat \ S : \A m \in Nat \ S : n <= m
  BY LeastNatural
<1> QED
  BY <1>1

-----------------------------------------------------------------------------
(* Walks along parents, apart from scopes: p gives each number of 1 .. N a *)
(* parent, an earlier number or 0, where a walk ends.                      *)

Earlier(p, N) == \A i \in 1 .. N : p[i] \in 0 .. i - 1

\* f finds the first member of D on the walk from a number, or 0.
IsWalk(f, p, D, N) ==
    f = [i \in 0 .. N |-> IF i = 0 THEN 0 ELSE IF i \in D THEN i ELSE f[p[i]]]

\* c is the set of all numbers on the walk.
IsChain(c, p, N) ==
    c = [i \in 0 .. N |-> IF i = 0 THEN {} ELSE {i} \cup c[p[i]]]

LEMMA WalkStep ==
    ASSUME NEW N \in Nat, NEW p, NEW D, NEW f, IsWalk(f, p, D, N)
    PROVE  \A i \in 0 .. N : f[i] = IF i = 0 THEN 0 ELSE IF i \in D THEN i ELSE f[p[i]]
<1> DEFINE g == [i \in 0 .. N |-> IF i = 0 THEN 0 ELSE IF i \in D THEN i ELSE f[p[i]]]
<1>1. f = g
  BY DEF IsWalk
<1>2. \A i \in 0 .. N : g[i] = IF i = 0 THEN 0 ELSE IF i \in D THEN i ELSE f[p[i]]
  OBVIOUS
<1> HIDE DEF g
<1> QED
  BY <1>1, <1>2

LEMMA ChainStep ==
    ASSUME NEW N \in Nat, NEW p, NEW c, IsChain(c, p, N)
    PROVE  \A i \in 0 .. N : /\ i = 0 => c[i] = {}
                             /\ i # 0 => c[i] = {i} \cup c[p[i]]
<1> DEFINE d == [i \in 0 .. N |-> IF i = 0 THEN {} ELSE {i} \cup c[p[i]]]
<1>1. c = d
  BY DEF IsChain
<1>2. \A i \in 0 .. N : /\ i = 0 => d[i] = {}
                        /\ i # 0 => d[i] = {i} \cup c[p[i]]
  OBVIOUS
<1> HIDE DEF d
<1> QED
  BY <1>1, <1>2

\* A walk ends, so that the recursive definition of what it finds has a solution.
LEMMA WalkExists ==
    ASSUME NEW N \in Nat, NEW p, Earlier(p, N), NEW D
    PROVE  \E f : IsWalk(f, p, D, N)
<1> DEFINE S == {k \in Nat : k <= N => \E f : IsWalk(f, p, D, k)}
<1>1. 0 \in S
  <2>1. IsWalk([i \in 0 .. 0 |-> 0], p, D, 0)
    BY DEF IsWalk
  <2> QED
    BY <2>1
<1>2. ASSUME NEW k \in Nat, k \in S
      PROVE  k + 1 \in S
  <2> SUFFICES ASSUME k + 1 <= N
               PROVE  \E f : IsWalk(f, p, D, k + 1)
    OBVIOUS
  <2>1. PICK f : IsWalk(f, p, D, k)
    BY <1>2
  <2> DEFINE g == [i \in 0 .. k + 1 |->
                      IF i <= k THEN f[i] ELSE IF i \in D THEN i ELSE f[p[i]]]
  <2>2. \A i \in 1 .. k + 1 : p[i] \in 0 .. k /\ g[p[i]] = f[p[i]]
    BY DEF Earlier
  <2>3. \A i \in 0 .. k : f[i] = IF i = 0 THEN 0 ELSE IF i \in D THEN i ELSE f[p[i]]
    BY <2>1 DEF IsWalk
  <2>4. \A i \in 0 .. k + 1 : g[i] = IF i = 0 THEN 0 ELSE IF i \in D THEN i ELSE g[p[i]]
    BY <2>2, <2>3
  <2>5. IsWalk(g, p, D, k + 1)
    BY <2>4 DEF IsWalk
  <2> QED
    BY <2>5
<1>3. Nat \subseteq S
  <2> HIDE DEF S
  <2> QED
    BY <1>1, <1>2, SimpleInduction
<1> QED
  BY <1>3

LEMMA ChainExists ==
    ASSUME NEW N \in Nat, NEW p, Earlier(p, N)
    PROVE  \E c : IsChain(c, p, N)
<1> DEFINE S == {k \in Nat : k <= N => \E c : IsChain(c, p, k)}
<1>1. 0 \in S
  <2>1. IsChain([i \in 0 .. 0 |-> {}], p, 0)
    BY DEF IsChain
  <2> QED
    BY <2>1
<1>2. ASSUME NEW k \in Nat, k \in S
      PROVE  k + 1 \in S
  <2> SUFFICES ASSUME k + 1 <= N
               PROVE  \E c : IsChain(c, p, k + 1)
    OBVIOUS
  <2>1. PICK c : IsChain(c, p, k)
    BY <1>2
  <2> DEFINE d == [i \in 0 .. k + 1 |-> IF i <= k THEN c[i] ELSE {i} \cup c[p[i]]]
  <2>2. \A i \in 1 .. k + 1 : p[i] \in 0 .. k /\ d[p[i]] = c[p[i]]
    BY DEF Earlier
  <2>3. \A i \in 0 .. k : c[i] = IF i = 0 THEN {} ELSE {i} \cup c[p[i]]
    BY <2>1 DEF IsChain
  <2>4. /\ \A i \in 0 .. k : d[i] = c[i]
        /\ d[k + 1] = {k + 1} \cup c[p[k + 1]]
    OBVIOUS
  <2>5. \A i \in 0 .. k + 1 : d[i] = IF i = 0 THEN {} ELSE {i} \cup d[p[i]]
    <3> HIDE DEF d
    <3> TAKE i \in 0 .. k + 1
    <3>1. i # 0 => d[p[i]] = c[p[i]]
      BY <2>2
    <3>2. d[i] = IF i = 0 THEN {} ELSE {i} \cup c[p[i]]
      <4>1. CASE i <= k
        BY <2>3, <2>4, <4>1
      <4>2. CASE i = k + 1
        BY <2>4, <4>2
      <4> QED
        BY <4>1, <4>2
    <3> QED
      BY <3>1, <3>2
  <2>6. IsChain(d, p, k + 1)
    BY <2>5 DEF IsChain
  <2> QED
    BY <2>6
<1>3. Nat \subseteq S
  <2> HIDE DEF S
  <2> QED
    BY <1>1, <1>2, SimpleInduction
<1> QED
  BY <1>3

\* What a walk finds is on it and in D.
LEMMA WalkFinds ==
    ASSUME NEW N \in Nat, NEW p, Earlier(p, N), NEW D, NEW f, IsWalk(f, p, D, N),
           NEW c, IsChain(c, p, N)
    PROVE  \A i \in 0 .. N : /\ f[i] \in 0 .. i
                             /\ f[i] # 0 => f[i] \in D /\ f[i] \in c[i]
<1> DEFINE S == {k \in Nat : k <= N => /\ f[k] \in 0 .. k
                                       /\ f[k] # 0 => f[k] \in D /\ f[k] \in c[k]}
<1>1. ASSUME NEW k \in Nat, \A m \in 0 .. k - 1 : m \in S
      PROVE  k \in S
  <2> SUFFICES ASSUME k <= N
               PROVE  k \in S
    OBVIOUS
  <2>1. /\ f[k] = IF k = 0 THEN 0 ELSE IF k \in D THEN k ELSE f[p[k]]
        /\ k # 0 => c[k] = {k} \cup c[p[k]]
    BY WalkStep, ChainStep
  <2>2. k # 0 => p[k] \in 0 .. k - 1 /\ p[k] \in S
    BY <1>1 DEF Earlier
  <2> QED
    BY <2>1, <2>2
<1>2. Nat \subseteq S
  <2> HIDE DEF S
  <2> QED
    BY <1>1, StrongInduction
<1> QED
  BY <1>2

\* The numbers on a walk are not behind its start.
LEMMA ChainBounded ==
    ASSUME NEW N \in Nat, NEW p, Earlier(p, N), NEW c, IsChain(c, p, N)
    PROVE  \A i \in 0 .. N : c[i] \subseteq 1 .. i
<1> DEFINE S == {k \in Nat : k <= N => c[k] \subseteq 1 .. k}
<1>1. ASSUME NEW k \in Nat, \A m \in 0 .. k - 1 : m \in S
      PROVE  k \in S
  <2> SUFFICES ASSUME k <= N
               PROVE  c[k] \subseteq 1 .. k
    OBVIOUS
  <2>1. /\ k = 0 => c[k] = {}
        /\ k # 0 => c[k] = {k} \cup c[p[k]]
    BY ChainStep
  <2>2. k # 0 => p[k] \in 0 .. k - 1 /\ p[k] \in S
    BY <1>1 DEF Earlier
  <2> QED
    BY <2>1, <2>2
<1>2. Nat \subseteq S
  <2> HIDE DEF S
  <2> QED
    BY <1>1, StrongInduction
<1> QED
  BY <1>2

\* Walks over fewer numbers are the beginning of those over more.
LEMMA ChainExtends ==
    ASSUME NEW N \in Nat, NEW M \in Nat, N <= M, NEW p, NEW q, Earlier(p, N),
           \A i \in 1 .. N : q[i] = p[i],
           NEW c, IsChain(c, p, N), NEW d, IsChain(d, q, M)
    PROVE  \A i \in 0 .. N : d[i] = c[i]
<1> DEFINE S == {k \in Nat : k <= N => d[k] = c[k]}
<1>1. ASSUME NEW k \in Nat, \A m \in 0 .. k - 1 : m \in S
      PROVE  k \in S
  <2> SUFFICES ASSUME k <= N
               PROVE  d[k] = c[k]
    OBVIOUS
  <2>1. /\ k = 0 => c[k] = {} /\ d[k] = {}
        /\ k # 0 => c[k] = {k} \cup c[p[k]] /\ d[k] = {k} \cup d[q[k]]
    BY ChainStep
  <2>2. k # 0 => q[k] = p[k] /\ p[k] \in 0 .. k - 1 /\ p[k] \in S
    BY <1>1 DEF Earlier
  <2>3. k # 0 => d[q[k]] = c[p[k]]
    BY <2>2
  <2> HIDE DEF S
  <2> QED
    BY <2>1, <2>3
<1>2. Nat \subseteq S
  <2> HIDE DEF S
  <2> QED
    BY <1>1, StrongInduction
<1> QED
  BY <1>2

\* More to find, over the same parents or more.
MoreToFind(p, D, N, q, E, M) ==
    /\ N \in Nat /\ M \in Nat /\ N <= M
    /\ Earlier(p, N) /\ Earlier(q, M)
    /\ \A i \in 1 .. N : q[i] = p[i]
    /\ \A i \in 1 .. N : i \in D => i \in E

\* With more to find, over the same parents or more, a walk finds what it found
\* or something nearer its start that was not there before.
LEMMA WalkShadows ==
    ASSUME NEW N, NEW M, NEW p, NEW q, NEW D, NEW E, MoreToFind(p, D, N, q, E, M),
           NEW f, IsWalk(f, p, D, N), NEW g, IsWalk(g, q, E, M)
    PROVE  \A i \in 0 .. N : g[i] # f[i] => /\ g[i] \in 1 .. i /\ g[i] > f[i]
                                            /\ g[i] \in E \ D
<1> DEFINE S == {k \in Nat : k <= N => /\ f[k] \in 0 .. k
                                       /\ g[k] # f[k] => /\ g[k] \in 1 .. k /\ g[k] > f[k]
                                                         /\ g[k] \in E \ D}
<1> USE DEF MoreToFind
<1>1. ASSUME NEW k \in Nat, \A m \in 0 .. k - 1 : m \in S
      PROVE  k \in S
  <2> SUFFICES ASSUME k <= N
               PROVE  k \in S
    OBVIOUS
  <2>1. /\ f[k] = IF k = 0 THEN 0 ELSE IF k \in D THEN k ELSE f[p[k]]
        /\ g[k] = IF k = 0 THEN 0 ELSE IF k \in E THEN k ELSE g[q[k]]
    BY WalkStep
  <2>2. k # 0 => q[k] = p[k] /\ p[k] \in 0 .. k - 1 /\ p[k] \in S
    BY <1>1 DEF Earlier
  <2>3. k \in D /\ k # 0 => k \in E
    OBVIOUS
  <2> QED
    BY <2>1, <2>2, <2>3
<1>2. Nat \subseteq S
  <2> HIDE DEF S
  <2> QED
    BY <1>1, StrongInduction
<1> QED
  BY <1>2

-----------------------------------------------------------------------------
(* Scopes.                                                                 *)

\* What a scope holds, of which TypeOK says that it is one.
LEMMA ScopeFields ==
    ASSUME TypeOK, NEW i \in Ids
    PROVE  /\ scopes[i] = [parent |-> scopes[i].parent, level |-> scopes[i].level,
                           nextIndex |-> scopes[i].nextIndex, symbols |-> scopes[i].symbols]
           /\ scopes[i].parent \in Nat /\ scopes[i].level \in Nat
           /\ scopes[i].nextIndex \in 0 .. IndexModulus - 1
           /\ DOMAIN scopes[i].symbols \subseteq Names
           /\ scopes[i].symbols \in [DOMAIN scopes[i].symbols -> Symbol]
BY DEF TypeOK, IsScope

LEMMA IdsAre ==
    ASSUME TypeOK
    PROVE  Len(scopes) \in Nat /\ DOMAIN scopes = Ids /\ Global \in Ids /\ Ids \subseteq Nat
<1>1. Len(scopes) \in Nat /\ DOMAIN scopes = 1 .. Len(scopes)
  BY LenProperties DEF TypeOK
<1> QED
  BY <1>1 DEF TypeOK, Ids, Global

LEMMA Modulo == \A a \in Nat, m \in Nat \ {0} : a % m \in 0 .. m - 1
OBVIOUS

\* Scope::defineSymbol adds one symbol to one scope, which has been used nowhere.
LEMMA DefineEffect ==
    ASSUME TypeOK, NEW s \in Ids, NEW n \in Names, NEW node \in Nodes, DefineIn(s, n, node)
    PROVE  /\ DOMAIN scopes' = Ids /\ Ids' = Ids /\ Len(scopes') = Len(scopes)
           /\ scopes' = [i \in Ids |-> scopes'[i]]
           /\ \A i \in Ids : IsScope(scopes'[i])
           /\ \A i \in Ids : /\ scopes'[i].parent = scopes[i].parent
                             /\ scopes'[i].level = scopes[i].level
                             /\ i # s => scopes'[i] = scopes[i]
           /\ DOMAIN scopes'[s].symbols = DOMAIN scopes[s].symbols \cup {n}
           /\ \A x \in DOMAIN scopes[s].symbols :
                 x # n => scopes'[s].symbols[x] = scopes[s].symbols[x]
           /\ scopes'[s].symbols[n].lastReference = Null
<1> DEFINE symbol == [index |-> scopes[s].nextIndex, declaration |-> node,
                      lastReference |-> Null, used |-> FALSE]
           table == [x \in DOMAIN scopes[s].symbols \cup {n} |->
                        IF x = n THEN symbol ELSE scopes[s].symbols[x]]
           v == (scopes[s].nextIndex + 1) % IndexModulus
           scope == [[scopes[s] EXCEPT !.nextIndex = v] EXCEPT !.symbols = table]
<1>1. scopes' = [scopes EXCEPT ![s] = scope]
  BY DEF DefineIn
<1>2. symbol \in Symbol
  BY ScopeFields DEF Symbol
<1>3. table \in [DOMAIN scopes[s].symbols \cup {n} -> Symbol]
  BY <1>2, ScopeFields
<1>4. /\ IsScope(scope) /\ scope.symbols = table
      /\ scope.parent = scopes[s].parent /\ scope.level = scopes[s].level
  <2>1. v \in 0 .. IndexModulus - 1
    <3>1. scopes[s].nextIndex \in 0 .. IndexModulus - 1 /\ IndexModulus \in Nat \ {0}
      BY ScopeFields, IndexModulusAssumption
    <3>2. scopes[s].nextIndex + 1 \in Nat
      BY <3>1
    <3> QED
      BY <3>1, <3>2, Modulo
  <2>2. DOMAIN table \subseteq Names /\ table \in [DOMAIN table -> Symbol]
    <3>1. DOMAIN table = DOMAIN scopes[s].symbols \cup {n}
      OBVIOUS
    <3> HIDE DEF table
    <3> QED
      BY <3>1, <1>3, ScopeFields
  <2>3. IsScope(scopes[s])
    BY DEF TypeOK
  <2> DEFINE Rec(T) == [parent : Nat, level : Nat, nextIndex : 0 .. IndexModulus - 1,
                        symbols : T]
  <2> HIDE DEF table, v
  <2>4. scopes[s] \in Rec({scopes[s].symbols, table})
    BY <2>3 DEF IsScope
  <2>5. /\ scope \in Rec({scopes[s].symbols, table}) /\ scope.symbols = table
        /\ scope.parent = scopes[s].parent /\ scope.level = scopes[s].level
    BY <2>1, <2>4
  <2> HIDE DEF scope
  <2>6. scope \in Rec({scope.symbols})
    BY <2>5
  <2> QED
    BY <2>2, <2>5, <2>6 DEF IsScope
<1>5. /\ DOMAIN scopes' = Ids /\ Ids' = Ids /\ Len(scopes') = Len(scopes)
      /\ scopes' = [i \in Ids |-> scopes'[i]]
      /\ scopes'[s] = scope
      /\ \A i \in Ids : i # s => scopes'[i] = scopes[i]
  <2> HIDE DEF scope
  <2>1. /\ DOMAIN scopes' = Ids /\ scopes' = [i \in Ids |-> scopes'[i]]
        /\ scopes'[s] = scope /\ \A i \in Ids : i # s => scopes'[i] = scopes[i]
    BY <1>1, IdsAre
  <2>2. Len(scopes') = Len(scopes)
    BY <1>1 DEF TypeOK
  <2> QED
    BY <2>1, <2>2 DEF Ids
<1>6. \A i \in Ids : IsScope(scopes'[i])
  <2> HIDE DEF scope
  <2> QED
    BY <1>4, <1>5 DEF TypeOK
<1>7. \A i \in Ids : scopes'[i].parent = scopes[i].parent /\ scopes'[i].level = scopes[i].level
  <2> HIDE DEF scope
  <2> QED
    BY <1>4, <1>5
<1>8. /\ DOMAIN scopes'[s].symbols = DOMAIN scopes[s].symbols \cup {n}
      /\ \A x \in DOMAIN scopes[s].symbols :
            x # n => scopes'[s].symbols[x] = scopes[s].symbols[x]
      /\ scopes'[s].symbols[n].lastReference = Null
  <2>1. scopes'[s].symbols = table
    <3> HIDE DEF scope, table
    <3> QED
      BY <1>4, <1>5
  <2>2. /\ DOMAIN table = DOMAIN scopes[s].symbols \cup {n}
        /\ \A x \in DOMAIN scopes[s].symbols : x # n => table[x] = scopes[s].symbols[x]
        /\ table[n].lastReference = Null
    OBVIOUS
  <2> HIDE DEF table
  <2> QED
    BY <2>1, <2>2
<1> QED
  BY <1>5, <1>6, <1>7, <1>8

\* lookupSymbol and updateSymbolReference change the reference of one symbol.
LEMMA ReferenceEffect ==
    ASSUME TypeOK, NEW s \in Ids, NEW n, Defines(s, n), NEW node \in Nodes \cup {Null},
           Reference(s, n, node)
    PROVE  /\ DOMAIN scopes' = Ids /\ Ids' = Ids /\ Len(scopes') = Len(scopes)
           /\ scopes' = [i \in Ids |-> scopes'[i]]
           /\ \A i \in Ids : IsScope(scopes'[i])
           /\ \A i \in Ids : /\ scopes'[i].parent = scopes[i].parent
                             /\ scopes'[i].level = scopes[i].level
                             /\ i # s => scopes'[i] = scopes[i]
                             /\ DOMAIN scopes'[i].symbols = DOMAIN scopes[i].symbols
           /\ \A x \in DOMAIN scopes[s].symbols :
                 x # n => scopes'[s].symbols[x] = scopes[s].symbols[x]
           /\ scopes'[s].symbols[n].declaration = scopes[s].symbols[n].declaration
           /\ scopes'[s].symbols[n].index = scopes[s].symbols[n].index
           /\ scopes'[s].symbols[n].used
<1> DEFINE symbol == [scopes[s].symbols[n] EXCEPT !.lastReference = node, !.used = TRUE]
           table == [scopes[s].symbols EXCEPT ![n] = symbol]
           v == scopes[s].nextIndex
           scope == [[scopes[s] EXCEPT !.nextIndex = v] EXCEPT !.symbols = table]
<1>1. scopes' = [scopes EXCEPT ![s] = scope]
  <2>1. /\ s \in DOMAIN scopes /\ n \in DOMAIN scopes[s].symbols
        /\ scopes[s] = [parent |-> scopes[s].parent, level |-> scopes[s].level,
                        nextIndex |-> scopes[s].nextIndex, symbols |-> scopes[s].symbols]
    BY ScopeFields, IdsAre DEF Defines
  <2>2. scopes' = [scopes EXCEPT ![s] = [scopes[s] EXCEPT !.symbols = table]]
    BY <2>1 DEF Reference
  <2>3. [scopes[s] EXCEPT !.nextIndex = v] = scopes[s]
    BY <2>1
  <2> HIDE DEF table, v
  <2> QED
    BY <2>2, <2>3
<1>2. symbol \in Symbol
  BY ScopeFields DEF Symbol, Defines
<1>3. table \in [DOMAIN scopes[s].symbols -> Symbol]
  BY <1>2, ScopeFields DEF Defines
<1>4. /\ IsScope(scope) /\ scope.symbols = table
      /\ scope.parent = scopes[s].parent /\ scope.level = scopes[s].level
  <2>1. v \in 0 .. IndexModulus - 1
    BY ScopeFields
  <2>2. DOMAIN table \subseteq Names /\ table \in [DOMAIN table -> Symbol]
    <3>1. DOMAIN table = DOMAIN scopes[s].symbols
      OBVIOUS
    <3> HIDE DEF table
    <3> QED
      BY <3>1, <1>3, ScopeFields
  <2>3. IsScope(scopes[s])
    BY DEF TypeOK
  <2> DEFINE Rec(T) == [parent : Nat, level : Nat, nextIndex : 0 .. IndexModulus - 1,
                        symbols : T]
  <2> HIDE DEF table, v
  <2>4. scopes[s] \in Rec({scopes[s].symbols, table})
    BY <2>3 DEF IsScope
  <2>5. /\ scope \in Rec({scopes[s].symbols, table}) /\ scope.symbols = table
        /\ scope.parent = scopes[s].parent /\ scope.level = scopes[s].level
    BY <2>1, <2>4
  <2> HIDE DEF scope
  <2>6. scope \in Rec({scope.symbols})
    BY <2>5
  <2> QED
    BY <2>2, <2>5, <2>6 DEF IsScope
<1>5. /\ DOMAIN scopes' = Ids /\ Ids' = Ids /\ Len(scopes') = Len(scopes)
      /\ scopes' = [i \in Ids |-> scopes'[i]]
      /\ scopes'[s] = scope
      /\ \A i \in Ids : i # s => scopes'[i] = scopes[i]
  <2> HIDE DEF scope
  <2>1. /\ DOMAIN scopes' = Ids /\ scopes' = [i \in Ids |-> scopes'[i]]
        /\ scopes'[s] = scope /\ \A i \in Ids : i # s => scopes'[i] = scopes[i]
    BY <1>1, IdsAre
  <2>2. Len(scopes') = Len(scopes)
    BY <1>1 DEF TypeOK
  <2> QED
    BY <2>1, <2>2 DEF Ids
<1>6. \A i \in Ids : IsScope(scopes'[i])
  <2> HIDE DEF scope
  <2> QED
    BY <1>4, <1>5 DEF TypeOK
<1>7. \A i \in Ids : /\ scopes'[i].parent = scopes[i].parent
                     /\ scopes'[i].level = scopes[i].level
                     /\ DOMAIN scopes'[i].symbols = DOMAIN scopes[i].symbols
  <2>1. DOMAIN table = DOMAIN scopes[s].symbols
    OBVIOUS
  <2> HIDE DEF scope, table
  <2> QED
    BY <1>4, <1>5, <2>1
<1>8. /\ \A x \in DOMAIN scopes[s].symbols :
            x # n => scopes'[s].symbols[x] = scopes[s].symbols[x]
      /\ scopes'[s].symbols[n] = symbol
  <2>1. scopes'[s].symbols = table
    <3> HIDE DEF scope, table
    <3> QED
      BY <1>4, <1>5
  <2> HIDE DEF symbol
  <2> QED
    BY <2>1, ScopeFields DEF Defines
<1>9. /\ symbol.declaration = scopes[s].symbols[n].declaration
      /\ symbol.index = scopes[s].symbols[n].index /\ symbol.used
  BY ScopeFields DEF Symbol, Defines
<1> HIDE DEF symbol
<1> QED
  BY <1>5, <1>6, <1>7, <1>8, <1>9

\* A function on 1 .. n is a sequence of its values.
LEMMA OwnSequence ==
    ASSUME NEW n \in Nat, NEW q, q = [i \in 1 .. n |-> q[i]]
    PROVE  /\ Len(q) = n
           /\ q \in Seq({q[i] : i \in 1 .. Len(q)})
<1>1. q \in [1 .. n -> {q[i] : i \in 1 .. n}]
  OBVIOUS
<1>2. q \in Seq({q[i] : i \in 1 .. n})
  BY <1>1, SeqDef
<1>3. Len(q) = n
  BY <1>1, <1>2, LenProperties
<1> QED
  BY <1>2, <1>3

\* What a scope's parents are, and the scopes that define a name.
Parents == [i \in Ids |-> scopes[i].parent]
Defining(n) == {i \in Ids : Defines(i, n)}

LEMMA ParentsEarlier ==
    ASSUME TypeOK, ScopeTree
    PROVE  Earlier(Parents, Len(scopes))
BY IdsAre DEF ScopeTree, Earlier, Parents, Ids, Global

\* findSymbolInScopeChain is the walk along the parents.
FindingIsAWalk ==
    \A n \in Names : \E f :
        /\ IsWalk(f, Parents, Defining(n), Len(scopes))
        /\ \A s \in 0 .. Len(scopes) : FindInChain(s, n) = f[s]

LEMMA FindIsWalk == TypeOK /\ ScopeTree => FindingIsAWalk
<1> SUFFICES ASSUME TypeOK, ScopeTree, NEW n \in Names
             PROVE  \E f : /\ IsWalk(f, Parents, Defining(n), Len(scopes))
                           /\ \A s \in 0 .. Len(scopes) : FindInChain(s, n) = f[s]
  BY DEF FindingIsAWalk
<1> DEFINE Walk(f) == [i \in 0 .. Len(scopes) |->
                          IF i = 0 THEN 0
                          ELSE IF Defines(i, n) THEN i ELSE f[scopes[i].parent]]
           find == CHOOSE f : f = Walk(f)
<1>1. ASSUME NEW f
      PROVE  (f = Walk(f)) <=> IsWalk(f, Parents, Defining(n), Len(scopes))
  <2> DEFINE other == [i \in 0 .. Len(scopes) |->
                          IF i = 0 THEN 0
                          ELSE IF i \in Defining(n) THEN i ELSE f[Parents[i]]]
  <2>1. \A i \in 1 .. Len(scopes) : /\ Parents[i] = scopes[i].parent
                                    /\ i \in Defining(n) <=> Defines(i, n)
    BY DEF Parents, Defining, Ids
  <2>2. \A i \in 0 .. Len(scopes) : i = 0 \/ i \in 1 .. Len(scopes)
    BY IdsAre
  <2>3. Walk(f) = other
    BY <2>1, <2>2
  <2> QED
    BY <2>3 DEF IsWalk
<1>2. \E f : f = Walk(f)
  BY <1>1, WalkExists, ParentsEarlier, IdsAre
<1>3. find = Walk(find)
  BY <1>2
<1>4. \A s : FindInChain(s, n) = find[s]
  BY DEF FindInChain
<1> HIDE DEF find, Walk
<1> QED
  BY <1>1, <1>3, <1>4

\* The walk of PoppedScopesStayClosed is the same walk.
ClosedIsOffTheWalk ==
    \E c : /\ IsChain(c, Parents, Len(scopes))
           /\ PoppedScopesStayClosed <=> c[current] \cap popped = {}

LEMMA ChainIsWalk == TypeOK /\ ScopeTree => ClosedIsOffTheWalk
<1> SUFFICES ASSUME TypeOK, ScopeTree
             PROVE  ClosedIsOffTheWalk
  OBVIOUS
<1> DEFINE Walk(c) == [i \in 0 .. Len(scopes) |->
                          IF i = 0 THEN {} ELSE {i} \cup c[scopes[i].parent]]
           chain == CHOOSE c : c = Walk(c)
<1>1. ASSUME NEW c
      PROVE  (c = Walk(c)) <=> IsChain(c, Parents, Len(scopes))
  <2> DEFINE other == [i \in 0 .. Len(scopes) |->
                          IF i = 0 THEN {} ELSE {i} \cup c[Parents[i]]]
  <2>1. \A i \in 0 .. Len(scopes) :
           (IF i = 0 THEN {} ELSE {i} \cup c[scopes[i].parent])
           = (IF i = 0 THEN {} ELSE {i} \cup c[Parents[i]])
    <3> TAKE i \in 0 .. Len(scopes)
    <3>1. i # 0 => Parents[i] = scopes[i].parent
      BY IdsAre DEF Parents, Ids
    <3> QED
      BY <3>1
  <2>2. Walk(c) = other
    BY <2>1
  <2> QED
    BY <2>2 DEF IsChain
<1>2. \E c : c = Walk(c)
  BY <1>1, ChainExists, ParentsEarlier, IdsAre
<1>3. chain = Walk(chain)
  BY <1>2
<1>4. PoppedScopesStayClosed <=> chain[current] \cap popped = {}
  BY DEF PoppedScopesStayClosed
<1> HIDE DEF chain, Walk
<1> QED
  BY <1>1, <1>3, <1>4 DEF ClosedIsOffTheWalk

\* What the walk from the current scope finds is a scope that defines the name
\* and that was not left.
LEMMA FoundIsOpen ==
    ASSUME TypeOK, ScopesNest, NEW n \in Names, FindInChain(current, n) # 0
    PROVE  /\ FindInChain(current, n) \in Ids
           /\ Defines(FindInChain(current, n), n)
           /\ FindInChain(current, n) \notin popped
<1>1. PICK f : /\ IsWalk(f, Parents, Defining(n), Len(scopes))
               /\ \A s \in 0 .. Len(scopes) : FindInChain(s, n) = f[s]
  BY FindIsWalk DEF FindingIsAWalk, ScopesNest
<1>2. PICK c : /\ IsChain(c, Parents, Len(scopes))
               /\ PoppedScopesStayClosed <=> c[current] \cap popped = {}
  BY ChainIsWalk DEF ClosedIsOffTheWalk, ScopesNest
<1>3. current \in 0 .. Len(scopes)
  BY IdsAre DEF TypeOK, Ids
<1>4. f[current] \in Defining(n) /\ f[current] \in c[current]
  <2>1. f[current] # 0
    BY <1>1, <1>3
  <2> QED
    BY <1>1, <1>2, <1>3, <2>1, WalkFinds, ParentsEarlier, IdsAre DEF ScopesNest
<1>5. FindInChain(current, n) = f[current]
  BY <1>1, <1>3
<1> QED
  BY <1>2, <1>4, <1>5 DEF Defining, ScopesNest

\* pushScope adds a scope behind all others.
LEMMA PushEffect ==
    ASSUME TypeOK, PushScope
    PROVE  /\ Len(scopes') = Len(scopes) + 1 /\ Ids' = 1 .. Len(scopes) + 1
           /\ DOMAIN scopes' = Ids'
           /\ \A i \in Ids : scopes'[i] = scopes[i]
           /\ scopes'[Len(scopes) + 1] = NewScope(current, scopes[current].level + 1)
<1>1. scopes' = Append(scopes, NewScope(current, scopes[current].level + 1))
  BY DEF PushScope
<1> HIDE DEF NewScope
<1>2. /\ scopes \in Seq({scopes[i] : i \in Ids}) /\ Len(scopes) \in Nat
  BY IdsAre DEF TypeOK
<1>3. /\ Len(scopes') = Len(scopes) + 1
      /\ DOMAIN scopes' = 1 .. Len(scopes) + 1
      /\ \A i \in 1 .. Len(scopes) : scopes'[i] = scopes[i]
      /\ scopes'[Len(scopes) + 1] = NewScope(current, scopes[current].level + 1)
  <2> DEFINE T == {scopes[i] : i \in Ids} \cup {NewScope(current, scopes[current].level + 1)}
  <2>1. scopes \in Seq(T)
    BY <1>2
  <2> QED
    BY <1>1, <1>2, <2>1, AppendProperties, LenProperties
<1> QED
  BY <1>3 DEF Ids

LEMMA NewScopeIsScope ==
    \A p \in Nat, l \in Nat :
        /\ IsScope(NewScope(p, l))
        /\ NewScope(p, l).parent = p /\ NewScope(p, l).level = l
        /\ NewScope(p, l).symbols = <<>> /\ DOMAIN NewScope(p, l).symbols = {}
<1>1. 0 \in 0 .. IndexModulus - 1
  BY IndexModulusAssumption
<1> QED
  BY <1>1 DEF IsScope, NewScope

-----------------------------------------------------------------------------
(* The inductive invariant.                                                *)

\* A symbol without a use has no reference.
UnusedHasNoReference ==
    \A i \in Ids : \A n \in DOMAIN scopes[i].symbols :
        ~scopes[i].symbols[n].used => scopes[i].symbols[n].lastReference = Null

IInv == TypeOK /\ ScopesNest /\ UnusedHasNoReference

\* What every step leaves as it was: the scopes there are, their parents and levels.
ScopesStay ==
    /\ Len(scopes) \in Nat /\ Len(scopes') \in Nat /\ Len(scopes) <= Len(scopes')
    /\ \A i \in Ids : /\ scopes'[i].parent = scopes[i].parent
                      /\ scopes'[i].level = scopes[i].level

\* The walks of one state are the beginning of those of the next.
LEMMA WalksStay ==
    ASSUME TypeOK, ScopeTree, TypeOK', ScopeTree', ScopesStay
    PROVE  \E c, d :
              /\ IsChain(c, Parents, Len(scopes))
              /\ IsChain(d, Parents', Len(scopes'))
              /\ \A i \in 0 .. Len(scopes) : d[i] = c[i]
              /\ PoppedScopesStayClosed <=> c[current] \cap popped = {}
              /\ PoppedScopesStayClosed' <=> d[current'] \cap popped' = {}
<1>1. PICK c : /\ IsChain(c, Parents, Len(scopes))
               /\ PoppedScopesStayClosed <=> c[current] \cap popped = {}
  BY ChainIsWalk DEF ClosedIsOffTheWalk
<1>2. ClosedIsOffTheWalk'
  BY ChainIsWalk, PTL
<1>3. PICK d : /\ IsChain(d, Parents', Len(scopes'))
               /\ PoppedScopesStayClosed' <=> d[current'] \cap popped' = {}
  BY <1>2 DEF ClosedIsOffTheWalk
<1>4. /\ Len(scopes) \in Nat /\ Len(scopes') \in Nat /\ Len(scopes) <= Len(scopes')
      /\ \A i \in 1 .. Len(scopes) : Parents'[i] = Parents[i]
  BY DEF ScopesStay, Parents, Ids
<1>5. \A i \in 0 .. Len(scopes) : d[i] = c[i]
  <2> DEFINE p == Parents
             q == Parents'
             N == Len(scopes)
             M == Len(scopes')
  <2>1. /\ Earlier(p, N) /\ N \in Nat /\ M \in Nat /\ N <= M
        /\ \A i \in 1 .. N : q[i] = p[i]
        /\ IsChain(c, p, N) /\ IsChain(d, q, M)
    BY <1>1, <1>3, <1>4, ParentsEarlier
  <2> HIDE DEF p, q, N, M
  <2>2. \A i \in 0 .. N : d[i] = c[i]
    BY <2>1, ChainExtends
  <2> QED
    BY <2>2 DEF N
<1> QED
  BY <1>1, <1>3, <1>5

LEMMA InitIInv == Init => IInv
<1> SUFFICES ASSUME Init PROVE IInv
  OBVIOUS
<1>1. /\ Len(scopes) = 1 /\ Ids = 1 .. 1 /\ scopes[1] = NewScope(0, 0)
      /\ scopes = [i \in 1 .. 1 |-> scopes[i]]
  BY DEF Init, Ids
<1>0. /\ IsScope(NewScope(0, 0))
      /\ NewScope(0, 0).parent = 0 /\ NewScope(0, 0).level = 0
      /\ DOMAIN NewScope(0, 0).symbols = {}
  BY NewScopeIsScope
<1> HIDE DEF NewScope
<1>2. TypeOK
  <2>1. scopes \in Seq({scopes[i] : i \in Ids})
    BY <1>1, OwnSequence DEF Ids
  <2>2. \A i \in Ids : IsScope(scopes[i])
    BY <1>0, <1>1
  <2> QED
    BY <1>1, <2>1, <2>2 DEF Init, TypeOK, Global
<1>3. ScopeTree
  BY <1>0, <1>1 DEF ScopeTree, Global
<1>4. PoppedScopesStayClosed
  BY <1>2, <1>3, ChainIsWalk DEF ClosedIsOffTheWalk, Init
<1>5. UnusedHasNoReference
  BY <1>0, <1>1 DEF UnusedHasNoReference
<1> QED
  BY <1>2, <1>3, <1>4, <1>5 DEF IInv, ScopesNest

\* Every step that changes symbols alone keeps the types, the tree and the walks.
LEMMA SymbolsOnly ==
    ASSUME IInv, DOMAIN scopes' = Ids, scopes' = [i \in Ids |-> scopes'[i]],
           Ids' = Ids, Len(scopes') = Len(scopes),
           \A i \in Ids : IsScope(scopes'[i]),
           \A i \in Ids : /\ scopes'[i].parent = scopes[i].parent
                          /\ scopes'[i].level = scopes[i].level,
           UNCHANGED <<current, popped, unused>>
    PROVE  TypeOK' /\ ScopesNest'
<1>1. TypeOK'
  <2>1. (scopes \in Seq({scopes[i] : i \in Ids}))'
    BY IdsAre, OwnSequence DEF Ids, IInv
  <2> QED
    BY <2>1 DEF TypeOK, IInv
<1>2. ScopeTree'
  <2>1. Global \in Ids /\ \A i \in Ids \ {Global} : scopes[i].parent \in Ids
    BY IdsAre DEF IInv, ScopesNest, ScopeTree, Ids
  <2> QED
    BY <2>1 DEF IInv, ScopesNest, ScopeTree
<1>3. ScopesStay
  BY IdsAre DEF ScopesStay, IInv
<1>4. PoppedScopesStayClosed'
  <2>1. current \in 0 .. Len(scopes)
    BY IdsAre DEF IInv, TypeOK, Ids
  <2> QED
    BY <1>1, <1>2, <1>3, <2>1, WalksStay DEF IInv, ScopesNest
<1> QED
  BY <1>1, <1>2, <1>4 DEF ScopesNest

LEMMA DefineKeeps ==
    ASSUME IInv, NEW s \in Ids, NEW n \in Names, NEW node \in Nodes, DefineSymbol(s, n, node)
    PROVE  IInv'
<1>1. TypeOK /\ DefineIn(s, n, node) /\ UNCHANGED <<current, popped, unused>>
  BY DEF DefineSymbol, IInv
<1>2. TypeOK' /\ ScopesNest'
  BY <1>1, DefineEffect, SymbolsOnly
<1>3. UnusedHasNoReference'
  <2> SUFFICES ASSUME NEW i \in Ids, NEW x \in DOMAIN scopes'[i].symbols,
                      ~scopes'[i].symbols[x].used
               PROVE  scopes'[i].symbols[x].lastReference = Null
    BY <1>1, DefineEffect DEF UnusedHasNoReference
  <2>1. CASE i = s /\ x = n
    BY <1>1, <2>1, DefineEffect
  <2>2. CASE i # s \/ x # n
    <3>1. /\ x \in DOMAIN scopes[i].symbols
          /\ scopes'[i].symbols[x] = scopes[i].symbols[x]
      BY <1>1, <2>2, DefineEffect
    <3> QED
      BY <3>1 DEF IInv, UnusedHasNoReference
  <2> QED
    BY <2>1, <2>2
<1> QED
  BY <1>2, <1>3 DEF IInv

LEMMA ReferenceKeeps ==
    ASSUME IInv, NEW s \in Ids, NEW n \in Names, Defines(s, n), NEW node \in Nodes \cup {Null},
           Reference(s, n, node), UNCHANGED <<current, popped, unused>>
    PROVE  IInv'
<1>1. TypeOK
  BY DEF IInv
<1>2. TypeOK' /\ ScopesNest'
  BY <1>1, ReferenceEffect, SymbolsOnly
<1>3. UnusedHasNoReference'
  <2> SUFFICES ASSUME NEW i \in Ids, NEW x \in DOMAIN scopes'[i].symbols,
                      ~scopes'[i].symbols[x].used
               PROVE  scopes'[i].symbols[x].lastReference = Null
    BY <1>1, ReferenceEffect DEF UnusedHasNoReference
  <2>1. x \in DOMAIN scopes[i].symbols /\ (i # s \/ x # n)
    BY <1>1, ReferenceEffect
  <2>2. scopes'[i].symbols[x] = scopes[i].symbols[x]
    BY <1>1, <2>1, ReferenceEffect
  <2> QED
    BY <2>1, <2>2 DEF IInv, UnusedHasNoReference
<1> QED
  BY <1>2, <1>3 DEF IInv

LEMMA PushKeeps ==
    ASSUME IInv, PushScope
    PROVE  IInv'
<1> DEFINE new == Len(scopes) + 1
<1>1. /\ TypeOK /\ Len(scopes) \in Nat /\ current \in Ids /\ new \notin Ids
      /\ \A i \in Ids' : i \in Ids \/ i = new
      /\ Ids \subseteq Ids' /\ new \in Ids'
  <2>1. TypeOK
    BY DEF IInv
  <2>2. Len(scopes) \in Nat /\ Ids' = 1 .. Len(scopes) + 1
    BY <2>1, IdsAre, PushEffect
  <2>3. current \in Ids
    BY <2>1 DEF TypeOK
  <2> QED
    BY <2>1, <2>2, <2>3 DEF Ids
<1>2. /\ scopes'[new].parent = current
      /\ scopes'[new].level = scopes[current].level + 1
      /\ IsScope(scopes'[new])
      /\ DOMAIN scopes'[new].symbols = {}
  <2>1. scopes[current].level + 1 \in Nat /\ current \in Nat
    BY <1>1, ScopeFields, IdsAre
  <2>2. scopes'[new] = NewScope(current, scopes[current].level + 1)
    BY <1>1, PushEffect
  <2> HIDE DEF NewScope
  <2> QED
    BY <2>1, <2>2, NewScopeIsScope
<1>3. TypeOK'
  <2>1. (scopes \in Seq({scopes[i] : i \in Ids}))'
    <3>1. scopes' = [i \in 1 .. new |-> scopes'[i]] /\ new \in Nat
      BY <1>1, PushEffect DEF PushScope, TypeOK
    <3> QED
      BY <1>1, <3>1, OwnSequence, PushEffect DEF Ids
  <2>2. (\A i \in Ids : IsScope(scopes[i]))'
    <3>1. \A i \in Ids : IsScope(scopes'[i])
      BY <1>1, PushEffect DEF TypeOK
    <3> QED
      BY <1>1, <1>2, <3>1
  <2> QED
    BY <1>1, <2>1, <2>2 DEF TypeOK, PushScope
<1>4. ScopeTree'
  <2>1. scopes'[Global].parent = 0 /\ scopes'[Global].level = 0
    BY <1>1, PushEffect, IdsAre DEF IInv, ScopesNest, ScopeTree
  <2>2. ASSUME NEW i \in Ids \ {Global}
        PROVE  /\ scopes'[i].parent \in 1 .. i - 1
               /\ scopes'[i].level = scopes'[scopes'[i].parent].level + 1
    <3>1. scopes[i].parent \in Ids
      BY IdsAre DEF IInv, ScopesNest, ScopeTree, Ids
    <3> QED
      BY <1>1, <3>1, PushEffect DEF IInv, ScopesNest, ScopeTree
  <2>3. /\ scopes'[new].parent \in 1 .. new - 1
        /\ scopes'[new].level = scopes'[scopes'[new].parent].level + 1
    BY <1>1, <1>2, PushEffect DEF Ids
  <2> QED
    BY <1>1, <2>1, <2>2, <2>3 DEF ScopeTree
<1>5. PoppedScopesStayClosed'
  <2>1. ScopesStay
    BY <1>1, PushEffect DEF ScopesStay
  <2>2. PICK c, d : /\ IsChain(c, Parents, Len(scopes))
                    /\ IsChain(d, Parents', Len(scopes'))
                    /\ \A i \in 0 .. Len(scopes) : d[i] = c[i]
                    /\ PoppedScopesStayClosed <=> c[current] \cap popped = {}
                    /\ PoppedScopesStayClosed' <=> d[current'] \cap popped' = {}
    BY <1>1, <1>3, <1>4, <2>1, WalksStay DEF IInv, ScopesNest
  <2>3. d[new] = {new} \cup d[current]
    <3>1. Parents'[new] = current
      BY <1>1, <1>2 DEF Parents
    <3>2. /\ Len(scopes') \in Nat /\ new \in 0 .. Len(scopes') /\ new # 0
      BY <1>1, PushEffect
    <3> DEFINE q == Parents'
               M == Len(scopes')
    <3>3. IsChain(d, q, M) /\ M \in Nat
      BY <2>2, <3>2
    <3> HIDE DEF q, M
    <3>4. \A i \in 0 .. M : i # 0 => d[i] = {i} \cup d[q[i]]
      BY <3>3, ChainStep
    <3> QED
      BY <3>1, <3>2, <3>4 DEF q, M
  <2>4. d[current] = c[current] /\ c[current] \cap popped = {}
    BY <1>1, <2>2 DEF Ids, IInv, ScopesNest
  <2>5. new \notin popped /\ popped' = popped /\ current' = new
    BY <1>1 DEF TypeOK, PushScope
  <2> QED
    BY <2>2, <2>3, <2>4, <2>5
<1>6. UnusedHasNoReference'
  <2>1. \A i \in Ids : scopes'[i] = scopes[i]
    BY <1>1, PushEffect
  <2> QED
    BY <1>1, <1>2, <2>1 DEF IInv, UnusedHasNoReference
<1> QED
  BY <1>3, <1>4, <1>5, <1>6 DEF IInv, ScopesNest

LEMMA PopKeeps ==
    ASSUME IInv, PopScope
    PROVE  IInv'
<1> DEFINE parent == scopes[current].parent
<1>1. /\ TypeOK /\ Len(scopes) \in Nat /\ current \in Ids /\ parent \in Ids /\ parent < current
      /\ scopes' = scopes /\ Ids' = Ids /\ current' = parent
  <2>1. TypeOK /\ ScopeTree
    BY DEF IInv, ScopesNest
  <2>2. Len(scopes) \in Nat /\ current \in 1 .. Len(scopes) /\ current # Global
    BY <2>1, IdsAre DEF TypeOK, PopScope, Ids
  <2>3. parent \in 1 .. current - 1
    BY <2>1, <2>2 DEF ScopeTree, Ids
  <2> QED
    BY <2>1, <2>2, <2>3 DEF PopScope, Ids
<1>2. TypeOK'
  <2>1. unused' \subseteq Names
    BY <1>1, ScopeFields DEF PopScope, Unused
  <2> QED
    BY <1>1, <2>1 DEF TypeOK, PopScope
<1>3. ScopeTree'
  BY <1>1 DEF IInv, ScopesNest, ScopeTree
<1>4. PoppedScopesStayClosed'
  <2>1. ScopesStay
    BY <1>1 DEF ScopesStay
  <2>2. PICK c, d : /\ IsChain(c, Parents, Len(scopes))
                    /\ IsChain(d, Parents', Len(scopes'))
                    /\ \A i \in 0 .. Len(scopes) : d[i] = c[i]
                    /\ PoppedScopesStayClosed <=> c[current] \cap popped = {}
                    /\ PoppedScopesStayClosed' <=> d[current'] \cap popped' = {}
    BY <1>1, <1>2, <1>3, <2>1, WalksStay DEF IInv, ScopesNest
  <2>3. c[current] = {current} \cup c[parent]
    <3>1. Parents[current] = parent
      BY <1>1 DEF Parents
    <3>2. current \in 0 .. Len(scopes) /\ current # 0
      BY <1>1 DEF Ids
    <3> QED
      BY <1>1, <2>2, <3>1, <3>2, ChainStep
  <2>4. current \notin c[parent] /\ d[parent] = c[parent]
    <3>1. c[parent] \subseteq 1 .. parent
      BY <1>1, <2>2, ChainBounded, ParentsEarlier DEF IInv, ScopesNest, Ids
    <3> QED
      BY <1>1, <2>2, <3>1 DEF Ids
  <2>5. c[current] \cap popped = {} /\ popped' = popped \cup {current}
    BY <2>2 DEF IInv, ScopesNest, PopScope
  <2> QED
    BY <1>1, <2>2, <2>3, <2>4, <2>5
<1>5. UnusedHasNoReference'
  BY <1>1 DEF IInv, UnusedHasNoReference
<1> QED
  BY <1>2, <1>3, <1>4, <1>5 DEF IInv, ScopesNest

LEMMA NextIInv == IInv /\ [Next]_vars => IInv'
<1> SUFFICES ASSUME IInv, [Next]_vars PROVE IInv'
  OBVIOUS
<1>1. CASE \E s \in Ids, n \in Names, node \in Nodes : DefineSymbol(s, n, node)
  BY <1>1, DefineKeeps
<1>2. CASE \E n \in Names : LookupSymbol(n)
  <2>1. PICK n \in Names : LookupSymbol(n)
    BY <1>2
  <2>2. FindInChain(current, n) \in Ids /\ Defines(FindInChain(current, n), n)
    BY <2>1, FoundIsOpen DEF LookupSymbol, IInv
  <2>3. /\ Reference(FindInChain(current, n), n, Null)
        /\ UNCHANGED <<current, popped, unused>>
    BY <2>1 DEF LookupSymbol
  <2> QED
    BY <2>2, <2>3, ReferenceKeeps
<1>3. CASE \E n \in Names, node \in Nodes : UpdateSymbolReference(n, node)
  <2>1. PICK n \in Names, node \in Nodes : UpdateSymbolReference(n, node)
    BY <1>3
  <2>2. FindInChain(current, n) \in Ids /\ Defines(FindInChain(current, n), n)
    BY <2>1, FoundIsOpen DEF UpdateSymbolReference, IInv
  <2>3. /\ Reference(FindInChain(current, n), n, node)
        /\ UNCHANGED <<current, popped, unused>>
    BY <2>1 DEF UpdateSymbolReference
  <2> QED
    BY <2>2, <2>3, ReferenceKeeps
<1>4. CASE PushScope
  BY <1>4, PushKeeps
<1>5. CASE PopScope
  BY <1>5, PopKeeps
<1>6. CASE UNCHANGED vars
  <2>1. /\ TypeOK <=> TypeOK'
        /\ ScopeTree <=> ScopeTree'
        /\ UnusedHasNoReference <=> UnusedHasNoReference'
    BY <1>6 DEF vars, TypeOK, Ids, ScopeTree, UnusedHasNoReference
  <2>2. PoppedScopesStayClosed <=> PoppedScopesStayClosed'
    BY <1>6 DEF vars, PoppedScopesStayClosed
  <2> QED
    BY <2>1, <2>2 DEF IInv, ScopesNest
<1> QED
  BY <1>1, <1>2, <1>3, <1>4, <1>5, <1>6 DEF Next

LEMMA SpecIInv == Spec => []IInv
BY InitIInv, NextIInv, PTL DEF Spec

\* The state of the table is well formed.
THEOREM SpecTypeOK == Spec => []TypeOK
<1>1. IInv => TypeOK
  BY DEF IInv
<1> QED
  BY <1>1, SpecIInv, PTL

\* Scopes form a tree, and what popScope has left is never on the walk from
\* the current scope again.
THEOREM SpecScopesNest == Spec => []ScopesNest
<1>1. IInv => ScopesNest
  BY DEF IInv
<1> QED
  BY <1>1, SpecIInv, PTL

-----------------------------------------------------------------------------
(* What a step does to names and to what is recorded of their use.         *)

\* The actions that find a symbol, as the reference they give it.
LEMMA LookingUpRefers ==
    ASSUME IInv, NEW n \in Names,
           LookupSymbol(n) \/ \E node \in Nodes : UpdateSymbolReference(n, node)
    PROVE  \E found \in Ids, by \in Nodes \cup {Null} :
              /\ found = FindInChain(current, n)
              /\ found \notin popped
              /\ Defines(found, n) /\ Reference(found, n, by)
              /\ UNCHANGED <<current, popped, unused>>
<1>1. FindInChain(current, n) # 0
  BY DEF LookupSymbol, UpdateSymbolReference
<1>2. /\ FindInChain(current, n) \in Ids
      /\ Defines(FindInChain(current, n), n)
      /\ FindInChain(current, n) \notin popped
  BY <1>1, FoundIsOpen DEF IInv
<1>3. CASE LookupSymbol(n)
  BY <1>2, <1>3 DEF LookupSymbol
<1>4. CASE \E node \in Nodes : UpdateSymbolReference(n, node)
  BY <1>2, <1>4 DEF UpdateSymbolReference
<1> QED
  BY <1>3, <1>4

\* No step removes a scope or a symbol, or changes what a symbol declares; what
\* else is known of a symbol changes where the name is found from the current
\* scope.
SymbolsStay ==
    /\ ScopesStay
    /\ \A i \in Ids : \A x \in DOMAIN scopes[i].symbols :
          /\ x \in DOMAIN scopes'[i].symbols
          /\ scopes'[i].symbols[x].declaration = scopes[i].symbols[x].declaration
          /\ scopes'[i].symbols[x].index = scopes[i].symbols[x].index
          /\ scopes'[i].symbols[x] # scopes[i].symbols[x] =>
                i = FindInChain(current, x) /\ i \notin popped

LEMMA NextSymbolsStay ==
    ASSUME IInv, [Next]_vars
    PROVE  SymbolsStay
<1>1. TypeOK /\ Len(scopes) \in Nat
  BY IdsAre DEF IInv
<1>2. ASSUME NEW s \in Ids, NEW n \in Names, NEW node \in Nodes, DefineSymbol(s, n, node)
      PROVE  SymbolsStay
  <2>1. DefineIn(s, n, node) /\ n \notin DOMAIN scopes[s].symbols
    BY <1>2 DEF DefineSymbol, Defines
  <2>2. ScopesStay
    BY <1>1, <2>1, DefineEffect DEF ScopesStay
  <2>3. ASSUME NEW i \in Ids, NEW x \in DOMAIN scopes[i].symbols
        PROVE  /\ x \in DOMAIN scopes'[i].symbols
               /\ scopes'[i].symbols[x] = scopes[i].symbols[x]
    <3>1. i # s => scopes'[i] = scopes[i]
      BY <1>1, <2>1, DefineEffect
    <3>2. i = s => /\ x \in DOMAIN scopes'[s].symbols
                   /\ scopes'[s].symbols[x] = scopes[s].symbols[x]
      BY <1>1, <2>1, DefineEffect
    <3> QED
      BY <3>1, <3>2
  <2> QED
    BY <2>2, <2>3 DEF SymbolsStay
<1>3. ASSUME NEW n \in Names,
             LookupSymbol(n) \/ \E node \in Nodes : UpdateSymbolReference(n, node)
      PROVE  SymbolsStay
  <2>1. PICK s \in Ids, by \in Nodes \cup {Null} :
           /\ s = FindInChain(current, n) /\ s \notin popped
           /\ Defines(s, n) /\ Reference(s, n, by)
    BY <1>3, LookingUpRefers
  <2>2. ScopesStay
    BY <1>1, <2>1, ReferenceEffect DEF ScopesStay
  <2>3. ASSUME NEW i \in Ids, NEW x \in DOMAIN scopes[i].symbols
        PROVE  /\ x \in DOMAIN scopes'[i].symbols
               /\ scopes'[i].symbols[x].declaration = scopes[i].symbols[x].declaration
               /\ scopes'[i].symbols[x].index = scopes[i].symbols[x].index
               /\ scopes'[i].symbols[x] # scopes[i].symbols[x] => i = s /\ x = n
    <3>1. x \in DOMAIN scopes'[i].symbols
      BY <1>1, <2>1, ReferenceEffect
    <3>2. i # s \/ x # n => scopes'[i].symbols[x] = scopes[i].symbols[x]
      BY <1>1, <2>1, ReferenceEffect
    <3>3. /\ scopes'[s].symbols[n].declaration = scopes[s].symbols[n].declaration
          /\ scopes'[s].symbols[n].index = scopes[s].symbols[n].index
      BY <1>1, <2>1, ReferenceEffect
    <3> QED
      BY <3>1, <3>2, <3>3
  <2> QED
    BY <2>1, <2>2, <2>3 DEF SymbolsStay
<1>4. CASE PushScope
  <2>1. \A i \in Ids : scopes'[i] = scopes[i]
    BY <1>1, <1>4, PushEffect
  <2>2. ScopesStay
    BY <1>1, <1>4, <2>1, PushEffect DEF ScopesStay
  <2> QED
    BY <2>1, <2>2 DEF SymbolsStay
<1>5. CASE PopScope \/ UNCHANGED vars
  BY <1>1, <1>5 DEF SymbolsStay, ScopesStay, PopScope, vars
<1> QED
  BY <1>2, <1>3, <1>4, <1>5 DEF Next

\* A name means in a scope what it meant before, or what an inner scope on the
\* walk now defines, and no definition is lost or changed.
THEOREM SpecBindings == Spec => BindingsOnlyShadowed
<1> DEFINE Kept(s, n) ==
      LET before == FindInChain(s, n)
          after  == FindInChain(s, n)'
      IN  /\ after # before => /\ after > before
                               /\ ~Defines(after, n)
          /\ before # 0 => /\ scopes'[before].symbols[n].declaration =
                                   scopes[before].symbols[n].declaration
                           /\ scopes'[before].symbols[n].index =
                                   scopes[before].symbols[n].index
<1>1. ASSUME IInv, IInv', [Next]_vars, NEW s \in Ids, NEW n \in Names
      PROVE  Kept(s, n)
  <2>1. SymbolsStay
    BY <1>1, NextSymbolsStay
  <2>2. PICK f : /\ IsWalk(f, Parents, Defining(n), Len(scopes))
                 /\ \A i \in 0 .. Len(scopes) : FindInChain(i, n) = f[i]
    BY <1>1, FindIsWalk DEF FindingIsAWalk, IInv, ScopesNest
  <2>3. (TypeOK /\ ScopeTree)' => FindingIsAWalk'
    BY FindIsWalk, PTL
  <2>4. PICK g : /\ IsWalk(g, Parents', Defining(n)', Len(scopes'))
                 /\ \A i \in 0 .. Len(scopes') : FindInChain(i, n)' = g[i]
    BY <1>1, <2>3 DEF FindingIsAWalk, IInv, ScopesNest
  <2>5. Earlier(Parents, Len(scopes)) /\ Earlier(Parents', Len(scopes'))
    <3>1. TypeOK /\ ScopeTree => Earlier(Parents, Len(scopes))
      BY ParentsEarlier
    <3>2. ScopeTree' /\ Len(scopes') \in Nat
      BY <1>1, <2>1 DEF IInv, ScopesNest, SymbolsStay, ScopesStay
    <3>3. Earlier(Parents', Len(scopes'))
      BY <3>2 DEF Earlier, Parents, ScopeTree, Ids, Global
    <3> QED
      BY <1>1, <3>1, <3>3 DEF IInv, ScopesNest
  <2>6. /\ \A i \in 1 .. Len(scopes) : Parents'[i] = Parents[i]
        /\ \A i \in 1 .. Len(scopes) : i \in Defining(n) => i \in Defining(n)'
    BY <2>1 DEF SymbolsStay, ScopesStay, Parents, Ids, Defining, Defines
  <2>7. /\ \A i \in 0 .. Len(scopes) :
              g[i] # f[i] => /\ g[i] \in 1 .. i /\ g[i] > f[i]
                             /\ g[i] \in Defining(n)' \ Defining(n)
        /\ \A i \in 0 .. Len(scopes) : f[i] # 0 => f[i] \in Defining(n)
    <3> DEFINE p == Parents
               q == Parents'
               N == Len(scopes)
               M == Len(scopes')
               D == Defining(n)
               E == Defining(n)'
    <3>1. /\ MoreToFind(p, D, N, q, E, M) /\ N \in Nat /\ Earlier(p, N)
          /\ IsWalk(f, p, D, N) /\ IsWalk(g, q, E, M)
      BY <2>1, <2>2, <2>4, <2>5, <2>6 DEF SymbolsStay, ScopesStay, MoreToFind
    <3> HIDE DEF p, q, N, M, D, E
    <3>2. \A i \in 0 .. N : g[i] # f[i] => /\ g[i] \in 1 .. i /\ g[i] > f[i]
                                           /\ g[i] \in E \ D
      BY <3>1, WalkShadows
    <3>3. \A i \in 0 .. N : f[i] # 0 => f[i] \in D
      BY <3>1, ChainExists, WalkFinds
    <3> QED
      BY <3>2, <3>3 DEF N, D, E
  <2>8. s \in 0 .. Len(scopes) /\ s \in 0 .. Len(scopes') /\ s \in 1 .. Len(scopes)
    BY <1>1, <2>1 DEF SymbolsStay, ScopesStay, Ids
  <2>9. FindInChain(s, n) = f[s] /\ FindInChain(s, n)' = g[s]
    BY <2>2, <2>4, <2>8
  <2>10. g[s] # f[s] => /\ g[s] > f[s]
                        /\ ~Defines(g[s], n)
    BY <2>7, <2>8 DEF Defining, Ids
  <2>11. f[s] # 0 => /\ scopes'[f[s]].symbols[n].declaration =
                             scopes[f[s]].symbols[n].declaration
                     /\ scopes'[f[s]].symbols[n].index = scopes[f[s]].symbols[n].index
    <3>1. f[s] # 0 => f[s] \in Ids /\ n \in DOMAIN scopes[f[s]].symbols
      BY <2>7, <2>8 DEF Defining, Defines
    <3> QED
      BY <2>1, <3>1 DEF SymbolsStay
  <2> DEFINE before == FindInChain(s, n)
             after  == FindInChain(s, n)'
  <2>12. before = f[s] /\ after = g[s]
    BY <2>9
  <2> HIDE DEF before, after
  <2>13. /\ after # before => after > before /\ ~Defines(after, n)
         /\ before # 0 => /\ scopes'[before].symbols[n].declaration =
                                  scopes[before].symbols[n].declaration
                          /\ scopes'[before].symbols[n].index =
                                  scopes[before].symbols[n].index
    BY <2>10, <2>11, <2>12
  <2> QED
    BY <2>13 DEF before, after
<1>2. IInv /\ IInv' /\ [Next]_vars => [\A s \in Ids, n \in Names : Kept(s, n)]_vars
  <2> HIDE DEF Kept
  <2> QED
    BY <1>1
<1> QED
  BY <1>2, SpecIInv, PTL DEF Spec, BindingsOnlyShadowed

\* A use is recorded in the innermost visible declaration, which is in no
\* scope that was left.
THEOREM SpecUseRecorded == Spec => UseRecordedWhereVisible
<1> DEFINE Recorded ==
      \A s \in Ids, n \in Names :
          Defines(s, n) /\ scopes'[s].symbols[n] # scopes[s].symbols[n] =>
              /\ s = FindInChain(current, n)
              /\ s \notin popped
<1>1. IInv /\ [Next]_vars => [Recorded]_vars
  BY NextSymbolsStay DEF SymbolsStay, Defines
<1> QED
  BY <1>1, SpecIInv, PTL DEF Spec, UseRecordedWhereVisible

\* popScope reports each symbol of the scope that nobody used.
THEOREM SpecReported == Spec => NeverUsedIsReported
<1> DEFINE Reported ==
      \A s \in popped' \ popped : \A n \in DOMAIN scopes[s].symbols :
          ~scopes[s].symbols[n].used => n \in unused'
<1>1. ASSUME IInv, [Next]_vars
      PROVE  Reported
  <2>1. CASE PopScope
    <3>1. /\ popped' \ popped \subseteq {current} /\ current \in Ids
          /\ unused' = Unused(current)
      BY <1>1, <2>1 DEF PopScope, IInv, TypeOK
    <3> QED
      BY <1>1, <3>1 DEF IInv, UnusedHasNoReference, Unused
  <2>2. CASE ~PopScope
    <3>1. popped' = popped
      BY <1>1, <2>2 DEF Next, vars, DefineSymbol, LookupSymbol, UpdateSymbolReference,
                        PushScope
    <3> QED
      BY <3>1
  <2> QED
    BY <2>1, <2>2
<1>2. IInv /\ [Next]_vars => [Reported]_vars
  BY <1>1
<1> QED
  BY <1>2, SpecIInv, PTL DEF Spec, NeverUsedIsReported

=============================================================================
