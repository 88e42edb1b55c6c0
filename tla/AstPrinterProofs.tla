-------------------------- MODULE AstPrinterProofs --------------------------
(***************************************************************************)
(* Proofs about the syntax tree, visitors and the printer: that the three  *)
(* records of a child agree, that what visitors and the printer keep is    *)
(* well typed, that they walk a tree as Walk has it, that the searches     *)
(* find what they promise, and that the output of the printer is the tree, *)
(* for trees of any size and whatever the hooks answer.                    *)
(***************************************************************************)
EXTENDS AstPrinter, FiniteSetTheorems, SequenceTheorems, WellFoundedInduction, TLAPS

-----------------------------------------------------------------------------
(* Induction over the natural numbers, about a set: the numbers for which  *)
(* a claim holds.  (The library's is about an operator P(_), which the     *)
(* provers cannot instantiate.)                                            *)

\* A set of natural numbers that is not empty has a least member.
LEMMA LeastNatural ==
    ASSUME NEW S \in SUBSET Nat, S # {}
    PROVE  \E n \in S : \A m \in S : n <= m
<1>1. PICK n \in S : \A m \in S : <<m, n>> \notin OpToRel(<, Nat)
  BY NatLessThanWellFounded, WFMin, Zenon
<1>2. \A m \in S : ~ (m < n)
  BY <1>1, Zenon DEF OpToRel
<1> QED
  BY <1>2

\* A set that has 0 and with each natural number the next has them all.
LEMMA SimpleInduction ==
    ASSUME NEW S, 0 \in S, \A n \in Nat : n \in S => n + 1 \in S
    PROVE  Nat \subseteq S
<1> SUFFICES ASSUME Nat \ S # {}
             PROVE  FALSE
  OBVIOUS
<1>1. PICK n \in Nat \ S : \A m \in Nat \ S : n <= m
  BY LeastNatural
<1>2. n # 0 /\ n - 1 \in Nat
  OBVIOUS
<1> QED
  BY <1>1, <1>2

-----------------------------------------------------------------------------
(* How often a value occurs in a sequence.                                 *)

Places(s, x) == {i \in DOMAIN s : s[i] = x}
Occurs(s, x) == Cardinality(Places(s, x))

LEMMA PlacesFinite ==
    ASSUME NEW T, NEW s \in Seq(T), NEW x
    PROVE  /\ IsFiniteSet(Places(s, x)) /\ Occurs(s, x) \in Nat
           /\ DOMAIN s = 1 .. Len(s) /\ Len(s) \in Nat
<1>1. DOMAIN s = 1 .. Len(s) /\ Len(s) \in Nat
  BY LenProperties
<1>2. IsFiniteSet(DOMAIN s)
  BY <1>1, FS_Interval
<1>3. IsFiniteSet(Places(s, x))
  BY <1>2, FS_Subset DEF Places
<1> QED
  BY <1>1, <1>3, FS_CardinalityType DEF Occurs

LEMMA OccursNever ==
    ASSUME NEW T, NEW s \in Seq(T), NEW x
    PROVE  Occurs(s, x) = 0 <=> x \notin ToSet(s)
<1>1. Occurs(s, x) = 0 <=> Places(s, x) = {}
  BY PlacesFinite, FS_EmptySet DEF Occurs
<1> QED
  BY <1>1 DEF Places, ToSet

\* A value that occurs once at most has one place.
LEMMA OccursOnce ==
    ASSUME NEW T, NEW s \in Seq(T), NEW x, Occurs(s, x) <= 1,
           NEW i \in DOMAIN s, NEW j \in DOMAIN s, s[i] = x, s[j] = x
    PROVE  i = j
<1> SUFFICES ASSUME i # j PROVE FALSE
  OBVIOUS
<1>1. IsFiniteSet({i, j}) /\ Cardinality({i, j}) = 2
  <2>1. IsFiniteSet({i}) /\ Cardinality({i}) = 1
    BY FS_Singleton
  <2> DEFINE S == {i}
  <2>2. IsFiniteSet(S) /\ Cardinality(S) = 1 /\ j \notin S
    BY <2>1
  <2> HIDE DEF S
  <2>4. IsFiniteSet(S \cup {j}) /\ Cardinality(S \cup {j}) = 2
    BY <2>2, FS_AddElement
  <2>3. S \cup {j} = {i, j}
    BY DEF S
  <2> QED
    BY <2>3, <2>4
<1>2. Cardinality({i, j}) <= Cardinality(Places(s, x))
  <2>1. {i, j} \subseteq Places(s, x)
    BY DEF Places
  <2> QED
    BY <2>1, PlacesFinite, FS_Subset
<1> QED
  BY <1>1, <1>2, PlacesFinite DEF Occurs

LEMMA OnePlaceOccursOnce ==
    ASSUME NEW T, NEW s \in Seq(T), NEW x,
           \A i, j \in DOMAIN s : s[i] = x /\ s[j] = x => i = j
    PROVE  Occurs(s, x) <= 1
<1>1. CASE Places(s, x) = {}
  BY <1>1, FS_EmptySet DEF Occurs
<1>2. CASE Places(s, x) # {}
  <2>1. PICK i : i \in Places(s, x)
    BY <1>2
  <2>2. Places(s, x) = {i}
    BY <2>1 DEF Places
  <2>3. Cardinality({i}) = 1
    BY FS_Singleton
  <2> QED
    BY <2>2, <2>3 DEF Occurs
<1> QED
  BY <1>1, <1>2

LEMMA OccursEmpty ==
    \A x : Occurs(<<>>, x) = 0
BY FS_EmptySet DEF Occurs, Places

LEMMA OccursAppend ==
    ASSUME NEW T, NEW s \in Seq(T), NEW c \in T, NEW x
    PROVE  Occurs(Append(s, c), x) = Occurs(s, x) + IF x = c THEN 1 ELSE 0
<1>1. /\ DOMAIN Append(s, c) = 1 .. Len(s) + 1
      /\ \A i \in 1 .. Len(s) : Append(s, c)[i] = s[i]
      /\ Append(s, c)[Len(s) + 1] = c
  BY AppendProperties, LenProperties
<1>2. DOMAIN s = 1 .. Len(s) /\ Len(s) \in Nat
  BY PlacesFinite
<1>3. Len(s) + 1 \notin Places(s, x)
  BY <1>2 DEF Places
<1>4. Places(Append(s, c), x) = Places(s, x) \cup IF x = c THEN {Len(s) + 1} ELSE {}
  BY <1>1, <1>2 DEF Places
<1>5. CASE x = c
  <2>1. Places(Append(s, c), x) = Places(s, x) \cup {Len(s) + 1}
    BY <1>4, <1>5
  <2> QED
    BY <1>3, <1>5, <2>1, PlacesFinite, FS_AddElement DEF Occurs
<1>6. CASE x # c
  <2>1. Places(Append(s, c), x) = Places(s, x)
    BY <1>4, <1>6
  <2> QED
    BY <1>6, <2>1, PlacesFinite DEF Occurs
<1> QED
  BY <1>5, <1>6

LEMMA PieceOf ==
    ASSUME NEW T, NEW s, NEW m \in Int, NEW n \in Int, n >= m - 1, \A i \in m .. n : s[i] \in T
    PROVE  /\ SubSeq(s, m, n) \in Seq(T) /\ Len(SubSeq(s, m, n)) = n - m + 1
           /\ \A i \in 1 .. n - m + 1 : SubSeq(s, m, n)[i] = s[m + i - 1]
<1>1. n - m + 1 = IF m <= n THEN n - m + 1 ELSE 0
  OBVIOUS
<1> QED
  BY <1>1, SubSeqProperties

\* RemoveFirst takes out the value at one of its places, and closes the gap.
LEMMA RemoveFirstIs ==
    ASSUME NEW T, NEW s \in Seq(T), NEW c \in ToSet(s)
    PROVE  \E k \in DOMAIN s :
              /\ s[k] = c
              /\ RemoveFirst(s, c) \in Seq(T) /\ Len(RemoveFirst(s, c)) = Len(s) - 1
              /\ \A i \in 1 .. Len(s) - 1 :
                    RemoveFirst(s, c)[i] = IF i < k THEN s[i] ELSE s[i + 1]
<1> DEFINE I == {i \in 1 .. Len(s) : s[i] = c}
           k == IF I # {} THEN Min(I) ELSE 0
<1>1. DOMAIN s = 1 .. Len(s) /\ Len(s) \in Nat
  BY LenProperties
<1>2. I # {}
  BY <1>1 DEF ToSet
<1>3. RemoveFirst(s, c) = RemoveAt(s, k)
  BY <1>2 DEF RemoveFirst, SelectInSeq
<1>4. k \in I
  <2>1. \E m \in I : \A j \in I : m <= j
    <3>1. I \in SUBSET Nat /\ I # {}
      BY <1>1, <1>2
    <3> HIDE DEF I
    <3> QED
      BY <3>1, LeastNatural
  <2>2. k = CHOOSE m \in I : \A j \in I : m <= j
    BY <1>2 DEF Min
  <2> HIDE DEF I
  <2> QED
    BY <2>1, <2>2
<1> HIDE DEF k
<1>0. k \in 1 .. Len(s) /\ s[k] = c /\ \A i \in 1 .. Len(s) : s[i] \in T
  BY <1>1, <1>4, ElementOfSeq
<1> HIDE DEF I
<1>5. /\ SubSeq(s, 1, k - 1) \in Seq(T) /\ Len(SubSeq(s, 1, k - 1)) = k - 1
      /\ \A i \in 1 .. k - 1 : SubSeq(s, 1, k - 1)[i] = s[i]
      /\ SubSeq(s, k + 1, Len(s)) \in Seq(T) /\ Len(SubSeq(s, k + 1, Len(s))) = Len(s) - k
      /\ \A i \in 1 .. Len(s) - k : SubSeq(s, k + 1, Len(s))[i] = s[i + k]
  <2>1. /\ 1 \in Int /\ k - 1 \in Int /\ k + 1 \in Int /\ Len(s) \in Int
        /\ \A i \in 1 .. k - 1 : s[i] \in T
        /\ \A i \in k + 1 .. Len(s) : s[i] \in T
    BY <1>0, <1>1
  <2>2. k - 1 >= 1 - 1 /\ Len(s) >= (k + 1) - 1
    BY <1>0, <1>1
  <2>3. /\ SubSeq(s, 1, k - 1) \in Seq(T) /\ Len(SubSeq(s, 1, k - 1)) = (k - 1) - 1 + 1
        /\ \A i \in 1 .. (k - 1) - 1 + 1 : SubSeq(s, 1, k - 1)[i] = s[1 + i - 1]
    BY <2>1, <2>2, PieceOf
  <2>4. /\ SubSeq(s, k + 1, Len(s)) \in Seq(T)
        /\ Len(SubSeq(s, k + 1, Len(s))) = Len(s) - (k + 1) + 1
        /\ \A i \in 1 .. Len(s) - (k + 1) + 1 :
              SubSeq(s, k + 1, Len(s))[i] = s[(k + 1) + i - 1]
    BY <2>1, <2>2, PieceOf
  <2>5. /\ (k - 1) - 1 + 1 = k - 1 /\ Len(s) - (k + 1) + 1 = Len(s) - k
        /\ \A i \in 1 .. k - 1 : 1 + i - 1 = i
        /\ \A i \in 1 .. Len(s) - k : (k + 1) + i - 1 = i + k
    BY <1>0, <1>1
  <2> QED
    BY <2>3, <2>4, <2>5
<1>6. RemoveAt(s, k) = SubSeq(s, 1, k - 1) \o SubSeq(s, k + 1, Len(s))
  BY DEF RemoveAt
<1> DEFINE a == SubSeq(s, 1, k - 1)
           b == SubSeq(s, k + 1, Len(s))
<1> HIDE DEF a, b
<1>7. /\ a \in Seq(T) /\ b \in Seq(T) /\ Len(a) = k - 1 /\ Len(b) = Len(s) - k
      /\ \A i \in 1 .. k - 1 : a[i] = s[i]
      /\ \A i \in 1 .. Len(s) - k : b[i] = s[i + k]
      /\ RemoveFirst(s, c) = a \o b
  BY <1>3, <1>5, <1>6 DEF a, b
<1>8. /\ a \o b \in Seq(T) /\ Len(a \o b) = Len(s) - 1
      /\ \A i \in 1 .. Len(s) - 1 : (a \o b)[i] = IF i < k THEN s[i] ELSE s[i + 1]
  <2>1. /\ a \o b \in Seq(T) /\ Len(a \o b) = Len(a) + Len(b)
        /\ \A i \in 1 .. Len(a) + Len(b) :
              (a \o b)[i] = IF i <= Len(a) THEN a[i] ELSE b[i - Len(a)]
    BY <1>7, ConcatProperties
  <2>2. Len(a) + Len(b) = Len(s) - 1
    BY <1>0, <1>1, <1>7
  <2>3. ASSUME NEW i \in 1 .. Len(s) - 1
        PROVE  (a \o b)[i] = IF i < k THEN s[i] ELSE s[i + 1]
    <3>1. CASE i < k
      BY <1>0, <1>1, <1>7, <2>1, <2>2, <3>1
    <3>2. CASE ~(i < k)
      <4>1. i - Len(a) \in 1 .. Len(s) - k /\ (i - Len(a)) + k = i + 1
        BY <1>0, <1>1, <1>7, <3>2
      <4>2. (a \o b)[i] = b[i - Len(a)]
        BY <1>0, <1>1, <1>7, <2>1, <2>2, <3>2
      <4> QED
        BY <1>7, <3>2, <4>1, <4>2
    <3> QED
      BY <3>1, <3>2
  <2> QED
    BY <2>1, <2>2, <2>3
<1> QED
  BY <1>0, <1>1, <1>7, <1>8

LEMMA OccursRemoveFirst ==
    ASSUME NEW T, NEW s \in Seq(T), NEW c \in ToSet(s), NEW x
    PROVE  Occurs(RemoveFirst(s, c), x) = Occurs(s, x) - IF x = c THEN 1 ELSE 0
<1> DEFINE t == RemoveFirst(s, c)
<1>1. PICK k \in DOMAIN s :
         /\ s[k] = c
         /\ t \in Seq(T) /\ Len(t) = Len(s) - 1
         /\ \A i \in 1 .. Len(s) - 1 : t[i] = IF i < k THEN s[i] ELSE s[i + 1]
  BY RemoveFirstIs
<1> HIDE DEF t
<1>2. /\ DOMAIN s = 1 .. Len(s) /\ Len(s) \in Nat /\ DOMAIN t = 1 .. Len(s) - 1
      /\ IsFiniteSet(Places(s, x)) /\ IsFiniteSet(Places(t, x))
  BY <1>1, PlacesFinite
<1> DEFINE P == Places(s, x) \ {k}
           f == [i \in P |-> IF i < k THEN i ELSE i - 1]
<1>3. f \in Bijection(P, Places(t, x))
  <2>1. \A i \in P : i \in 1 .. Len(s) /\ i # k /\ s[i] = x
    BY <1>2 DEF Places
  <2>2. f \in [P -> Places(t, x)]
    <3> SUFFICES ASSUME NEW i \in P
                 PROVE  (IF i < k THEN i ELSE i - 1) \in Places(t, x)
      OBVIOUS
    <3> QED
      BY <1>1, <1>2, <2>1 DEF Places
  <2>3. \A i, j \in P : f[i] = f[j] => i = j
    BY <1>2, <2>1
  <2>4. \A m \in Places(t, x) : \E i \in P : f[i] = m
    <3> TAKE m \in Places(t, x)
    <3>1. m \in 1 .. Len(s) - 1 /\ t[m] = x
      BY <1>2 DEF Places
    <3>2. CASE m < k
      <4>1. m \in P /\ f[m] = m
        BY <1>1, <1>2, <3>1, <3>2 DEF Places
      <4> QED
        BY <4>1
    <3>3. CASE ~(m < k)
      <4>1. m + 1 \in P
        BY <1>1, <1>2, <3>1, <3>3 DEF Places
      <4>2. f[m + 1] = m
        BY <1>2, <3>1, <3>3, <4>1
      <4> QED
        BY <4>1, <4>2
    <3> QED
      BY <3>2, <3>3
  <2> HIDE DEF f, P
  <2> QED
    BY <2>2, <2>3, <2>4 DEF Bijection, Injection, Surjection, IsInjective
<1>4. IsFiniteSet(P) /\ Cardinality(P) = Cardinality(Places(t, x))
  <2>1. IsFiniteSet(P)
    BY <1>2, FS_Subset
  <2>2. ExistsBijection(P, Places(t, x))
    BY <1>3 DEF ExistsBijection
  <2> HIDE DEF P
  <2> QED
    BY <2>1, <2>2, <1>2, FS_Bijection
<1>5. Cardinality(P) = IF k \in Places(s, x) THEN Occurs(s, x) - 1 ELSE Occurs(s, x)
  BY <1>2, FS_RemoveElement DEF Occurs
<1>6. k \in Places(s, x) <=> x = c
  BY <1>1 DEF Places
<1> HIDE DEF P
<1> QED
  BY <1>2, <1>4, <1>5, <1>6, PlacesFinite DEF Occurs, t

-----------------------------------------------------------------------------
(* What can be reached in a graph: E gives each node its successors.       *)

ClosedIn(E, S) == \A x \in S : E[x] \subseteq S
Reach(E, n) == {m \in DOMAIN E : \A S \in SUBSET DOMAIN E : n \in S /\ ClosedIn(E, S) => m \in S}
Acyclic(E) == \A x \in DOMAIN E : \A y \in E[x] : x \notin Reach(E, y)
IsGraph(E) == \A x \in DOMAIN E : E[x] \subseteq DOMAIN E

LEMMA ReachIsClosed ==
    ASSUME NEW E, IsGraph(E), NEW n \in DOMAIN E
    PROVE  n \in Reach(E, n) /\ ClosedIn(E, Reach(E, n)) /\ Reach(E, n) \subseteq DOMAIN E
BY DEF Reach, ClosedIn, IsGraph

LEMMA ReachIsLeast ==
    ASSUME NEW E, NEW n, NEW S \in SUBSET DOMAIN E, n \in S, ClosedIn(E, S)
    PROVE  Reach(E, n) \subseteq S
BY DEF Reach

LEMMA ReachFurther ==
    ASSUME NEW E, IsGraph(E), NEW n \in DOMAIN E, NEW m \in Reach(E, n)
    PROVE  Reach(E, m) \subseteq Reach(E, n)
<1>1. Reach(E, n) \subseteq DOMAIN E /\ ClosedIn(E, Reach(E, n))
  BY ReachIsClosed
<1> QED
  BY <1>1, ReachIsLeast

\* F has the edges of E, or fewer, and edges from n to members of C.
Extends(F, E, n, C) ==
    /\ DOMAIN E \subseteq DOMAIN F /\ n \in DOMAIN F /\ C \subseteq DOMAIN E
    /\ \A x \in DOMAIN F : \A y \in F[x] : (x \in DOMAIN E /\ y \in E[x]) \/ (x = n /\ y \in C)

\* Edges from a node to others from which it is not reached close no cycle.
LEMMA ExtendedStaysAcyclic ==
    ASSUME NEW E, IsGraph(E), Acyclic(E), NEW F, IsGraph(F), NEW n, NEW C,
           Extends(F, E, n, C), \A c \in C : n \notin Reach(E, c)
    PROVE  Acyclic(F)
<1> SUFFICES ASSUME NEW x \in DOMAIN F, NEW y \in F[x], x \in Reach(F, y)
             PROVE  FALSE
  BY DEF Acyclic
<1> DEFINE More == UNION {Reach(E, c) : c \in C}
           S == IF n \in Reach(E, y) THEN Reach(E, y) \cup More ELSE Reach(E, y)
<1>1. y \in DOMAIN E
  BY DEF Extends, IsGraph
<1>2. /\ Reach(E, y) \subseteq DOMAIN E /\ ClosedIn(E, Reach(E, y)) /\ y \in Reach(E, y)
      /\ \A c \in C : /\ Reach(E, c) \subseteq DOMAIN E /\ ClosedIn(E, Reach(E, c))
                      /\ c \in Reach(E, c)
  BY <1>1, ReachIsClosed DEF Extends
<1>3. S \subseteq DOMAIN F /\ y \in S
  BY <1>2 DEF Extends
<1>4. ClosedIn(F, S)
  <2> SUFFICES ASSUME NEW a \in S, NEW b \in F[a]
               PROVE  b \in S
    BY DEF ClosedIn
  <2>1. a \in DOMAIN F
    BY <1>3
  <2>2. CASE a \in DOMAIN E /\ b \in E[a]
    BY <1>2, <2>2 DEF ClosedIn
  <2>3. CASE a = n /\ b \in C
    <3>1. n \in Reach(E, y)
      BY <2>3
    <3>2. b \in More
      BY <1>2, <2>3
    <3> QED
      BY <3>1, <3>2
  <2> QED
    BY <2>1, <2>2, <2>3 DEF Extends
<1>5. x \in S
  <2> HIDE DEF S
  <2> QED
    BY <1>3, <1>4, ReachIsLeast
<1>6. CASE x \in DOMAIN E /\ y \in E[x]
  <2>1. x \notin Reach(E, y)
    BY <1>6 DEF Acyclic
  <2>2. PICK c \in C : x \in Reach(E, c) /\ n \in Reach(E, y)
    BY <1>5, <2>1
  <2>3. y \in Reach(E, c)
    BY <1>2, <1>6, <2>2 DEF ClosedIn
  <2>4. n \in Reach(E, c)
    BY <2>2, <2>3, ReachFurther DEF Extends
  <2> QED
    BY <2>4
<1>7. CASE x = n /\ y \in C
  BY <1>5, <1>7
<1> QED
  BY <1>6, <1>7 DEF Extends

-----------------------------------------------------------------------------
(* What the operations make of the nodes, field by field.                  *)

NodeOver(N) == [kind : Kinds, children : Seq(N), parent : {None} \cup N,
                args : Seq({None} \cup N), field : {None} \cup N, items : Seq(N)]

AreNodes(ns, N) == ns = [i \in N |-> ns[i]] /\ \A i \in N : ns[i] \in NodeOver(N)

\* The kinds and the fields that ns and ms have in common
SameFields(ns, ms, N) ==
    \A i \in N : /\ ns[i].kind = ms[i].kind /\ ns[i].args = ms[i].args
                 /\ ns[i].field = ms[i].field /\ ns[i].items = ms[i].items

\* ms is ns with the child c added to n, or taken from it
Attached(ms, ns, N, n, c) ==
    /\ AreNodes(ms, N) /\ SameFields(ms, ns, N)
    /\ \A i \in N : ms[i].parent = IF i = c THEN n ELSE ns[i].parent
    /\ \A i \in N : i # n => ms[i].children = ns[i].children
    /\ ms[n].children = Append(ns[n].children, c)

Detached(ms, ns, N, n, c) ==
    /\ AreNodes(ms, N) /\ SameFields(ms, ns, N)
    /\ \A i \in N : ms[i].parent = IF i = c THEN None ELSE ns[i].parent
    /\ \A i \in N : i # n => ms[i].children = ns[i].children
    /\ ms[n].children = RemoveFirst(ns[n].children, c)

\* ms is ns with another list, or another field, at n
Listed(ms, ns, N, n, v) ==
    /\ AreNodes(ms, N)
    /\ \A i \in N : i # n => ms[i] = ns[i]
    /\ ms[n].items = v /\ ms[n].kind = ns[n].kind /\ ms[n].args = ns[n].args
    /\ ms[n].field = ns[n].field /\ ms[n].parent = ns[n].parent
    /\ ms[n].children = ns[n].children

Filled(ms, ns, N, n, v) ==
    /\ AreNodes(ms, N)
    /\ \A i \in N : i # n => ms[i] = ns[i]
    /\ ms[n].field = v /\ ms[n].kind = ns[n].kind /\ ms[n].args = ns[n].args
    /\ ms[n].items = ns[n].items /\ ms[n].parent = ns[n].parent
    /\ ms[n].children = ns[n].children

LEMMA AddChildIs ==
    ASSUME NEW N, NEW ns, AreNodes(ns, N), NEW n \in N, NEW c \in N, n # c, c # None
    PROVE  Attached(AddChild(ns, n, c), ns, N, n, c)
<1> DEFINE ms == AddChild(ns, n, c)
           a == [ns[c] EXCEPT !.parent = n]
           b == [ns[n] EXCEPT !.children = Append(ns[n].children, c)]
<1>1. DOMAIN ns = N /\ \A i \in N : ns[i] \in NodeOver(N)
  BY DEF AreNodes
<1>2. ms = [[ns EXCEPT ![c] = a] EXCEPT ![n] = b]
  BY <1>1 DEF AddChild
<1>3. /\ a \in NodeOver(N) /\ a.parent = n /\ a.children = ns[c].children
      /\ a.kind = ns[c].kind /\ a.args = ns[c].args /\ a.field = ns[c].field
      /\ a.items = ns[c].items
  <2>1. ns[c] \in NodeOver(N) /\ n \in {None} \cup N
    BY <1>1
  <2> QED
    BY <2>1 DEF NodeOver
<1>4. /\ b \in NodeOver(N) /\ b.parent = ns[n].parent
      /\ b.children = Append(ns[n].children, c)
      /\ b.kind = ns[n].kind /\ b.args = ns[n].args /\ b.field = ns[n].field
      /\ b.items = ns[n].items
  <2>1. ns[n] \in NodeOver(N)
    BY <1>1
  <2>2. Append(ns[n].children, c) \in Seq(N)
    BY <2>1, AppendProperties DEF NodeOver
  <2> QED
    BY <2>1, <2>2 DEF NodeOver
<1> HIDE DEF ms, a, b
<1>5. /\ ms = [i \in N |-> ms[i]] /\ ms[c] = a /\ ms[n] = b
      /\ \A i \in N : i # n /\ i # c => ms[i] = ns[i]
  BY <1>1, <1>2
<1>6. AreNodes(ms, N)
  BY <1>1, <1>3, <1>4, <1>5 DEF AreNodes
<1>7. SameFields(ms, ns, N)
  BY <1>1, <1>3, <1>4, <1>5 DEF SameFields
<1>8. /\ \A i \in N : ms[i].parent = IF i = c THEN n ELSE ns[i].parent
      /\ \A i \in N : i # n => ms[i].children = ns[i].children
      /\ ms[n].children = Append(ns[n].children, c)
  BY <1>3, <1>4, <1>5
<1> QED
  BY <1>6, <1>7, <1>8 DEF ms, Attached

LEMMA SetItemsIs ==
    ASSUME NEW N, NEW ns, AreNodes(ns, N), NEW n \in N, NEW v \in Seq(N),
           NEW ms, ms = [ns EXCEPT ![n].items = v]
    PROVE  Listed(ms, ns, N, n, v)
<1> DEFINE b == [ns[n] EXCEPT !.items = v]
<1>1. DOMAIN ns = N /\ ns[n] \in NodeOver(N) /\ \A i \in N : ns[i] \in NodeOver(N)
  BY DEF AreNodes
<1>2. /\ b \in NodeOver(N)
      /\ b.items = v /\ b.kind = ns[n].kind /\ b.args = ns[n].args
      /\ b.field = ns[n].field /\ b.parent = ns[n].parent /\ b.children = ns[n].children
  BY <1>1 DEF NodeOver
<1>3. ms = [ns EXCEPT ![n] = b]
  OBVIOUS
<1> HIDE DEF b
<1>4. ms = [i \in N |-> ms[i]] /\ ms[n] = b /\ \A i \in N : i # n => ms[i] = ns[i]
  BY <1>1, <1>3
<1>5. AreNodes(ms, N)
  BY <1>1, <1>2, <1>4 DEF AreNodes
<1> QED
  BY <1>2, <1>4, <1>5 DEF Listed, Filled

LEMMA SetFieldIs ==
    ASSUME NEW N, NEW ns, AreNodes(ns, N), NEW n \in N, NEW v \in {None} \cup N,
           NEW ms, ms = [ns EXCEPT ![n].field = v]
    PROVE  Filled(ms, ns, N, n, v)
<1> DEFINE b == [ns[n] EXCEPT !.field = v]
<1>1. DOMAIN ns = N /\ ns[n] \in NodeOver(N) /\ \A i \in N : ns[i] \in NodeOver(N)
  BY DEF AreNodes
<1>2. /\ b \in NodeOver(N)
      /\ b.field = v /\ b.kind = ns[n].kind /\ b.args = ns[n].args
      /\ b.items = ns[n].items /\ b.parent = ns[n].parent /\ b.children = ns[n].children
  BY <1>1 DEF NodeOver
<1>3. ms = [ns EXCEPT ![n] = b]
  OBVIOUS
<1> HIDE DEF b
<1>4. ms = [i \in N |-> ms[i]] /\ ms[n] = b /\ \A i \in N : i # n => ms[i] = ns[i]
  BY <1>1, <1>3
<1>5. AreNodes(ms, N)
  BY <1>1, <1>2, <1>4 DEF AreNodes
<1> QED
  BY <1>2, <1>4, <1>5 DEF Listed, Filled

LEMMA RemoveChildIs ==
    ASSUME NEW N, NEW ns, AreNodes(ns, N), NEW n \in N, NEW c \in ToSet(ns[n].children), n # c
    PROVE  Detached(RemoveChild(ns, n, c), ns, N, n, c)
<1> DEFINE ms == RemoveChild(ns, n, c)
           a == [ns[c] EXCEPT !.parent = None]
           b == [ns[n] EXCEPT !.children = RemoveFirst(ns[n].children, c)]
<1>1. DOMAIN ns = N /\ \A i \in N : ns[i] \in NodeOver(N)
  BY DEF AreNodes
<1>9. c \in N
  <2>1. ns[n].children \in Seq(N)
    BY <1>1 DEF NodeOver
  <2> QED
    BY <2>1, LenProperties, ElementOfSeq DEF ToSet
<1>2. ms = [[ns EXCEPT ![c] = a] EXCEPT ![n] = b]
  BY <1>1, <1>9 DEF RemoveChild
<1>3. /\ a \in NodeOver(N) /\ a.parent = None /\ a.children = ns[c].children
      /\ a.kind = ns[c].kind /\ a.args = ns[c].args /\ a.field = ns[c].field
      /\ a.items = ns[c].items
  <2>1. ns[c] \in NodeOver(N) /\ None \in {None} \cup N
    BY <1>1, <1>9
  <2> QED
    BY <2>1 DEF NodeOver
<1>4. /\ b \in NodeOver(N) /\ b.parent = ns[n].parent
      /\ b.children = RemoveFirst(ns[n].children, c)
      /\ b.kind = ns[n].kind /\ b.args = ns[n].args /\ b.field = ns[n].field
      /\ b.items = ns[n].items
  <2>1. ns[n] \in NodeOver(N)
    BY <1>1
  <2>2. RemoveFirst(ns[n].children, c) \in Seq(N)
    <3>1. ns[n].children \in Seq(N)
      BY <2>1 DEF NodeOver
    <3> QED
      BY <3>1, RemoveFirstIs
  <2> QED
    BY <2>1, <2>2 DEF NodeOver
<1> HIDE DEF ms, a, b
<1>5. /\ ms = [i \in N |-> ms[i]] /\ ms[c] = a /\ ms[n] = b
      /\ \A i \in N : i # n /\ i # c => ms[i] = ns[i]
  BY <1>1, <1>2, <1>9
<1>6. AreNodes(ms, N)
  BY <1>1, <1>3, <1>4, <1>5 DEF AreNodes
<1>7. SameFields(ms, ns, N)
  BY <1>1, <1>3, <1>4, <1>5 DEF SameFields
<1>8. /\ \A i \in N : ms[i].parent = IF i = c THEN None ELSE ns[i].parent
      /\ \A i \in N : i # n => ms[i].children = ns[i].children
      /\ ms[n].children = RemoveFirst(ns[n].children, c)
  BY <1>3, <1>4, <1>5
<1> QED
  BY <1>6, <1>7, <1>8 DEF ms, Detached

-----------------------------------------------------------------------------
(* The invariant of the tree.                                              *)

Children == [n \in Nodes |-> ToSet(nodes[n].children)]

\* A node that never had another parent is a child once.
UnmovedOnce == \A n, c \in Nodes : c \notin moved => Occurs(nodes[n].children, c) <= 1

If(condition) == IF condition THEN 1 ELSE 0

\* How often a node names x in its fields and its list
Uses(args, field, items, x) == Occurs(args, x) + If(field = x) + Occurs(items, x)

ArgsRight(kind, args) ==
    /\ Len(args) = Arity(kind)
    /\ \A i, j \in DOMAIN args : args[i] = args[j] /\ i # j => args[i] = None

\* A child is so often among the children as in the fields; only a match case,
\* whose binding was set again, has more.
UsesRight(kind, children, args, field, items, x) ==
    IF kind = "matchCase" THEN Uses(args, field, items, x) > 0 => Occurs(children, x) > 0
    ELSE Occurs(children, x) = Uses(args, field, items, x)

FieldsCounted ==
    \A n \in Nodes :
        /\ ArgsRight(nodes[n].kind, nodes[n].args)
        /\ nodes[n].kind \notin WithField \cup {"matchCase"} => nodes[n].field = None
        /\ \A x \in Nodes : UsesRight(nodes[n].kind, nodes[n].children, nodes[n].args,
                                      nodes[n].field, nodes[n].items, x)

TreeInv ==
    /\ TreeTypeOK
    /\ ParentsAgree
    /\ UnmovedOnce
    /\ FieldsCounted
    /\ Acyclic(Children)

LEMMA NodesAre ==
    ASSUME TreeTypeOK
    PROVE  /\ AreNodes(nodes, Nodes) /\ None \notin Nodes
           /\ Len(nodes) \in Nat /\ Nodes = 1 .. Len(nodes)
           /\ Node = NodeOver(Nodes)
           /\ \A n \in Nodes :
                 /\ nodes[n].children \in Seq(Nodes) /\ nodes[n].items \in Seq(Nodes)
                 /\ nodes[n].args \in Seq(MaybeNode) /\ nodes[n].field \in MaybeNode
                 /\ nodes[n].parent \in MaybeNode /\ nodes[n].kind \in Kinds
<1>1. Node = NodeOver(Nodes)
  BY DEF Node, NodeOver, MaybeNode
<1>2. nodes \in Seq(Node) /\ DOMAIN nodes = 1 .. Len(nodes) /\ Len(nodes) \in Nat
  BY LenProperties DEF TreeTypeOK
<1>3. \A n \in Nodes : nodes[n] \in Node
  BY <1>2, ElementOfSeq DEF Nodes
<1>4. nodes = [i \in Nodes |-> nodes[i]]
  BY <1>2 DEF Nodes
<1>5. None \notin Nodes
  BY <1>2 DEF Nodes, None
<1>6. \A n \in Nodes :
         /\ nodes[n].children \in Seq(Nodes) /\ nodes[n].items \in Seq(Nodes)
         /\ nodes[n].args \in Seq(MaybeNode) /\ nodes[n].field \in MaybeNode
         /\ nodes[n].parent \in MaybeNode /\ nodes[n].kind \in Kinds
  BY <1>3 DEF Node
<1> QED
  BY <1>1, <1>2, <1>3, <1>4, <1>5, <1>6 DEF AreNodes, Nodes

ChildrenTyped == \A n \in Nodes : nodes[n].children \in Seq(Nodes)

LEMMA ChildrenAreTyped == TreeTypeOK => ChildrenTyped
BY NodesAre DEF ChildrenTyped

\* Conversely, what are nodes field by field is well typed.
LEMMA AreNodesTyped ==
    ASSUME NEW ns, NEW k \in Nat, AreNodes(ns, 1 .. k)
    PROVE  ns \in Seq(NodeOver(1 .. k)) /\ Len(ns) = k /\ DOMAIN ns = 1 .. k
<1>1. ns \in [1 .. k -> NodeOver(1 .. k)]
  BY DEF AreNodes
<1>2. ns \in Seq(NodeOver(1 .. k))
  BY <1>1, SeqDef
<1> QED
  BY <1>1, <1>2, LenProperties

LEMMA MembersAre ==
    ASSUME NEW T, NEW s \in Seq(T)
    PROVE  ToSet(s) \subseteq T
BY LenProperties, ElementOfSeq DEF ToSet

LEMMA ChildrenAreGraph ==
    ASSUME TreeTypeOK
    PROVE  /\ IsGraph(Children) /\ DOMAIN Children = Nodes
           /\ \A n \in Nodes : Children[n] = ToSet(nodes[n].children)
           /\ \A n \in Nodes : Below(n) = Reach(Children, n)
<1>1. DOMAIN Children = Nodes /\ \A n \in Nodes : Children[n] = ToSet(nodes[n].children)
  BY DEF Children
<1>2. IsGraph(Children)
  BY <1>1, NodesAre, MembersAre DEF IsGraph
<1>3. ASSUME NEW S \in SUBSET Nodes
      PROVE  Closed(S) <=> ClosedIn(Children, S)
  BY <1>1 DEF Closed, ClosedIn
<1>4. \A n \in Nodes : Below(n) = Reach(Children, n)
  BY <1>1, <1>3 DEF Below, Reach
<1> QED
  BY <1>1, <1>2, <1>4

\* A sequence without the first d, and with c at its end
Replaced(s, d, c) ==
    LET rest == IF d = None THEN s ELSE RemoveFirst(s, d)
    IN  IF c = None THEN rest ELSE Append(rest, c)

Replaceable(s, d, c, N) ==
    None \notin N /\ s \in Seq(N) /\ d \in {None} \cup ToSet(s) /\ c \in {None} \cup N

LEMMA OccursReplaced ==
    ASSUME NEW N, NEW s, NEW d, NEW c, Replaceable(s, d, c, N)
    PROVE  /\ Replaced(s, d, c) \in Seq(N)
           /\ \A x \in N : Occurs(Replaced(s, d, c), x) = Occurs(s, x) - If(x = d) + If(x = c)
<1> DEFINE rest == IF d = None THEN s ELSE RemoveFirst(s, d)
<1> USE DEF Replaceable
<1>1. /\ rest \in Seq(N)
      /\ \A x \in N : Occurs(rest, x) = Occurs(s, x) - If(x = d)
  <2>1. CASE d = None
    BY <2>1, PlacesFinite DEF If
  <2>2. CASE d # None
    <3>1. rest = RemoveFirst(s, d) /\ d \in ToSet(s)
      BY <2>2
    <3> HIDE DEF rest
    <3> QED
      BY <3>1, RemoveFirstIs, OccursRemoveFirst DEF If
  <2> QED
    BY <2>1, <2>2
<1>2. Replaced(s, d, c) = IF c = None THEN rest ELSE Append(rest, c)
  BY DEF Replaced
<1> HIDE DEF rest
<1>3. \A x \in N : Occurs(rest, x) \in Nat
  BY <1>1, PlacesFinite
<1>4. CASE c = None
  BY <1>1, <1>2, <1>3, <1>4 DEF If
<1>5. CASE c # None
  BY <1>1, <1>2, <1>3, <1>5, AppendProperties, OccursAppend DEF If
<1> QED
  BY <1>4, <1>5

\* A step that takes the child d from n, or none, and gives it the child c, or
\* none, with the parent pointers of both.
ReplaceChild(n, d, c) ==
    /\ d \in {None} \cup ToSet(nodes[n].children)
    /\ c # None => n \notin Below(c)
    /\ \A i \in Nodes :
          /\ nodes'[i].children = IF i = n THEN Replaced(nodes[n].children, d, c)
                                           ELSE nodes[i].children
          /\ nodes'[i].parent = IF i = c THEN n
                                ELSE IF i = d THEN None ELSE nodes[i].parent
    /\ moved' = moved \cup {x \in {c} : x # None /\ nodes[x].parent # None}

\* Such a step keeps what is said of parents and children.
LEMMA ReplaceKeeps ==
    ASSUME TreeInv, TreeTypeOK', Nodes' = Nodes, NEW n \in Nodes, NEW d, NEW c \in MaybeNode,
           ReplaceChild(n, d, c)
    PROVE  ParentsAgree' /\ UnmovedOnce' /\ Acyclic(Children)'
<1>1. /\ TreeTypeOK /\ None \notin Nodes /\ c \in {None} \cup Nodes
      /\ d \in {None} \cup ToSet(nodes[n].children)
      /\ d \in {None} \cup Nodes
      /\ \A m \in Nodes : nodes[m].children \in Seq(Nodes) /\ nodes'[m].children \in Seq(Nodes)
  <2>1. TreeTypeOK
    BY DEF TreeInv
  <2>2. \A m \in Nodes : nodes[m].children \in Seq(Nodes)
    BY <2>1, NodesAre
  <2>3. \A m \in Nodes : nodes'[m].children \in Seq(Nodes)
    <3>1. ChildrenTyped'
      BY ChildrenAreTyped, PTL
    <3> QED
      BY <3>1 DEF ChildrenTyped
  <2> QED
    BY <2>1, <2>2, <2>3, NodesAre, MembersAre DEF MaybeNode, ReplaceChild
<1>2. \A m, x \in Nodes : /\ x \in ToSet(nodes[m].children) <=> Occurs(nodes[m].children, x) > 0
                          /\ x \in ToSet(nodes'[m].children) <=> Occurs(nodes'[m].children, x) > 0
                          /\ Occurs(nodes[m].children, x) \in Nat
                          /\ Occurs(nodes'[m].children, x) \in Nat
  BY <1>1, OccursNever, PlacesFinite
<1>3. \A m, x \in Nodes :
         Occurs(nodes'[m].children, x) =
             IF m = n THEN Occurs(nodes[n].children, x) - If(x = d) + If(x = c)
                      ELSE Occurs(nodes[m].children, x)
  <2>1. \A x \in Nodes : Occurs(Replaced(nodes[n].children, d, c), x) =
                            Occurs(nodes[n].children, x) - If(x = d) + If(x = c)
    <3> DEFINE s == nodes[n].children
    <3>1. Replaceable(s, d, c, Nodes)
      BY <1>1 DEF Replaceable
    <3> HIDE DEF s
    <3>2. \A x \in Nodes : Occurs(Replaced(s, d, c), x) = Occurs(s, x) - If(x = d) + If(x = c)
      BY <3>1, OccursReplaced
    <3> QED
      BY <3>2 DEF s
  <2> QED
    BY <2>1 DEF ReplaceChild
<1>4. /\ \A x \in Nodes : nodes'[x].parent = IF x = c THEN n
                                             ELSE IF x = d THEN None ELSE nodes[x].parent
      /\ \A x \in Nodes : x \notin moved' => x \notin moved /\ (x = c => nodes[x].parent = None)
  BY <1>1 DEF ReplaceChild
<1>5. \A m, x \in Nodes :
         /\ nodes[x].parent = m => Occurs(nodes[m].children, x) > 0
         /\ Occurs(nodes[m].children, x) > 0 /\ x \notin moved => nodes[x].parent = m
         /\ x \notin moved => Occurs(nodes[m].children, x) <= 1
  BY <1>2 DEF TreeInv, ParentsAgree, UnmovedOnce, IsChild
<1>6. ASSUME NEW m \in Nodes, NEW x \in Nodes
      PROVE  /\ nodes'[x].parent = m => Occurs(nodes'[m].children, x) > 0
             /\ Occurs(nodes'[m].children, x) > 0 /\ x \notin moved' => nodes'[x].parent = m
             /\ x \notin moved' => Occurs(nodes'[m].children, x) <= 1
  <2>0. d # None => Occurs(nodes[n].children, d) > 0
    BY <1>1, <1>2
  <2>1. CASE x = c
    <3>0. ASSUME x \notin moved', NEW k \in Nodes
          PROVE  Occurs(nodes[k].children, x) = 0
      <4>1. x \notin moved /\ nodes[x].parent # k
        BY <1>1, <1>4, <2>1, <3>0
      <4> QED
        BY <1>2, <1>5, <4>1
    <3>1. x \notin moved' => Occurs(nodes[m].children, x) = 0 /\ Occurs(nodes[n].children, x) = 0
      BY <3>0
    <3>2. x = d => Occurs(nodes[n].children, x) > 0 /\ x \in moved'
      BY <1>1, <2>0, <3>1
    <3>3. nodes'[x].parent = n
      BY <1>4, <2>1
    <3>4. Occurs(nodes'[n].children, x) = Occurs(nodes[n].children, x) - If(x = d) + 1
      BY <1>3, <2>1 DEF If
    <3>5. m # n => Occurs(nodes'[m].children, x) = Occurs(nodes[m].children, x)
      BY <1>3
    <3>6. Occurs(nodes'[n].children, x) > 0
      BY <1>2, <3>2, <3>4 DEF If
    <3>7. x \notin moved' => Occurs(nodes'[n].children, x) = 1
      BY <3>1, <3>2, <3>4 DEF If
    <3>8. x \notin moved' /\ m # n => Occurs(nodes'[m].children, x) = 0
      BY <3>1, <3>5
    <3> QED
      BY <3>3, <3>6, <3>7, <3>8
  <2>2. CASE x # c /\ x = d
    <3>1. nodes'[x].parent = None /\ m # None
      BY <1>1, <1>4, <2>2
    <3>2. Occurs(nodes[n].children, x) > 0
      BY <1>1, <2>0, <2>2
    <3>3. x \notin moved' => Occurs(nodes'[m].children, x) = 0
      BY <1>2, <1>3, <1>4, <1>5, <2>2, <3>2 DEF If
    <3> QED
      BY <1>2, <3>1, <3>3
  <2>3. CASE x # c /\ x # d
    <3>1. Occurs(nodes'[m].children, x) = Occurs(nodes[m].children, x)
      BY <1>2, <1>3, <2>3 DEF If
    <3>2. nodes'[x].parent = nodes[x].parent
      BY <1>4, <2>3
    <3> QED
      BY <1>4, <1>5, <3>1, <3>2
  <2> QED
    BY <2>1, <2>2, <2>3
<1>7. ParentsAgree' /\ UnmovedOnce'
  BY <1>2, <1>6 DEF ParentsAgree, UnmovedOnce, IsChild
<1>8. Acyclic(Children)'
  <2> DEFINE E == Children
             F == Children'
             C == {c} \ {None}
  <2>1. /\ IsGraph(E) /\ Acyclic(E) /\ DOMAIN E = Nodes
        /\ \A m \in Nodes : E[m] = ToSet(nodes[m].children)
        /\ \A m \in Nodes : Below(m) = Reach(E, m)
    BY <1>1, ChildrenAreGraph DEF TreeInv
  <2>2. /\ DOMAIN F = Nodes /\ \A m \in Nodes : F[m] = ToSet(nodes'[m].children)
    BY DEF Children
  <2> HIDE DEF E, F
  <2>3. IsGraph(F)
    BY <1>1, <2>2, MembersAre DEF IsGraph
  <2>4. Extends(F, E, n, C)
    <3>1. \A x \in Nodes : \A y \in F[x] : y \in E[x] \/ (x = n /\ y \in C)
      <4> TAKE x \in Nodes
      <4> TAKE y \in F[x]
      <4>1. y \in Nodes /\ Occurs(nodes'[x].children, y) > 0
        BY <1>2, <2>2, <2>3 DEF IsGraph
      <4>2. Occurs(nodes[x].children, y) > 0 \/ (x = n /\ y = c)
        BY <1>2, <1>3, <4>1 DEF If
      <4> QED
        BY <1>1, <1>2, <2>1, <4>1, <4>2
    <3>2. C \subseteq Nodes
      BY <1>1
    <3> HIDE DEF C
    <3> QED
      <4>1. DOMAIN E = Nodes /\ DOMAIN F = Nodes
        BY <2>1, <2>2
      <4>2. \A x \in DOMAIN F : \A y \in F[x] : (x \in DOMAIN E /\ y \in E[x]) \/ (x = n /\ y \in C)
        BY <3>1, <4>1
      <4>3. DOMAIN E \subseteq DOMAIN F /\ n \in DOMAIN F /\ C \subseteq DOMAIN E
        BY <3>2, <4>1
      <4> QED
        BY <4>2, <4>3 DEF Extends
  <2>5. \A x \in C : n \notin Reach(E, x)
    BY <1>1, <2>1 DEF ReplaceChild
  <2> HIDE DEF C
  <2>6. Acyclic(F)
    BY <2>1, <2>3, <2>4, <2>5, ExtendedStaysAcyclic
  <2> QED
    BY <2>6 DEF Acyclic, Reach, ClosedIn, F
<1> QED
  BY <1>7, <1>8

\* A step that replaces a child, in the children of n and in its fields, keeps
\* the invariant.
LEMMA FieldStep ==
    ASSUME TreeInv, NEW n \in Nodes, NEW d, NEW c \in MaybeNode, ReplaceChild(n, d, c),
           AreNodes(nodes', Nodes), offer' = offer,
           \A i \in Nodes : /\ nodes'[i].kind = nodes[i].kind /\ nodes'[i].args = nodes[i].args
                            /\ i # n => /\ nodes'[i].field = nodes[i].field
                                        /\ nodes'[i].items = nodes[i].items,
           nodes[n].kind \notin WithField \cup {"matchCase"} => nodes'[n].field = None,
           nodes[n].kind = "matchCase" =>
              d = None /\ \A x \in Nodes :
                 If(nodes'[n].field = x) + Occurs(nodes'[n].items, x)
                 <= If(nodes[n].field = x) + Occurs(nodes[n].items, x) + If(x = c),
           nodes[n].kind # "matchCase" =>
              \A x \in Nodes :
                 If(nodes'[n].field = x) + Occurs(nodes'[n].items, x)
                 = If(nodes[n].field = x) + Occurs(nodes[n].items, x) - If(x = d) + If(x = c)
    PROVE  TreeInv'
<1>1. /\ TreeTypeOK /\ None \notin Nodes /\ Nodes = 1 .. Len(nodes) /\ Len(nodes) \in Nat
      /\ \A i \in Nodes : nodes[i].children \in Seq(Nodes) /\ nodes[i].items \in Seq(Nodes)
                          /\ nodes[i].args \in Seq(MaybeNode)
  BY NodesAre DEF TreeInv
<1>2. /\ nodes' \in Seq(NodeOver(Nodes)) /\ Len(nodes') = Len(nodes) /\ DOMAIN nodes' = Nodes
  <2> DEFINE k == Len(nodes)
  <2>1. AreNodes(nodes', 1 .. k) /\ k \in Nat
    BY <1>1
  <2> HIDE DEF k
  <2>2. nodes' \in Seq(NodeOver(1 .. k)) /\ Len(nodes') = k /\ DOMAIN nodes' = 1 .. k
    BY <2>1, AreNodesTyped
  <2> QED
    BY <1>1, <2>2 DEF k
<1>3. Nodes' = Nodes
  BY <1>2 DEF Nodes
<1>4. TreeTypeOK'
  <2>1. Node' = NodeOver(Nodes)
    BY <1>3 DEF Node, NodeOver, MaybeNode
  <2>2. moved' \subseteq Nodes
    BY <1>1 DEF ReplaceChild, TreeTypeOK, MaybeNode
  <2> QED
    BY <1>1, <1>2, <1>3, <2>1, <2>2 DEF TreeTypeOK
<1>5. ParentsAgree' /\ UnmovedOnce' /\ Acyclic(Children)'
  BY <1>3, <1>4, ReplaceKeeps
<1>6. \A x \in Nodes : /\ Occurs(nodes'[n].children, x)
                            = Occurs(nodes[n].children, x) - If(x = d) + If(x = c)
                       /\ Occurs(nodes[n].children, x) \in Nat
                       /\ Occurs(nodes[n].args, x) \in Nat
                       /\ Occurs(nodes[n].items, x) \in Nat
  <2> DEFINE s == nodes[n].children
  <2>1. Replaceable(s, d, c, Nodes)
    BY <1>1 DEF Replaceable, ReplaceChild, MaybeNode
  <2>2. nodes'[n].children = Replaced(s, d, c)
    BY DEF ReplaceChild
  <2> HIDE DEF s
  <2>3. \A x \in Nodes : Occurs(Replaced(s, d, c), x) = Occurs(s, x) - If(x = d) + If(x = c)
    BY <2>1, OccursReplaced
  <2>4. \A x \in Nodes : Occurs(nodes[n].children, x) \in Nat
                         /\ Occurs(nodes[n].args, x) \in Nat /\ Occurs(nodes[n].items, x) \in Nat
    BY <1>1, PlacesFinite
  <2> QED
    BY <2>2, <2>3, <2>4 DEF s
<1>7. FieldsCounted'
  <2>1. ASSUME NEW m \in Nodes, NEW x \in Nodes
        PROVE  /\ ArgsRight(nodes'[m].kind, nodes'[m].args)
               /\ nodes'[m].kind \notin WithField \cup {"matchCase"} => nodes'[m].field = None
               /\ UsesRight(nodes'[m].kind, nodes'[m].children, nodes'[m].args,
                            nodes'[m].field, nodes'[m].items, x)
    <3>1. /\ ArgsRight(nodes[m].kind, nodes[m].args)
          /\ nodes[m].kind \notin WithField \cup {"matchCase"} => nodes[m].field = None
          /\ UsesRight(nodes[m].kind, nodes[m].children, nodes[m].args,
                       nodes[m].field, nodes[m].items, x)
      BY DEF TreeInv, FieldsCounted
    <3>2. CASE m # n
      BY <3>1, <3>2 DEF ReplaceChild
    <3>3. CASE m = n
      <4>1. UsesRight(nodes'[n].kind, nodes'[n].children, nodes'[n].args,
                      nodes'[n].field, nodes'[n].items, x)
        <5>1. CASE nodes[n].kind = "matchCase"
          <6>1. If(x = d) = 0
            BY <1>1, <5>1 DEF If
          <6>2. Uses(nodes[n].args, nodes[n].field, nodes[n].items, x) > 0
                => Occurs(nodes[n].children, x) > 0
            BY <3>1, <3>3, <5>1 DEF UsesRight
          <6>3. If(nodes'[n].field = x) + Occurs(nodes'[n].items, x)
                <= If(nodes[n].field = x) + Occurs(nodes[n].items, x) + If(x = c)
            BY <5>1
          <6>4. Occurs(nodes'[n].children, x) = Occurs(nodes[n].children, x) + If(x = c)
            BY <1>6, <6>1 DEF If
          <6>5. ASSUME Uses(nodes'[n].args, nodes'[n].field, nodes'[n].items, x) > 0
                PROVE  Occurs(nodes'[n].children, x) > 0
            <7>1. CASE x = c
              BY <1>6, <6>4, <7>1 DEF If
            <7>2. CASE x # c
              <8>1. nodes'[n].items \in Seq(Nodes)
                BY DEF AreNodes, NodeOver
              <8>2. Occurs(nodes'[n].items, x) \in Nat
                BY <8>1, PlacesFinite
              <8>3. Uses(nodes[n].args, nodes[n].field, nodes[n].items, x) > 0
                BY <1>6, <6>3, <6>5, <7>2, <8>2 DEF Uses, If
              <8> QED
                BY <1>6, <6>2, <6>4, <7>2, <8>3 DEF If
            <7> QED
              BY <7>1, <7>2
          <6> QED
            BY <5>1, <6>5 DEF UsesRight
        <5>2. CASE nodes[n].kind # "matchCase"
          <6>1. Occurs(nodes[n].children, x)
                   = Uses(nodes[n].args, nodes[n].field, nodes[n].items, x)
            BY <3>1, <3>3, <5>2 DEF UsesRight
          <6>2. If(nodes'[n].field = x) + Occurs(nodes'[n].items, x)
                = If(nodes[n].field = x) + Occurs(nodes[n].items, x) - If(x = d) + If(x = c)
            BY <5>2
          <6>3. nodes'[n].items \in Seq(Nodes)
            BY DEF AreNodes, NodeOver
          <6>4. Occurs(nodes'[n].items, x) \in Nat
            BY <6>3, PlacesFinite
          <6>5. Occurs(nodes'[n].children, x)
                = Uses(nodes'[n].args, nodes'[n].field, nodes'[n].items, x)
            BY <1>6, <6>1, <6>2, <6>4 DEF Uses, If
          <6> QED
            BY <5>2, <6>5 DEF UsesRight
        <5> QED
          BY <5>1, <5>2
      <4> QED
        BY <3>1, <3>3, <4>1
    <3> QED
      BY <3>2, <3>3
  <2> QED
    BY <1>3, <2>1 DEF FieldsCounted
<1> QED
  BY <1>4, <1>5, <1>7 DEF TreeInv

-----------------------------------------------------------------------------
(* The operations.                                                         *)

\* A node is none of its own children, nor below one that it is attached to.
LEMMA NotItsOwnChild ==
    ASSUME TreeInv, NEW n \in Nodes
    PROVE  /\ \A d \in ToSet(nodes[n].children) : d \in Nodes /\ d # n
           /\ \A c \in Nodes : n \notin Below(c) => n # c
           /\ \A x \in Nodes : If(nodes[n].field = x) > 0 \/ Occurs(nodes[n].items, x) > 0
                                  => x \in ToSet(nodes[n].children)
<1>1. /\ TreeTypeOK /\ IsGraph(Children) /\ DOMAIN Children = Nodes /\ Acyclic(Children)
      /\ Children[n] = ToSet(nodes[n].children)
      /\ \A c \in Nodes : Below(c) = Reach(Children, c)
  BY ChildrenAreGraph DEF TreeInv
<1>2. \A c \in Nodes : c \in Reach(Children, c)
  BY <1>1, ReachIsClosed
<1>3. ASSUME NEW d \in ToSet(nodes[n].children)
      PROVE  d \in Nodes /\ d # n
  <2>1. d \in Nodes
    BY <1>1 DEF IsGraph
  <2>2. n \notin Reach(Children, d)
    BY <1>1 DEF Acyclic
  <2> QED
    BY <1>2, <2>1, <2>2
<1>4. ASSUME NEW x \in Nodes, If(nodes[n].field = x) > 0 \/ Occurs(nodes[n].items, x) > 0
      PROVE  x \in ToSet(nodes[n].children)
  <2>1. /\ Occurs(nodes[n].children, x) \in Nat /\ Occurs(nodes[n].args, x) \in Nat
        /\ Occurs(nodes[n].items, x) \in Nat
    BY <1>1, NodesAre, PlacesFinite
  <2>2. UsesRight(nodes[n].kind, nodes[n].children, nodes[n].args, nodes[n].field,
                  nodes[n].items, x)
    BY DEF TreeInv, FieldsCounted
  <2>3. Occurs(nodes[n].children, x) > 0
    BY <1>4, <2>1, <2>2 DEF UsesRight, Uses, If
  <2> QED
    BY <1>1, <2>1, <2>3, NodesAre, OccursNever
<1> QED
  BY <1>1, <1>2, <1>3, <1>4

LEMMA AddItemKeeps ==
    ASSUME TreeInv, NEW n \in Nodes, NEW c \in Nodes, AddItem(n, c)
    PROVE  TreeInv'
<1> DEFINE v == Append(nodes[n].items, c)
           ms == [nodes EXCEPT ![n].items = v]
<1>1. /\ AreNodes(nodes, Nodes) /\ None \notin Nodes /\ n # c /\ c # None
      /\ nodes[n].items \in Seq(Nodes) /\ v \in Seq(Nodes)
  <2>1. TreeTypeOK /\ n \notin Below(c)
    BY DEF TreeInv, AddItem, Attachable
  <2> QED
    BY <2>1, NodesAre, NotItsOwnChild, AppendProperties
<1>2. nodes' = AddChild(ms, n, c)
  <2>1. n \in DOMAIN nodes
    BY <1>1 DEF AreNodes
  <2> QED
    BY <2>1 DEF AddItem
<1> HIDE DEF ms, v
<1>3. /\ AreNodes(ms, Nodes)
      /\ \A i \in Nodes : i # n => ms[i] = nodes[i]
      /\ ms[n].items = v /\ ms[n].kind = nodes[n].kind /\ ms[n].args = nodes[n].args
      /\ ms[n].field = nodes[n].field /\ ms[n].parent = nodes[n].parent
      /\ ms[n].children = nodes[n].children
  <2>1. Listed(ms, nodes, Nodes, n, v)
    BY <1>1, SetItemsIs DEF ms
  <2> QED
    BY <2>1 DEF Listed
<1>4. /\ AreNodes(nodes', Nodes) /\ SameFields(nodes', ms, Nodes)
      /\ \A i \in Nodes : nodes'[i].parent = IF i = c THEN n ELSE ms[i].parent
      /\ \A i \in Nodes : i # n => nodes'[i].children = ms[i].children
      /\ nodes'[n].children = Append(ms[n].children, c)
  <2>1. Attached(nodes', ms, Nodes, n, c)
    BY <1>1, <1>2, <1>3, AddChildIs
  <2> QED
    BY <2>1 DEF Attached
<1>5. ReplaceChild(n, None, c)
  <2>1. n \notin Below(c) /\ moved' = moved \cup {x \in {c} : x # None /\ nodes[x].parent # None}
    BY DEF AddItem, Attachable, Move
  <2>2. Replaced(nodes[n].children, None, c) = Append(nodes[n].children, c)
    BY <1>1 DEF Replaced
  <2> QED
    BY <1>1, <1>3, <1>4, <2>1, <2>2 DEF ReplaceChild
<1>6. /\ \A i \in Nodes : /\ nodes'[i].kind = nodes[i].kind /\ nodes'[i].args = nodes[i].args
                          /\ i # n => /\ nodes'[i].field = nodes[i].field
                                      /\ nodes'[i].items = nodes[i].items
      /\ nodes'[n].field = nodes[n].field /\ nodes'[n].items = v
  BY <1>3, <1>4 DEF SameFields
<1>7. \A x \in Nodes : /\ Occurs(nodes'[n].items, x) = Occurs(nodes[n].items, x) + If(x = c)
                       /\ Occurs(nodes[n].items, x) \in Nat /\ If(x = None) = 0
  BY <1>1, <1>6, OccursAppend, PlacesFinite DEF v, If
<1>8. \A x \in Nodes :
         /\ If(nodes'[n].field = x) + Occurs(nodes'[n].items, x)
            <= If(nodes[n].field = x) + Occurs(nodes[n].items, x) + If(x = c)
         /\ If(nodes'[n].field = x) + Occurs(nodes'[n].items, x)
            = If(nodes[n].field = x) + Occurs(nodes[n].items, x) - If(x = None) + If(x = c)
  BY <1>6, <1>7 DEF If
<1>9. /\ c \in MaybeNode /\ offer' = offer
      /\ nodes[n].kind \notin WithField \cup {"matchCase"} => nodes'[n].field = None
  BY <1>6 DEF MaybeNode, AddItem, TreeInv, FieldsCounted
<1> QED
  BY <1>4, <1>5, <1>6, <1>8, <1>9, FieldStep

LEMMA SetBindingKeeps ==
    ASSUME TreeInv, NEW n \in Nodes, NEW c \in Nodes, SetBinding(n, c)
    PROVE  TreeInv'
<1> DEFINE ms == [nodes EXCEPT ![n].field = c]
<1>1. /\ AreNodes(nodes, Nodes) /\ None \notin Nodes /\ n # c /\ c # None
      /\ c \in {None} \cup Nodes
      /\ nodes[n].items \in Seq(Nodes) /\ nodes[n].kind = "matchCase"
  <2>1. TreeTypeOK /\ n \notin Below(c)
    BY DEF TreeInv, SetBinding, Attachable
  <2> QED
    BY <2>1, NodesAre, NotItsOwnChild DEF SetBinding
<1>2. nodes' = AddChild(ms, n, c)
  BY DEF SetBinding
<1> HIDE DEF ms
<1>3. /\ AreNodes(ms, Nodes)
      /\ \A i \in Nodes : i # n => ms[i] = nodes[i]
      /\ ms[n].field = c /\ ms[n].kind = nodes[n].kind /\ ms[n].args = nodes[n].args
      /\ ms[n].items = nodes[n].items /\ ms[n].parent = nodes[n].parent
      /\ ms[n].children = nodes[n].children
  <2>1. Filled(ms, nodes, Nodes, n, c)
    BY <1>1, SetFieldIs DEF ms
  <2> QED
    BY <2>1 DEF Filled
<1>4. /\ AreNodes(nodes', Nodes) /\ SameFields(nodes', ms, Nodes)
      /\ \A i \in Nodes : nodes'[i].parent = IF i = c THEN n ELSE ms[i].parent
      /\ \A i \in Nodes : i # n => nodes'[i].children = ms[i].children
      /\ nodes'[n].children = Append(ms[n].children, c)
  <2>1. Attached(nodes', ms, Nodes, n, c)
    BY <1>1, <1>2, <1>3, AddChildIs
  <2> QED
    BY <2>1 DEF Attached
<1>5. ReplaceChild(n, None, c)
  <2>1. n \notin Below(c) /\ moved' = moved \cup {x \in {c} : x # None /\ nodes[x].parent # None}
    BY DEF SetBinding, Attachable, Move
  <2>2. Replaced(nodes[n].children, None, c) = Append(nodes[n].children, c)
    BY <1>1 DEF Replaced
  <2> QED
    BY <1>1, <1>3, <1>4, <2>1, <2>2 DEF ReplaceChild
<1>6. /\ \A i \in Nodes : /\ nodes'[i].kind = nodes[i].kind /\ nodes'[i].args = nodes[i].args
                          /\ i # n => /\ nodes'[i].field = nodes[i].field
                                      /\ nodes'[i].items = nodes[i].items
      /\ nodes'[n].field = c /\ nodes'[n].items = nodes[n].items
  BY <1>3, <1>4 DEF SameFields
<1>7. \A x \in Nodes : Occurs(nodes[n].items, x) \in Nat
  BY <1>1, PlacesFinite
<1>8. \A x \in Nodes : If(nodes'[n].field = x) + Occurs(nodes'[n].items, x)
                       <= If(nodes[n].field = x) + Occurs(nodes[n].items, x) + If(x = c)
  BY <1>6, <1>7 DEF If
<1>9. c \in MaybeNode /\ offer' = offer
  BY DEF MaybeNode, SetBinding
<1> QED
  BY <1>1, <1>4, <1>5, <1>6, <1>8, <1>9, FieldStep

LEMMA RemoveItemKeeps ==
    ASSUME TreeInv, NEW n \in Nodes, NEW c \in Nodes, RemoveItem(n, c)
    PROVE  TreeInv'
<1> DEFINE v == RemoveFirst(nodes[n].items, c)
           ms == [nodes EXCEPT ![n].items = v]
<1>1. /\ AreNodes(nodes, Nodes) /\ None \notin Nodes /\ c # None
      /\ nodes[n].items \in Seq(Nodes) /\ c \in ToSet(nodes[n].items)
      /\ nodes[n].kind = "plain"
      /\ \A i \in Nodes : nodes[i].children \in Seq(Nodes)
  BY NodesAre DEF RemoveItem, TreeInv
<1>2. v \in Seq(Nodes) /\ \A x \in Nodes : Occurs(v, x) = Occurs(nodes[n].items, x) - If(x = c)
  BY <1>1, RemoveFirstIs, OccursRemoveFirst DEF If
<1>3. c \in ToSet(nodes[n].children) /\ n # c
  <2>1. Occurs(nodes[n].items, c) > 0
    BY <1>1, PlacesFinite, OccursNever
  <2> QED
    BY <2>1, NotItsOwnChild
<1>4. nodes' = RemoveChild(ms, n, c)
  <2>1. n \in DOMAIN nodes
    BY <1>1 DEF AreNodes
  <2> QED
    BY <2>1 DEF RemoveItem
<1> HIDE DEF ms, v
<1>5. /\ AreNodes(ms, Nodes)
      /\ \A i \in Nodes : i # n => ms[i] = nodes[i]
      /\ ms[n].items = v /\ ms[n].kind = nodes[n].kind /\ ms[n].args = nodes[n].args
      /\ ms[n].field = nodes[n].field /\ ms[n].parent = nodes[n].parent
      /\ ms[n].children = nodes[n].children
  <2>1. Listed(ms, nodes, Nodes, n, v)
    BY <1>1, <1>2, SetItemsIs DEF ms
  <2> QED
    BY <2>1 DEF Listed
<1>6. /\ AreNodes(nodes', Nodes) /\ SameFields(nodes', ms, Nodes)
      /\ \A i \in Nodes : nodes'[i].parent = IF i = c THEN None ELSE ms[i].parent
      /\ \A i \in Nodes : i # n => nodes'[i].children = ms[i].children
      /\ nodes'[n].children = RemoveFirst(ms[n].children, c)
  <2>1. c \in ToSet(ms[n].children)
    BY <1>3, <1>5
  <2>2. Detached(nodes', ms, Nodes, n, c)
    BY <1>3, <1>4, <1>5, <2>1, RemoveChildIs
  <2> QED
    BY <2>2 DEF Detached
<1>7. ReplaceChild(n, c, None)
  <2>1. moved' = moved
    BY DEF RemoveItem
  <2>2. Replaced(nodes[n].children, c, None) = RemoveFirst(nodes[n].children, c)
    BY <1>1 DEF Replaced
  <2> QED
    BY <1>1, <1>3, <1>5, <1>6, <2>1, <2>2 DEF ReplaceChild
<1>8. /\ \A i \in Nodes : /\ nodes'[i].kind = nodes[i].kind /\ nodes'[i].args = nodes[i].args
                          /\ i # n => /\ nodes'[i].field = nodes[i].field
                                      /\ nodes'[i].items = nodes[i].items
      /\ nodes'[n].field = nodes[n].field /\ nodes'[n].items = v
  BY <1>5, <1>6 DEF SameFields
<1>9. \A x \in Nodes : If(nodes'[n].field = x) + Occurs(nodes'[n].items, x)
                       = If(nodes[n].field = x) + Occurs(nodes[n].items, x)
                         - If(x = c) + If(x = None)
  <2>1. \A x \in Nodes : Occurs(nodes[n].items, x) \in Nat /\ If(x = None) = 0
    BY <1>1, PlacesFinite DEF If
  <2> QED
    BY <1>2, <1>8, <2>1 DEF If
<1>10. None \in MaybeNode /\ offer' = offer /\ nodes[n].kind \in WithField
  BY <1>1 DEF MaybeNode, RemoveItem, WithField
<1> QED
  BY <1>1, <1>6, <1>7, <1>8, <1>9, <1>10, FieldStep

LEMMA SetFieldKeeps ==
    ASSUME TreeInv, NEW n \in Nodes, NEW c \in MaybeNode, SetField(n, c)
    PROVE  TreeInv'
<1> DEFINE d == nodes[n].field
           rs == RemoveChild(nodes, n, d)
           ms == [rs EXCEPT ![n].field = c]
<1>1. /\ AreNodes(nodes, Nodes) /\ None \notin Nodes /\ c \in {None} \cup Nodes
      /\ nodes[n].items \in Seq(Nodes) /\ nodes[n].kind \in WithField
      /\ d \in {None} \cup Nodes
      /\ \A i \in Nodes : nodes[i].children \in Seq(Nodes)
      /\ c # None => n # c /\ n \notin Below(c)
  <2>1. TreeTypeOK /\ (c # None => n \notin Below(c)) /\ c \in {None} \cup Nodes
    BY DEF TreeInv, SetField, Attachable, MaybeNode
  <2> QED
    BY <2>1, NodesAre, NotItsOwnChild DEF SetField, MaybeNode
<1>2. /\ d # None => d \in ToSet(nodes[n].children) /\ n # d
      /\ d = None => d \notin ToSet(nodes[n].children)
  <2>1. d # None => If(d = d) > 0
    BY DEF If
  <2>2. ToSet(nodes[n].children) \subseteq Nodes
    BY <1>1, MembersAre
  <2> QED
    BY <1>1, <2>1, <2>2, NotItsOwnChild
<1>3. nodes' = AddChild(ms, n, c)
  BY DEF SetField
<1> HIDE DEF ms, rs, d
<1>4. /\ AreNodes(rs, Nodes) /\ SameFields(rs, nodes, Nodes)
      /\ \A i \in Nodes : rs[i].parent = IF i = d THEN None ELSE nodes[i].parent
      /\ \A i \in Nodes : i # n => rs[i].children = nodes[i].children
      /\ rs[n].children = IF d = None THEN nodes[n].children
                                      ELSE RemoveFirst(nodes[n].children, d)
  <2>1. CASE d = None
    <3>1. rs = nodes
      BY <1>2, <2>1 DEF rs, RemoveChild
    <3> QED
      BY <1>1, <2>1, <3>1 DEF SameFields
  <2>2. CASE d # None
    <3>1. Detached(rs, nodes, Nodes, n, d)
      BY <1>1, <1>2, <2>2, RemoveChildIs DEF rs
    <3> QED
      BY <2>2, <3>1 DEF Detached
  <2> QED
    BY <2>1, <2>2
<1>5. /\ AreNodes(ms, Nodes)
      /\ \A i \in Nodes : i # n => ms[i] = rs[i]
      /\ ms[n].field = c /\ ms[n].kind = rs[n].kind /\ ms[n].args = rs[n].args
      /\ ms[n].items = rs[n].items /\ ms[n].parent = rs[n].parent
      /\ ms[n].children = rs[n].children
  <2>1. Filled(ms, rs, Nodes, n, c)
    BY <1>1, <1>4, SetFieldIs DEF ms
  <2> QED
    BY <2>1 DEF Filled
<1>6. /\ AreNodes(nodes', Nodes) /\ SameFields(nodes', ms, Nodes)
      /\ \A i \in Nodes : nodes'[i].parent = IF i = c THEN n ELSE ms[i].parent
      /\ \A i \in Nodes : i # n => nodes'[i].children = ms[i].children
      /\ nodes'[n].children = IF c = None THEN ms[n].children ELSE Append(ms[n].children, c)
  <2>1. CASE c = None
    <3>1. nodes' = ms
      BY <1>3, <2>1 DEF AddChild
    <3> QED
      BY <1>1, <1>5, <2>1, <3>1 DEF SameFields
  <2>2. CASE c # None
    <3>1. c \in Nodes /\ n # c
      BY <1>1, <2>2
    <3>2. Attached(nodes', ms, Nodes, n, c)
      BY <1>3, <1>5, <2>2, <3>1, AddChildIs
    <3> QED
      BY <2>2, <3>2 DEF Attached
  <2> QED
    BY <2>1, <2>2
<1>7. ReplaceChild(n, d, c)
  <2>1. moved' = moved \cup {x \in {c} : x # None /\ nodes[x].parent # None}
    BY DEF SetField, Move
  <2>2. nodes'[n].children = Replaced(nodes[n].children, d, c)
    BY <1>4, <1>5, <1>6 DEF Replaced
  <2>3. \A i \in Nodes : ms[i].parent = rs[i].parent
    BY <1>5
  <2> QED
    BY <1>1, <1>2, <1>4, <1>5, <1>6, <2>1, <2>2, <2>3 DEF ReplaceChild
<1>8. /\ \A i \in Nodes : /\ nodes'[i].kind = nodes[i].kind /\ nodes'[i].args = nodes[i].args
                          /\ i # n => /\ nodes'[i].field = nodes[i].field
                                      /\ nodes'[i].items = nodes[i].items
      /\ nodes'[n].field = c /\ nodes'[n].items = nodes[n].items
  BY <1>4, <1>5, <1>6 DEF SameFields
<1>9. \A x \in Nodes : If(nodes'[n].field = x) + Occurs(nodes'[n].items, x)
                       = If(nodes[n].field = x) + Occurs(nodes[n].items, x) - If(x = d) + If(x = c)
  <2>1. \A x \in Nodes : Occurs(nodes[n].items, x) \in Nat
    BY <1>1, PlacesFinite
  <2> QED
    BY <1>8, <2>1 DEF If, d
<1>10. offer' = offer /\ nodes[n].kind # "matchCase"
  BY <1>1 DEF SetField, WithField
<1> QED
  BY <1>1, <1>6, <1>7, <1>8, <1>9, <1>10, FieldStep

-----------------------------------------------------------------------------
(* Constructors.                                                           *)

\* Sequences in which only None occurs twice
Distinct(cs) == \A i, j \in DOMAIN cs : cs[i] = cs[j] /\ i # j => cs[i] = None

\* ms is ns with the first k of cs added to n, which had no children.
AddedUpTo(ms, ns, N, n, cs, k) ==
    /\ AreNodes(ms, N) /\ SameFields(ms, ns, N)
    /\ \A i \in N : ms[i].parent = IF \E j \in 1 .. k : cs[j] = i THEN n ELSE ns[i].parent
    /\ \A i \in N : i # n => ms[i].children = ns[i].children
    /\ \A x \in N : /\ x \in ToSet(ms[n].children) <=> \E j \in 1 .. k : cs[j] = x
                    /\ Occurs(ms[n].children, x) <= 1

LEMMA AddOneMore ==
    ASSUME NEW N, None \notin N, NEW ns, NEW n \in N, NEW cs \in Seq({None} \cup (N \ {n})),
           Distinct(cs), NEW k \in Nat, k < Len(cs), NEW ms, AddedUpTo(ms, ns, N, n, cs, k)
    PROVE  AddedUpTo(AddChild(ms, n, cs[k + 1]), ns, N, n, cs, k + 1)
<1> DEFINE c == cs[k + 1]
<1>1. /\ k + 1 \in 1 .. Len(cs) /\ DOMAIN cs = 1 .. Len(cs) /\ Len(cs) \in Nat
      /\ c \in {None} \cup (N \ {n})
  <2>1. DOMAIN cs = 1 .. Len(cs) /\ Len(cs) \in Nat
    BY LenProperties
  <2>2. k + 1 \in 1 .. Len(cs)
    BY <2>1
  <2> QED
    BY <2>1, <2>2, ElementOfSeq
<1>2. \A x : (\E j \in 1 .. k + 1 : cs[j] = x) <=> (\E j \in 1 .. k : cs[j] = x) \/ x = c
  <2>1. \A j : j \in 1 .. k + 1 <=> j \in 1 .. k \/ j = k + 1
    OBVIOUS
  <2> QED
    BY <2>1
<1>3. CASE c = None
  <2>1. AddChild(ms, n, c) = ms
    BY <1>3 DEF AddChild
  <2>2. \A x \in N : (\E j \in 1 .. k + 1 : cs[j] = x) <=> (\E j \in 1 .. k : cs[j] = x)
    BY <1>2, <1>3
  <2> QED
    BY <2>1, <2>2 DEF AddedUpTo
<1>4. CASE c # None
  <2>1. c \in N /\ c # n
    BY <1>1, <1>4
  <2> DEFINE os == AddChild(ms, n, c)
  <2>2. Attached(os, ms, N, n, c)
    BY <1>4, <2>1, AddChildIs DEF AddedUpTo
  <2> HIDE DEF os
  <2>3. ~\E j \in 1 .. k : cs[j] = c
    <3> SUFFICES ASSUME NEW j \in 1 .. k, cs[j] = c PROVE FALSE
      OBVIOUS
    <3>1. j \in DOMAIN cs /\ k + 1 \in DOMAIN cs /\ j # k + 1
      BY <1>1
    <3> QED
      BY <1>4, <3>1 DEF Distinct
  <2>4. ms[n].children \in Seq(N)
    BY DEF AddedUpTo, AreNodes, NodeOver
  <2>5. os[n].children \in Seq(N) /\ os[n].children = Append(ms[n].children, c)
    BY <2>2 DEF Attached, AreNodes, NodeOver
  <2>6. \A x \in N : /\ Occurs(ms[n].children, x) \in Nat
                     /\ Occurs(os[n].children, x)
                           = Occurs(ms[n].children, x) + IF x = c THEN 1 ELSE 0
    BY <2>1, <2>4, <2>5, OccursAppend, PlacesFinite
  <2>7. Occurs(ms[n].children, c) = 0
    BY <2>1, <2>3, <2>4, OccursNever DEF AddedUpTo
  <2>8. \A x \in N : /\ x \in ToSet(os[n].children) <=> \E j \in 1 .. k + 1 : cs[j] = x
                     /\ Occurs(os[n].children, x) <= 1
    <3> TAKE x \in N
    <3>1. /\ x \in ToSet(ms[n].children) <=> Occurs(ms[n].children, x) # 0
          /\ x \in ToSet(os[n].children) <=> Occurs(os[n].children, x) # 0
      BY <2>4, <2>5, OccursNever
    <3>2. CASE x = c
      BY <1>2, <2>6, <2>7, <3>1, <3>2
    <3>3. CASE x # c
      <4>1. Occurs(os[n].children, x) = Occurs(ms[n].children, x)
        BY <2>6, <3>3
      <4> QED
        BY <1>2, <3>1, <3>3, <4>1 DEF AddedUpTo
    <3> QED
      BY <3>2, <3>3
  <2>9. /\ AreNodes(os, N) /\ SameFields(os, ns, N)
        /\ \A i \in N : i # n => os[i].children = ns[i].children
    BY <2>2 DEF Attached, AddedUpTo, SameFields
  <2>10. \A i \in N : os[i].parent = IF \E j \in 1 .. k + 1 : cs[j] = i THEN n ELSE ns[i].parent
    BY <1>2, <2>2 DEF Attached, AddedUpTo
  <2> QED
    BY <2>8, <2>9, <2>10 DEF AddedUpTo, os
<1> QED
  BY <1>3, <1>4

LEMMA AddChildrenIs ==
    ASSUME NEW N, None \notin N, NEW ns, AreNodes(ns, N), NEW n \in N, ns[n].children = <<>>,
           NEW cs \in Seq({None} \cup (N \ {n})), Distinct(cs)
    PROVE  AddedUpTo(AddChildren(ns, n, cs), ns, N, n, cs, Len(cs))
<1> DEFINE Step(f, m) == [i \in 0 .. m |-> IF i = 0 THEN ns ELSE AddChild(f[i - 1], n, cs[i])]
           S == {k \in Nat : k <= Len(cs) =>
                    \E f : f = Step(f, k) /\ AddedUpTo(f[k], ns, N, n, cs, k)}
<1>0. Len(cs) \in Nat
  BY LenProperties
<1>1. 0 \in S
  <2> DEFINE f == [i \in 0 .. 0 |-> ns]
  <2>1. f = Step(f, 0)
    OBVIOUS
  <2>2. AddedUpTo(ns, ns, N, n, cs, 0)
    <3>1. \A x : ~\E j \in 1 .. 0 : cs[j] = x
      OBVIOUS
    <3>2. ToSet(ns[n].children) = {} /\ \A x \in N : Occurs(ns[n].children, x) = 0
      BY OccursEmpty DEF ToSet
    <3> QED
      BY <3>1, <3>2 DEF AddedUpTo, SameFields
  <2>3. f[0] = ns
    OBVIOUS
  <2> QED
    BY <2>1, <2>2, <2>3
<1>2. ASSUME NEW k \in Nat, k \in S
      PROVE  k + 1 \in S
  <2> SUFFICES ASSUME k + 1 <= Len(cs)
               PROVE  \E f : f = Step(f, k + 1) /\ AddedUpTo(f[k + 1], ns, N, n, cs, k + 1)
    OBVIOUS
  <2>1. PICK f : f = Step(f, k) /\ AddedUpTo(f[k], ns, N, n, cs, k)
    BY <1>0, <1>2
  <2> DEFINE g == [i \in 0 .. k + 1 |-> IF i <= k THEN f[i] ELSE AddChild(f[k], n, cs[k + 1])]
  <2>2. /\ g[k + 1] = AddChild(f[k], n, cs[k + 1])
        /\ \A i \in 0 .. k : g[i] = f[i]
    OBVIOUS
  <2>3. AddedUpTo(g[k + 1], ns, N, n, cs, k + 1)
    BY <1>0, <2>1, <2>2, AddOneMore
  <2>4. \A i \in 0 .. k : f[i] = IF i = 0 THEN ns ELSE AddChild(f[i - 1], n, cs[i])
    <3> DEFINE h == Step(f, k)
    <3>1. f = h
      BY <2>1
    <3>2. \A i \in 0 .. k : h[i] = IF i = 0 THEN ns ELSE AddChild(f[i - 1], n, cs[i])
      OBVIOUS
    <3> HIDE DEF h
    <3> QED
      BY <3>1, <3>2
  <2>5. \A i \in 0 .. k + 1 : g[i] = IF i = 0 THEN ns ELSE AddChild(g[i - 1], n, cs[i])
    <3> TAKE i \in 0 .. k + 1
    <3> HIDE DEF g
    <3>1. CASE i <= k
      <4>1. i \in 0 .. k /\ (i # 0 => i - 1 \in 0 .. k)
        BY <3>1
      <4> QED
        BY <2>2, <2>4, <4>1
    <3>2. CASE i = k + 1
      <4>1. i # 0 /\ i - 1 = k /\ k \in 0 .. k
        BY <3>2
      <4> QED
        BY <2>2, <3>2, <4>1
    <3> QED
      BY <3>1, <3>2
  <2>6. g = Step(g, k + 1)
    BY <2>5
  <2> HIDE DEF g, Step
  <2> QED
    BY <2>3, <2>6
<1>3. Nat \subseteq S
  <2> HIDE DEF S
  <2> QED
    BY <1>1, <1>2, SimpleInduction
<1> DEFINE m == Len(cs)
           P(f) == f = Step(f, m)
           added == CHOOSE f : P(f)
<1>4. \E f : f = Step(f, m) /\ AddedUpTo(f[m], ns, N, n, cs, m)
  BY <1>0, <1>3
<1>5. AddChildren(ns, n, cs) = added[m]
  BY DEF AddChildren
<1>6. added = Step(added, m)
  <2>1. \E f : P(f)
    BY <1>4
  <2>2. P(added)
    <3> HIDE DEF P
    <3> QED
      BY <2>1
  <2> HIDE DEF added
  <2> QED
    BY <2>2
<1>7. \A f, g : f = Step(f, m) /\ g = Step(g, m) => \A i \in 0 .. m : f[i] = g[i]
  <2> SUFFICES ASSUME NEW f, NEW g, f = Step(f, m), g = Step(g, m)
               PROVE  \A i \in 0 .. m : f[i] = g[i]
    <3> HIDE DEF Step, m
    <3> QED
      OBVIOUS
  <2> DEFINE R == {i \in Nat : i <= m => f[i] = g[i]}
  <2>1. ASSUME NEW h, h = Step(h, m)
        PROVE  \A i \in 0 .. m : h[i] = IF i = 0 THEN ns ELSE AddChild(h[i - 1], n, cs[i])
    <3> DEFINE u == Step(h, m)
    <3>1. h = u
      BY <2>1
    <3>2. \A i \in 0 .. m : u[i] = IF i = 0 THEN ns ELSE AddChild(h[i - 1], n, cs[i])
      OBVIOUS
    <3> HIDE DEF u
    <3> QED
      BY <3>1, <3>2
  <2> HIDE DEF Step
  <2>2. 0 \in R
    BY <1>0, <2>1
  <2>3. ASSUME NEW i \in Nat, i \in R
        PROVE  i + 1 \in R
    <3> SUFFICES ASSUME i + 1 <= m PROVE f[i + 1] = g[i + 1]
      OBVIOUS
    <3>1. f[i] = g[i]
      BY <1>0, <2>3
    <3>2. i + 1 \in 0 .. m /\ i + 1 # 0 /\ (i + 1) - 1 = i
      BY <1>0
    <3> HIDE DEF R
    <3> QED
      BY <2>1, <3>1, <3>2
  <2>4. Nat \subseteq R
    <3> HIDE DEF R
    <3> QED
      BY <2>2, <2>3, SimpleInduction
  <2> QED
    BY <1>0, <2>4
<1>8. m \in 0 .. m
  BY <1>0
<1> HIDE DEF Step, added, m
<1>9. AddedUpTo(added[m], ns, N, n, cs, m)
  BY <1>4, <1>6, <1>7, <1>8
<1> QED
  BY <1>5, <1>9 DEF m


\* The order in which the arguments are added changes nothing.
LEMMA AddedIs ==
    ASSUME NEW N, NEW kind, NEW args \in Seq(N), ArgsRight(kind, args)
    PROVE  /\ Added(kind, args) \in Seq(N) /\ Distinct(Added(kind, args))
           /\ \A x : (\E j \in 1 .. Len(Added(kind, args)) : Added(kind, args)[j] = x)
                     <=> x \in ToSet(args)
<1>1. DOMAIN args = 1 .. Len(args) /\ Len(args) \in Nat
  BY LenProperties
<1>2. CASE kind = "forStmt"
  <2>1. Len(args) = 3 /\ DOMAIN args = {1, 2, 3}
    BY <1>1, <1>2 DEF ArgsRight, Arity
  <2>2. args[1] \in N /\ args[2] \in N /\ args[3] \in N
    <3>1. 1 \in 1 .. Len(args) /\ 2 \in 1 .. Len(args) /\ 3 \in 1 .. Len(args)
      BY <2>1
    <3> QED
      BY <3>1, ElementOfSeq
  <2> DEFINE a == <<args[1], args[3], args[2]>>
  <2>3. /\ a \in Seq(N) /\ Len(a) = 3 /\ DOMAIN a = {1, 2, 3} /\ 1 .. 3 = {1, 2, 3}
        /\ a[1] = args[1] /\ a[2] = args[3] /\ a[3] = args[2]
    BY <2>2
  <2>4. Added(kind, args) = a
    BY <1>2 DEF Added
  <2> HIDE DEF a
  <2>5. \A x : (\E j \in {1, 2, 3} : a[j] = x) <=> (\E j \in {1, 2, 3} : args[j] = x)
    BY <2>3
  <2>6. Distinct(a)
    BY <2>1, <2>3 DEF ArgsRight, Distinct
  <2> QED
    BY <2>1, <2>3, <2>4, <2>5, <2>6 DEF ToSet
<1>3. CASE kind # "forStmt"
  <2>1. Added(kind, args) = args
    BY <1>3 DEF Added
  <2> QED
    BY <1>1, <2>1 DEF ArgsRight, Distinct, ToSet
<1> QED
  BY <1>2, <1>3

\* What a constructor does: the new node is there, and its arguments are its
\* children and know it.
Constructed(kind, args, new) ==
    /\ kind \in Kinds /\ args \in Seq(MaybeNode) /\ ArgsRight(kind, args)
    /\ offer' = offer
    /\ moved' = moved \cup {c \in ToSet(args) : c # None /\ nodes[c].parent # None}
    /\ AreNodes(nodes', 1 .. new)
    /\ \A i \in Nodes : /\ nodes'[i].kind = nodes[i].kind /\ nodes'[i].args = nodes[i].args
                        /\ nodes'[i].field = nodes[i].field /\ nodes'[i].items = nodes[i].items
                        /\ nodes'[i].children = nodes[i].children
                        /\ nodes'[i].parent = IF i \in ToSet(args) THEN new ELSE nodes[i].parent
    /\ nodes'[new].kind = kind /\ nodes'[new].args = args /\ nodes'[new].field = None
    /\ nodes'[new].items = <<>> /\ nodes'[new].parent = None
    /\ \A x \in 1 .. new : /\ x \in ToSet(nodes'[new].children) <=> x \in ToSet(args)
                           /\ Occurs(nodes'[new].children, x) <= 1

LEMMA ConstructIs ==
    ASSUME TreeInv, Construct
    PROVE  \E kind, args : Constructed(kind, args, Len(nodes) + 1)
<1> DEFINE new == Len(nodes) + 1
           N == 1 .. new
           kind == offer.kinds[new]
<1>1. /\ AreNodes(nodes, Nodes) /\ None \notin Nodes /\ None \notin N
      /\ Len(nodes) \in Nat /\ Nodes = 1 .. Len(nodes) /\ nodes \in Seq(Node)
      /\ new \in N /\ new \notin Nodes /\ N = Nodes \cup {new}
  <2>1. TreeTypeOK
    BY DEF TreeInv
  <2> QED
    BY <2>1, NodesAre DEF None, TreeTypeOK
<1>2. kind \in Kinds
  <2>1. offer \in Offers /\ new <= Len(offer.kinds)
    <3>1. offer \in Offers /\ Len(nodes) < Len(offer.kinds)
      BY DEF TreeInv, TreeTypeOK, Construct
    <3>2. offer.kinds \in Seq(Kinds)
      BY <3>1, OffersAssumption
    <3>3. Len(offer.kinds) \in Nat
      BY <3>2, LenProperties
    <3> QED
      BY <1>1, <3>1, <3>3
  <2>2. offer.kinds \in Seq(Kinds)
    BY <2>1, OffersAssumption
  <2>3. new \in 1 .. Len(offer.kinds)
    BY <1>1, <2>1
  <2> QED
    BY <2>2, <2>3, ElementOfSeq
<1>3. PICK args \in [1 .. Arity(kind) -> MaybeNode] :
         /\ \A i, j \in DOMAIN args : args[i] = args[j] /\ i # j => args[i] = None
         /\ nodes' = AddChildren(Append(nodes, [kind |-> kind, children |-> <<>>,
                                                parent |-> None, args |-> args,
                                                field |-> None, items |-> <<>>]),
                                 new, Added(kind, args))
         /\ moved' = moved \cup {c \in ToSet(args) : c # None /\ nodes[c].parent # None}
  BY DEF Construct, Move
<1> HIDE DEF kind
<1>4. args \in Seq(MaybeNode) /\ ArgsRight(kind, args)
  <2>1. Arity(kind) \in Nat
    BY DEF Arity
  <2>2. args \in Seq(MaybeNode)
    BY <2>1, SeqDef
  <2>3. Len(args) = Arity(kind)
    BY <2>1, <2>2, LenProperties
  <2> QED
    BY <1>3, <2>2, <2>3 DEF ArgsRight
<1> DEFINE rec == [kind |-> kind, children |-> <<>>, parent |-> None, args |-> args,
                   field |-> None, items |-> <<>>]
           ns == Append(nodes, rec)
           cs == Added(kind, args)
<1>5. /\ AreNodes(ns, N) /\ ns[new] = rec /\ \A i \in Nodes : ns[i] = nodes[i]
  <2>1. rec \in NodeOver(N)
    <3>1. args \in Seq({None} \cup N)
      BY <1>1, <1>4, SeqDef DEF MaybeNode
    <3> QED
      BY <1>2, <3>1 DEF NodeOver
  <2>2. \A i \in Nodes : nodes[i] \in NodeOver(N)
    <3> SUFFICES ASSUME NEW i \in Nodes PROVE nodes[i] \in NodeOver(N)
      OBVIOUS
    <3>1. nodes[i] \in NodeOver(Nodes)
      BY Zenon, <1>1 DEF AreNodes
    <3>2. Seq(Nodes) \subseteq Seq(N) /\ Seq({None} \cup Nodes) \subseteq Seq({None} \cup N)
      BY <1>1, SeqDef
    <3> QED
      BY Zenon, <1>1, <3>1, <3>2 DEF NodeOver
  <2>3. /\ DOMAIN ns = N /\ ns[new] = rec /\ \A i \in Nodes : ns[i] = nodes[i]
        /\ ns = [i \in N |-> ns[i]]
    <3> HIDE DEF rec
    <3> DEFINE T == Node \cup {rec}
    <3>1. nodes \in Seq(T) /\ rec \in T
      BY <1>1, SeqDef
    <3> HIDE DEF T
    <3>2. /\ Len(ns) = Len(nodes) + 1 /\ ns \in Seq(T) /\ ns[Len(nodes) + 1] = rec
          /\ \A i \in 1 .. Len(nodes) : ns[i] = nodes[i]
      BY <3>1, AppendProperties
    <3> HIDE DEF ns
    <3>3. DOMAIN ns = 1 .. Len(ns) /\ ns = [i \in DOMAIN ns |-> ns[i]]
      BY <3>2, LenProperties
    <3> QED
      BY <1>1, <3>2, <3>3
  <2> HIDE DEF ns, rec
  <2> QED
    BY Zenon, <1>1, <2>1, <2>2, <2>3 DEF AreNodes
<1>6. /\ cs \in Seq({None} \cup (N \ {new})) /\ Distinct(cs)
      /\ \A x : (\E j \in 1 .. Len(cs) : cs[j] = x) <=> x \in ToSet(args)
  <2>1. MaybeNode = {None} \cup (N \ {new})
    BY <1>1 DEF MaybeNode
  <2> HIDE DEF N, new
  <2> QED
    BY <1>4, <2>1, AddedIs
<1>7. nodes' = AddChildren(ns, new, cs) /\ ns[new].children = <<>>
  BY <1>3, <1>5
<1> HIDE DEF ns, cs, N
<1>8. AddedUpTo(nodes', ns, N, new, cs, Len(cs))
  <2> HIDE DEF new
  <2> QED
    BY <1>1, <1>5, <1>6, <1>7, AddChildrenIs
<1>9. /\ AreNodes(nodes', N) /\ SameFields(nodes', ns, N)
      /\ \A i \in N : nodes'[i].parent = IF i \in ToSet(args) THEN new ELSE ns[i].parent
      /\ \A i \in N : i # new => nodes'[i].children = ns[i].children
      /\ \A x \in N : /\ x \in ToSet(nodes'[new].children) <=> x \in ToSet(args)
                      /\ Occurs(nodes'[new].children, x) <= 1
  <2> HIDE DEF new
  <2> QED
    BY <1>6, <1>8 DEF AddedUpTo
<1>10. new \notin ToSet(args)
  <2>1. ToSet(args) \subseteq MaybeNode
    BY <1>4, MembersAre
  <2> QED
    BY <1>1, <2>1 DEF MaybeNode
<1>11. offer' = offer
  BY DEF Construct
<1>12. \A i \in Nodes : /\ nodes'[i].kind = nodes[i].kind /\ nodes'[i].args = nodes[i].args
                        /\ nodes'[i].field = nodes[i].field /\ nodes'[i].items = nodes[i].items
                        /\ nodes'[i].children = nodes[i].children
                        /\ nodes'[i].parent = IF i \in ToSet(args) THEN new ELSE nodes[i].parent
  <2> HIDE DEF new
  <2> QED
    BY <1>1, <1>5, <1>9 DEF SameFields
<1>13. /\ nodes'[new].kind = kind /\ nodes'[new].args = args /\ nodes'[new].field = None
       /\ nodes'[new].items = <<>> /\ nodes'[new].parent = None
  <2> HIDE DEF new
  <2> QED
    BY <1>1, <1>5, <1>9, <1>10 DEF SameFields
<1>14. Constructed(kind, args, new)
  <2> HIDE DEF new
  <2> QED
    BY <1>2, <1>3, <1>4, <1>9, <1>11, <1>12, <1>13 DEF Constructed, N
<1> QED
  BY <1>14

LEMMA ConstructKeeps ==
    ASSUME TreeInv, Construct
    PROVE  TreeInv'
<1> DEFINE new == Len(nodes) + 1
<1>1. PICK kind, args : Constructed(kind, args, new)
  BY ConstructIs
<1>2. /\ AreNodes(nodes, Nodes) /\ None \notin Nodes /\ TreeTypeOK
      /\ Len(nodes) \in Nat /\ Nodes = 1 .. Len(nodes) /\ new \in Nat
      /\ new \notin Nodes /\ 1 .. new = Nodes \cup {new} /\ new # None
      /\ \A n \in Nodes :
            /\ nodes[n].children \in Seq(Nodes) /\ nodes[n].items \in Seq(Nodes)
            /\ nodes[n].args \in Seq(MaybeNode) /\ nodes[n].field \in MaybeNode
            /\ nodes[n].parent \in MaybeNode
  <2>1. TreeTypeOK
    BY DEF TreeInv
  <2> QED
    BY <2>1, NodesAre DEF None
<1> HIDE DEF new
<1>3. /\ nodes' \in Seq(NodeOver(1 .. new)) /\ DOMAIN nodes' = 1 .. new
      /\ Nodes' = Nodes \cup {new}
  <2>1. AreNodes(nodes', 1 .. new)
    BY <1>1 DEF Constructed
  <2> QED
    BY <1>2, <2>1, AreNodesTyped DEF Nodes
<1>4. /\ args \in Seq(MaybeNode) /\ ToSet(args) \subseteq MaybeNode /\ new \notin ToSet(args)
  <2>1. args \in Seq(MaybeNode)
    BY <1>1 DEF Constructed
  <2> QED
    BY <1>2, <2>1, MembersAre DEF MaybeNode
<1>5. TreeTypeOK'
  <2>1. Node' = NodeOver(1 .. new)
    BY <1>2, <1>3 DEF Node, NodeOver, MaybeNode
  <2>2. moved' \subseteq Nodes'
    BY <1>1, <1>2, <1>3, <1>4 DEF Constructed, TreeTypeOK, MaybeNode
  <2> QED
    BY <1>1, <1>2, <1>3, <2>1, <2>2 DEF TreeTypeOK, Constructed
<1>6. \A n \in Nodes : ToSet(nodes[n].children) \subseteq Nodes
  BY <1>2, MembersAre
<1>7. /\ nodes'[new].children \in Seq(Nodes \cup {new})
      /\ ToSet(nodes'[new].children) \subseteq Nodes \cup {new}
  <2>1. nodes'[new].children \in Seq(Nodes \cup {new})
    <3>1. nodes'[new] \in NodeOver(1 .. new)
      BY Zenon, <1>1, <1>2 DEF Constructed, AreNodes
    <3> QED
      BY Zenon, <1>2, <3>1 DEF NodeOver
  <2> QED
    BY <2>1, MembersAre
<1>8. ParentsAgree'
  <2> SUFFICES ASSUME NEW n \in Nodes \cup {new}, NEW c \in Nodes \cup {new}
               PROVE  /\ nodes'[c].parent = n => c \in ToSet(nodes'[n].children)
                      /\ c \in ToSet(nodes'[n].children) /\ c \notin moved'
                            => nodes'[c].parent = n
    BY <1>3 DEF ParentsAgree, IsChild
  <2>1. CASE n = new
    <3>1. \A x \in Nodes \cup {new} : x \in ToSet(nodes'[new].children) <=> x \in ToSet(args)
      BY <1>1, <1>2 DEF Constructed
    <3>2. c \in ToSet(args) => nodes'[c].parent = new
      BY <1>1, <1>4 DEF Constructed
    <3>3. c \notin ToSet(args) => nodes'[c].parent # new
      <4>1. CASE c = new
        BY <1>1, <1>2, <4>1 DEF Constructed
      <4>2. CASE c \in Nodes
        <5>1. nodes[c].parent # new
          BY <1>2, <4>2 DEF MaybeNode
        <5> QED
          BY <1>1, <4>2, <5>1 DEF Constructed
      <4> QED
        BY <4>1, <4>2
    <3> QED
      BY <2>1, <3>1, <3>2, <3>3
  <2>2. CASE n \in Nodes /\ c = new
    <3>1. nodes'[new].parent = None /\ nodes'[n].children = nodes[n].children
      BY <1>1, <2>2 DEF Constructed
    <3> QED
      BY <1>2, <1>6, <2>2, <3>1
  <2>3. CASE n \in Nodes /\ c \in Nodes
    <3>1. /\ nodes'[n].children = nodes[n].children
          /\ nodes'[c].parent = IF c \in ToSet(args) THEN new ELSE nodes[c].parent
          /\ c \notin moved' => c \notin moved /\ (c \in ToSet(args) => nodes[c].parent = None)
      BY <1>1, <1>2, <2>3 DEF Constructed
    <3>2. /\ nodes[c].parent = n => c \in ToSet(nodes[n].children)
          /\ c \in ToSet(nodes[n].children) /\ c \notin moved => nodes[c].parent = n
      BY <2>3 DEF TreeInv, ParentsAgree, IsChild
    <3> QED
      BY <1>2, <2>3, <3>1, <3>2
  <2> QED
    BY <2>1, <2>2, <2>3
<1>9. \A n \in Nodes : Occurs(nodes[n].children, new) = 0
  <2> TAKE n \in Nodes
  <2> QED
    BY <1>2, <1>6, OccursNever
<1>10. UnmovedOnce'
  <2> SUFFICES ASSUME NEW n \in Nodes \cup {new}, NEW c \in Nodes \cup {new}, c \notin moved'
               PROVE  Occurs(nodes'[n].children, c) <= 1
    BY <1>3 DEF UnmovedOnce
  <2>1. CASE n = new
    BY <1>1, <1>2, <2>1 DEF Constructed
  <2>2. CASE n \in Nodes
    <3>1. nodes'[n].children = nodes[n].children /\ c \notin moved
      BY <1>1, <2>2 DEF Constructed
    <3> QED
      BY <1>9, <2>2, <3>1 DEF TreeInv, UnmovedOnce
  <2> QED
    BY <2>1, <2>2
<1>11. FieldsCounted'
  <2> SUFFICES ASSUME NEW n \in Nodes \cup {new}
               PROVE  /\ ArgsRight(nodes'[n].kind, nodes'[n].args)
                      /\ nodes'[n].kind \notin WithField \cup {"matchCase"}
                            => nodes'[n].field = None
                      /\ \A x \in Nodes \cup {new} :
                            UsesRight(nodes'[n].kind, nodes'[n].children, nodes'[n].args,
                                      nodes'[n].field, nodes'[n].items, x)
    BY <1>3 DEF FieldsCounted
  <2>1. CASE n \in Nodes
    <3>1. /\ nodes'[n].kind = nodes[n].kind /\ nodes'[n].args = nodes[n].args
          /\ nodes'[n].field = nodes[n].field /\ nodes'[n].items = nodes[n].items
          /\ nodes'[n].children = nodes[n].children
      BY <1>1, <2>1 DEF Constructed
    <3>2. Uses(nodes[n].args, nodes[n].field, nodes[n].items, new) = 0
      <4>1. Occurs(nodes[n].args, new) = 0
        <5>1. nodes[n].args \in Seq(MaybeNode) /\ new \notin MaybeNode
          BY <1>2, <2>1 DEF MaybeNode
        <5>2. new \notin ToSet(nodes[n].args)
          BY <5>1, MembersAre
        <5> QED
          BY <5>1, <5>2, OccursNever
      <4>2. Occurs(nodes[n].items, new) = 0
        <5>1. nodes[n].items \in Seq(Nodes)
          BY <1>2, <2>1
        <5>2. new \notin ToSet(nodes[n].items)
          BY <1>2, <5>1, MembersAre
        <5> QED
          BY <5>1, <5>2, OccursNever
      <4>3. If(nodes[n].field = new) = 0
        BY <1>2, <2>1 DEF If, MaybeNode
      <4> QED
        BY <4>1, <4>2, <4>3 DEF Uses
    <3>3. UsesRight(nodes[n].kind, nodes[n].children, nodes[n].args,
                    nodes[n].field, nodes[n].items, new)
      BY <1>9, <2>1, <3>2 DEF UsesRight
    <3> QED
      BY <2>1, <3>1, <3>3 DEF TreeInv, FieldsCounted
  <2>2. CASE n = new
    <3>1. /\ nodes'[n].kind = kind /\ nodes'[n].args = args /\ ArgsRight(kind, args)
          /\ nodes'[n].field = None /\ nodes'[n].items = <<>>
      BY <1>1, <2>2 DEF Constructed
    <3>2. ASSUME NEW x \in Nodes \cup {new}
          PROVE  Occurs(nodes'[new].children, x) = Uses(args, None, <<>>, x)
      <4>1. Uses(args, None, <<>>, x) = Occurs(args, x)
        <5>1. Occurs(<<>>, x) = 0 /\ If(None = x) = 0 /\ Occurs(args, x) \in Nat
          BY <1>2, <1>4, PlacesFinite, OccursEmpty DEF If
        <5> QED
          BY <5>1 DEF Uses
      <4>2. Occurs(args, x) <= 1
        <5>1. \A i, j \in DOMAIN args : args[i] = x /\ args[j] = x => i = j
          BY <1>2, <3>1 DEF ArgsRight
        <5> QED
          BY <1>4, <5>1, OnePlaceOccursOnce
      <4>3. /\ x \in ToSet(nodes'[new].children) <=> x \in ToSet(args)
            /\ Occurs(nodes'[new].children, x) <= 1
        BY <1>1, <1>2 DEF Constructed
      <4>4. /\ Occurs(args, x) \in Nat /\ Occurs(nodes'[new].children, x) \in Nat
            /\ Occurs(args, x) = 0 <=> x \notin ToSet(args)
            /\ Occurs(nodes'[new].children, x) = 0 <=> x \notin ToSet(nodes'[new].children)
        BY <1>4, <1>7, PlacesFinite, OccursNever
      <4> QED
        BY <4>1, <4>2, <4>3, <4>4
    <3>3. \A x \in Nodes \cup {new} :
             UsesRight(kind, nodes'[new].children, args, None, <<>>, x)
      BY <3>2 DEF UsesRight
    <3> QED
      BY <2>2, <3>1, <3>3
  <2> QED
    BY <2>1, <2>2
<1>12. Acyclic(Children)'
  <2>1. /\ IsGraph(Children) /\ DOMAIN Children = Nodes /\ Acyclic(Children)
        /\ \A n \in Nodes : Children[n] = ToSet(nodes[n].children)
    BY <1>2, ChildrenAreGraph DEF TreeInv
  <2> DEFINE F == [n \in Nodes \cup {new} |-> ToSet(nodes'[n].children)]
             C == ToSet(args) \ {None}
  <2>2. Children' = F
    BY <1>3 DEF Children
  <2>3. \A n \in Nodes : nodes'[n].children = nodes[n].children
    BY <1>1 DEF Constructed
  <2>4. IsGraph(F)
    BY <1>6, <1>7, <2>3 DEF IsGraph
  <2>5. C \subseteq Nodes
    BY <1>4 DEF MaybeNode
  <2>6. \A c \in C : new \notin Reach(Children, c)
    BY <1>2, <2>1, <2>5, ReachIsClosed
  <2>7. \A y \in F[new] : y \in C
    BY ZenonT(60), <1>1, <1>2, <1>7, <2>5 DEF Constructed
  <2>8. Extends(F, Children, new, C)
    BY <2>1, <2>3, <2>5, <2>7 DEF Extends
  <2> HIDE DEF F, C
  <2>9. Acyclic(F)
    BY <2>1, <2>4, <2>6, <2>8, ExtendedStaysAcyclic
  <2> QED
    BY <2>2, <2>9
<1> QED
  BY <1>5, <1>8, <1>10, <1>11, <1>12 DEF TreeInv


-----------------------------------------------------------------------------
(* The specification keeps the invariant of the tree.                      *)

LEMMA TreeBegins == TreeInit => TreeInv
<1> SUFFICES ASSUME TreeInit
             PROVE  TreeInv
  OBVIOUS
<1>1. nodes = <<>> /\ moved = {} /\ offer \in Offers /\ Nodes = {}
  BY DEF TreeInit, Nodes
<1>2. nodes \in Seq(Node)
  BY <1>1
<1>3. Acyclic(Children)
  BY <1>1 DEF Acyclic, Children
<1> QED
  BY <1>1, <1>2, <1>3 DEF TreeInv, TreeTypeOK, ParentsAgree, UnmovedOnce, FieldsCounted

LEMMA TreeKeeps ==
    ASSUME TreeInv, TreeNext
    PROVE  TreeInv'
<1>1. CASE Construct
  BY <1>1, ConstructKeeps
<1>2. ASSUME NEW n \in Nodes, NEW c \in Nodes, AddItem(n, c) \/ SetBinding(n, c) \/ RemoveItem(n, c)
      PROVE  TreeInv'
  BY <1>2, AddItemKeeps, SetBindingKeeps, RemoveItemKeeps
<1>3. ASSUME NEW n \in Nodes, NEW c \in MaybeNode, SetField(n, c)
      PROVE  TreeInv'
  BY <1>3, SetFieldKeeps
<1> QED
  BY <1>1, <1>2, <1>3 DEF TreeNext

LEMMA TreeLeft ==
    ASSUME TreeInv, UNCHANGED treeVars
    PROVE  TreeInv'
<1>1. nodes' = nodes /\ moved' = moved /\ offer' = offer
  BY DEF treeVars
<1>2. TreeTypeOK'
  BY <1>1 DEF TreeInv, TreeTypeOK, Node, Nodes, MaybeNode
<1>3. ParentsAgree' /\ UnmovedOnce'
  BY <1>1 DEF TreeInv, ParentsAgree, UnmovedOnce, Nodes, IsChild
<1>4. FieldsCounted'
  BY <1>1 DEF TreeInv, FieldsCounted, Nodes
<1>5. Children' = Children
  BY <1>1 DEF Children, Nodes
<1> QED
  BY <1>2, <1>3, <1>4, <1>5 DEF TreeInv

\* A step of the printer's specification is one of the tree, or leaves the tree.
LEMMA TreeOrNot == [Next]_vars => (job = "idle" /\ TreeNext) \/ UNCHANGED treeVars
BY DEF Next, vars, VisitorNext, BeginPrint, SkipNode, CutNode, PrintNode, PrintText, LeavePrinted,
       EndPrint, ForgetOutput, Printing, treeVars

LEMMA SpecTreeInv == Spec => []TreeInv
<1>1. Init => TreeInv
  BY TreeBegins DEF Init
<1>2. TreeInv /\ [Next]_vars => TreeInv'
  BY TreeOrNot, TreeKeeps, TreeLeft
<1> QED
  BY <1>1, <1>2, PTL DEF Spec

LEMMA TreeInvAgrees == TreeInv => TreeAgrees
<1> SUFFICES ASSUME TreeInv
             PROVE  ChildrenAreFields
  BY DEF TreeAgrees, TreeInv
<1>1. TreeTypeOK
  BY DEF TreeInv
<1>2. ASSUME NEW n \in Nodes, NEW x \in Nodes
      PROVE  /\ x \in Named(n) => x \in ToSet(nodes[n].children)
             /\ nodes[n].kind # "matchCase" /\ x \in ToSet(nodes[n].children) => x \in Named(n)
  <2>1. /\ nodes[n].children \in Seq(Nodes) /\ nodes[n].items \in Seq(Nodes)
        /\ nodes[n].args \in Seq(MaybeNode) /\ None \notin Nodes
    BY <1>1, NodesAre
  <2>2. /\ Occurs(nodes[n].children, x) \in Nat /\ Occurs(nodes[n].args, x) \in Nat
        /\ Occurs(nodes[n].items, x) \in Nat
        /\ Occurs(nodes[n].children, x) = 0 <=> x \notin ToSet(nodes[n].children)
        /\ Occurs(nodes[n].args, x) = 0 <=> x \notin ToSet(nodes[n].args)
        /\ Occurs(nodes[n].items, x) = 0 <=> x \notin ToSet(nodes[n].items)
    BY <2>1, PlacesFinite, OccursNever
  <2>3. UsesRight(nodes[n].kind, nodes[n].children, nodes[n].args, nodes[n].field,
                  nodes[n].items, x)
    BY DEF TreeInv, FieldsCounted
  <2>4. x \in Named(n) <=> Uses(nodes[n].args, nodes[n].field, nodes[n].items, x) > 0
    <3>1. x \in Named(n) <=> \/ x \in ToSet(nodes[n].args) \/ x = nodes[n].field
                             \/ x \in ToSet(nodes[n].items)
      BY <2>1 DEF Named
    <3> QED
      BY <2>2, <3>1 DEF Uses, If
  <2> QED
    BY <2>2, <2>3, <2>4 DEF UsesRight
<1>3. ASSUME NEW n \in Nodes
      PROVE  Named(n) \subseteq Nodes /\ ToSet(nodes[n].children) \subseteq Nodes
  <2>1. /\ nodes[n].children \in Seq(Nodes) /\ nodes[n].items \in Seq(Nodes)
        /\ nodes[n].args \in Seq(MaybeNode) /\ nodes[n].field \in MaybeNode
    BY <1>1, NodesAre
  <2>2. /\ ToSet(nodes[n].children) \subseteq Nodes /\ ToSet(nodes[n].items) \subseteq Nodes
        /\ ToSet(nodes[n].args) \subseteq MaybeNode
    BY <2>1, MembersAre
  <2> QED
    BY <2>1, <2>2 DEF Named, MaybeNode
<1> QED
  BY <1>2, <1>3 DEF ChildrenAreFields

\* The three records of a child, in a field of its parent, among the children of
\* its parent and in its own parent pointer, agree in every state that the
\* constructors, setters, adders and removals of nodes reach: trees of any size,
\* of any kinds, and rewritten by moving nodes that have a parent.
THEOREM SpecTreeAgrees == Spec => []TreeAgrees
<1>1. TreeInv => TreeAgrees
  BY TreeInvAgrees
<1> QED
  BY <1>1, SpecTreeInv, PTL

-----------------------------------------------------------------------------
(* What is left to do in a node.                                           *)

\* The nodes that a list of steps visits
VisitsOf(todo) == {todo[k].node : k \in {l \in DOMAIN todo : todo[l].do = "visit"}}

\* The steps visit children of p, each once at most, and none of seen.
Pending(todo, p, seen) ==
    /\ todo \in Seq(Steps)
    /\ VisitsOf(todo) \subseteq ToSet(nodes[p].children) \ seen
    /\ \A k, l \in DOMAIN todo :
          todo[k].do = "visit" /\ todo[l].do = "visit" /\ todo[k].node = todo[l].node => k = l

LEMMA StepOf ==
    ASSUME NEW n \in Nodes
    PROVE  Visit(n) \in Steps /\ Text(n) \in Steps /\ [do |-> "close", node |-> None] \in Steps
BY DEF Visit, Text, Steps

LEMMA NothingPending ==
    \A p, seen : Pending(<<>>, p, seen) /\ VisitsOf(<<>>) = {}
BY DEF Pending, VisitsOf

LEMMA PendingTail ==
    ASSUME NEW p, NEW seen, NEW todo, Pending(todo, p, seen), todo # <<>>
    PROVE  Pending(Tail(todo), p, seen) /\ VisitsOf(Tail(todo)) \subseteq VisitsOf(todo)
           /\ \A n : Head(todo) = Visit(n) =>
                  n \in ToSet(nodes[p].children) \ seen /\ n \notin VisitsOf(Tail(todo))
<1>1. /\ todo \in Seq(Steps) /\ DOMAIN todo = 1 .. Len(todo) /\ Len(todo) \in Nat
      /\ Len(todo) >= 1
  BY LenProperties, EmptySeq DEF Pending
<1>2. /\ Tail(todo) \in Seq(Steps) /\ DOMAIN Tail(todo) = 1 .. Len(todo) - 1
      /\ \A k \in 1 .. Len(todo) - 1 : Tail(todo)[k] = todo[k + 1]
      /\ Head(todo) = todo[1]
  BY <1>1, HeadTailProperties, LenProperties
<1>3. \A k \in DOMAIN Tail(todo) : k + 1 \in DOMAIN todo /\ Tail(todo)[k] = todo[k + 1] /\ k + 1 # 1
  BY <1>1, <1>2
<1>4. VisitsOf(Tail(todo)) \subseteq VisitsOf(todo)
  BY <1>3 DEF VisitsOf
<1>5. ASSUME NEW k \in DOMAIN Tail(todo), NEW l \in DOMAIN Tail(todo),
             Tail(todo)[k].do = "visit", Tail(todo)[l].do = "visit",
             Tail(todo)[k].node = Tail(todo)[l].node
      PROVE  k = l
  <2>1. k + 1 = l + 1
    BY <1>3, <1>5 DEF Pending
  <2> QED
    BY <1>2, <2>1
<1>6. ASSUME NEW n, Head(todo) = Visit(n)
      PROVE  n \in ToSet(nodes[p].children) \ seen /\ n \notin VisitsOf(Tail(todo))
  <2>1. 1 \in DOMAIN todo /\ todo[1].do = "visit" /\ todo[1].node = n
    BY <1>1, <1>2, <1>6 DEF Visit
  <2>2. n \in VisitsOf(todo)
    BY <2>1 DEF VisitsOf
  <2>3. n \notin VisitsOf(Tail(todo))
    <3> SUFFICES ASSUME NEW k \in DOMAIN Tail(todo), Tail(todo)[k].do = "visit",
                        Tail(todo)[k].node = n
                 PROVE  FALSE
      BY DEF VisitsOf
    <3>1. k + 1 = 1
      BY <1>3, <2>1 DEF Pending
    <3> QED
      BY <1>3, <3>1
  <2> QED
    BY <2>2, <2>3 DEF Pending
<1> QED
  BY <1>2, <1>4, <1>5, <1>6 DEF Pending

\* What was not to be visited may be entered meanwhile.
LEMMA StillPending ==
    ASSUME NEW p, NEW seen, NEW todo, Pending(todo, p, seen), NEW n, n \notin VisitsOf(todo)
    PROVE  Pending(todo, p, seen \cup {n})
BY DEF Pending

LEMMA PendingBoth ==
    ASSUME NEW p, NEW seen, NEW a, NEW b, Pending(a, p, seen), Pending(b, p, seen),
           VisitsOf(a) \cap VisitsOf(b) = {}
    PROVE  Pending(a \o b, p, seen) /\ VisitsOf(a \o b) = VisitsOf(a) \cup VisitsOf(b)
<1> DEFINE ab == a \o b
<1>1. /\ a \in Seq(Steps) /\ DOMAIN a = 1 .. Len(a) /\ Len(a) \in Nat
      /\ b \in Seq(Steps) /\ DOMAIN b = 1 .. Len(b) /\ Len(b) \in Nat
  BY LenProperties DEF Pending
<1>2. /\ ab \in Seq(Steps) /\ DOMAIN ab = 1 .. Len(a) + Len(b)
      /\ \A i \in 1 .. Len(a) + Len(b) : ab[i] = IF i <= Len(a) THEN a[i] ELSE b[i - Len(a)]
  BY <1>1, ConcatProperties, LenProperties
<1> HIDE DEF ab
<1>3. \A i \in DOMAIN a : i \in DOMAIN ab /\ ab[i] = a[i]
  BY <1>1, <1>2
<1>4. \A i \in DOMAIN b : i + Len(a) \in DOMAIN ab /\ ab[i + Len(a)] = b[i]
  <2> TAKE i \in DOMAIN b
  <2>1. i + Len(a) \in 1 .. Len(a) + Len(b) /\ ~(i + Len(a) <= Len(a)) /\ (i + Len(a)) - Len(a) = i
    BY <1>1
  <2> QED
    BY <1>2, <2>1
<1>5. \A i \in DOMAIN ab : \/ i \in DOMAIN a /\ ab[i] = a[i]
                           \/ i - Len(a) \in DOMAIN b /\ ab[i] = b[i - Len(a)]
  BY <1>1, <1>2
<1>6. VisitsOf(ab) = VisitsOf(a) \cup VisitsOf(b)
  <2>1. VisitsOf(a) \subseteq VisitsOf(ab)
    BY <1>3 DEF VisitsOf
  <2>2. VisitsOf(b) \subseteq VisitsOf(ab)
    BY <1>4 DEF VisitsOf
  <2>3. VisitsOf(ab) \subseteq VisitsOf(a) \cup VisitsOf(b)
    BY <1>5 DEF VisitsOf
  <2> QED
    BY <2>1, <2>2, <2>3
<1>7. ASSUME NEW k \in DOMAIN ab, NEW l \in DOMAIN ab,
             ab[k].do = "visit", ab[l].do = "visit", ab[k].node = ab[l].node
      PROVE  k = l
  <2>1. \A i \in DOMAIN a, j \in DOMAIN b :
           a[i].do = "visit" /\ b[j].do = "visit" => a[i].node # b[j].node
    BY DEF VisitsOf
  <2>2. CASE k \in DOMAIN a /\ l \in DOMAIN a
    BY <1>3, <1>7, <2>2 DEF Pending
  <2>3. CASE k - Len(a) \in DOMAIN b /\ ab[k] = b[k - Len(a)] /\ l - Len(a) \in DOMAIN b
             /\ ab[l] = b[l - Len(a)]
    <3>1. k - Len(a) = l - Len(a)
      BY <1>7, <2>3 DEF Pending
    <3> QED
      BY <1>1, <1>2, <3>1
  <2> QED
    BY <1>3, <1>5, <1>7, <2>1, <2>2, <2>3
<1> QED
  BY <1>2, <1>6, <1>7 DEF Pending, ab

-----------------------------------------------------------------------------
(* What the hooks leave to be visited.                                     *)

\* A child of a node of a tree is so at one place.
LEMMA OneParent ==
    ASSUME TreeInv, IsTree(root), root \in Nodes, NEW n \in Below(root)
    PROVE  /\ n \in Nodes /\ nodes[n].children \in Seq(Nodes)
           /\ \A c \in ToSet(nodes[n].children) :
                 /\ c \in Nodes /\ c \in Below(root) /\ c # n /\ c # root
                 /\ Occurs(nodes[n].children, c) <= 1
                 /\ \A m \in Below(root) : c \in ToSet(nodes[m].children) => m = n
<1>1. /\ TreeTypeOK /\ Acyclic(Children) /\ IsGraph(Children) /\ DOMAIN Children = Nodes
      /\ \A m \in Nodes : Children[m] = ToSet(nodes[m].children) /\ Below(m) = Reach(Children, m)
  BY ChildrenAreGraph DEF TreeInv
<1>2. \A m \in Nodes : Reach(Children, m) \subseteq Nodes /\ ClosedIn(Children, Reach(Children, m))
                       /\ m \in Reach(Children, m)
  BY <1>1, ReachIsClosed
<1>3. n \in Nodes /\ nodes[n].children \in Seq(Nodes)
  BY <1>1, <1>2, NodesAre
<1>4. ASSUME NEW c \in ToSet(nodes[n].children)
      PROVE  /\ c \in Nodes /\ c \in Below(root) /\ c # n /\ c # root
             /\ Occurs(nodes[n].children, c) <= 1
             /\ \A m \in Below(root) : c \in ToSet(nodes[m].children) => m = n
  <2>1. c \in Children[n] /\ c \in Nodes /\ c \in Below(root)
    BY <1>1, <1>2, <1>3 DEF IsGraph, ClosedIn
  <2>2. n \notin Reach(Children, c)
    BY <1>1, <1>3, <2>1 DEF Acyclic
  <2>3. c # n /\ c # root
    BY <1>1, <1>2, <2>1, <2>2
  <2>4. \A m \in Below(root) : \A i \in DOMAIN nodes[n].children, j \in DOMAIN nodes[m].children :
           nodes[n].children[i] = nodes[m].children[j] => n = m /\ i = j
    BY DEF IsTree
  <2>5. Occurs(nodes[n].children, c) <= 1
    BY <1>3, <2>4, OnePlaceOccursOnce
  <2>6. \A m \in Below(root) : c \in ToSet(nodes[m].children) => m = n
    BY <2>4 DEF ToSet
  <2> QED
    BY <2>1, <2>3, <2>5, <2>6
<1> QED
  BY <1>3, <1>4

LEMMA ChildrenDiffer ==
    ASSUME IsTree(root), NEW n \in Below(root)
    PROVE  \A i, j \in DOMAIN nodes[n].children :
              nodes[n].children[i] = nodes[n].children[j] => i = j
<1> TAKE i, j \in DOMAIN nodes[n].children
<1>1. \A m \in Below(root), l \in Below(root) :
         \A u \in DOMAIN nodes[m].children, v \in DOMAIN nodes[l].children :
            nodes[m].children[u] = nodes[l].children[v] => m = l /\ u = v
  BY DEF IsTree
<1> QED
  BY <1>1

LEMMA VisitsPending ==
    ASSUME NEW n \in Nodes, NEW cs \in Seq(Nodes), ToSet(cs) \subseteq ToSet(nodes[n].children),
           \A i, j \in DOMAIN cs : cs[i] = cs[j] => i = j
    PROVE  Pending(Visits(cs), n, {})
<1>1. DOMAIN cs = 1 .. Len(cs) /\ Len(cs) \in Nat
  BY LenProperties
<1>2. DOMAIN Visits(cs) = DOMAIN cs /\ \A i \in DOMAIN cs : Visits(cs)[i] = Visit(cs[i])
  BY DEF Visits
<1>3. \A i \in DOMAIN cs : cs[i] \in Nodes /\ Visit(cs[i]) \in Steps
  BY <1>1, ElementOfSeq, StepOf
<1>4. Visits(cs) \in Seq(Steps)
  <2>1. Visits(cs) \in [1 .. Len(cs) -> Steps]
    BY <1>1, <1>3 DEF Visits
  <2> QED
    BY <1>1, <2>1, SeqDef
<1>5. VisitsOf(Visits(cs)) \subseteq ToSet(cs)
  BY <1>2 DEF VisitsOf, Visit, ToSet
<1>6. \A i \in DOMAIN cs : Visits(cs)[i].node = cs[i]
  BY <1>2 DEF Visit
<1> QED
  BY <1>2, <1>4, <1>5, <1>6 DEF Pending

LEMMA VisitPartPending ==
    ASSUME NEW n \in Nodes, NEW c, c # None => c \in Nodes /\ c \in ToSet(nodes[n].children)
    PROVE  Pending(VisitPart(c), n, {}) /\ VisitsOf(VisitPart(c)) \subseteq {c} \ {None}
<1>1. CASE c = None
  BY <1>1, NothingPending DEF VisitPart
<1>2. CASE c # None
  <2> DEFINE s == <<Visit(c)>>
  <2>1. VisitPart(c) = s
    BY <1>2 DEF VisitPart
  <2>2. Visit(c) \in Steps
    BY <1>2, StepOf
  <2>3. s \in Seq(Steps) /\ DOMAIN s = {1} /\ s[1] = Visit(c)
    BY <2>2
  <2> HIDE DEF s
  <2>4. s[1].node = c
    BY <2>3 DEF Visit
  <2>5. VisitsOf(s) \subseteq {c}
    BY <2>3, <2>4 DEF VisitsOf
  <2> QED
    BY <1>2, <2>1, <2>3, <2>5 DEF Pending
<1> QED
  BY <1>1, <1>2

LEMMA ToVisitPending ==
    ASSUME TreeInv, IsTree(root), root \in Nodes, NEW n \in Below(root)
    PROVE  Pending(ToVisit(n), n, {})
<1>1. /\ n \in Nodes /\ nodes[n].children \in Seq(Nodes) /\ None \notin Nodes
      /\ nodes[n].args \in Seq(MaybeNode) /\ nodes[n].items \in Seq(Nodes)
      /\ \A c \in ToSet(nodes[n].children) :
            c \in Nodes /\ Occurs(nodes[n].children, c) <= 1
  BY OneParent, NodesAre DEF TreeInv
<1>2. /\ ArgsRight(nodes[n].kind, nodes[n].args)
      /\ \A x \in Nodes : UsesRight(nodes[n].kind, nodes[n].children, nodes[n].args,
                                    nodes[n].field, nodes[n].items, x)
  BY <1>1 DEF TreeInv, FieldsCounted
<1>3. CASE Descends(n)
  <2>1. \A i, j \in DOMAIN nodes[n].children :
           nodes[n].children[i] = nodes[n].children[j] => i = j
    BY ChildrenDiffer
  <2> DEFINE cs == nodes[n].children
  <2>2. ToVisit(n) = Visits(cs)
    BY <1>3 DEF ToVisit, Descends
  <2>3. cs \in Seq(Nodes) /\ ToSet(cs) \subseteq ToSet(nodes[n].children)
    BY <1>1
  <2> HIDE DEF cs
  <2> QED
    BY <1>1, <2>1, <2>2, <2>3, VisitsPending DEF cs
<1>4. CASE Kind(n) = "stringExpr"
  <2> DEFINE items == nodes[n].items
             close == [do |-> "close", node |-> None]
             a == [i \in DOMAIN items |-> IF Kind(items[i]) = "string" THEN Text(items[i])
                                                                      ELSE Visit(items[i])]
             b == IF config.compact THEN <<close>> ELSE <<>>
  <2>1. ToVisit(n) = a \o b
    BY <1>4 DEF ToVisit, Descends, Parts
  <2>2. DOMAIN items = 1 .. Len(items) /\ Len(items) \in Nat
    BY <1>1, LenProperties
  <2>3. ASSUME NEW i \in DOMAIN items
        PROVE  items[i] \in Nodes /\ a[i] \in Steps /\ a[i].node = items[i]
    <3>1. items[i] \in Nodes
      BY <1>1, <2>2, ElementOfSeq
    <3>2. a[i] = Text(items[i]) \/ a[i] = Visit(items[i])
      OBVIOUS
    <3> HIDE DEF a
    <3> QED
      BY <3>1, <3>2, StepOf DEF Text, Visit
  <2>4. a \in Seq(Steps) /\ DOMAIN a = DOMAIN items
    <3>1. DOMAIN a = DOMAIN items /\ a = [i \in DOMAIN items |-> a[i]]
      OBVIOUS
    <3> HIDE DEF a
    <3>2. a \in [1 .. Len(items) -> Steps]
      BY <2>2, <2>3, <3>1
    <3> QED
      BY <2>2, <3>1, <3>2, SeqDef
  <2>5. ASSUME NEW x \in ToSet(items)
        PROVE  x \in ToSet(nodes[n].children) /\ Occurs(items, x) <= 1
    <3>1. x \in Nodes
      BY <1>1, MembersAre
    <3>2. /\ Occurs(items, x) \in Nat /\ Occurs(items, x) # 0
          /\ Occurs(nodes[n].args, x) \in Nat /\ Occurs(nodes[n].children, x) \in Nat
      BY <1>1, PlacesFinite, OccursNever
    <3>3. Occurs(nodes[n].children, x) = Uses(nodes[n].args, nodes[n].field, items, x)
      BY <1>2, <1>4, <3>1 DEF UsesRight, Kind
    <3>4. Occurs(nodes[n].children, x) >= Occurs(items, x)
      BY <3>2, <3>3 DEF Uses, If
    <3>5. x \in ToSet(nodes[n].children)
      BY <1>1, <3>2, <3>4, OccursNever
    <3> QED
      BY <1>1, <3>2, <3>4, <3>5
  <2>6. Pending(a, n, {})
    <3>1. VisitsOf(a) \subseteq ToSet(items)
      <4> HIDE DEF a, items
      <4> QED
        BY <2>3, <2>4 DEF VisitsOf, ToSet
    <3>2. \A i, j \in DOMAIN a : a[i].node = a[j].node => i = j
      <4> SUFFICES ASSUME NEW i \in DOMAIN items, NEW j \in DOMAIN items, items[i] = items[j]
                   PROVE  i = j
        <5> HIDE DEF a
        <5> QED
          BY <2>3, <2>4
      <4>1. Occurs(items, items[i]) <= 1
        BY <2>5 DEF ToSet
      <4> QED
        BY <1>1, <4>1, OccursOnce
    <3> HIDE DEF a
    <3> QED
      BY <2>4, <2>5, <3>1, <3>2 DEF Pending
  <2>7. Pending(b, n, {}) /\ VisitsOf(b) = {}
    <3>1. CASE config.compact
      <4> DEFINE s == <<close>>
      <4>1. b = s /\ s \in Seq(Steps) /\ DOMAIN s = {1} /\ s[1].do # "visit"
        BY <1>1, <3>1, StepOf
      <4> HIDE DEF s, b
      <4> QED
        BY <4>1 DEF Pending, VisitsOf
    <3>2. CASE ~config.compact
      BY <3>2, NothingPending
    <3> QED
      BY <3>1, <3>2
  <2> HIDE DEF a, b
  <2> QED
    BY <2>1, <2>6, <2>7, PendingBoth
<1>5. CASE Kind(n) = "forStmt"
  <2> DEFINE args == nodes[n].args
             a == VisitPart(args[1])
             b == VisitPart(args[3])
             c == VisitPart(args[2])
  <2>1. ToVisit(n) = a \o b \o c
    BY <1>5 DEF ToVisit, Descends, ForParts
  <2>2. Len(args) = 3 /\ DOMAIN args = 1 .. 3
    <3>1. Len(args) = 3
      BY <1>2, <1>5 DEF ArgsRight, Arity, Kind
    <3> QED
      BY <1>1, <3>1, LenProperties
  <2>3. ASSUME NEW i \in 1 .. 3
        PROVE  args[i] # None => args[i] \in Nodes /\ args[i] \in ToSet(nodes[n].children)
    <3> SUFFICES ASSUME args[i] # None
                 PROVE  args[i] \in Nodes /\ args[i] \in ToSet(nodes[n].children)
      OBVIOUS
    <3> DEFINE x == args[i]
    <3>1. x \in Nodes /\ x \in ToSet(args)
      <4>1. args[i] \in MaybeNode
        BY <1>1, <2>2, ElementOfSeq
      <4> QED
        BY <2>2, <4>1 DEF MaybeNode, ToSet
    <3> HIDE DEF x
    <3>2. /\ Occurs(args, x) \in Nat /\ Occurs(args, x) # 0
          /\ Occurs(nodes[n].items, x) \in Nat /\ Occurs(nodes[n].children, x) \in Nat
      BY <1>1, <3>1, PlacesFinite, OccursNever
    <3>3. Occurs(nodes[n].children, x) = Uses(args, nodes[n].field, nodes[n].items, x)
      BY <1>2, <1>5, <3>1 DEF UsesRight, Kind
    <3>4. Occurs(nodes[n].children, x) # 0
      BY <3>2, <3>3 DEF Uses, If
    <3>5. x \in ToSet(nodes[n].children)
      BY <1>1, <3>4, OccursNever
    <3> QED
      BY <3>1, <3>5 DEF x
  <2>4. \A i, j \in 1 .. 3 : args[i] = args[j] /\ i # j => args[i] = None
    BY <1>2, <2>2 DEF ArgsRight
  <2> HIDE DEF args
  <2>5. /\ Pending(a, n, {}) /\ VisitsOf(a) \subseteq {args[1]} \ {None}
        /\ Pending(b, n, {}) /\ VisitsOf(b) \subseteq {args[3]} \ {None}
        /\ Pending(c, n, {}) /\ VisitsOf(c) \subseteq {args[2]} \ {None}
    BY <1>1, <2>3, VisitPartPending
  <2> HIDE DEF a, b, c
  <2>6. VisitsOf(a) \cap VisitsOf(b) = {}
    BY <2>4, <2>5
  <2>7. (VisitsOf(a) \cup VisitsOf(b)) \cap VisitsOf(c) = {}
    BY <2>4, <2>5
  <2> DEFINE ab == a \o b
  <2>8. Pending(ab, n, {}) /\ VisitsOf(ab) \cap VisitsOf(c) = {}
    <3>1. Pending(a \o b, n, {}) /\ VisitsOf(a \o b) = VisitsOf(a) \cup VisitsOf(b)
      BY SMTT(30), <2>5, <2>6, PendingBoth
    <3> QED
      BY <2>7, <3>1
  <2>9. ToVisit(n) = ab \o c
    BY <2>1
  <2> HIDE DEF ab
  <2> QED
    BY <2>5, <2>8, <2>9, PendingBoth
<1>6. CASE ~Descends(n) /\ Kind(n) # "stringExpr" /\ Kind(n) # "forStmt"
  BY <1>6, NothingPending DEF ToVisit
<1> QED
  BY <1>3, <1>4, <1>5, <1>6

-----------------------------------------------------------------------------
(* The frames of a walk.                                                   *)

\* The first frame is the caller's, which visits the root; the others are of
\* nodes that have been entered, each of one, with children to visit that have
\* not been.  What has been entered is below the root, and its parent too.
Frames(st, seen) ==
    /\ st \in Seq(Frame) /\ Len(st) >= 1
    /\ st[1].node = None
    /\ st[1].todo # <<>> => st[1].todo = <<Visit(root)>> /\ Len(st) = 1 /\ seen = {}
    /\ \A i \in 2 .. Len(st) : st[i].node \in seen /\ Pending(st[i].todo, st[i].node, seen)
    /\ \A i, j \in 2 .. Len(st) : st[i].node = st[j].node => i = j
    /\ seen \subseteq Below(root)
    /\ \A c \in seen : c = root \/ \E p \in seen : c \in ToSet(nodes[p].children)

LEMMA FramesAre ==
    ASSUME NEW st \in Seq(Frame), Len(st) >= 1
    PROVE  /\ Len(st) \in Nat /\ DOMAIN st = 1 .. Len(st) /\ Last(st) = st[Len(st)]
           /\ \A i \in 1 .. Len(st) : st[i] \in Frame
BY LenProperties, ElementOfSeq DEF Last

LEMMA SequenceOfLength ==
    ASSUME NEW T, NEW k \in Nat, NEW s \in [1 .. k -> T]
    PROVE  s \in Seq(T) /\ Len(s) = k
<1>1. s \in Seq(T)
  BY SeqDef
<1> QED
  BY <1>1, LenProperties

\* The top frame has done its next step.
LEMMA AdvancedIs ==
    ASSUME stack \in Seq(Frame), Len(stack) >= 1, Last(stack).todo # <<>>
    PROVE  /\ Advanced \in Seq(Frame) /\ Len(Advanced) = Len(stack)
           /\ \A i \in 1 .. Len(stack) : /\ Advanced[i].node = stack[i].node
                                         /\ Advanced[i].indented = stack[i].indented
                                         /\ i # Len(stack) => Advanced[i] = stack[i]
           /\ Advanced[Len(stack)].todo = Tail(stack[Len(stack)].todo)
<1> DEFINE L == Len(stack)
           t == Tail(stack[L].todo)
<1>1. /\ L \in Nat /\ DOMAIN stack = 1 .. L /\ Last(stack) = stack[L] /\ L \in 1 .. L
      /\ \A i \in 1 .. L : stack[i] \in Frame
  BY FramesAre
<1>2. Advanced = [stack EXCEPT ![L].todo = t]
  BY DEF Advanced
<1>3. t \in Seq(Steps)
  <2>1. stack[L].todo \in Seq(Steps) /\ stack[L].todo # <<>>
    BY <1>1 DEF Frame
  <2> QED
    BY <2>1, HeadTailProperties
<1> DEFINE f == [stack[L] EXCEPT !.todo = t]
<1>4. f \in Frame /\ f.node = stack[L].node /\ f.todo = t /\ f.indented = stack[L].indented
  <2> HIDE DEF t, L
  <2> QED
    BY <1>1, <1>3 DEF Frame
<1>5. Advanced = [stack EXCEPT ![L] = f]
  BY <1>2
<1>6. stack \in [1 .. L -> Frame]
  BY LenProperties
<1> HIDE DEF f, t
<1>7. /\ Advanced \in [1 .. L -> Frame] /\ Advanced[L] = f
      /\ \A i \in 1 .. L : i # L => Advanced[i] = stack[i]
  <2> HIDE DEF L
  <2> QED
    BY <1>1, <1>4, <1>5, <1>6
<1>8. Advanced \in Seq(Frame) /\ Len(Advanced) = L
  <2> HIDE DEF L
  <2> QED
    BY <1>1, <1>7, SequenceOfLength
<1>9. \A i \in 1 .. L : /\ Advanced[i].node = stack[i].node
                         /\ Advanced[i].indented = stack[i].indented
  BY <1>4, <1>7
<1> QED
  BY Zenon, <1>4, <1>7, <1>8, <1>9 DEF t

LEMMA FramesAdvanced ==
    ASSUME NEW seen, Frames(stack, seen), Last(stack).todo # <<>>
    PROVE  /\ Frames(Advanced, seen) /\ Advanced[1].todo = <<>>
           /\ stack[Len(stack)] = Last(stack) /\ Len(Advanced) = Len(stack)
<1> DEFINE L == Len(stack)
<1>1. /\ Advanced \in Seq(Frame) /\ Len(Advanced) = L
      /\ \A i \in 1 .. L : /\ Advanced[i].node = stack[i].node
                           /\ i # L => Advanced[i] = stack[i]
      /\ Advanced[L].todo = Tail(stack[L].todo)
      /\ Last(stack) = stack[L] /\ L \in Nat /\ L >= 1
  BY FramesAre, AdvancedIs DEF Frames
<1>2. Advanced[1].todo = <<>>
  <2>1. CASE L = 1
    <3>1. stack[1].todo = <<Visit(root)>>
      BY <1>1, <2>1 DEF Frames
    <3> QED
      BY <1>1, <2>1, <3>1
  <2>2. CASE L # 1
    BY <1>1, <2>2 DEF Frames
  <2> QED
    BY <2>1, <2>2
<1>3. ASSUME NEW i \in 2 .. L
      PROVE  Advanced[i].node \in seen /\ Pending(Advanced[i].todo, Advanced[i].node, seen)
  <2>1. stack[i].node \in seen /\ Pending(stack[i].todo, stack[i].node, seen)
    BY DEF Frames
  <2>2. CASE i # L
    BY <1>1, <2>1, <2>2
  <2>3. CASE i = L
    <3>1. Pending(Tail(stack[i].todo), stack[i].node, seen)
      BY <1>1, <2>1, <2>3, PendingTail
    <3> QED
      BY <1>1, <2>1, <2>3, <3>1
  <2> QED
    BY <2>2, <2>3
<1>4. \A i, j \in 2 .. L : Advanced[i].node = Advanced[j].node => i = j
  BY <1>1 DEF Frames
<1> QED
  BY <1>1, <1>2, <1>3, <1>4 DEF Frames

LEMMA FramesLeft ==
    ASSUME NEW seen, Frames(stack, seen), Len(stack) > 1
    PROVE  Frames(Front(stack), seen) /\ Len(Front(stack)) = Len(stack) - 1
           /\ \A i \in 1 .. Len(stack) - 1 : Front(stack)[i] = stack[i]
<1> DEFINE L == Len(stack)
           st == Front(stack)
<1>1. L \in Nat /\ stack \in Seq(Frame) /\ \A i \in 1 .. L : stack[i] \in Frame
  BY FramesAre DEF Frames
<1>2. st = SubSeq(stack, 1, L - 1)
  BY DEF Front
<1>3. st \in Seq(Frame) /\ Len(st) = L - 1 /\ \A i \in 1 .. L - 1 : st[i] = stack[i]
  <2>1. 1 \in Int /\ L - 1 \in Int /\ L - 1 >= 1 - 1 /\ \A i \in 1 .. L - 1 : stack[i] \in Frame
    BY <1>1
  <2> HIDE DEF st
  <2> QED
    BY <1>1, <1>2, <2>1, PieceOf
<1> HIDE DEF st
<1>4. \A i \in 2 .. Len(st) : i \in 2 .. L /\ st[i] = stack[i]
  BY <1>1, <1>3
<1>5. st[1] = stack[1]
  BY <1>1, <1>3
<1>6. st[1].todo = <<>>
  BY <1>1, <1>5 DEF Frames
<1>7. \A i \in 2 .. Len(st) : st[i].node \in seen /\ Pending(st[i].todo, st[i].node, seen)
  BY <1>4 DEF Frames
<1>8. \A i, j \in 2 .. Len(st) : st[i].node = st[j].node => i = j
  BY <1>4 DEF Frames
<1>9. Frames(st, seen)
  BY <1>1, <1>3, <1>5, <1>6, <1>7, <1>8 DEF Frames
<1> QED
  BY <1>3, <1>9 DEF st

LEMMA FramesEntered ==
    ASSUME TreeInv, root \in Nodes, IsTree(root), NEW seen, Frames(stack, seen),
           NEW n \in Nodes, NextStep(Visit(n)), NEW f \in Frame, f.node = n,
           Pending(f.todo, n, {})
    PROVE  /\ n \notin seen /\ Frames(Append(Advanced, f), seen \cup {n})
           /\ Len(stack) = 1 => seen = {}
           /\ Len(stack) > 1 => n \in ToSet(nodes[Last(stack).node].children)
<1> DEFINE L == Len(stack)
           st == Append(Advanced, f)
           more == seen \cup {n}
<1>1. Last(stack).todo # <<>> /\ Head(Last(stack).todo) = Visit(n)
  BY DEF NextStep
<1>2. /\ Frames(Advanced, seen) /\ Advanced[1].todo = <<>> /\ stack[L] = Last(stack)
      /\ Len(Advanced) = L /\ Advanced \in Seq(Frame) /\ L \in Nat /\ L >= 1
      /\ \A i \in 1 .. L : Advanced[i].node = stack[i].node
      /\ Advanced[L].todo = Tail(stack[L].todo)
  BY <1>1, FramesAdvanced, AdvancedIs, FramesAre DEF Frames
<1> DEFINE Enterable ==
              /\ n \notin seen /\ n \in Below(root)
              /\ n = root \/ \E p \in seen : n \in ToSet(nodes[p].children)
              /\ \A i \in 2 .. L : n \notin VisitsOf(Advanced[i].todo)
              /\ L = 1 => seen = {}
              /\ L > 1 => n \in ToSet(nodes[Last(stack).node].children)
<1>3. ASSUME L = 1 PROVE Enterable
  <2>1. stack[1].todo = <<Visit(root)>> /\ seen = {}
    BY <1>1, <1>2, <1>3 DEF Frames
  <2>2. n = root
    <3>1. Head(<<Visit(root)>>) = Visit(root)
      OBVIOUS
    <3>2. Visit(n).node = n /\ Visit(root).node = root
      BY DEF Visit
    <3> QED
      BY <1>1, <1>2, <1>3, <2>1, <3>1, <3>2
  <2>3. root \in Below(root)
    BY ReachIsClosed, ChildrenAreGraph DEF TreeInv
  <2>4. Enterable
    BY <1>3, <2>1, <2>2, <2>3
  <2> QED
    BY <2>4
<1>4. ASSUME L > 1 PROVE Enterable
  <2> DEFINE p == stack[L].node
             rest == Tail(stack[L].todo)
  <2>1. p \in seen /\ Pending(stack[L].todo, p, seen) /\ p \in Below(root)
    <3>1. L \in 2 .. L
      BY <1>2, <1>4
    <3> QED
      BY <3>1 DEF Frames
  <2>2. n \in ToSet(nodes[p].children) \ seen /\ n \notin VisitsOf(rest)
    <3> DEFINE todo == stack[L].todo
    <3>1. todo # <<>> /\ Head(todo) = Visit(n) /\ Pending(todo, p, seen)
      BY <1>1, <1>2, <2>1
    <3>2. rest = Tail(todo)
      OBVIOUS
    <3> HIDE DEF todo, p, rest
    <3> QED
      BY <3>1, <3>2, PendingTail
  <2>3. n \in Below(root) /\ \A m \in Below(root) : n \in ToSet(nodes[m].children) => m = p
    BY <2>1, <2>2, OneParent
  <2>4. ASSUME NEW i \in 2 .. L
        PROVE  n \notin VisitsOf(Advanced[i].todo)
    <3>1. CASE i = L
      BY <1>2, <2>2, <3>1
    <3>2. CASE i # L
      <4>1. /\ stack[i].node \in seen /\ Pending(Advanced[i].todo, Advanced[i].node, seen)
            /\ Advanced[i].node = stack[i].node
        BY <1>2 DEF Frames
      <4>2. stack[i].node # p /\ stack[i].node \in Below(root)
        BY <1>2, <1>4, <3>2, <4>1 DEF Frames
      <4>3. n \notin ToSet(nodes[stack[i].node].children)
        BY <2>3, <4>2
      <4> QED
        BY <4>1, <4>3 DEF Pending
    <3> QED
      BY <3>1, <3>2
  <2>5. Enterable
    BY <1>2, <1>4, <2>1, <2>2, <2>3, <2>4
  <2> QED
    BY <2>5
<1>5. /\ n \notin seen /\ n \in Below(root)
      /\ n = root \/ \E p \in seen : n \in ToSet(nodes[p].children)
      /\ \A i \in 2 .. L : n \notin VisitsOf(Advanced[i].todo)
      /\ L = 1 => seen = {}
      /\ L > 1 => n \in ToSet(nodes[Last(stack).node].children)
  <2>1. L = 1 \/ L > 1
    BY <1>2
  <2>2. Enterable
    <3> HIDE DEF Enterable, L
    <3> QED
      BY <1>3, <1>4, <2>1
  <2> QED
    BY <2>2
<1>6. ASSUME NEW i \in 2 .. L
      PROVE  Pending(Advanced[i].todo, Advanced[i].node, more)
  <2>1. Pending(Advanced[i].todo, Advanced[i].node, seen)
    BY <1>2 DEF Frames
  <2> QED
    BY <1>5, <2>1, StillPending
<1>7. Pending(f.todo, n, more)
  <2>1. ASSUME NEW c \in ToSet(nodes[n].children)
        PROVE  c \notin more
    <3>1. c # n /\ c # root /\ \A m \in Below(root) : c \in ToSet(nodes[m].children) => m = n
      BY <1>5, OneParent
    <3>2. c \in seen => \E q \in seen : c \in ToSet(nodes[q].children) /\ q \in Below(root)
      BY <3>1 DEF Frames
    <3> QED
      BY <1>5, <3>1, <3>2
  <2> QED
    BY <2>1 DEF Pending
<1>8. /\ st \in Seq(Frame) /\ Len(st) = L + 1 /\ st[L + 1] = f
      /\ \A i \in 1 .. L : st[i] = Advanced[i]
  BY <1>2, AppendProperties
<1> HIDE DEF st
<1>9. \A i \in 2 .. Len(st) : st[i].node \in more /\ Pending(st[i].todo, st[i].node, more)
  <2> TAKE i \in 2 .. Len(st)
  <2>1. CASE i = L + 1
    BY <1>7, <1>8, <2>1
  <2>2. CASE i \in 2 .. L
    <3>1. st[i] = Advanced[i] /\ Advanced[i].node \in seen
      BY <1>2, <1>8, <2>2 DEF Frames
    <3> QED
      BY <1>6, <2>2, <3>1
  <2> QED
    BY <1>2, <1>8, <2>1, <2>2
<1>10. \A i, j \in 2 .. Len(st) : st[i].node = st[j].node => i = j
  <2>1. \A i \in 2 .. L : st[i].node = Advanced[i].node /\ Advanced[i].node # n
    <3> TAKE i \in 2 .. L
    <3>1. Advanced[i].node \in seen
      BY <1>2 DEF Frames
    <3> QED
      BY <1>2, <1>5, <1>8, <3>1
  <2>2. \A i, j \in 2 .. L : Advanced[i].node = Advanced[j].node => i = j
    BY <1>2 DEF Frames
  <2>3. \A i \in 2 .. Len(st) : i \in 2 .. L \/ i = L + 1
    BY <1>2, <1>8
  <2> QED
    BY <1>8, <2>1, <2>2, <2>3
<1>11. st[1].node = None /\ st[1].todo = <<>>
  BY <1>2, <1>8 DEF Frames
<1>12. more \subseteq Below(root)
       /\ \A c \in more : c = root \/ \E q \in more : c \in ToSet(nodes[q].children)
  BY <1>5 DEF Frames
<1>13. Frames(st, more)
  <2> HIDE DEF L, more
  <2> QED
    BY <1>2, <1>8, <1>9, <1>10, <1>11, <1>12 DEF Frames
<1> QED
  BY <1>5, <1>13 DEF st

-----------------------------------------------------------------------------
(* The invariant of the walk.                                              *)

LEMMA SeenMore ==
    ASSUME NEW T, NEW s \in Seq(T), NEW c \in T
    PROVE  Append(s, c) \in Seq(T) /\ ToSet(Append(s, c)) = ToSet(s) \cup {c}
<1>1. /\ Append(s, c) \in Seq(T) /\ DOMAIN s = 1 .. Len(s) /\ Len(s) \in Nat
      /\ DOMAIN Append(s, c) = 1 .. Len(s) + 1
      /\ \A i \in 1 .. Len(s) : Append(s, c)[i] = s[i]
      /\ Append(s, c)[Len(s) + 1] = c
  BY AppendProperties, LenProperties
<1>2. \A i \in 1 .. Len(s) + 1 : i \in 1 .. Len(s) \/ i = Len(s) + 1
  BY <1>1
<1>3. Len(s) + 1 \in 1 .. Len(s) + 1 /\ \A i \in 1 .. Len(s) : i \in 1 .. Len(s) + 1
  BY <1>1
<1> QED
  BY <1>1, <1>2, <1>3 DEF ToSet

\* While no call is in progress there is nothing to be kept; while one is, its
\* frames are as they should be.
WalkInv ==
    /\ VisitorTypeOK
    /\ job = "idle" => /\ stack = <<>> /\ entered = <<>> /\ ~done /\ root = None
                       /\ want = {} /\ result = <<>> /\ out = <<>>
    /\ done => stack = <<>>
    /\ job # "idle" /\ ~done =>
          root \in Nodes /\ IsTree(root) /\ Frames(stack, ToSet(entered))

PrintTypeOK ==
    /\ config \in Config
    /\ out \in Seq(Piece)
    /\ depth \in 0 .. DepthRange - 1
    /\ indent \in Nat

Inv == TreeInv /\ WalkInv /\ PrintTypeOK

LEMMA InvBegins == Init => Inv
<1> SUFFICES ASSUME Init
             PROVE  Inv
  OBVIOUS
<1>1. TreeInv
  BY TreeBegins DEF Init
<1>2. WalkInv
  <2>1. VisitorTypeOK
    <3>1. VisitorInit
      BY DEF Init
    <3>2. stack \in Seq(Frame) /\ entered \in Seq(Nodes) /\ result \in Seq(Nodes)
      BY <3>1, EmptySeq DEF VisitorInit
    <3>3. root \in MaybeNode /\ want \subseteq Nodes
      BY <3>1 DEF VisitorInit, MaybeNode
    <3> QED
      BY <3>1, <3>2, <3>3 DEF VisitorInit, VisitorTypeOK
  <2> QED
    BY <2>1 DEF Init, VisitorInit, WalkInv
<1>3. DepthRange \in Nat /\ DepthRange > 0
  <2>1. offer \in Offers /\ offer.kinds \in Seq(Kinds)
    BY OffersAssumption DEF Init, TreeInit
  <2>2. Len(offer.kinds) \in Nat /\ Len(offer.kinds) + 0 < DepthRange /\ DepthRange \in Nat
    BY <2>1, DepthAssumption, LenProperties
  <2> QED
    BY <2>2
<1>4. PrintTypeOK
  BY <1>3, DepthAssumption DEF Init, PrintTypeOK, Config
<1> QED
  BY <1>1, <1>2, <1>4 DEF Inv

\* Below, IsTree, Frames and the types depend on the nodes only.
LEMMA SameTree ==
    ASSUME nodes' = nodes
    PROVE  /\ Nodes' = Nodes /\ MaybeNode' = MaybeNode /\ Steps' = Steps /\ Frame' = Frame
           /\ Piece' = Piece
           /\ \A r : Below(r)' = Below(r) /\ (IsTree(r)' <=> IsTree(r))
           /\ root' = root => \A st, seen : Frames(st, seen)' <=> Frames(st, seen)
<1>1. Nodes' = Nodes /\ MaybeNode' = MaybeNode /\ Steps' = Steps /\ Frame' = Frame
      /\ Piece' = Piece
  BY DEF Nodes, MaybeNode, Steps, Frame, Piece
<1>2. \A r : Below(r)' = Below(r)
  BY <1>1 DEF Below, Closed
<1>3. \A r : IsTree(r)' <=> IsTree(r)
  BY <1>2 DEF IsTree
<1>4. \A todo, p, seen : Pending(todo, p, seen)' <=> Pending(todo, p, seen)
  BY <1>1 DEF Pending
<1>5. root' = root => \A st, seen : Frames(st, seen)' <=> Frames(st, seen)
  BY <1>1, <1>2, <1>4 DEF Frames
<1> QED
  BY <1>1, <1>2, <1>3, <1>5

-----------------------------------------------------------------------------
(* What the steps do to the frames and to the walk.                        *)

Kept == UNCHANGED <<treeVars, root, job, done>>

LEMMA WalkTyped ==
    ASSUME WalkInv, job # "idle", ~done
    PROVE  /\ VisitorTypeOK /\ root \in Nodes /\ IsTree(root)
           /\ Frames(stack, ToSet(entered)) /\ entered \in Seq(Nodes)
           /\ stack \in Seq(Frame) /\ Len(stack) \in Nat /\ Len(stack) >= 1
           /\ \A i \in 2 .. Len(stack) : stack[i].node \in Nodes
<1>1. /\ VisitorTypeOK /\ root \in Nodes /\ IsTree(root) /\ Frames(stack, ToSet(entered))
      /\ entered \in Seq(Nodes) /\ stack \in Seq(Frame)
  BY DEF WalkInv, VisitorTypeOK
<1>2. \A i \in 2 .. Len(stack) : stack[i].node \in Nodes
  BY <1>1, MembersAre DEF Frames
<1> QED
  BY <1>1, <1>2, LenProperties DEF Frames

\* The node that is visited next is below the root.
LEMMA NextIsBelow ==
    ASSUME TreeInv, WalkInv, job # "idle", ~done, NEW n \in Nodes, NextStep(Visit(n))
    PROVE  n \in Below(root)
<1> DEFINE f == [node |-> n, todo |-> <<>>, indented |-> FALSE]
           seen == ToSet(entered)
<1>1. /\ root \in Nodes /\ IsTree(root) /\ Frames(stack, seen)
  BY WalkTyped
<1>2. f \in Frame /\ f.node = n /\ f.todo = <<>>
  BY EmptySeq DEF Frame, MaybeNode
<1> HIDE DEF f, seen
<1>3. Frames(Append(Advanced, f), seen \cup {n})
  BY <1>1, <1>2, FramesEntered, NothingPending
<1> QED
  BY <1>3 DEF Frames

\* The frames of a call that goes on
LEMMA WalkGoesOn ==
    ASSUME TreeInv, WalkInv, job # "idle", ~done, Kept, Frames(stack', ToSet(entered')),
           entered' \in Seq(Nodes), want' \subseteq Nodes, result' \in Seq(Nodes)
    PROVE  WalkInv'
<1>1. nodes' = nodes /\ root' = root /\ job' = job /\ done' = done
  BY DEF Kept, treeVars
<1>2. /\ VisitorTypeOK /\ root \in Nodes /\ IsTree(root)
  BY WalkTyped
<1>3. /\ Nodes' = Nodes /\ MaybeNode' = MaybeNode /\ Frame' = Frame
      /\ \A r : IsTree(r)' <=> IsTree(r)
      /\ \A st, seen : Frames(st, seen)' <=> Frames(st, seen)
  BY <1>1, SameTree
<1>4. VisitorTypeOK'
  BY <1>1, <1>2, <1>3 DEF VisitorTypeOK, Frames
<1>5. IsTree(root)' /\ Frames(stack, ToSet(entered))'
  <2>1. IsTree(root)'
    BY <1>1, <1>2, <1>3
  <2>2. Frames(stack, ToSet(entered))'
    BY <1>3
  <2> QED
    BY <2>1, <2>2
<1> QED
  BY <1>1, <1>2, <1>3, <1>4, <1>5 DEF WalkInv

\* A call begins.
LEMMA BeginsWell ==
    ASSUME TreeInv, WalkInv, NEW what \in Jobs, NEW r \in Nodes, Begin(what, r),
           UNCHANGED treeVars, want' \subseteq Nodes
    PROVE  WalkInv' /\ [W!Next]_(W!vars)
<1> DEFINE f == [node |-> None, todo |-> <<Visit(r)>>, indented |-> FALSE]
<1>1. /\ job = "idle" /\ IsTree(r) /\ job' = what /\ root' = r /\ stack' = <<f>>
      /\ done' = done /\ entered' = entered /\ result' = result /\ nodes' = nodes
  BY DEF Begin, treeVars
<1>2. stack = <<>> /\ entered = <<>> /\ ~done /\ result = <<>> /\ done \in BOOLEAN
  BY <1>1 DEF WalkInv, VisitorTypeOK
<1>3. /\ Nodes' = Nodes /\ MaybeNode' = MaybeNode /\ Frame' = Frame /\ Steps' = Steps
      /\ (IsTree(r)' <=> IsTree(r)) /\ Below(r)' = Below(r)
  BY <1>1, SameTree
<1>4. /\ f \in Frame /\ f.node = None /\ f.todo = <<Visit(r)>>
      /\ <<f>> \in Seq(Frame) /\ Len(<<f>>) = 1 /\ <<f>>[1] = f
  <2>1. Visit(r) \in Steps
    BY StepOf
  <2> QED
    BY <2>1 DEF Frame, MaybeNode
<1> HIDE DEF f
<1>5. ToSet(entered') = {}
  BY <1>1, <1>2 DEF ToSet
<1>6. VisitorTypeOK'
  <2>1. entered' \in Seq(Nodes) /\ result' \in Seq(Nodes)
    BY <1>1, <1>2, EmptySeq
  <2>2. r \in MaybeNode
    BY DEF MaybeNode
  <2> QED
    BY <1>1, <1>2, <1>3, <1>4, <2>1, <2>2 DEF VisitorTypeOK
<1>7. Frames(stack, ToSet(entered))'
  BY <1>1, <1>3, <1>4, <1>5 DEF Frames, Visit
<1>8. what # "idle"
  BY DEF Jobs, Searches
<1>9. WalkInv'
  <2>1. IsTree(root)' /\ root' \in Nodes'
    BY <1>1, <1>3
  <2> QED
    BY <1>1, <1>2, <1>6, <1>7, <1>8, <2>1 DEF WalkInv
<1>10. UNCHANGED W!vars
  <2>1. [i \in 1 .. Len(stack') - 1 |-> stack'[i + 1].node]
        = [i \in 1 .. Len(stack) - 1 |-> stack[i + 1].node]
    BY <1>1, <1>2, <1>4
  <2> QED
    BY <1>1, <1>3, <2>1 DEF W!vars
<1> QED
  BY <1>9, <1>10

\* The top frame does a step that enters no node.
LEMMA AdvancesWell ==
    ASSUME TreeInv, WalkInv, job # "idle", ~done, Kept, UNCHANGED <<want, result, entered>>,
           Last(stack).todo # <<>>, stack' = Advanced
    PROVE  WalkInv' /\ [W!Next]_(W!vars)
<1>1. /\ VisitorTypeOK /\ Frames(stack, ToSet(entered)) /\ entered \in Seq(Nodes)
      /\ stack \in Seq(Frame) /\ Len(stack) \in Nat /\ Len(stack) >= 1
  BY WalkTyped
<1>2. /\ Frames(stack', ToSet(entered')) /\ Len(stack') = Len(stack)
      /\ \A i \in 1 .. Len(stack) : stack'[i].node = stack[i].node
  BY <1>1, FramesAdvanced, AdvancedIs
<1>3. WalkInv'
  BY <1>1, <1>2, WalkGoesOn DEF VisitorTypeOK
<1>4. UNCHANGED W!vars
  <2>1. [i \in 1 .. Len(stack') - 1 |-> stack'[i + 1].node]
        = [i \in 1 .. Len(stack) - 1 |-> stack[i + 1].node]
    BY <1>1, <1>2
  <2> QED
    BY <2>1 DEF W!vars, Kept, treeVars, Nodes
<1> QED
  BY <1>3, <1>4

\* A node is entered.
LEMMA EntersWell ==
    ASSUME TreeInv, WalkInv, job # "idle", ~done, Kept, want' = want, result' \in Seq(Nodes),
           NEW n \in Nodes, NextStep(Visit(n)), entered' = Append(entered, n),
           NEW f \in Frame, f.node = n, Pending(f.todo, n, {}), stack' = Append(Advanced, f)
    PROVE  WalkInv' /\ [W!Next]_(W!vars)
<1> DEFINE L == Len(stack)
           open == [i \in 1 .. L - 1 |-> stack[i + 1].node]
           after == [i \in 1 .. Len(stack') - 1 |-> stack'[i + 1].node]
           tree == [m \in Nodes |-> nodes[m].children]
<1>1. /\ VisitorTypeOK /\ root \in Nodes /\ IsTree(root) /\ Frames(stack, ToSet(entered))
      /\ entered \in Seq(Nodes) /\ stack \in Seq(Frame) /\ L \in Nat /\ L >= 1
      /\ \A i \in 2 .. L : stack[i].node \in Nodes
  BY WalkTyped
<1>2. entered' \in Seq(Nodes) /\ ToSet(entered') = ToSet(entered) \cup {n}
  BY <1>1, SeenMore
<1>3. /\ n \notin ToSet(entered) /\ Frames(stack', ToSet(entered'))
      /\ L = 1 => ToSet(entered) = {}
      /\ L > 1 => n \in ToSet(nodes[Last(stack).node].children)
  <2> DEFINE seen == ToSet(entered)
             more == ToSet(entered')
  <2>1. Frames(stack, seen) /\ more = seen \cup {n}
    BY <1>1, <1>2
  <2> HIDE DEF seen, more, L
  <2>2. /\ n \notin seen /\ Frames(Append(Advanced, f), more)
        /\ Len(stack) = 1 => seen = {}
        /\ Len(stack) > 1 => n \in ToSet(nodes[Last(stack).node].children)
    BY <1>1, <2>1, FramesEntered
  <2> QED
    BY <2>2 DEF seen, more, L
<1>4. WalkInv'
  BY <1>1, <1>2, <1>3, WalkGoesOn DEF VisitorTypeOK
<1>5. /\ Last(stack).todo # <<>> /\ Last(stack) = stack[L]
      /\ Advanced \in Seq(Frame) /\ Len(Advanced) = L
      /\ \A i \in 1 .. L : Advanced[i].node = stack[i].node
  BY <1>1, FramesAre, AdvancedIs DEF NextStep
<1>6. /\ stack' \in Seq(Frame) /\ Len(stack') = L + 1 /\ stack'[L + 1].node = n
      /\ \A i \in 1 .. L : stack'[i].node = stack[i].node
  BY <1>5, AppendProperties
<1>7. open \in Seq(Nodes) /\ Len(open) = L - 1 /\ \A i \in 1 .. L - 1 : open[i] = stack[i + 1].node
  <2>1. open \in [1 .. L - 1 -> Nodes] /\ L - 1 \in Nat
    BY <1>1
  <2> HIDE DEF open, L
  <2>2. open \in Seq(Nodes) /\ Len(open) = L - 1
    BY <2>1, SequenceOfLength
  <2> QED
    BY <2>2 DEF open
<1>8. after \in Seq(Nodes) /\ Len(after) = L /\ \A i \in 1 .. L : after[i] = stack'[i + 1].node
  <2>1. after = [i \in 1 .. L |-> stack'[i + 1].node]
    BY <1>1, <1>6
  <2>2. \A i \in 1 .. L : stack'[i + 1].node \in Nodes
    <3> TAKE i \in 1 .. L
    <3>1. CASE i = L
      BY <1>6, <3>1
    <3>2. CASE i # L
      <4>1. i + 1 \in 2 .. L /\ i + 1 \in 1 .. L
        BY <1>1, <3>2
      <4> QED
        BY <1>1, <1>6, <4>1
    <3> QED
      BY <3>1, <3>2
  <2> HIDE DEF after, L
  <2>3. after \in [1 .. L -> Nodes]
    BY <2>1, <2>2
  <2>4. after \in Seq(Nodes) /\ Len(after) = L
    BY <1>1, <2>3, SequenceOfLength
  <2> QED
    BY <2>1, <2>4
<1> HIDE DEF open, after
<1>9. after = Append(open, n)
  <2>1. /\ Append(open, n) \in Seq(Nodes) /\ Len(Append(open, n)) = L
        /\ \A i \in 1 .. L - 1 : Append(open, n)[i] = open[i]
        /\ Append(open, n)[L] = n
    BY <1>1, <1>7, AppendProperties
  <2>2. \A i \in 1 .. L : after[i] = Append(open, n)[i]
    <3> TAKE i \in 1 .. L
    <3>1. CASE i = L
      BY <1>6, <1>8, <2>1, <3>1
    <3>2. CASE i # L
      <4>1. i \in 1 .. L - 1 /\ i + 1 \in 1 .. L
        BY <1>1, <3>2
      <4>2. after[i] = stack[i + 1].node /\ open[i] = stack[i + 1].node
        BY <1>6, <1>7, <1>8, <4>1
      <4> QED
        BY <2>1, <4>1, <4>2
    <3> QED
      BY <3>1, <3>2
  <2> QED
    BY <1>8, <2>1, <2>2, SeqEqual
<1>10. /\ open = <<>> => ToSet(entered) = {}
       /\ open # <<>> => n \in ToSet(tree[Last(open)])
  <2>1. CASE L = 1
    <3>1. open = <<>>
      BY <1>7, <2>1, EmptySeq
    <3> QED
      BY <1>3, <2>1, <3>1
  <2>2. CASE L > 1
    <3>1. Last(open) = stack[L].node /\ stack[L].node \in Nodes
      <4>1. L - 1 \in 1 .. L - 1 /\ (L - 1) + 1 = L /\ L \in 2 .. L
        BY <1>1, <2>2
      <4>2. Last(open) = open[L - 1]
        BY <1>7 DEF Last
      <4>3. open[L - 1] = stack[(L - 1) + 1].node
        BY <1>7, <4>1
      <4> QED
        BY <1>1, <4>1, <4>2, <4>3
    <3>2. open # <<>>
      BY <1>1, <1>7, <2>2
    <3>3. tree[Last(open)] = nodes[Last(stack).node].children
      BY <1>5, <3>1
    <3> HIDE DEF tree
    <3> QED
      BY <1>3, <2>2, <3>2, <3>3
  <2>3. L = 1 \/ L > 1
    <3>1. L \in Nat /\ L >= 1
      BY <1>1
    <3> HIDE DEF L
    <3> QED
      BY <3>1
  <2> HIDE DEF tree, L
  <2> QED
    BY <2>1, <2>2, <2>3
<1>11. /\ n \in DOMAIN tree
       /\ [m \in Nodes |-> nodes[m].children]' = tree
  BY DEF Kept, treeVars, Nodes
<1> HIDE DEF tree
<1>12. W!Enter(n)
  BY <1>2, <1>3, <1>9, <1>10, <1>11 DEF W!Enter, W!Last, W!ToSet, Last, ToSet, open, after, tree
<1>13. W!Next
  BY <1>11, <1>12 DEF W!Next, tree
<1> QED
  BY <1>4, <1>13

\* The top frame is left.
LEMMA LeavesWell ==
    ASSUME TreeInv, WalkInv, job # "idle", ~done, Kept, UNCHANGED <<want, result, entered>>,
           NodeDone, stack' = Front(stack)
    PROVE  WalkInv' /\ [W!Next]_(W!vars)
<1> DEFINE L == Len(stack)
           open == [i \in 1 .. L - 1 |-> stack[i + 1].node]
           after == [i \in 1 .. Len(stack') - 1 |-> stack'[i + 1].node]
<1>1. /\ VisitorTypeOK /\ Frames(stack, ToSet(entered))
      /\ entered \in Seq(Nodes) /\ stack \in Seq(Frame) /\ L \in Nat /\ L > 1
      /\ \A i \in 2 .. L : stack[i].node \in Nodes
  BY WalkTyped DEF NodeDone
<1>2. /\ Frames(stack', ToSet(entered')) /\ Len(stack') = L - 1
      /\ \A i \in 1 .. L - 1 : stack'[i] = stack[i]
  BY <1>1, FramesLeft
<1>3. WalkInv'
  BY <1>1, <1>2, WalkGoesOn DEF VisitorTypeOK
<1>4. open \in Seq(Nodes) /\ Len(open) = L - 1 /\ \A i \in 1 .. L - 1 : open[i] = stack[i + 1].node
  <2>1. open \in [1 .. L - 1 -> Nodes] /\ L - 1 \in Nat
    BY <1>1
  <2> HIDE DEF open, L
  <2>2. open \in Seq(Nodes) /\ Len(open) = L - 1
    BY <2>1, SequenceOfLength
  <2> QED
    BY <2>2 DEF open
<1>5. after = [i \in 1 .. L - 2 |-> stack[i + 1].node]
  <2>1. Len(stack') - 1 = L - 2 /\ \A i \in 1 .. L - 2 : i + 1 \in 1 .. L - 1
    BY <1>1, <1>2
  <2>2. \A i \in 1 .. L - 2 : stack'[i + 1] = stack[i + 1]
    BY <1>2, <2>1
  <2>3. 1 .. Len(stack') - 1 = 1 .. L - 2
    BY <2>1
  <2> DEFINE D == 1 .. L - 2
  <2>4. after = [i \in D |-> stack'[i + 1].node] /\ \A i \in D : stack'[i + 1] = stack[i + 1]
    BY <2>2, <2>3
  <2> HIDE DEF D, after
  <2>5. after = [i \in D |-> stack[i + 1].node]
    BY <2>4
  <2> QED
    BY <2>5 DEF D
<1>6. \A i \in 1 .. L - 2 : after[i] = open[i]
  <2> TAKE i \in 1 .. L - 2
  <2>1. i \in 1 .. L - 1
    BY <1>1
  <2>2. after[i] = stack[i + 1].node
    BY <1>5
  <2> QED
    BY <1>4, <2>1, <2>2
<1>7. after \in Seq(Nodes) /\ Len(after) = L - 2
  <2>1. after \in [1 .. L - 2 -> Nodes] /\ L - 2 \in Nat
    BY <1>1, <1>5
  <2> HIDE DEF after, L
  <2> QED
    BY <2>1, SequenceOfLength
<1> HIDE DEF open, after
<1>8. open # <<>>
  BY <1>1, <1>4
<1>9. after = Front(open)
  <2>1. Front(open) = SubSeq(open, 1, L - 2)
    BY <1>4 DEF Front
  <2>2. /\ SubSeq(open, 1, L - 2) \in Seq(Nodes) /\ Len(SubSeq(open, 1, L - 2)) = L - 2
        /\ \A i \in 1 .. L - 2 : SubSeq(open, 1, L - 2)[i] = open[i]
    <3> DEFINE k == L - 2
    <3>1. 1 \in Int /\ k \in Int /\ k >= 1 - 1 /\ k - 1 + 1 = k
          /\ \A i \in 1 .. k : open[i] \in Nodes /\ 1 + i - 1 = i
      BY <1>1, <1>4
    <3> HIDE DEF k
    <3>2. /\ SubSeq(open, 1, k) \in Seq(Nodes) /\ Len(SubSeq(open, 1, k)) = k - 1 + 1
          /\ \A i \in 1 .. k - 1 + 1 : SubSeq(open, 1, k)[i] = open[1 + i - 1]
      BY <3>1, PieceOf
    <3> QED
      BY <3>1, <3>2 DEF k
  <2> QED
    BY <1>6, <1>7, <2>1, <2>2, SeqEqual
<1>10. [m \in Nodes |-> nodes[m].children]' = [m \in Nodes |-> nodes[m].children]
  BY DEF Kept, treeVars, Nodes
<1>11. W!Leave
  BY <1>8, <1>9, <1>10 DEF W!Leave, W!Front, Front, open, after
<1> QED
  BY <1>3, <1>11 DEF W!Next

\* The call returns.
LEMMA ReturnsWell ==
    ASSUME TreeInv, WalkInv, job # "idle", ~done, Return, UNCHANGED treeVars
    PROVE  WalkInv' /\ [W!Next]_(W!vars)
<1>1. /\ VisitorTypeOK /\ entered \in Seq(Nodes)
  BY WalkTyped
<1>2. /\ Len(stack) = 1 /\ done' = TRUE /\ stack' = <<>> /\ job' = job /\ root' = root
      /\ want' = want /\ entered' = entered /\ result' = result /\ nodes' = nodes
  BY DEF Return, treeVars
<1>3. /\ Nodes' = Nodes /\ MaybeNode' = MaybeNode /\ Frame' = Frame
  BY <1>2, SameTree
<1>4. VisitorTypeOK'
  <2>1. stack' \in Seq(Frame)
    BY <1>2, EmptySeq
  <2> QED
    BY <1>1, <1>2, <1>3, <2>1 DEF VisitorTypeOK
<1>5. WalkInv'
  BY <1>2, <1>4 DEF WalkInv
<1>6. [i \in 1 .. Len(stack') - 1 |-> stack'[i + 1].node]
      = [i \in 1 .. Len(stack) - 1 |-> stack[i + 1].node]
  <2>1. Len(stack') = 0
    BY <1>2, EmptySeq
  <2>2. 1 .. Len(stack') - 1 = {} /\ 1 .. Len(stack) - 1 = {}
    BY <1>2, <2>1
  <2> QED
    BY <2>2
<1>7. UNCHANGED W!vars
  BY <1>2, <1>3, <1>6 DEF W!vars
<1> QED
  BY <1>5, <1>7

\* The tree changes while no call is in progress, or its answer is forgotten.
LEMMA RebuildsWell ==
    ASSUME WalkInv, \/ job = "idle" /\ UNCHANGED <<visitorVars, printVars>>
                    \/ Forget /\ out' = <<>>
    PROVE  WalkInv' /\ [W!Next]_(W!vars)
<1>1. /\ job' = "idle" /\ done' = FALSE /\ root' = None /\ want' = {} /\ stack' = <<>>
      /\ entered' = <<>> /\ result' = <<>> /\ out' = <<>> /\ stack = <<>>
  BY DEF WalkInv, Forget, visitorVars, walkVars, printVars
<1>2. VisitorTypeOK'
  <2>1. /\ stack' \in Seq(Frame') /\ entered' \in Seq(Nodes') /\ result' \in Seq(Nodes')
    BY <1>1, EmptySeq
  <2>2. root' \in MaybeNode' /\ want' \subseteq Nodes'
    BY <1>1 DEF MaybeNode
  <2> QED
    BY <1>1, <2>1, <2>2 DEF VisitorTypeOK
<1>3. WalkInv'
  BY <1>1, <1>2 DEF WalkInv
<1>4. /\ [i \in 1 .. Len(stack) - 1 |-> stack[i + 1].node] = <<>>
      /\ [i \in 1 .. Len(stack') - 1 |-> stack'[i + 1].node] = <<>>
  BY <1>1
<1>5. ToSet(entered') = {}
  BY <1>1 DEF ToSet
<1>6. W!Rebuild
  BY <1>4, <1>5 DEF W!Rebuild
<1> QED
  BY <1>3, <1>6 DEF W!Next

-----------------------------------------------------------------------------
(* The steps of the searches and of the printer.                           *)

LEMMA VisitorKeepsWalk ==
    ASSUME TreeInv, WalkInv, VisitorNext, UNCHANGED <<treeVars, printVars>>
    PROVE  WalkInv' /\ [W!Next]_(W!vars)
<1>1. ASSUME NEW what \in Searches \cup {"visit"}, NEW r \in Nodes, BeginSearch(what, r)
      PROVE  WalkInv' /\ [W!Next]_(W!vars)
  <2>1. what \in Jobs /\ Begin(what, r)
    BY <1>1 DEF BeginSearch, Jobs
  <2>2. Below(r) \subseteq Nodes
    BY DEF Below
  <2>3. want' \subseteq Nodes
    BY <1>1, <2>2 DEF BeginSearch
  <2> QED
    BY <2>1, <2>3, BeginsWell
<1>2. ASSUME NEW n \in Nodes, EnterNode(n)
      PROVE  WalkInv' /\ [W!Next]_(W!vars)
  <2>1. /\ job # "idle" /\ ~done /\ NextStep(Visit(n)) /\ entered' = Append(entered, n)
        /\ UNCHANGED <<job, done, root, want>>
    BY <1>2 DEF EnterNode, Running, Searches
  <2>2. PICK descend \in BOOLEAN :
           /\ Hook(n, descend)
           /\ stack' = Append(Advanced, [node |-> n, indented |-> FALSE,
                                         todo |-> IF descend THEN Visits(nodes[n].children)
                                                             ELSE <<>>])
    BY <1>2 DEF EnterNode
  <2> DEFINE f == [node |-> n, indented |-> FALSE,
                   todo |-> IF descend THEN Visits(nodes[n].children) ELSE <<>>]
  <2>3. result' \in Seq(Nodes)
    <3>1. result \in Seq(Nodes) /\ Append(result, n) \in Seq(Nodes) /\ <<n>> \in Seq(Nodes)
      BY <2>1, WalkTyped, AppendProperties DEF VisitorTypeOK
    <3>2. result' = result \/ result' = Append(result, n) \/ result' = <<n>>
      BY <2>2 DEF Hook
    <3> QED
      BY <3>1, <3>2
  <2>4. n \in Below(root)
    BY <2>1, NextIsBelow
  <2>5. Pending(f.todo, n, {})
    <3>1. nodes[n].children \in Seq(Nodes)
      BY <2>1, <2>4, WalkTyped, OneParent
    <3>2. \A i, j \in DOMAIN nodes[n].children :
             nodes[n].children[i] = nodes[n].children[j] => i = j
      BY <2>1, <2>4, WalkTyped, ChildrenDiffer
    <3> DEFINE cs == nodes[n].children
    <3>3. cs \in Seq(Nodes) /\ ToSet(cs) \subseteq ToSet(nodes[n].children)
          /\ \A i, j \in DOMAIN cs : cs[i] = cs[j] => i = j
      BY <3>1, <3>2
    <3>4. f.todo = Visits(cs) \/ f.todo = <<>>
      OBVIOUS
    <3> HIDE DEF cs, f
    <3>5. Pending(Visits(cs), n, {})
      BY <3>3, VisitsPending
    <3> QED
      BY <3>4, <3>5, NothingPending
  <2>6. f \in Frame /\ f.node = n
    <3>1. f.todo \in Seq(Steps)
      BY <2>5 DEF Pending
    <3> QED
      BY <3>1 DEF Frame, MaybeNode
  <2>7. stack' = Append(Advanced, f) /\ Kept /\ want' = want
    BY <2>1, <2>2 DEF Kept
  <2> HIDE DEF f
  <2> QED
    BY <2>1, <2>3, <2>5, <2>6, <2>7, EntersWell
<1>3. CASE LeaveNode
  <2>1. job # "idle" /\ ~done /\ NodeDone /\ Kept /\ stack' = Front(stack)
        /\ UNCHANGED <<want, result, entered>>
    BY <1>3 DEF LeaveNode, Running, Searches, Kept
  <2> QED
    BY <2>1, LeavesWell
<1>4. CASE EndSearch
  <2>1. job # "idle" /\ ~done /\ Return
    BY <1>4 DEF EndSearch, Running, Searches
  <2> QED
    BY <2>1, ReturnsWell
<1> QED
  BY <1>1, <1>2, <1>3, <1>4 DEF VisitorNext

LEMMA RunningPrint ==
    ASSUME Printing
    PROVE  job # "idle" /\ ~done /\ Kept /\ UNCHANGED <<want, result, config>>
BY DEF Printing, Running, Kept

LEMMA NextStepIs ==
    ASSUME NEW n, NextStep(Visit(n))
    PROVE  Last(stack).todo # <<>>
BY DEF NextStep

LEMMA PrintNodeKeepsWalk ==
    ASSUME TreeInv, WalkInv, NEW n \in Nodes, PrintNode(n)
    PROVE  WalkInv' /\ [W!Next]_(W!vars)
<1> DEFINE f == [node |-> n, todo |-> ToVisit(n), indented |-> Descends(n)]
<1>1. /\ job # "idle" /\ ~done /\ Kept /\ UNCHANGED <<want, result>>
      /\ NextStep(Visit(n)) /\ entered' = Append(entered, n) /\ stack' = Append(Advanced, f)
  BY RunningPrint DEF PrintNode
<1>2. n \in Below(root)
  BY <1>1, NextIsBelow
<1>3. Pending(ToVisit(n), n, {})
  BY <1>1, <1>2, WalkTyped, ToVisitPending
<1>4. f \in Frame /\ f.node = n /\ f.todo = ToVisit(n)
  <2>1. ToVisit(n) \in Seq(Steps)
    BY <1>3 DEF Pending
  <2>2. Descends(n) \in BOOLEAN
    BY DEF Descends
  <2> QED
    BY <2>1, <2>2 DEF Frame, MaybeNode
<1>5. result' \in Seq(Nodes)
  BY <1>1, WalkTyped DEF VisitorTypeOK
<1> HIDE DEF f
<1> QED
  BY <1>1, <1>3, <1>4, <1>5, EntersWell

LEMMA WalkKept ==
    ASSUME TreeInv, WalkInv, [Next]_vars
    PROVE  WalkInv' /\ [W!Next]_(W!vars)
<1>1. CASE job = "idle" /\ TreeNext /\ UNCHANGED <<visitorVars, printVars>>
  BY <1>1, RebuildsWell
<1>2. CASE VisitorNext /\ UNCHANGED <<treeVars, printVars>>
  BY <1>2, VisitorKeepsWalk
<1>3. ASSUME NEW n \in Nodes, BeginPrint(n)
      PROVE  WalkInv' /\ [W!Next]_(W!vars)
  <2>1. Begin("print", n) /\ UNCHANGED treeVars /\ want' \subseteq Nodes /\ "print" \in Jobs
    BY <1>3 DEF BeginPrint, Jobs
  <2> QED
    BY <2>1, BeginsWell
<1>4. ASSUME NEW n \in Nodes, SkipNode(n) \/ CutNode(n)
      PROVE  WalkInv' /\ [W!Next]_(W!vars)
  <2>1. Printing /\ NextStep(Visit(n)) /\ stack' = Advanced /\ entered' = entered
    BY <1>4 DEF SkipNode, CutNode
  <2> QED
    BY <2>1, RunningPrint, NextStepIs, AdvancesWell
<1>5. ASSUME NEW n \in Nodes, PrintNode(n)
      PROVE  WalkInv' /\ [W!Next]_(W!vars)
  BY <1>5, PrintNodeKeepsWalk
<1>6. CASE PrintText
  <2>1. Printing /\ Last(stack).todo # <<>> /\ stack' = Advanced /\ entered' = entered
    BY <1>6 DEF PrintText
  <2> QED
    BY <2>1, RunningPrint, AdvancesWell
<1>7. CASE LeavePrinted
  <2>1. Printing /\ NodeDone /\ stack' = Front(stack) /\ entered' = entered
    BY <1>7 DEF LeavePrinted
  <2> QED
    BY <2>1, RunningPrint, LeavesWell
<1>8. CASE EndPrint
  <2>1. job # "idle" /\ ~done /\ Return /\ UNCHANGED treeVars
    BY <1>8 DEF EndPrint, Running
  <2> QED
    BY <2>1, ReturnsWell
<1>9. CASE ForgetOutput
  <2>1. Forget /\ out' = <<>>
    BY <1>9 DEF ForgetOutput
  <2> QED
    BY <2>1, RebuildsWell
<1>10. CASE UNCHANGED vars
  <2>1. /\ UNCHANGED <<nodes, job, done, root, want, stack, entered, result, out>>
    BY <1>10 DEF vars, treeVars, visitorVars, walkVars, printVars
  <2>2. /\ Nodes' = Nodes /\ MaybeNode' = MaybeNode /\ Frame' = Frame
        /\ \A r : IsTree(r)' <=> IsTree(r)
        /\ \A st, seen : Frames(st, seen)' <=> Frames(st, seen)
    BY <2>1, SameTree
  <2>3. VisitorTypeOK'
    BY <2>1, <2>2 DEF VisitorTypeOK, WalkInv
  <2>4. job # "idle" /\ ~done => IsTree(root)' /\ Frames(stack, ToSet(entered))'
    <3> SUFFICES ASSUME job # "idle", ~done
                 PROVE  IsTree(root)' /\ Frames(stack, ToSet(entered))'
      OBVIOUS
    <3>1. IsTree(root) /\ Frames(stack, ToSet(entered))
      BY WalkTyped
    <3>2. IsTree(root)'
      BY <2>1, <2>2, <3>1
    <3>3. Frames(stack, ToSet(entered))'
      BY <2>1, <2>2, <3>1
    <3> QED
      BY <3>2, <3>3
  <2>5. WalkInv'
    BY <2>1, <2>2, <2>3, <2>4 DEF WalkInv
  <2>6. UNCHANGED W!vars
    BY <2>1, <2>2 DEF W!vars
  <2> QED
    BY <2>5, <2>6
<1> QED
  BY <1>1, <1>2, <1>3, <1>4, <1>5, <1>6, <1>7, <1>8, <1>9, <1>10 DEF Next

\* Both are invariants together.
LEMMA TreeAndWalkKept ==
    TreeInv /\ WalkInv /\ [Next]_vars => TreeInv' /\ WalkInv' /\ [W!Next]_(W!vars)
<1>1. ASSUME TreeInv, WalkInv, [Next]_vars
      PROVE  TreeInv' /\ WalkInv' /\ [W!Next]_(W!vars)
  <2>1. TreeInv'
    BY <1>1, TreeOrNot, TreeKeeps, TreeLeft
  <2> QED
    BY <1>1, <2>1, WalkKept
<1> QED
  BY <1>1

LEMMA WalkBegins == Init => W!Init
<1> SUFFICES ASSUME Init
             PROVE  W!Init
  OBVIOUS
<1>1. nodes = <<>> /\ stack = <<>> /\ entered = <<>>
  BY DEF Init, TreeInit, VisitorInit
<1>2. [n \in Nodes |-> nodes[n].children] = <<>>
  BY <1>1 DEF Nodes
<1>3. [i \in 1 .. Len(stack) - 1 |-> stack[i + 1].node] = <<>>
  BY <1>1
<1>4. ToSet(entered) = {}
  BY <1>1 DEF ToSet
<1> QED
  BY <1>2, <1>3, <1>4 DEF W!Init, W!ToSet, ToSet

\* What every visitor promises, the searches and the printer keep, for trees of
\* any size, shape and history, whichever nodes a hook does not descend below,
\* a filter rejects or the depth limit cuts, and however the printer visits by
\* hand: a node is entered once at most, from its parent, and nodes are left in
\* the reverse order.
THEOREM SpecImplementsWalk == Spec => ImplementsWalk
<1>1. Init => TreeInv /\ WalkInv /\ W!Init
  BY InvBegins, WalkBegins DEF Inv
<1> QED
  BY <1>1, TreeAndWalkKept, PTL DEF Spec, ImplementsWalk, W!Spec

-----------------------------------------------------------------------------
(* Types of what the printer keeps.                                        *)

LEMMA CounterTyped ==
    ASSUME TreeTypeOK
    PROVE  DepthRange \in Nat /\ DepthRange > 0
<1>1. offer \in Offers /\ offer.kinds \in Seq(Kinds)
  BY OffersAssumption DEF TreeTypeOK
<1>2. Len(offer.kinds) \in Nat /\ Len(offer.kinds) + 0 < DepthRange /\ DepthRange \in Nat
  BY <1>1, DepthAssumption, LenProperties
<1> QED
  BY <1>2

LEMMA RemainderInRange ==
    ASSUME NEW a \in Nat, NEW b \in Nat, b > 0
    PROVE  a % b \in 0 .. b - 1
OBVIOUS

LEMMA PutTyped ==
    ASSUME indent \in Nat, Len(stack) \in Nat, Len(stack) >= 1, NEW n \in Nodes,
           NEW what \in {"open", "close", "attributes", "name", "text", "error", "dots"}
    PROVE  Put(what, n) \in Piece
BY DEF Put, Piece

LEMMA PrintedTyped ==
    ASSUME TreeTypeOK, indent \in Nat, Len(stack) \in Nat, Len(stack) >= 1, NEW n \in Nodes
    PROVE  Printed(n) \in Seq(Piece)
<1>1. /\ Put("open", n) \in Piece /\ Put("attributes", n) \in Piece /\ Put("close", n) \in Piece
  BY PutTyped
<1>2. Opening(n) \in Seq(Piece) /\ PrimitiveType(n) \in Seq(Piece)
      /\ <<Put("close", n)>> \in Seq(Piece)
  BY <1>1 DEF Opening, PrimitiveType
<1>3. Variables(n) \in Seq(Piece)
  <2> DEFINE items == nodes[n].items
             v == Variables(n)
  <2>1. items \in Seq(Nodes) /\ DOMAIN items = 1 .. Len(items) /\ Len(items) \in Nat
    BY NodesAre, LenProperties
  <2>2. ASSUME NEW i \in DOMAIN items
        PROVE  v[i] \in Piece
    <3>1. items[i] \in Nodes
      BY <2>1, ElementOfSeq
    <3>2. v[i] = Put(IF Kind(items[i]) = "leaf" THEN "name" ELSE "error", items[i])
      BY DEF Variables
    <3> HIDE DEF items, v
    <3>3. v[i] = Put("name", items[i]) \/ v[i] = Put("error", items[i])
      BY <3>2
    <3> QED
      BY <3>1, <3>3, PutTyped
  <2>3. DOMAIN v = DOMAIN items /\ v = [i \in DOMAIN v |-> v[i]]
    BY DEF Variables
  <2> HIDE DEF v, items
  <2>4. v \in [1 .. Len(items) -> Piece]
    BY <2>1, <2>2, <2>3
  <2>5. v \in Seq(Piece)
    BY <2>1, <2>4, SequenceOfLength
  <2> QED
    BY <2>5 DEF v
<1>4. Opening(n) \o <<Put("close", n)>> \in Seq(Piece) /\ Opening(n) \o Variables(n) \in Seq(Piece)
  BY <1>2, <1>3, ConcatProperties
<1>5. Printed(n) \in {Opening(n) \o <<Put("close", n)>>, PrimitiveType(n),
                      Opening(n) \o Variables(n), Opening(n)}
  BY DEF Printed
<1> QED
  BY <1>2, <1>4, <1>5

LEMMA PrintTyped ==
    ASSUME TreeInv, WalkInv, PrintTypeOK, [Next]_vars
    PROVE  PrintTypeOK'
<1>1. TreeTypeOK /\ DepthRange \in Nat /\ DepthRange > 0 /\ indent \in Nat /\ out \in Seq(Piece)
      /\ depth \in 0 .. DepthRange - 1 /\ config \in Config
  BY CounterTyped DEF TreeInv, PrintTypeOK
<1>2. ASSUME nodes' = nodes, UNCHANGED printVars
      PROVE  PrintTypeOK'
  <2>1. Piece' = Piece
    BY <1>2, SameTree
  <2> QED
    BY <1>1, <1>2, <2>1 DEF PrintTypeOK, printVars
<1>3. ASSUME nodes' = nodes, config' \in Config, out' \in Seq(Piece), indent' \in Nat,
             depth' \in 0 .. DepthRange - 1
      PROVE  PrintTypeOK'
  <2>1. Piece' = Piece
    BY <1>3, SameTree
  <2> QED
    BY <1>3, <2>1 DEF PrintTypeOK, Config
<1>4. ASSUME Printing
      PROVE  /\ nodes' = nodes /\ config' \in Config
             /\ stack \in Seq(Frame) /\ Len(stack) \in Nat /\ Len(stack) >= 1
             /\ Last(stack) = stack[Len(stack)]
             /\ \A i \in 2 .. Len(stack) : stack[i].node \in Nodes
             /\ stack[1].todo # <<>> => stack[1].todo = <<Visit(root)>>
  <2>1. job # "idle" /\ ~done /\ nodes' = nodes /\ config' = config
    BY <1>4, RunningPrint DEF Kept, treeVars
  <2> QED
    BY <1>1, <2>1, WalkTyped, FramesAre DEF Frames
<1>5. CASE job = "idle" /\ TreeNext /\ UNCHANGED <<visitorVars, printVars>>
  <2>1. out = <<>> /\ UNCHANGED printVars
    BY <1>5 DEF WalkInv
  <2>2. out' \in Seq(Piece')
    BY <2>1, EmptySeq DEF printVars
  <2> QED
    BY <1>1, <2>1, <2>2 DEF PrintTypeOK, printVars, Config
<1>6. CASE VisitorNext /\ UNCHANGED <<treeVars, printVars>>
  BY <1>2, <1>6 DEF treeVars
<1>7. ASSUME NEW n \in Nodes, BeginPrint(n)
      PROVE  PrintTypeOK'
  <2>1. out' \in Seq(Piece) /\ 0 \in 0 .. DepthRange - 1
    BY <1>1, <1>7, EmptySeq DEF BeginPrint
  <2> QED
    BY <1>3, <1>7, <2>1 DEF BeginPrint, treeVars, Config
<1>8. ASSUME NEW n \in Nodes, SkipNode(n)
      PROVE  PrintTypeOK'
  BY <1>1, <1>3, <1>4, <1>8 DEF SkipNode
<1>9. ASSUME NEW n \in Nodes, CutNode(n)
      PROVE  PrintTypeOK'
  <2>1. Put("dots", n) \in Piece
    BY <1>1, <1>4, <1>9, PutTyped DEF CutNode
  <2>2. out' \in Seq(Piece)
    BY <1>1, <1>9, <2>1, AppendProperties DEF CutNode
  <2> QED
    BY <1>1, <1>3, <1>4, <1>9, <2>2 DEF CutNode
<1>10. ASSUME NEW n \in Nodes, PrintNode(n)
       PROVE  PrintTypeOK'
  <2>1. Printed(n) \in Seq(Piece)
    BY <1>1, <1>4, <1>10, PrintedTyped DEF PrintNode
  <2>2. out' \in Seq(Piece)
    BY <1>1, <1>10, <2>1, ConcatProperties DEF PrintNode
  <2>3. DepthWithin(n) \in 0 .. DepthRange - 1
    <3>1. depth + 1 \in Nat
      BY <1>1
    <3>2. (depth + 1) % DepthRange \in 0 .. DepthRange - 1
      BY <1>1, <3>1, RemainderInRange
    <3> QED
      BY <1>1, <3>2 DEF DepthWithin
  <2>4. indent' \in Nat
    BY <1>1, <1>10 DEF PrintNode, HookIndents
  <2> QED
    BY <1>3, <1>4, <1>10, <2>2, <2>3, <2>4 DEF PrintNode
<1>11. CASE PrintText
  <2> DEFINE top == Last(stack)
             step == Head(top.todo)
  <2>1. /\ Printing /\ top.todo # <<>> /\ step.do # "visit" /\ UNCHANGED <<depth, indent>>
        /\ out' = out \o IF step.do = "text" THEN <<Put("text", step.node)>>
                         ELSE <<Put("attributes", top.node), Put("close", top.node)>>
    BY <1>11 DEF PrintText
  <2>2. step \in Steps
    <3>1. top \in Frame
      BY <1>4, <2>1, FramesAre
    <3> QED
      BY <2>1, <3>1, HeadTailProperties DEF Frame
  <2>3. Len(stack) >= 2
    <3> SUFFICES ASSUME Len(stack) = 1
                 PROVE  FALSE
      BY <1>4, <2>1
    <3>1. top.todo = <<Visit(root)>>
      BY <1>4, <2>1
    <3>2. step = Visit(root)
      BY <3>1
    <3> QED
      BY <2>1, <3>2 DEF Visit
  <2>4. top.node \in Nodes
    BY <1>4, <2>1, <2>3
  <2>5. step.do = "text" => step.node \in Nodes
    BY <2>2 DEF Steps
  <2> HIDE DEF step, top
  <2> DEFINE more == IF step.do = "text" THEN <<Put("text", step.node)>>
                     ELSE <<Put("attributes", top.node), Put("close", top.node)>>
  <2>6. more \in Seq(Piece)
    <3>1. CASE step.do = "text"
      <4>1. Put("text", step.node) \in Piece
        BY <1>1, <1>4, <2>1, <2>5, <3>1, PutTyped
      <4> QED
        BY <3>1, <4>1
    <3>2. CASE step.do # "text"
      <4>1. Put("attributes", top.node) \in Piece /\ Put("close", top.node) \in Piece
        BY <1>1, <1>4, <2>1, <2>4, PutTyped
      <4> QED
        BY <3>2, <4>1
    <3> QED
      BY <3>1, <3>2
  <2>7. out' = out \o more
    BY <2>1
  <2> HIDE DEF more
  <2>8. out' \in Seq(Piece)
    BY <1>1, <2>6, <2>7, ConcatProperties
  <2> QED
    BY <1>1, <1>3, <1>4, <2>1, <2>8
<1>12. CASE LeavePrinted
  <2> DEFINE n == Last(stack).node
  <2>1. /\ Printing /\ Len(stack) > 1
        /\ out' = IF Inline(n) THEN out ELSE Append(out, Put("close", n))
        /\ depth' = DepthBehind(n)
        /\ indent' = IF Last(stack).indented /\ indent > 0 THEN indent - 1 ELSE indent
    BY <1>12 DEF LeavePrinted, NodeDone
  <2>2. n \in Nodes
    <3>1. Len(stack) \in 2 .. Len(stack)
      BY <1>4, <2>1
    <3> QED
      BY <1>4, <2>1, <3>1
  <2>3. Put("close", n) \in Piece
    BY <1>1, <1>4, <2>1, <2>2, PutTyped
  <2>4. out' \in Seq(Piece)
    BY <1>1, <2>1, <2>3, AppendProperties
  <2>5. depth' \in 0 .. DepthRange - 1
    <3>1. depth + DepthRange - 1 \in Nat
      BY <1>1
    <3> QED
      BY <1>1, <2>1, <3>1, RemainderInRange DEF DepthBehind
  <2>6. indent' \in Nat
    BY <1>1, <2>1
  <2> QED
    BY <1>3, <1>4, <2>1, <2>4, <2>5, <2>6
<1>13. CASE EndPrint
  BY <1>2, <1>13 DEF EndPrint, treeVars
<1>14. CASE ForgetOutput
  <2>1. out' \in Seq(Piece) /\ 0 \in 0 .. DepthRange - 1
    BY <1>1, <1>14, EmptySeq DEF ForgetOutput
  <2>2. config' \in Config
    BY <1>14, DepthAssumption DEF ForgetOutput, Config
  <2> QED
    BY <1>3, <1>14, <2>1, <2>2 DEF ForgetOutput, treeVars
<1>15. CASE UNCHANGED vars
  BY <1>2, <1>15 DEF vars, treeVars
<1> QED
  BY <1>5, <1>6, <1>7, <1>8, <1>9, <1>10, <1>11, <1>12, <1>13, <1>14, <1>15 DEF Next

LEMMA InvKept == Inv /\ [Next]_vars => Inv'
<1>1. TreeInv /\ WalkInv /\ [Next]_vars => TreeInv' /\ WalkInv'
  BY TreeAndWalkKept
<1>2. TreeInv /\ WalkInv /\ PrintTypeOK /\ [Next]_vars => PrintTypeOK'
  BY PrintTyped
<1> QED
  BY <1>1, <1>2 DEF Inv

\* All that the trees, the walks over them and the printer keep is well typed;
\* the printer's depth counter, which it counts below zero, stays in its range.
THEOREM SpecPrinterTypeOK == Spec => []TypeOK
<1>1. Inv => TypeOK
  BY DEF Inv, TreeInv, WalkInv, PrintTypeOK, TypeOK
<1> QED
  BY <1>1, InvBegins, InvKept, PTL DEF Spec

-----------------------------------------------------------------------------
(* The counters of levels.                                                 *)

\* A node with a hook of its own was opened, or closed, in o.
Hooked(o, what) == \E j \in DOMAIN o : o[j].what = what /\ Overridden(o[j].node)

\* A node whose hook or whose parts indent otherwise was opened in o.
Skewing(n) == Kind(n) \in {"plain", "forStmt", "stringExpr"}
Skewed(o) == \E j \in DOMAIN o : o[j].what = "open" /\ Skewing(o[j].node)

Plains(st) == {i \in 2 .. Len(st) : ~Overridden(st[i].node)}

\* Before a hook is entered the depth is that of the frames, and before one is left
\* it counts those of the frames that counted; nothing is closed but on its way out.
DepthCounts ==
    /\ ~Hooked(out, "open") => depth = Len(stack) - 1
    /\ ~Hooked(out, "close") => /\ depth = Cardinality(Plains(stack))
                                /\ \A i \in 2 .. Len(stack) : ~Inline(stack[i].node)

\* Before something indents otherwise, whatever has children left indents them.
IndentCounts ==
    ~Skewed(out) =>
        /\ \A i \in 2 .. Len(stack) - 1 : stack[i].indented
        /\ Len(stack) > 1 => stack[Len(stack)].indented \/ stack[Len(stack)].todo = <<>>
        /\ indent = IF Len(stack) = 1 THEN 0
                    ELSE IF stack[Len(stack)].indented THEN Len(stack) - 1 ELSE Len(stack) - 2

LevelsInv ==
    /\ LevelsCounted
    /\ job = "idle" => out = <<>>
    /\ job = "print" /\ ~done => DepthCounts /\ IndentCounts /\ Len(nodes) < DepthRange

\* What is printed in addition.
LEMMA MorePrinted ==
    ASSUME NEW T, NEW o \in Seq(T), NEW more \in Seq(T), NEW p, p = o \o more
    PROVE  /\ Len(o) \in Nat /\ Len(more) \in Nat
           /\ DOMAIN o = 1 .. Len(o) /\ DOMAIN p = 1 .. Len(o) + Len(more)
           /\ \A i \in 1 .. Len(o) : p[i] = o[i]
           /\ \A i \in 1 .. Len(more) : p[Len(o) + i] = more[i]
           /\ \A i \in DOMAIN p : i \in 1 .. Len(o) \/ i - Len(o) \in 1 .. Len(more)
<1>1. /\ Len(o) \in Nat /\ Len(more) \in Nat /\ DOMAIN o = 1 .. Len(o)
      /\ p \in Seq(T) /\ Len(p) = Len(o) + Len(more) /\ DOMAIN p = 1 .. Len(p)
      /\ \A i \in 1 .. Len(p) : p[i] = IF i <= Len(o) THEN o[i] ELSE more[i - Len(o)]
  BY ConcatProperties, LenProperties
<1>2. \A i \in 1 .. Len(o) : p[i] = o[i]
  BY <1>1
<1>3. \A i \in 1 .. Len(more) : p[Len(o) + i] = more[i]
  <2> TAKE i \in 1 .. Len(more)
  <2>1. Len(o) + i \in 1 .. Len(p) /\ ~(Len(o) + i <= Len(o)) /\ (Len(o) + i) - Len(o) = i
    BY <1>1
  <2> QED
    BY <1>1, <2>1
<1>4. \A i \in DOMAIN p : i \in 1 .. Len(o) \/ i - Len(o) \in 1 .. Len(more)
  BY <1>1
<1> QED
  BY <1>1, <1>2, <1>3, <1>4

\* What was hooked or skewed before stays so, and the promise about each piece is
\* about those before it.
LEMMA CountedOn ==
    ASSUME TreeTypeOK, LevelsCounted, NEW T, out \in Seq(T), NEW more \in Seq(T),
           nodes' = nodes, config' = config, out' = out \o more,
           \A k \in 1 .. Len(more) :
              /\ more[k].what = "dots" =>
                    /\ config.maxDepth > 0
                    /\ more[k].level >= config.maxDepth \/ Hooked(out, "close")
              /\ more[k].what = "open" =>
                    /\ \/ config.maxDepth = 0
                       \/ more[k].level < config.maxDepth
                       \/ Hooked(out, "open")
                    /\ ~Skewed(out) => more[k].indent = more[k].level
    PROVE  /\ LevelsCounted'
           /\ Hooked(out, "open") => Hooked(out, "open")'
           /\ Hooked(out, "close") => Hooked(out, "close")'
           /\ Skewed(out) => Skewed(out)'
           /\ \A k \in 1 .. Len(more) :
                 /\ more[k].what = "open" /\ Overridden(more[k].node) => Hooked(out, "open")'
                 /\ more[k].what = "close" /\ Overridden(more[k].node) => Hooked(out, "close")'
                 /\ more[k].what = "open" /\ Skewing(more[k].node) => Skewed(out)'
<1> DEFINE L == Len(out)
<1>1. /\ L \in Nat /\ Len(more) \in Nat
      /\ DOMAIN out = 1 .. L /\ DOMAIN out' = 1 .. L + Len(more)
      /\ \A i \in 1 .. L : out'[i] = out[i]
      /\ \A i \in 1 .. Len(more) : out'[L + i] = more[i]
      /\ \A i \in DOMAIN out' : i \in 1 .. L \/ i - L \in 1 .. Len(more)
  <2>1. PICK o, p : o = out /\ p = out'
    OBVIOUS
  <2>2. o \in Seq(T) /\ more \in Seq(T) /\ p = o \o more
    BY <2>1
  <2> HIDE DEF L
  <2>3. /\ Len(o) \in Nat /\ Len(more) \in Nat
        /\ DOMAIN o = 1 .. Len(o) /\ DOMAIN p = 1 .. Len(o) + Len(more)
        /\ \A i \in 1 .. Len(o) : p[i] = o[i]
        /\ \A i \in 1 .. Len(more) : p[Len(o) + i] = more[i]
        /\ \A i \in DOMAIN p : i \in 1 .. Len(o) \/ i - Len(o) \in 1 .. Len(more)
    BY <2>2, MorePrinted
  <2>4. L = Len(o)
    BY <2>1 DEF L
  <2> QED
    BY <2>1, <2>3, <2>4
<1>2. /\ \A n : Kind(n)' = Kind(n) /\ (Overridden(n)' <=> Overridden(n))
      /\ \A n : Skewing(n)' <=> Skewing(n)
  BY DEF Kind, Overridden, Skewing
<1>3. /\ \A i \in 1 .. L : i \in DOMAIN out' /\ \A j \in 1 .. i - 1 : j \in 1 .. L
      /\ \A k \in 1 .. Len(more) : /\ L + k \in DOMAIN out'
                                   /\ \A j \in 1 .. L : j \in 1 .. (L + k) - 1
  BY <1>1
<1> HIDE DEF L
<1>4. DepthLimit'
  <2> SUFFICES ASSUME NEW i \in DOMAIN out'
               PROVE  LET left == \E j \in 1 .. i - 1 :
                                     out'[j].what = "close" /\ Overridden(out'[j].node)
                          within == \E j \in 1 .. i - 1 :
                                     out'[j].what = "open" /\ Overridden(out'[j].node)
                      IN  /\ out'[i].what = "dots" =>
                                /\ config.maxDepth > 0
                                /\ out'[i].level >= config.maxDepth \/ left
                          /\ out'[i].what = "open" =>
                                config.maxDepth = 0 \/ out'[i].level < config.maxDepth \/ within
    BY <1>2 DEF DepthLimit
  <2>1. CASE i \in 1 .. L
    <3>1. \A j \in 1 .. i - 1 : out'[j] = out[j]
      BY <1>1, <1>3, <2>1
    <3>2. out'[i] = out[i] /\ i \in DOMAIN out
      BY <1>1, <2>1
    <3> QED
      BY <3>1, <3>2 DEF LevelsCounted, DepthLimit
  <2>2. ASSUME NEW k \in 1 .. Len(more), i = L + k
        PROVE  LET left == \E j \in 1 .. i - 1 :
                              out'[j].what = "close" /\ Overridden(out'[j].node)
                   within == \E j \in 1 .. i - 1 :
                              out'[j].what = "open" /\ Overridden(out'[j].node)
               IN  /\ out'[i].what = "dots" =>
                         /\ config.maxDepth > 0
                         /\ out'[i].level >= config.maxDepth \/ left
                   /\ out'[i].what = "open" =>
                         config.maxDepth = 0 \/ out'[i].level < config.maxDepth \/ within
    <3>1. out'[i] = more[k]
      BY <1>1, <2>2
    <3>2. ASSUME NEW what, Hooked(out, what)
          PROVE  \E j \in 1 .. i - 1 : out'[j].what = what /\ Overridden(out'[j].node)
      <4>1. PICK j \in 1 .. L : out[j].what = what /\ Overridden(out[j].node)
        BY <1>1, <3>2 DEF Hooked
      <4> QED
        BY <1>1, <1>3, <2>2, <4>1
    <3>3. /\ Hooked(out, "close") =>
                \E j \in 1 .. i - 1 : out'[j].what = "close" /\ Overridden(out'[j].node)
          /\ Hooked(out, "open") =>
                \E j \in 1 .. i - 1 : out'[j].what = "open" /\ Overridden(out'[j].node)
      BY <3>2
    <3> QED
      BY <3>1, <3>3
  <2>3. i \in 1 .. L \/ (i - L \in 1 .. Len(more) /\ i = L + (i - L))
    BY <1>1
  <2> QED
    BY <2>1, <2>2, <2>3
<1>5. IndentedByDepth'
  <2> SUFFICES ASSUME NEW i \in DOMAIN out', out'[i].what = "open",
                      \A j \in 1 .. i - 1 : out'[j].what = "open" => ~Skewing(out'[j].node)
               PROVE  out'[i].indent = out'[i].level
    BY <1>2 DEF IndentedByDepth, Pieces, Skewing
  <2>1. CASE i \in 1 .. L
    <3>1. \A j \in 1 .. i - 1 : out'[j] = out[j]
      BY <1>1, <1>3, <2>1
    <3>2. out'[i] = out[i] /\ i \in DOMAIN out
      BY <1>1, <2>1
    <3> QED
      BY <3>1, <3>2 DEF LevelsCounted, IndentedByDepth, Pieces, Skewing
  <2>2. ASSUME NEW k \in 1 .. Len(more), i = L + k
        PROVE  out'[i].indent = out'[i].level
    <3>1. out'[i] = more[k]
      BY <1>1, <2>2
    <3>2. ~Skewed(out)
      <4> SUFFICES ASSUME NEW j \in 1 .. L, out[j].what = "open", Skewing(out[j].node)
                   PROVE  FALSE
        BY <1>1 DEF Skewed
      <4> QED
        BY <1>1, <1>3, <2>2
    <3> QED
      BY <3>1, <3>2
  <2>3. i \in 1 .. L \/ (i - L \in 1 .. Len(more) /\ i = L + (i - L))
    BY <1>1
  <2> QED
    BY <2>1, <2>2, <2>3
<1>6. \A what : Hooked(out, what) => Hooked(out, what)'
  BY <1>1, <1>2, <1>3 DEF Hooked
<1>7. Skewed(out) => Skewed(out)'
  BY <1>1, <1>2, <1>3 DEF Skewed
<1>8. ASSUME NEW k \in 1 .. Len(more)
      PROVE  /\ \A what : more[k].what = what /\ Overridden(more[k].node) => Hooked(out, what)'
             /\ more[k].what = "open" /\ Skewing(more[k].node) => Skewed(out)'
  <2>1. L + k \in DOMAIN out' /\ out'[L + k] = more[k]
    BY <1>1, <1>3
  <2> QED
    BY <1>2, <2>1 DEF Hooked, Skewed
<1> QED
  BY <1>4, <1>5, <1>6, <1>7, <1>8 DEF LevelsCounted

LEMMA SmallRemainder ==
    ASSUME NEW a \in Nat, NEW b \in Nat, a < b
    PROVE  a % b = a /\ (a + b) % b = a
<1>1. a % b = a
  OBVIOUS
<1>2. a + b = 1 * b + a
  OBVIOUS
<1>3. (a + b) % b = a
  BY <1>2
<1> QED
  BY <1>1, <1>3

\* A frame more counts if its node has no hook of its own.
LEMMA PlainsOneMore ==
    ASSUME NEW st, NEW more, Len(st) \in Nat, Len(st) >= 1, Len(more) = Len(st) + 1,
           \A i \in 2 .. Len(st) : more[i].node = st[i].node
    PROVE  /\ Cardinality(Plains(st)) \in 0 .. Len(st) - 1
           /\ Cardinality(Plains(more)) =
                 IF Overridden(more[Len(more)].node) THEN Cardinality(Plains(st))
                 ELSE Cardinality(Plains(st)) + 1
<1> DEFINE S == Plains(st)
           l == Len(st) + 1
<1>1. IsFiniteSet(2 .. Len(st)) /\ Cardinality(2 .. Len(st)) = Len(st) - 1
  BY FS_Interval
<1>2. S \in SUBSET (2 .. Len(st))
  BY DEF Plains
<1>3. IsFiniteSet(S) /\ Cardinality(S) <= Len(st) - 1
  <2> HIDE DEF S
  <2> QED
    BY <1>1, <1>2, FS_Subset
<1>4. Cardinality(S) \in Nat
  BY <1>3, FS_CardinalityType
<1>5. /\ l \notin S /\ l \in 2 .. Len(more) /\ l = Len(more)
      /\ \A i \in 2 .. Len(more) : i = l \/ i \in 2 .. Len(st)
      /\ \A i \in 2 .. Len(st) : i \in 2 .. Len(more)
  BY <1>2
<1>6. Cardinality(S \cup {l}) = Cardinality(S) + 1
  BY <1>3, <1>5, FS_AddElement
<1>7. Plains(more) = IF Overridden(more[l].node) THEN S ELSE S \cup {l}
  <2> HIDE DEF l
  <2>1. \A i : i \in Plains(more) <=> i \in S \/ (i = l /\ ~Overridden(more[l].node))
    BY <1>5 DEF Plains
  <2> HIDE DEF S
  <2> QED
    BY <2>1
<1> HIDE DEF S
<1> QED
  BY <1>3, <1>4, <1>5, <1>6, <1>7 DEF S

LEMMA PlainsSame ==
    ASSUME NEW st, NEW more, Len(more) = Len(st), \A i \in 2 .. Len(st) : more[i].node = st[i].node
    PROVE  Plains(more) = Plains(st)
BY DEF Plains

\* No more nodes are being visited than there are.
LEMMA FewFrames ==
    ASSUME TreeTypeOK, NEW st, NEW seen, Frames(st, seen), seen \subseteq Nodes
    PROVE  Len(st) \in Nat /\ Len(st) - 1 <= Len(nodes)
<1> DEFINE L == Len(st)
           D == 2 .. L
           f == [i \in D |-> st[i].node]
<1>1. L \in Nat /\ L >= 1 /\ Len(nodes) \in Nat /\ Nodes = 1 .. Len(nodes)
  BY NodesAre, LenProperties DEF Frames
<1>2. \A i \in D : st[i].node \in Nodes
  BY DEF Frames
<1>3. \A i, j \in D : st[i].node = st[j].node => i = j
  BY DEF Frames
<1>4. Cardinality(D) = L - 1 /\ IsFiniteSet(Nodes) /\ Cardinality(Nodes) = Len(nodes)
  <2> HIDE DEF L
  <2>1. Cardinality(D) = L - 1
    BY <1>1, FS_Interval
  <2>2. IsFiniteSet(1 .. Len(nodes)) /\ Cardinality(1 .. Len(nodes)) = Len(nodes)
    <3> DEFINE m == Len(nodes)
    <3>1. m \in Nat
      BY <1>1
    <3> HIDE DEF m
    <3>2. IsFiniteSet(1 .. m) /\ Cardinality(1 .. m) = IF 1 > m THEN 0 ELSE m - 1 + 1
      BY <3>1, FS_Interval
    <3>3. IsFiniteSet(1 .. m) /\ Cardinality(1 .. m) = m
      BY <3>1, <3>2
    <3> QED
      BY <3>3 DEF m
  <2> QED
    BY <1>1, <2>1, <2>2
<1>5. f \in Injection(D, Nodes)
  <2> HIDE DEF D
  <2> QED
    BY <1>2, <1>3 DEF Injection, IsInjective
<1> HIDE DEF D, f
<1>6. Cardinality(D) <= Cardinality(Nodes)
  BY <1>4, <1>5, FS_Injection
<1> QED
  BY <1>1, <1>4, <1>6

\* The state of a print in progress
LEMMA PrintingIs ==
    ASSUME Inv, LevelsInv, Printing
    PROVE  /\ TreeTypeOK /\ out \in Seq(Piece) /\ indent \in Nat
           /\ depth \in 0 .. DepthRange - 1 /\ DepthRange \in Nat
           /\ job = "print" /\ ~done /\ job' = "print" /\ ~done'
           /\ nodes' = nodes /\ config' = config
           /\ LevelsCounted /\ DepthCounts /\ IndentCounts /\ Len(nodes) < DepthRange
           /\ stack \in Seq(Frame) /\ Len(stack) \in Nat /\ Len(stack) >= 1
           /\ Last(stack) = stack[Len(stack)]
           /\ \A i \in 2 .. Len(stack) : stack[i].node \in Nodes
           /\ Frames(stack, ToSet(entered))
           /\ Len(stack) - 1 <= Len(nodes)
<1>1. TreeTypeOK /\ WalkInv /\ PrintTypeOK
  BY DEF Inv, TreeInv
<1>2. /\ job = "print" /\ ~done /\ job' = "print" /\ ~done' /\ nodes' = nodes /\ config' = config
  BY DEF Printing, Running, treeVars
<1>3. /\ stack \in Seq(Frame) /\ Len(stack) \in Nat /\ Len(stack) >= 1
      /\ \A i \in 2 .. Len(stack) : stack[i].node \in Nodes
      /\ Frames(stack, ToSet(entered)) /\ root \in Nodes
  BY <1>1, <1>2, WalkTyped
<1>4. Last(stack) = stack[Len(stack)]
  BY <1>3, FramesAre
<1>5. Len(stack) - 1 <= Len(nodes)
  <2>1. ToSet(entered) \subseteq Nodes
    BY <1>3 DEF Frames, Below
  <2> QED
    BY <1>1, <1>3, <2>1, FewFrames
<1>6. /\ out \in Seq(Piece) /\ indent \in Nat /\ depth \in 0 .. DepthRange - 1
  BY <1>1 DEF PrintTypeOK
<1>7. LevelsCounted /\ DepthCounts /\ IndentCounts /\ Len(nodes) < DepthRange
  BY <1>2 DEF LevelsInv
<1>8. DepthRange \in Nat
  BY DepthAssumption
<1> QED
  BY <1>1, <1>2, <1>3, <1>4, <1>5, <1>6, <1>7, <1>8

LEMMA KindsStay ==
    ASSUME nodes' = nodes
    PROVE  /\ \A n : /\ Overridden(n)' <=> Overridden(n)
                     /\ Skewing(n)' <=> Skewing(n)
                     /\ Inline(n)' <=> Inline(n)
           /\ \A st : Plains(st)' = Plains(st)
BY DEF Kind, Overridden, Skewing, Inline, Plains

\* A step of the top frame that enters nothing leaves the counters right.
LEMMA AdvanceCounts ==
    ASSUME Inv, LevelsInv, Printing, stack' = Advanced, Last(stack).todo # <<>>,
           UNCHANGED <<depth, indent>>,
           Hooked(out, "open") => Hooked(out, "open")',
           Hooked(out, "close") => Hooked(out, "close")',
           Skewed(out) => Skewed(out)'
    PROVE  DepthCounts' /\ IndentCounts'
<1>1. /\ stack \in Seq(Frame) /\ Len(stack) \in Nat /\ Len(stack) >= 1
      /\ Last(stack) = stack[Len(stack)] /\ nodes' = nodes
      /\ DepthCounts /\ IndentCounts
  BY PrintingIs
<1>2. /\ Len(stack') = Len(stack)
      /\ \A i \in 1 .. Len(stack) : /\ stack'[i].node = stack[i].node
                                    /\ stack'[i].indented = stack[i].indented
                                    /\ i # Len(stack) => stack'[i] = stack[i]
  BY <1>1, AdvancedIs
<1>3. \A i \in 2 .. Len(stack) : stack'[i].node = stack[i].node
  BY <1>1, <1>2
<1>4. Plains(stack)' = Plains(stack)
  <2>1. PICK st : st = stack'
    OBVIOUS
  <2>2. Plains(st) = Plains(stack)
    BY <1>2, <1>3, <2>1, PlainsSame
  <2>3. Plains(st)' = Plains(st)
    BY <1>1, KindsStay
  <2>4. Plains(stack)' = Plains(st)'
    BY <2>1 DEF Plains
  <2> QED
    BY <2>2, <2>3, <2>4
<1>5. DepthCounts'
  <2>1. ~Hooked(out, "open")' => depth' = Len(stack') - 1
    BY <1>1, <1>2 DEF DepthCounts
  <2>2. ASSUME ~Hooked(out, "close")'
        PROVE  /\ depth' = Cardinality(Plains(stack)')
               /\ (\A i \in 2 .. Len(stack) : ~Inline(stack[i].node))'
    <3>1. depth = Cardinality(Plains(stack)) /\ \A i \in 2 .. Len(stack) : ~Inline(stack[i].node)
      BY <1>1, <2>2 DEF DepthCounts
    <3>3. \A i \in 2 .. Len(stack') : ~Inline(stack'[i].node)
      BY <1>2, <1>3, <3>1
    <3>4. (\A i \in 2 .. Len(stack) : ~Inline(stack[i].node))'
      BY <1>1, <3>3 DEF Inline, Kind
    <3> QED
      BY <1>4, <3>1, <3>4
  <2> QED
    BY <2>1, <2>2 DEF DepthCounts
<1>6. IndentCounts'
  <2> SUFFICES ASSUME ~Skewed(out)'
               PROVE  /\ \A i \in 2 .. Len(stack') - 1 : stack'[i].indented
                      /\ Len(stack') > 1 => stack'[Len(stack')].indented
                      /\ indent' = IF Len(stack') = 1 THEN 0
                                   ELSE IF stack'[Len(stack')].indented THEN Len(stack') - 1
                                   ELSE Len(stack') - 2
    BY DEF IndentCounts
  <2>1. /\ \A i \in 2 .. Len(stack) - 1 : stack[i].indented
        /\ Len(stack) > 1 => stack[Len(stack)].indented
        /\ indent = IF Len(stack) = 1 THEN 0
                    ELSE IF stack[Len(stack)].indented THEN Len(stack) - 1 ELSE Len(stack) - 2
    BY <1>1 DEF IndentCounts
  <2>2. \A i \in 1 .. Len(stack) : stack'[i].indented = stack[i].indented
    BY <1>2
  <2>3. Len(stack) \in 1 .. Len(stack) /\ \A i \in 2 .. Len(stack) - 1 : i \in 1 .. Len(stack)
    BY <1>1
  <2> QED
    BY <1>2, <2>1, <2>2, <2>3
<1> QED
  BY <1>5, <1>6

LEMMA SameOutput ==
    ASSUME nodes' = nodes, config' = config, out' = out
    PROVE  /\ LevelsCounted' <=> LevelsCounted
           /\ \A what : Hooked(out, what)' <=> Hooked(out, what)
           /\ Skewed(out)' <=> Skewed(out)
BY DEF LevelsCounted, DepthLimit, IndentedByDepth, Pieces, Hooked, Skewed, Kind, Overridden, Skewing

LEMMA NoOutput == out = <<>> => LevelsCounted /\ \A what : ~Hooked(out, what)
BY DEF LevelsCounted, DepthLimit, IndentedByDepth, Pieces, Hooked

LEMMA LevelsGoOn ==
    ASSUME Inv, LevelsInv, Printing, LevelsCounted', DepthCounts', IndentCounts'
    PROVE  LevelsInv'
<1>1. job' # "idle" /\ nodes' = nodes /\ Len(nodes) < DepthRange
  BY PrintingIs
<1> QED
  BY <1>1 DEF LevelsInv

LEMMA SkipCounts ==
    ASSUME Inv, LevelsInv, NEW n \in Nodes, SkipNode(n)
    PROVE  LevelsInv'
<1>1. /\ Printing /\ stack' = Advanced /\ Last(stack).todo # <<>> /\ UNCHANGED <<depth, indent>>
      /\ out' = out
  BY NextStepIs DEF SkipNode
<1>2. nodes' = nodes /\ config' = config /\ LevelsCounted
  BY <1>1, PrintingIs
<1>3. LevelsCounted' /\ (\A what : Hooked(out, what)' <=> Hooked(out, what))
      /\ (Skewed(out)' <=> Skewed(out))
  BY <1>1, <1>2, SameOutput
<1>4. DepthCounts' /\ IndentCounts'
  BY <1>1, <1>3, AdvanceCounts
<1> QED
  BY <1>1, <1>3, <1>4, LevelsGoOn

\* What is cut is at the limit, if nothing was left that had not been counted.
LEMMA CutCounts ==
    ASSUME Inv, LevelsInv, NEW n \in Nodes, CutNode(n)
    PROVE  LevelsInv'
<1> DEFINE piece == Put("dots", n)
           more == <<piece>>
<1>1. /\ Printing /\ stack' = Advanced /\ Last(stack).todo # <<>> /\ UNCHANGED <<depth, indent>>
      /\ out' = Append(out, piece) /\ Cut
  BY NextStepIs DEF CutNode
<1>2. /\ nodes' = nodes /\ config' = config /\ LevelsCounted /\ TreeTypeOK
      /\ out \in Seq(Piece) /\ indent \in Nat /\ Len(stack) \in Nat /\ Len(stack) >= 1
      /\ DepthCounts
  BY <1>1, PrintingIs
<1>3. /\ piece.what = "dots" /\ piece.level = Len(stack) - 1 /\ piece \in Piece
  BY <1>2, PutTyped DEF Put
<1>4. config.maxDepth > 0 /\ (Len(stack) - 1 >= config.maxDepth \/ Hooked(out, "close"))
  <2>1. config.maxDepth > 0 /\ depth >= config.maxDepth
    BY <1>1 DEF Cut
  <2>2. CASE ~Hooked(out, "close")
    <3>1. depth = Cardinality(Plains(stack))
      BY <1>2, <2>2 DEF DepthCounts
    <3>2. Cardinality(Plains(stack)) \in 0 .. Len(stack) - 1
      <4> DEFINE st == Append(stack, stack[1])
      <4>1. Len(st) = Len(stack) + 1 /\ \A i \in 2 .. Len(stack) : st[i].node = stack[i].node
        BY <1>2
      <4> HIDE DEF st
      <4> QED
        BY <1>2, <4>1, PlainsOneMore
    <3>3. config.maxDepth \in Nat
      BY DepthAssumption DEF Inv, PrintTypeOK, Config
    <3> QED
      BY <1>2, <2>1, <3>1, <3>2, <3>3
  <2> QED
    BY <2>1, <2>2
<1> HIDE DEF piece
<1>5. more \in Seq(Piece) /\ Len(more) = 1 /\ more[1] = piece /\ out' = out \o more
  BY <1>1, <1>2, <1>3
<1> HIDE DEF more
<1>6. \A k \in 1 .. Len(more) : more[k] = piece
  BY <1>5
<1>7. /\ LevelsCounted'
      /\ Hooked(out, "open") => Hooked(out, "open")'
      /\ Hooked(out, "close") => Hooked(out, "close")'
      /\ Skewed(out) => Skewed(out)'
  BY <1>2, <1>3, <1>4, <1>5, <1>6, CountedOn
<1>8. DepthCounts' /\ IndentCounts'
  BY <1>1, <1>7, AdvanceCounts
<1> QED
  BY <1>1, <1>7, <1>8, LevelsGoOn

\* A text, or the bracket of a string on one line
LEMMA TextCounts ==
    ASSUME Inv, LevelsInv, PrintText
    PROVE  LevelsInv'
<1> DEFINE top == Last(stack)
           step == Head(top.todo)
           more == IF step.do = "text" THEN <<Put("text", step.node)>>
                   ELSE <<Put("attributes", top.node), Put("close", top.node)>>
<1>1. /\ Printing /\ stack' = Advanced /\ top.todo # <<>> /\ UNCHANGED <<depth, indent>>
      /\ out' = out \o more /\ step.do # "visit"
  BY DEF PrintText
<1>2. /\ nodes' = nodes /\ config' = config /\ LevelsCounted /\ TreeTypeOK
      /\ out \in Seq(Piece)
  BY <1>1, PrintingIs
<1>3. more \in Seq({more[k] : k \in DOMAIN more})
      /\ \A k \in 1 .. Len(more) : more[k].what \in {"text", "attributes", "close"}
  <2>1. CASE step.do = "text"
    BY <2>1 DEF Put
  <2>2. CASE step.do # "text"
    BY <2>2 DEF Put
  <2> QED
    BY <2>1, <2>2
<1> HIDE DEF more, step
<1> DEFINE M == {more[k] : k \in DOMAIN more}
           T == Piece \cup M
<1>4. out \in Seq(T) /\ more \in Seq(T)
  <2>1. Piece \subseteq T /\ M \subseteq T
    OBVIOUS
  <2>2. more \in Seq(M)
    BY <1>3
  <2> HIDE DEF T, M
  <2> QED
    BY <1>2, <2>1, <2>2, SeqMonotonic
<1> HIDE DEF T
<1>5. /\ LevelsCounted'
      /\ Hooked(out, "open") => Hooked(out, "open")'
      /\ Hooked(out, "close") => Hooked(out, "close")'
      /\ Skewed(out) => Skewed(out)'
  BY <1>1, <1>2, <1>3, <1>4, CountedOn
<1>6. DepthCounts' /\ IndentCounts'
  BY <1>1, <1>5, AdvanceCounts
<1> QED
  BY <1>1, <1>5, <1>6, LevelsGoOn

\* A hook opens its node first and no other, and closes one that is inline.
LEMMA PrintedIs ==
    ASSUME TreeTypeOK, indent \in Nat, Len(stack) \in Nat, Len(stack) >= 1, NEW n \in Nodes
    PROVE  /\ Printed(n) \in Seq(Piece) /\ Len(Printed(n)) \in Nat /\ Len(Printed(n)) >= 1
           /\ Printed(n)[1] = Put("open", n)
           /\ \A k \in 2 .. Len(Printed(n)) : Printed(n)[k].what \notin {"open", "dots"}
           /\ Inline(n) => \E k \in 1 .. Len(Printed(n)) : Printed(n)[k] = Put("close", n)
<1> DEFINE p == Printed(n)
<1>1. p \in Seq(Piece) /\ Len(p) \in Nat
  BY PrintedTyped, LenProperties
<1>2. /\ Put("open", n) \in Piece /\ Put("attributes", n) \in Piece /\ Put("close", n) \in Piece
      /\ Put("attributes", n).what = "attributes" /\ Put("close", n).what = "close"
  BY PutTyped DEF Put
<1> DEFINE Right ==
              /\ Len(p) >= 1 /\ p[1] = Put("open", n)
              /\ \A k \in 2 .. Len(p) : p[k].what \notin {"open", "dots"}
              /\ Inline(n) => \E k \in 1 .. Len(p) : p[k] = Put("close", n)
<1> SUFFICES Right
  BY <1>1
<1>3. CASE Inline(n)
  <2> DEFINE o == Opening(n)
             v == <<Put("close", n)>>
  <2>1. p = o \o v
    BY <1>3 DEF Printed, Inline
  <2>4. /\ o \in Seq(Piece) /\ Len(o) = 2 /\ o[1] = Put("open", n) /\ o[2] = Put("attributes", n)
        /\ v \in Seq(Piece) /\ Len(v) = 1 /\ v[1] = Put("close", n)
    BY <1>2 DEF Opening
  <2> HIDE DEF p, o, v
  <2>5. /\ DOMAIN p = 1 .. Len(o) + Len(v)
        /\ \A i \in 1 .. Len(o) : p[i] = o[i]
        /\ \A i \in 1 .. Len(v) : p[Len(o) + i] = v[i]
    <3>1. o \in Seq(Piece) /\ v \in Seq(Piece)
      BY <2>4
    <3> QED
      BY <2>1, <3>1, MorePrinted
  <2>2. Len(p) = 3 /\ p[1] = Put("open", n) /\ p[2] = Put("attributes", n)
        /\ p[3] = Put("close", n)
    <3>1. DOMAIN p = 1 .. Len(p)
      BY <1>1, LenProperties
    <3> QED
      BY <1>1, <2>4, <2>5, <3>1
  <2>3. \A k \in 2 .. Len(p) : k = 2 \/ k = 3
    BY <2>2
  <2> QED
    BY <1>1, <1>2, <2>2, <2>3
<1>4. CASE Kind(n) = "primitive"
  <2>1. p = PrimitiveType(n) /\ ~Inline(n)
    BY <1>4 DEF Printed, Inline
  <2> HIDE DEF p
  <2>2. CASE config.compact
    <3>1. Len(p) = 3 /\ p[1] = Put("open", n) /\ p[2] = Put("attributes", n)
          /\ p[3] = Put("close", n)
      BY <2>1, <2>2 DEF PrimitiveType
    <3>2. \A k \in 2 .. Len(p) : k = 2 \/ k = 3
      BY <3>1
    <3> QED
      BY <1>1, <1>2, <2>1, <3>1, <3>2
  <2>3. CASE ~config.compact
    <3>1. Len(p) = 1 /\ p[1] = Put("open", n)
      BY <2>1, <2>3 DEF PrimitiveType
    <3> QED
      BY <1>1, <1>2, <2>1, <3>1
  <2> QED
    BY <2>2, <2>3
<1>5. CASE Kind(n) = "forStmt"
  <2> DEFINE o == Opening(n)
             v == Variables(n)
  <2>1. p = o \o v /\ ~Inline(n)
    BY <1>5 DEF Printed, Inline
  <2>2. o \in Seq(Piece) /\ Len(o) = 2 /\ o[1] = Put("open", n) /\ o[2] = Put("attributes", n)
    BY <1>2 DEF Opening
  <2>3. \A i \in DOMAIN v : v[i].what \notin {"open", "dots"}
    <3> TAKE i \in DOMAIN v
    <3>1. v[i] = Put(IF Kind(nodes[n].items[i]) = "leaf" THEN "name" ELSE "error",
                    nodes[n].items[i])
      BY DEF Variables
    <3> QED
      BY <3>1 DEF Put
  <2>4. v \in Seq({v[i] : i \in DOMAIN v})
    <3>1. nodes[n].items \in Seq(Nodes)
      BY NodesAre
    <3>2. DOMAIN v = 1 .. Len(nodes[n].items) /\ Len(nodes[n].items) \in Nat
          /\ v = [i \in DOMAIN v |-> v[i]]
      BY <3>1, LenProperties DEF Variables
    <3> HIDE DEF v
    <3>3. v \in [1 .. Len(nodes[n].items) -> {v[i] : i \in DOMAIN v}]
      BY <3>2
    <3> QED
      BY <3>2, <3>3, SequenceOfLength
  <2> HIDE DEF p, o, v
  <2> DEFINE M == {v[i] : i \in DOMAIN v}
             T == Piece \cup M
  <2>5. o \in Seq(T) /\ v \in Seq(T)
    <3>1. Piece \subseteq T /\ M \subseteq T /\ v \in Seq(M)
      BY <2>4
    <3> HIDE DEF T, M
    <3> QED
      BY <2>2, <3>1, SeqMonotonic
  <2> HIDE DEF T
  <2>6. /\ Len(v) \in Nat /\ DOMAIN p = 1 .. Len(o) + Len(v)
        /\ \A i \in 1 .. Len(o) : p[i] = o[i]
        /\ \A i \in 1 .. Len(v) : p[Len(o) + i] = v[i]
        /\ \A i \in DOMAIN p : i \in 1 .. Len(o) \/ i - Len(o) \in 1 .. Len(v)
    BY <2>1, <2>5, MorePrinted
  <2>7. DOMAIN v = 1 .. Len(v) /\ DOMAIN p = 1 .. Len(p)
    BY <1>1, <2>5, LenProperties
  <2>8. p[1] = Put("open", n) /\ p[2] = Put("attributes", n) /\ Len(p) >= 1
    BY <1>1, <2>2, <2>6, <2>7
  <2>9. ASSUME NEW k \in 2 .. Len(p)
        PROVE  p[k].what \notin {"open", "dots"}
    <3>1. CASE k = 2
      BY <1>2, <2>8, <3>1
    <3>2. CASE k # 2
      <4>1. k - 2 \in 1 .. Len(v) /\ k = 2 + (k - 2)
        BY <1>1, <2>2, <2>6, <2>7, <3>2
      <4>2. p[k] = v[k - 2]
        BY <2>2, <2>6, <4>1
      <4> QED
        BY <2>3, <2>7, <4>1, <4>2
    <3> QED
      BY <3>1, <3>2
  <2> QED
    BY <2>1, <2>8, <2>9
<1>6. CASE ~Inline(n) /\ Kind(n) \notin {"primitive", "forStmt"}
  <2>1. p = <<Put("open", n), Put("attributes", n)>>
    BY <1>6 DEF Printed, Opening
  <2> HIDE DEF p
  <2>2. Len(p) = 2 /\ p[1] = Put("open", n) /\ p[2] = Put("attributes", n)
    BY <2>1
  <2>3. \A k \in 2 .. Len(p) : k = 2
    BY <2>2
  <2> QED
    BY <1>1, <1>2, <1>6, <2>2, <2>3
<1> QED
  BY <1>1, <1>3, <1>4, <1>5, <1>6

\* While nothing indents otherwise, a frame with something to visit is indented.
LEMMA IndentIsLevel ==
    ASSUME Inv, LevelsInv, Printing, Last(stack).todo # <<>>, ~Skewed(out)
    PROVE  indent = Len(stack) - 1 /\ \A i \in 2 .. Len(stack) : stack[i].indented
<1>1. /\ IndentCounts /\ Len(stack) \in Nat /\ Len(stack) >= 1
      /\ Last(stack) = stack[Len(stack)]
  BY PrintingIs
<1>2. /\ \A i \in 2 .. Len(stack) - 1 : stack[i].indented
      /\ Len(stack) > 1 => stack[Len(stack)].indented
      /\ indent = IF Len(stack) = 1 THEN 0
                  ELSE IF stack[Len(stack)].indented THEN Len(stack) - 1 ELSE Len(stack) - 2
  BY <1>1 DEF IndentCounts
<1>3. \A i \in 2 .. Len(stack) : i \in 2 .. Len(stack) - 1 \/ (i = Len(stack) /\ Len(stack) > 1)
  BY <1>1
<1>4. \A i \in 2 .. Len(stack) : stack[i].indented
  BY <1>2, <1>3
<1>5. indent = Len(stack) - 1
  <2>1. CASE Len(stack) = 1
    BY <1>2, <2>1
  <2>2. CASE Len(stack) # 1
    <3>2. Len(stack) > 1
      BY <1>1, <2>2
    <3>1. stack[Len(stack)].indented
      BY <1>2, <3>2
    <3> QED
      BY <1>2, <2>2, <3>1
  <2> QED
    BY <2>1, <2>2
<1> QED
  BY <1>4, <1>5

\* The depth before and behind a plain node
LEMMA DepthSteps ==
    ASSUME DepthRange \in Nat, NEW n
    PROVE  /\ depth \in Nat /\ depth + 1 < DepthRange =>
                 DepthWithin(n) = IF Overridden(n) THEN depth ELSE depth + 1
           /\ depth \in Nat /\ depth > 0 /\ depth < DepthRange => DepthBehind(n) = depth - 1
<1>1. ASSUME depth \in Nat, depth + 1 < DepthRange
      PROVE  DepthWithin(n) = IF Overridden(n) THEN depth ELSE depth + 1
  <2> DEFINE a == depth + 1
  <2>1. a \in Nat /\ a < DepthRange
    BY <1>1
  <2> HIDE DEF a
  <2>2. a % DepthRange = a
    BY <2>1, SmallRemainder
  <2> QED
    BY <2>2 DEF DepthWithin, a
<1>2. ASSUME depth \in Nat, depth > 0, depth < DepthRange
      PROVE  DepthBehind(n) = depth - 1
  <2> DEFINE a == depth - 1
  <2>1. a \in Nat /\ a < DepthRange /\ depth + DepthRange - 1 = a + DepthRange
    BY <1>2
  <2> HIDE DEF a
  <2>2. (a + DepthRange) % DepthRange = a
    BY <2>1, SmallRemainder
  <2> QED
    BY <2>1, <2>2 DEF DepthBehind, a
<1> QED
  BY <1>1, <1>2

LEMMA NodeCounts ==
    ASSUME Inv, LevelsInv, NEW n \in Nodes, PrintNode(n)
    PROVE  LevelsInv'
<1> DEFINE L == Len(stack)
           more == Printed(n)
           f == [node |-> n, todo |-> ToVisit(n), indented |-> Descends(n)]
<1>1. /\ Printing /\ NextStep(Visit(n)) /\ Last(stack).todo # <<>> /\ ~Cut
      /\ stack' = Append(Advanced, f) /\ out' = out \o more /\ depth' = DepthWithin(n)
      /\ indent' = indent + HookIndents(n) + IF Descends(n) THEN 1 ELSE 0
  BY NextStepIs DEF PrintNode
<1>2. /\ nodes' = nodes /\ config' = config /\ LevelsCounted /\ TreeTypeOK
      /\ out \in Seq(Piece) /\ indent \in Nat /\ L \in Nat /\ L >= 1
      /\ stack \in Seq(Frame) /\ Last(stack) = stack[L] /\ Frames(stack, ToSet(entered))
      /\ DepthCounts /\ IndentCounts /\ Len(nodes) < DepthRange /\ Len(nodes) \in Nat
      /\ DepthRange \in Nat /\ depth \in 0 .. DepthRange - 1
  BY <1>1, PrintingIs, NodesAre
<1>3. /\ more \in Seq(Piece) /\ Len(more) \in Nat /\ Len(more) >= 1
      /\ more[1] = Put("open", n)
      /\ \A k \in 2 .. Len(more) : more[k].what \notin {"open", "dots"}
      /\ Inline(n) => \E k \in 1 .. Len(more) : more[k] = Put("close", n)
  BY <1>2, PrintedIs
<1>4. /\ Put("open", n).what = "open" /\ Put("open", n).level = L - 1
      /\ Put("open", n).indent = indent /\ Put("open", n).node = n
      /\ Put("close", n).what = "close" /\ Put("close", n).node = n
  BY DEF Put
<1>5. /\ Advanced \in Seq(Frame) /\ Len(Advanced) = L
      /\ \A i \in 1 .. L : /\ Advanced[i].node = stack[i].node
                           /\ Advanced[i].indented = stack[i].indented
  BY <1>2, <1>1, AdvancedIs
<1>6. /\ f.node = n /\ f.todo = ToVisit(n) /\ f.indented = Descends(n)
      /\ f \in Frame /\ Pending(ToVisit(n), n, {})
  <2>1. job # "idle" /\ ~done /\ TreeInv /\ WalkInv
    BY <1>1, RunningPrint DEF Inv
  <2>2. n \in Below(root) /\ root \in Nodes /\ IsTree(root)
    BY <1>1, <2>1, NextIsBelow, WalkTyped
  <2>3. Pending(ToVisit(n), n, {})
    BY <2>1, <2>2, ToVisitPending
  <2>4. ToVisit(n) \in Seq(Steps) /\ Descends(n) \in BOOLEAN
    BY <2>3 DEF Pending, Descends
  <2> QED
    BY <2>3, <2>4 DEF Frame, MaybeNode
<1> HIDE DEF f, L, more
<1>7. PICK st : st = Append(Advanced, f)
  OBVIOUS
<1>8. /\ Len(st) = L + 1 /\ st[L + 1] = f /\ \A i \in 1 .. L : st[i] = Advanced[i]
  <2>1. DOMAIN Advanced = 1 .. L
    BY <1>5, LenProperties
  <2> QED
    BY <1>5, <1>6, <1>7, <2>1, AppendProperties
<1>9. /\ \A i \in 2 .. L : st[i].node = stack[i].node
      /\ \A i \in 2 .. L : st[i].indented = stack[i].indented
      /\ st[L + 1].node = n /\ st[L + 1].todo = ToVisit(n) /\ st[L + 1].indented = Descends(n)
      /\ \A i \in 2 .. L + 1 : i \in 2 .. L \/ i = L + 1
  <2>1. \A i \in 2 .. L : i \in 1 .. L
    BY <1>2
  <2>2. \A i \in 2 .. L + 1 : i \in 2 .. L \/ i = L + 1
    BY <1>2
  <2> QED
    BY <1>5, <1>6, <1>8, <2>1, <2>2
<1>10. L <= Len(nodes)
  <2>1. TreeInv /\ WalkInv /\ root \in Nodes /\ IsTree(root)
    <3>1. job # "idle" /\ ~done /\ WalkInv /\ TreeInv
      BY <1>1, RunningPrint DEF Inv
    <3> QED
      BY <3>1, WalkTyped
  <2>2. Frames(st, ToSet(entered) \cup {n})
    <3>1. Pending(f.todo, n, {}) /\ f \in Frame /\ f.node = n
      BY <1>6
    <3>2. Frames(Append(Advanced, f), ToSet(entered) \cup {n})
      BY <1>1, <1>2, <2>1, <3>1, FramesEntered
    <3> QED
      BY <1>7, <3>2
  <2>3. ToSet(entered) \cup {n} \subseteq Nodes
    BY <1>2, <2>1 DEF Frames, Below
  <2>4. Len(st) - 1 <= Len(nodes)
    BY <1>2, <2>2, <2>3, FewFrames
  <2> QED
    BY <1>2, <1>8, <2>4
<1>11. /\ Cardinality(Plains(stack)) \in 0 .. L - 1
       /\ Cardinality(Plains(st)) = IF Overridden(n) THEN Cardinality(Plains(stack))
                                    ELSE Cardinality(Plains(stack)) + 1
  <2>1. Len(st) = Len(stack) + 1 /\ Len(stack) \in Nat /\ Len(stack) >= 1
        /\ \A i \in 2 .. Len(stack) : st[i].node = stack[i].node
    BY <1>2, <1>8, <1>9 DEF L
  <2>2. st[Len(st)].node = n
    BY <1>8, <1>9
  <2> QED
    BY <2>1, <2>2, PlainsOneMore DEF L
<1>12. /\ \/ config.maxDepth = 0 \/ L - 1 < config.maxDepth \/ Hooked(out, "open")
       /\ ~Skewed(out) => indent = L - 1
  <2>1. config.maxDepth \in Nat
    BY DepthAssumption DEF Inv, PrintTypeOK, Config
  <2>2. ~Skewed(out) => indent = L - 1
    BY <1>1, IndentIsLevel DEF L
  <2>3. ~Hooked(out, "open") => depth = L - 1
    BY <1>2 DEF DepthCounts, L
  <2>4. config.maxDepth = 0 \/ depth < config.maxDepth
    BY <1>1, <1>2, <2>1 DEF Cut
  <2> QED
    BY <2>2, <2>3, <2>4
<1>13. ASSUME NEW k \in 1 .. Len(more)
       PROVE  /\ more[k].what = "dots" =>
                    /\ config.maxDepth > 0
                    /\ more[k].level >= config.maxDepth \/ Hooked(out, "close")
              /\ more[k].what = "open" =>
                    /\ \/ config.maxDepth = 0
                       \/ more[k].level < config.maxDepth
                       \/ Hooked(out, "open")
                    /\ ~Skewed(out) => more[k].indent = more[k].level
  <2>1. CASE k = 1
    BY <1>3, <1>4, <1>12, <2>1
  <2>2. CASE k # 1
    <3>1. k \in 2 .. Len(more)
      BY <1>3, <2>2
    <3>2. more[k].what \notin {"open", "dots"}
      BY <1>3, <3>1
    <3> QED
      BY <3>2
  <2> QED
    BY <2>1, <2>2
<1>14. /\ LevelsCounted'
       /\ Hooked(out, "open") => Hooked(out, "open")'
       /\ Hooked(out, "close") => Hooked(out, "close")'
       /\ Skewed(out) => Skewed(out)'
       /\ Overridden(n) => Hooked(out, "open")'
       /\ Inline(n) => Hooked(out, "close")'
       /\ Skewing(n) => Skewed(out)'
  <2>1. /\ LevelsCounted'
        /\ Hooked(out, "open") => Hooked(out, "open")'
        /\ Hooked(out, "close") => Hooked(out, "close")'
        /\ Skewed(out) => Skewed(out)'
        /\ \A k \in 1 .. Len(more) :
              /\ more[k].what = "open" /\ Overridden(more[k].node) => Hooked(out, "open")'
              /\ more[k].what = "close" /\ Overridden(more[k].node) => Hooked(out, "close")'
              /\ more[k].what = "open" /\ Skewing(more[k].node) => Skewed(out)'
    BY <1>1, <1>2, <1>3, <1>13, CountedOn
  <2>2. 1 \in 1 .. Len(more)
    BY <1>3
  <2>3. Inline(n) => Overridden(n)
    BY DEF Inline, Overridden
  <2> QED
    BY <1>3, <1>4, <2>1, <2>2, <2>3
<1>15. /\ ~Hooked(out, "open")' => depth' = L
       /\ ~Hooked(out, "close")' => depth' = Cardinality(Plains(st)) /\ ~Inline(n)
                                    /\ \A i \in 2 .. L : ~Inline(stack[i].node)
  <2>1. ASSUME depth <= L - 1
        PROVE  depth' = IF Overridden(n) THEN depth ELSE depth + 1
    <3>1. depth \in Nat /\ depth + 1 < DepthRange
      BY <1>2, <1>10, <2>1
    <3> QED
      BY <1>1, <1>2, <3>1, DepthSteps
  <2>2. ASSUME ~Hooked(out, "open")'
        PROVE  depth' = L
    <3>1. ~Overridden(n) /\ depth = L - 1
      BY <1>2, <1>14, <2>2 DEF DepthCounts, L
    <3>2. depth' = depth + 1
      BY <1>2, <2>1, <3>1
    <3> QED
      BY <1>2, <3>1, <3>2
  <2>3. ASSUME ~Hooked(out, "close")'
        PROVE  depth' = Cardinality(Plains(st)) /\ ~Inline(n)
               /\ \A i \in 2 .. L : ~Inline(stack[i].node)
    <3>1. ~Inline(n) /\ depth = Cardinality(Plains(stack))
          /\ \A i \in 2 .. L : ~Inline(stack[i].node)
      BY <1>2, <1>14, <2>3 DEF DepthCounts, L
    <3>2. depth' = IF Overridden(n) THEN depth ELSE depth + 1
      BY <1>2, <1>11, <2>1, <3>1
    <3> QED
      BY <1>11, <3>1, <3>2
  <2> QED
    BY <2>2, <2>3
<1>16. stack' = st
  BY <1>1, <1>7 DEF f
<1>17. DepthCounts'
  <2>1. Plains(stack)' = Plains(st)
    <3>1. Plains(st)' = Plains(st)
      BY <1>2, KindsStay
    <3> QED
      BY <1>16, <3>1 DEF Plains
  <2>2. ~Hooked(out, "open")' => depth' = Len(stack') - 1
    BY <1>2, <1>8, <1>15, <1>16
  <2>3. ~Hooked(out, "close")' => (\A i \in 2 .. Len(stack) : ~Inline(stack[i].node))'
    <3> SUFFICES ASSUME ~Hooked(out, "close")'
                 PROVE  \A i \in 2 .. L + 1 : ~Inline(st[i].node)
      BY <1>2, <1>8, <1>16 DEF Inline, Kind
    <3> QED
      BY <1>9, <1>15
  <2> QED
    BY <1>15, <2>1, <2>2, <2>3 DEF DepthCounts
<1>18. IndentCounts'
  <2> SUFFICES ASSUME ~Skewed(out)'
               PROVE  /\ \A i \in 2 .. L : st[i].indented
                      /\ st[L + 1].indented \/ st[L + 1].todo = <<>>
                      /\ indent' = IF st[L + 1].indented THEN L ELSE L - 1
    <3>1. Len(stack') = L + 1 /\ L + 1 > 1 /\ L + 1 # 1 /\ (L + 1) - 1 = L /\ (L + 1) - 2 = L - 1
      BY <1>2, <1>8, <1>16
    <3> QED
      BY <1>16, <3>1 DEF IndentCounts
  <2>1. indent = L - 1 /\ (\A i \in 2 .. L : stack[i].indented) /\ ~Skewing(n)
    BY <1>1, <1>14, IndentIsLevel DEF L
  <2>2. \A i \in 2 .. L : st[i].indented
    BY <1>9, <2>1
  <2>3. HookIndents(n) = 0
    BY <2>1 DEF HookIndents, Skewing
  <2>4. Descends(n) \/ ToVisit(n) = <<>>
    BY <2>1 DEF Descends, ToVisit, Skewing
  <2>5. indent' = IF Descends(n) THEN L ELSE L - 1
    BY <1>1, <1>2, <2>1, <2>3
  <2> QED
    BY <1>9, <2>2, <2>4, <2>5
<1> QED
  BY <1>1, <1>14, <1>17, <1>18, LevelsGoOn

LEMMA LeaveCounts ==
    ASSUME Inv, LevelsInv, LeavePrinted
    PROVE  LevelsInv'
<1> DEFINE L == Len(stack)
           n == Last(stack).node
           more == IF Inline(n) THEN <<>> ELSE <<Put("close", n)>>
<1>1. /\ Printing /\ Last(stack).todo = <<>> /\ L > 1 /\ stack' = Front(stack)
      /\ out' = IF Inline(n) THEN out ELSE Append(out, Put("close", n))
      /\ depth' = DepthBehind(n)
      /\ indent' = IF Last(stack).indented /\ indent > 0 THEN indent - 1 ELSE indent
  BY DEF LeavePrinted, NodeDone
<1>2. /\ nodes' = nodes /\ config' = config /\ LevelsCounted /\ TreeTypeOK
      /\ out \in Seq(Piece) /\ indent \in Nat /\ L \in Nat /\ L >= 1
      /\ stack \in Seq(Frame) /\ Last(stack) = stack[L] /\ Frames(stack, ToSet(entered))
      /\ DepthCounts /\ IndentCounts /\ Len(nodes) < DepthRange
      /\ DepthRange \in Nat /\ depth \in 0 .. DepthRange - 1
      /\ \A i \in 2 .. L : stack[i].node \in Nodes
  BY <1>1, PrintingIs
<1>3. n = stack[L].node /\ n \in Nodes
  <2>1. L \in 2 .. L
    BY <1>1, <1>2
  <2> QED
    BY <1>2, <2>1
<1>4. Put("close", n) \in Piece /\ Put("close", n).what = "close" /\ Put("close", n).node = n
  BY <1>2, <1>3, PutTyped DEF Put, L
<1> HIDE DEF n
<1>5. /\ more \in Seq(Piece) /\ out' = out \o more
      /\ \A k \in 1 .. Len(more) : more[k].what = "close"
      /\ ~Inline(n) => Len(more) = 1 /\ more[1].node = n
  <2>1. CASE Inline(n)
    <3>1. more = <<>> /\ Len(more) = 0 /\ out \o <<>> = out
      BY <1>2, <2>1, ConcatEmptySeq
    <3>2. out' = out
      BY <1>1, <2>1 DEF n
    <3> HIDE DEF more
    <3>3. more \in Seq(Piece) /\ \A k \in 1 .. Len(more) : more[k].what = "close"
      BY <3>1, EmptySeq
    <3>4. out' = out \o more
      BY <3>1, <3>2
    <3> QED
      BY <2>1, <3>3, <3>4
  <2>2. CASE ~Inline(n)
    <3>1. more = <<Put("close", n)>>
      BY <2>2
    <3>2. out' = Append(out, Put("close", n))
      BY <1>1, <2>2 DEF n
    <3> HIDE DEF more
    <3>3. more \in Seq(Piece) /\ Len(more) = 1 /\ more[1] = Put("close", n)
      BY <1>4, <3>1
    <3>4. out' = out \o more
      <4>1. PICK o, c : o = out /\ c = Put("close", n)
        OBVIOUS
      <4>2. Append(o, c) = o \o <<c>>
        BY <1>2, <1>4, <4>1, AppendIsConcat
      <4> QED
        BY <3>1, <3>2, <4>1, <4>2
    <3> QED
      BY <1>4, <2>2, <3>3, <3>4
  <2> QED
    BY <2>1, <2>2
<1> HIDE DEF more
<1>6. /\ LevelsCounted'
      /\ Hooked(out, "open") => Hooked(out, "open")'
      /\ Hooked(out, "close") => Hooked(out, "close")'
      /\ Skewed(out) => Skewed(out)'
      /\ Overridden(n) /\ ~Inline(n) => Hooked(out, "close")'
  <2>1. /\ LevelsCounted'
        /\ Hooked(out, "open") => Hooked(out, "open")'
        /\ Hooked(out, "close") => Hooked(out, "close")'
        /\ Skewed(out) => Skewed(out)'
        /\ \A k \in 1 .. Len(more) :
              /\ more[k].what = "open" /\ Overridden(more[k].node) => Hooked(out, "open")'
              /\ more[k].what = "close" /\ Overridden(more[k].node) => Hooked(out, "close")'
              /\ more[k].what = "open" /\ Skewing(more[k].node) => Skewed(out)'
    <3>1. \A k \in 1 .. Len(more) : more[k].what # "dots" /\ more[k].what # "open"
      BY <1>5
    <3>2. more \in Seq(Piece) /\ out' = out \o more
      BY <1>5
    <3> QED
      BY <1>2, <3>1, <3>2, CountedOn
  <2>2. ASSUME ~Inline(n)
        PROVE  1 \in 1 .. Len(more)
    <3>1. Len(more) = 1
      BY <1>5, <2>2
    <3> QED
      BY <3>1
  <2> QED
    BY <1>5, <2>1, <2>2
<1>7. PICK st : st = Front(stack)
  OBVIOUS
<1>8. Len(st) = L - 1 /\ \A i \in 1 .. L - 1 : st[i] = stack[i]
  BY <1>1, <1>2, <1>7, FramesLeft
<1>9. stack' = st
  BY <1>1, <1>7
<1>10. /\ Cardinality(Plains(st)) \in Nat
       /\ Cardinality(Plains(stack)) = IF Overridden(n) THEN Cardinality(Plains(st))
                                       ELSE Cardinality(Plains(st)) + 1
  <2>1. /\ Len(st) \in Nat /\ Len(st) >= 1 /\ L = Len(st) + 1
        /\ \A i \in 2 .. Len(st) : stack[i].node = st[i].node
    BY <1>1, <1>2, <1>8
  <2>2. Len(stack) = Len(st) + 1
    BY <2>1
  <2>3. stack[Len(stack)].node = n
    BY <1>3
  <2> HIDE DEF L
  <2> QED
    BY <2>1, <2>2, <2>3, PlainsOneMore
<1> HIDE DEF L
<1>11. ASSUME depth > 0
       PROVE  depth' = depth - 1
  BY <1>1, <1>2, <1>11, DepthSteps DEF n
<1>12. ~Hooked(out, "open")' => depth' = L - 2
  <2> SUFFICES ASSUME ~Hooked(out, "open")'
               PROVE  depth' = L - 2
    OBVIOUS
  <2>1. depth = L - 1
    BY <1>2, <1>6 DEF DepthCounts, L
  <2> QED
    BY <1>1, <1>2, <1>11, <2>1
<1>13. ~Hooked(out, "close")' => /\ depth' = Cardinality(Plains(st))
                                /\ \A i \in 2 .. L - 1 : ~Inline(st[i].node)
  <2> SUFFICES ASSUME ~Hooked(out, "close")'
               PROVE  /\ depth' = Cardinality(Plains(st))
                      /\ \A i \in 2 .. L - 1 : ~Inline(st[i].node)
    OBVIOUS
  <2>1. /\ depth = Cardinality(Plains(stack)) /\ \A i \in 2 .. L : ~Inline(stack[i].node)
    BY <1>2, <1>6 DEF DepthCounts, L
  <2>2. L \in 2 .. L /\ \A i \in 2 .. L - 1 : i \in 2 .. L /\ i \in 1 .. L - 1
    BY <1>1, <1>2
  <2>3. ~Overridden(n)
    BY <1>3, <1>6, <2>1, <2>2
  <2>4. depth = Cardinality(Plains(st)) + 1
    BY <1>10, <2>1, <2>3
  <2>5. depth' = Cardinality(Plains(st))
    BY <1>10, <1>11, <2>4
  <2> QED
    BY <1>8, <2>1, <2>2, <2>5
<1>14. DepthCounts'
  <2>1. Plains(stack)' = Plains(st)
    <3>1. Plains(st)' = Plains(st)
      BY <1>2, KindsStay
    <3> QED
      BY <1>9, <3>1 DEF Plains
  <2>2. ~Hooked(out, "open")' => depth' = Len(stack') - 1
    BY <1>2, <1>8, <1>9, <1>12
  <2>3. ~Hooked(out, "close")' => (\A i \in 2 .. Len(stack) : ~Inline(stack[i].node))'
    <3> SUFFICES ASSUME ~Hooked(out, "close")'
                 PROVE  \A i \in 2 .. L - 1 : ~Inline(st[i].node)
      BY <1>2, <1>8, <1>9 DEF Inline, Kind
    <3> QED
      BY <1>13
  <2> QED
    BY <1>13, <2>1, <2>2, <2>3 DEF DepthCounts
<1>15. IndentCounts'
  <2> SUFFICES ASSUME ~Skewed(out)'
               PROVE  /\ \A i \in 2 .. L - 1 : st[i].indented
                      /\ indent' = L - 2
    <3>1. /\ Len(stack') = L - 1 /\ (L - 1) - 1 = L - 2
          /\ \A i \in 2 .. (L - 1) - 1 : i \in 2 .. L - 1
          /\ L - 1 > 1 => L - 1 \in 2 .. L - 1
      BY <1>1, <1>2, <1>8, <1>9
    <3>2. IndentCounts' <=> (~Skewed(out)' =>
            (/\ \A i \in 2 .. (L - 1) - 1 : st[i].indented
             /\ L - 1 > 1 => st[L - 1].indented \/ st[L - 1].todo = <<>>
             /\ indent' = IF L - 1 = 1 THEN 0 ELSE IF st[L - 1].indented THEN (L - 1) - 1
                          ELSE (L - 1) - 2))
      BY <1>9, <3>1 DEF IndentCounts
    <3>3. L - 1 = 1 => L - 2 = 0
      BY <1>2
    <3>4. L - 1 = 1 \/ L - 1 > 1
      BY <1>1, <1>2
    <3> QED
      BY <3>1, <3>2, <3>3, <3>4
  <2>1. /\ \A i \in 2 .. L - 1 : stack[i].indented
        /\ indent = IF L = 1 THEN 0 ELSE IF stack[L].indented THEN L - 1 ELSE L - 2
    BY <1>2, <1>6 DEF IndentCounts, L
  <2>2. \A i \in 2 .. L - 1 : i \in 1 .. L - 1
    BY <1>2
  <2>3. indent' = L - 2
    <3>1. CASE stack[L].indented
      <4>1. indent = L - 1 /\ indent > 0
        BY <1>1, <1>2, <2>1, <3>1
      <4>2. indent' = indent - 1
        BY <1>1, <1>2, <3>1, <4>1
      <4> QED
        BY <1>2, <4>1, <4>2
    <3>2. CASE ~stack[L].indented
      BY <1>1, <1>2, <2>1, <3>2
    <3> QED
      BY <3>1, <3>2
  <2> QED
    BY <1>8, <2>1, <2>2, <2>3
<1> QED
  BY <1>1, <1>6, <1>14, <1>15, LevelsGoOn

LEMMA LevelsBegin ==
    ASSUME Inv, LevelsInv, NEW r \in Nodes, BeginPrint(r)
    PROVE  LevelsInv'
<1>1. /\ out' = <<>> /\ depth' = 0 /\ indent' = 0 /\ nodes' = nodes
      /\ Len(nodes) = Len(offer.kinds) /\ job' = "print"
      /\ stack' = <<[node |-> None, todo |-> <<Visit(r)>>, indented |-> FALSE]>>
  BY DEF BeginPrint, Begin, treeVars
<1>2. LevelsCounted'
  BY <1>1 DEF LevelsCounted, DepthLimit, IndentedByDepth, Pieces
<1>3. Len(nodes) < DepthRange
  <2>1. offer \in Offers /\ 0 \in MaxDepths
    BY DepthAssumption DEF Inv, TreeInv, TreeTypeOK
  <2>2. Len(offer.kinds) + 0 < DepthRange
    BY <2>1, DepthAssumption
  <2>3. Len(nodes) \in Nat
    BY NodesAre DEF Inv, TreeInv
  <2> QED
    BY <1>1, <2>2, <2>3
<1>4. Len(stack') = 1
  BY <1>1
<1>5. DepthCounts'
  <2>1. Plains(stack)' = {}
    BY <1>4 DEF Plains
  <2>2. Cardinality(Plains(stack)') = 0
    BY <2>1, FS_EmptySet
  <2> QED
    BY <1>1, <1>4, <2>2 DEF DepthCounts
<1>6. IndentCounts'
  BY <1>1, <1>4 DEF IndentCounts
<1> QED
  BY <1>1, <1>2, <1>3, <1>5, <1>6 DEF LevelsInv

LEMMA LevelsKept ==
    ASSUME Inv, LevelsInv, [Next]_vars
    PROVE  LevelsInv'
<1>1. ASSUME out' = <<>>, job' # "print" \/ done'
      PROVE  LevelsInv'
  BY <1>1 DEF LevelsInv, LevelsCounted, DepthLimit, IndentedByDepth, Pieces
<1>2. ASSUME nodes' = nodes, config' = config, out' = out, job' # "print" \/ done',
             job' = "idle" => job = "idle"
      PROVE  LevelsInv'
  <2>1. LevelsCounted'
    BY <1>2, SameOutput DEF LevelsInv
  <2> QED
    BY <1>2, <2>1 DEF LevelsInv
<1>3. CASE job = "idle" /\ TreeNext /\ UNCHANGED <<visitorVars, printVars>>
  <2>1. out' = <<>> /\ job' = "idle"
    BY <1>3 DEF LevelsInv, visitorVars, printVars
  <2> QED
    BY <1>1, <2>1
<1>4. CASE VisitorNext /\ UNCHANGED <<treeVars, printVars>>
  <2>1. nodes' = nodes /\ config' = config /\ out' = out
    BY <1>4 DEF treeVars, printVars
  <2>2. job' # "print" /\ job' # "idle"
    <3>1. CASE \E what \in Searches \cup {"visit"}, r \in Nodes : BeginSearch(what, r)
      BY <3>1 DEF BeginSearch, Begin, Searches
    <3>2. CASE \E n \in Nodes : EnterNode(n)
      BY <3>2 DEF EnterNode, Running, Searches
    <3>3. CASE LeaveNode
      BY <3>3 DEF LeaveNode, Running, Searches
    <3>4. CASE EndSearch
      BY <3>4 DEF EndSearch, Return, Running, Searches
    <3> QED
      BY <1>4, <3>1, <3>2, <3>3, <3>4 DEF VisitorNext
  <2> QED
    BY <1>2, <2>1, <2>2
<1>5. ASSUME NEW n \in Nodes, BeginPrint(n) \/ SkipNode(n) \/ CutNode(n) \/ PrintNode(n)
      PROVE  LevelsInv'
  BY <1>5, LevelsBegin, SkipCounts, CutCounts, NodeCounts
<1>6. CASE PrintText
  BY <1>6, TextCounts
<1>7. CASE LeavePrinted
  BY <1>7, LeaveCounts
<1>8. CASE EndPrint
  BY <1>2, <1>8 DEF EndPrint, Return, Running, treeVars, printVars
<1>9. CASE ForgetOutput
  BY <1>1, <1>9 DEF ForgetOutput, Forget
<1>10. CASE UNCHANGED vars
  <2>1. UNCHANGED <<nodes, job, done, stack, config, out, depth, indent>>
    BY <1>10 DEF vars, treeVars, visitorVars, walkVars, printVars
  <2>2. LevelsCounted'
    BY <2>1, SameOutput DEF LevelsInv
  <2>3. (DepthCounts <=> DepthCounts') /\ (IndentCounts <=> IndentCounts')
    BY <2>1 DEF DepthCounts, IndentCounts, Hooked, Skewed, Plains, Overridden, Skewing, Inline, Kind
  <2> QED
    BY <2>1, <2>2, <2>3 DEF LevelsInv
<1> QED
  BY <1>3, <1>4, <1>5, <1>6, <1>7, <1>8, <1>9, <1>10 DEF Next

\* The counter of depths and that of the indentation are right as far as they can
\* be: the depth limit cuts what it is to cut until a node whose level was not
\* counted is left, and the indentation is the level until a hook adds one that is
\* not taken back, for trees of any size and for any limit.
THEOREM SpecLevelsCounted == Spec => []LevelsCounted
<1>1. Init => Inv /\ LevelsInv
  <2>1. Init => LevelsInv
    BY DEF Init, VisitorInit, LevelsInv, LevelsCounted, DepthLimit, IndentedByDepth, Pieces
  <2> QED
    BY <2>1, InvBegins
<1>2. Inv /\ LevelsInv /\ [Next]_vars => Inv' /\ LevelsInv'
  BY InvKept, LevelsKept
<1>3. LevelsInv => LevelsCounted
  BY DEF LevelsInv
<1> QED
  BY <1>1, <1>2, <1>3, PTL DEF Spec

-----------------------------------------------------------------------------
(* Functions over the natural numbers that are defined by recursion.       *)

\* The values up to n of what begins with b and goes on by step
StepsUpTo(V, b, step, n) ==
    {f \in [0 .. n -> V] : f[0] = b /\ \A i \in 0 .. n - 1 : f[i + 1] = step[i][f[i]]}

GoesOn(V, step) == \A i \in Nat : \A v \in V : step[i][v] \in V
Follows(f, b, step) == f[0] = b /\ \A i \in Nat : f[i + 1] = step[i][f[i]]

\* There is a function that begins with b and goes on by step.
LEMMA RecursionExists ==
    ASSUME NEW V, NEW b \in V, NEW step, GoesOn(V, step)
    PROVE  \E f \in [Nat -> V] : Follows(f, b, step)
<1> DEFINE Up(n) == StepsUpTo(V, b, step, n)
           S == {n \in Nat : Up(n) # {} /\ \A f, g \in Up(n) : f = g}
<1>1. 0 \in S
  <2> DEFINE f == [i \in 0 .. 0 |-> b]
  <2>1. f \in Up(0)
    BY DEF StepsUpTo
  <2>2. \A g, h \in Up(0) : g = h
    <3> TAKE g, h \in Up(0)
    <3>1. /\ g \in [0 .. 0 -> V] /\ h \in [0 .. 0 -> V]
          /\ \A i \in 0 .. 0 : g[i] = h[i]
      BY DEF StepsUpTo
    <3> QED
      BY <3>1
  <2> HIDE DEF Up, f
  <2> QED
    BY <2>1, <2>2
\* What goes on to n + 1 goes on to n, too.
<1>2. ASSUME NEW n \in Nat, NEW f \in Up(n + 1)
      PROVE  /\ [i \in 0 .. n |-> f[i]] \in Up(n)
             /\ f \in [0 .. n + 1 -> V] /\ f[n + 1] = step[n][f[n]]
  <2>1. /\ f \in [0 .. n + 1 -> V] /\ f[0] = b
        /\ \A i \in 0 .. (n + 1) - 1 : f[i + 1] = step[i][f[i]]
    BY DEF StepsUpTo
  <2>2. n \in 0 .. (n + 1) - 1 /\ \A i \in 0 .. n - 1 : i \in 0 .. (n + 1) - 1
    OBVIOUS
  <2> DEFINE g == [i \in 0 .. n |-> f[i]]
  <2>3. /\ g \in [0 .. n -> V] /\ g[0] = b
        /\ \A i \in 0 .. n - 1 : g[i + 1] = f[i + 1] /\ g[i] = f[i]
    BY <2>1
  <2> HIDE DEF g
  <2>4. g \in Up(n)
    BY <2>1, <2>2, <2>3 DEF StepsUpTo
  <2> QED
    BY <2>1, <2>2, <2>4 DEF g
<1>3. ASSUME NEW n \in Nat, n \in S
      PROVE  n + 1 \in S
  <2>1. PICK f : f \in Up(n) /\ \A g \in Up(n) : g = f
    <3> HIDE DEF Up
    <3> QED
      BY <1>3
  <2>2. /\ f \in [0 .. n -> V] /\ f[0] = b
        /\ \A i \in 0 .. n - 1 : f[i + 1] = step[i][f[i]]
    BY <2>1 DEF StepsUpTo
  <2> DEFINE h == [i \in 0 .. n + 1 |-> IF i = n + 1 THEN step[n][f[n]] ELSE f[i]]
  <2>3. step[n][f[n]] \in V
    BY <2>2 DEF GoesOn
  <2>4. /\ h \in [0 .. n + 1 -> V] /\ h[0] = b /\ h[n + 1] = step[n][f[n]]
        /\ \A i \in 0 .. n : h[i] = f[i]
    BY <2>2, <2>3
  <2> HIDE DEF h
  <2>5. ASSUME NEW i \in 0 .. (n + 1) - 1
        PROVE  h[i + 1] = step[i][h[i]]
    <3>1. CASE i = n
      <4>1. n \in 0 .. n
        OBVIOUS
      <4> QED
        BY <2>4, <3>1, <4>1
    <3>2. CASE i # n
      <4>1. i \in 0 .. n - 1 /\ i \in 0 .. n /\ i + 1 \in 0 .. n
        BY <3>2
      <4> QED
        BY <2>2, <2>4, <4>1
    <3> QED
      BY <3>1, <3>2
  <2>6. h \in Up(n + 1)
    BY <2>4, <2>5 DEF StepsUpTo
  <2>7. ASSUME NEW g \in Up(n + 1)
        PROVE  g = h
    <3>1. /\ [i \in 0 .. n |-> g[i]] \in Up(n)
          /\ g \in [0 .. n + 1 -> V] /\ g[n + 1] = step[n][g[n]]
      BY <1>2, <2>7
    <3> HIDE DEF Up
    <3>2. [i \in 0 .. n |-> g[i]] = f
      BY <2>1, <3>1
    <3>3. \A i \in 0 .. n : g[i] = f[i]
      BY <3>2
    <3>4. n \in 0 .. n /\ \A i \in 0 .. n + 1 : i \in 0 .. n \/ i = n + 1
      OBVIOUS
    <3>5. \A i \in 0 .. n + 1 : g[i] = h[i]
      BY <2>4, <3>1, <3>3, <3>4
    <3> QED
      BY <2>4, <3>1, <3>5
  <2> HIDE DEF Up
  <2> QED
    BY <2>6, <2>7
<1> HIDE DEF Up
<1>4. Nat \subseteq S
  <2> HIDE DEF S
  <2> QED
    BY <1>1, <1>3, SimpleInduction
<1> DEFINE at == [n \in Nat |-> CHOOSE f : f \in Up(n)]
           all == [n \in Nat |-> at[n][n]]
<1>5. \A n \in Nat : at[n] \in Up(n)
  BY <1>4
<1>6. \A n \in Nat : at[n] \in [0 .. n -> V] /\ at[n][0] = b /\ at[n][n] \in V
  <2> TAKE n \in Nat
  <2> HIDE DEF at
  <2>1. at[n] \in Up(n) /\ n \in 0 .. n
    BY <1>5
  <2> QED
    BY <2>1 DEF Up, StepsUpTo
<1>7. ASSUME NEW n \in Nat
      PROVE  at[n + 1][n + 1] = step[n][at[n][n]]
  <2>1. at[n + 1] \in Up(n + 1)
    BY <1>5
  <2> PICK f : f = at[n + 1]
    OBVIOUS
  <2>2. [i \in 0 .. n |-> f[i]] \in Up(n) /\ f[n + 1] = step[n][f[n]]
    <3> HIDE DEF at
    <3>1. f \in Up(n + 1)
      BY <2>1
    <3> QED
      BY <1>2, <3>1
  <2> HIDE DEF at
  <2>3. [i \in 0 .. n |-> f[i]] = at[n]
    BY <1>4, <1>5, <2>2
  <2>4. f[n] = at[n][n]
    <3>1. n \in 0 .. n
      OBVIOUS
    <3> QED
      BY <2>3, <3>1
  <2> QED
    BY <2>2, <2>4
<1> HIDE DEF at
<1>8. all \in [Nat -> V] /\ all[0] = b /\ \A n \in Nat : all[n + 1] = step[n][all[n]]
  BY <1>6, <1>7
<1> QED
  BY <1>8 DEF Follows

-----------------------------------------------------------------------------
(* Sequences that are put together.                                        *)

\* What the first lists of q are put together
FlatsOf(q, S) ==
    {e \in [0 .. Len(q) -> Seq(S)] :
        e[0] = <<>> /\ \A i \in 1 .. Len(q) : e[i] = e[i - 1] \o q[i]}

LEMMA ConcatEmpty ==
    ASSUME NEW S, NEW s \in Seq(S)
    PROVE  s \o <<>> = s /\ <<>> \o s = s
OBVIOUS

Associates(a, b, c) == (a \o b) \o c = a \o (b \o c)

LEMMA ConcatAssociates ==
    ASSUME NEW S, NEW a \in Seq(S), NEW b \in Seq(S), NEW c \in Seq(S)
    PROVE  Associates(a, b, c)
BY DEF Associates

\* The lists put together up to each place, of which the last is FlattenSeq.
LEMMA FlattenIs ==
    ASSUME NEW S, NEW q \in Seq(Seq(S))
    PROVE  \E e \in FlatsOf(q, S) : FlattenSeq(q) = e[Len(q)]
<1> DEFINE n == Len(q)
           V == Seq(S)
           step == [i \in Nat |-> [v \in V |-> IF i < n THEN v \o q[i + 1] ELSE v]]
           empty == <<>>
<1>1. n \in Nat /\ DOMAIN q = 1 .. n /\ \A i \in 1 .. n : q[i] \in V
  BY LenProperties, ElementOfSeq
<1>2. \A i \in Nat : \A v \in V : step[i][v] = (IF i < n THEN v \o q[i + 1] ELSE v)
  OBVIOUS
<1>3. \A i \in Nat : \A v \in V : step[i][v] \in V
  <2> TAKE i \in Nat
  <2> TAKE v \in V
  <2>1. CASE i < n
    <3>1. i + 1 \in 1 .. n
      BY <1>1, <2>1
    <3>2. q[i + 1] \in Seq(S) /\ v \in Seq(S)
      BY <1>1, <3>1
    <3>3. v \o q[i + 1] \in Seq(S)
      BY <3>2
    <3> QED
      BY <1>2, <2>1, <3>3
  <2>2. CASE ~(i < n)
    BY <1>2, <2>2
  <2> QED
    BY <2>1, <2>2
<1>4. empty \in V
  OBVIOUS
<1> HIDE DEF n, V, step, empty
<1>5. PICK f \in [Nat -> V] : f[0] = empty /\ \A i \in Nat : f[i + 1] = step[i][f[i]]
  <2>1. GoesOn(V, step)
    BY <1>3 DEF GoesOn
  <2>2. \E f \in [Nat -> V] : Follows(f, empty, step)
    BY <1>4, <2>1, RecursionExists
  <2> QED
    BY <2>2 DEF Follows
<1>6. \A i \in 1 .. n : f[i] = f[i - 1] \o q[i]
  <2> TAKE i \in 1 .. n
  <2>1. i - 1 \in Nat /\ (i - 1) + 1 = i /\ i - 1 < n
    BY <1>1
  <2> PICK j : j = i - 1
    OBVIOUS
  <2>2. f[j + 1] = step[j][f[j]] /\ f[j] \in V
    BY <1>5, <2>1
  <2> QED
    BY <1>2, <2>1, <2>2
<1> DEFINE e == [i \in 0 .. n |-> f[i]]
<1>7. e \in [0 .. n -> V] /\ e[0] = empty /\ \A i \in 0 .. n : e[i] = f[i]
  BY <1>1, <1>5
<1> HIDE DEF e
<1>8. \A i \in 1 .. n : e[i] = e[i - 1] \o q[i]
  <2> TAKE i \in 1 .. n
  <2>1. i \in 0 .. n /\ i - 1 \in 0 .. n
    BY <1>1
  <2> QED
    BY <1>6, <1>7, <2>1
<1>9. e \in FlatsOf(q, S)
  BY <1>7, <1>8 DEF FlatsOf, n, V, empty
<1>10. FlattenSeq(q) = e[n]
  <2>1. CASE n = 0
    <3>1. q = <<>>
      BY <2>1, EmptySeq DEF n
    <3>2. FlattenSeq(q) = q
      BY <2>1 DEF FlattenSeq, n
    <3> QED
      BY <1>7, <2>1, <3>1, <3>2 DEF empty
  <2>2. CASE n # 0
    <3> DEFINE Body(g) == [i \in 1 .. n |-> IF i = 1 THEN q[i] ELSE g[i - 1] \o q[i]]
               P(g) == g = Body(g)
               h == CHOOSE g : P(g)
               d == [i \in 1 .. n |-> e[i]]
    <3>1. FlattenSeq(q) = h[n]
      BY <2>2 DEF FlattenSeq, n
    <3>2. \A i \in 1 .. n : d[i] = IF i = 1 THEN q[i] ELSE d[i - 1] \o q[i]
      <4> TAKE i \in 1 .. n
      <4>1. e[i] = e[i - 1] \o q[i] /\ d[i] = e[i]
        BY <1>8
      <4>2. CASE i = 1
        <5>0. i - 1 = 0 /\ e[0] = empty
          BY <1>7, <4>2
        <5>1. e[i] = empty \o q[i] /\ q[i] \in Seq(S)
          BY <1>1, <4>1, <5>0 DEF V
        <5>2. empty \o q[i] = q[i]
          BY <5>1, ConcatEmpty DEF empty
        <5> QED
          BY <4>1, <4>2, <5>1, <5>2
      <4>3. CASE i # 1
        <5>1. i - 1 \in 1 .. n
          BY <1>1, <4>3
        <5>2. d[i - 1] = e[i - 1]
          BY <5>1
        <5> HIDE DEF d
        <5> QED
          BY <4>1, <4>3, <5>2
      <4> QED
        BY <4>2, <4>3
    <3>3. P(d)
      <4>1. d = [i \in 1 .. n |-> d[i]]
        OBVIOUS
      <4> HIDE DEF d
      <4> QED
        BY <3>2, <4>1
    <3>4. P(h)
      <4> HIDE DEF P, d
      <4> QED
        BY <3>3
    <3>5. \A i \in 1 .. n : h[i] = IF i = 1 THEN q[i] ELSE h[i - 1] \o q[i]
      <4>1. h = Body(h)
        BY Zenon, <3>4
      <4>2. \A i \in 1 .. n : Body(h)[i] = IF i = 1 THEN q[i] ELSE h[i - 1] \o q[i]
        OBVIOUS
      <4> HIDE DEF h, Body
      <4> QED
        BY <4>1, <4>2
    <3> HIDE DEF h, d
    <3> DEFINE T == {i \in Nat : i + 1 <= n => h[i + 1] = d[i + 1]}
    <3>6. 0 \in T
      <4>1. 1 \in 1 .. n
        BY <1>1, <2>2
      <4>2. h[1] = q[1] /\ d[1] = q[1]
        BY <3>2, <3>5, <4>1
      <4> QED
        BY <4>2
    <3>7. ASSUME NEW i \in Nat, i \in T
          PROVE  i + 1 \in T
      <4> SUFFICES ASSUME (i + 1) + 1 <= n PROVE h[(i + 1) + 1] = d[(i + 1) + 1]
        OBVIOUS
      <4> PICK k : k = (i + 1) + 1
        OBVIOUS
      <4>1. k \in 1 .. n /\ k # 1 /\ k - 1 = i + 1
        BY <1>1
      <4>2. h[k - 1] = d[k - 1]
        BY <1>1, <3>7, <4>1
      <4>3. h[k] = h[k - 1] \o q[k] /\ d[k] = d[k - 1] \o q[k]
        BY <3>2, <3>5, <4>1
      <4> QED
        BY <4>2, <4>3
    <3>8. Nat \subseteq T
      <4> HIDE DEF T
      <4> QED
        BY <3>6, <3>7, SimpleInduction
    <3>9. n - 1 \in Nat /\ (n - 1) + 1 = n
      BY <1>1, <2>2
    <3>10. h[n] = d[n]
      <4>1. n - 1 \in T
        BY <3>8, <3>9
      <4> QED
        BY <1>1, <3>9, <4>1
    <3>11. d[n] = e[n]
      BY <1>1, <2>2 DEF d
    <3> QED
      BY <3>1, <3>10, <3>11
  <2> QED
    BY <2>1, <2>2
<1> QED
  BY <1>9, <1>10 DEF n

\* What is put together of the same lists is the same.
LEMMA FlatsAgree ==
    ASSUME NEW S, NEW q \in Seq(Seq(S)), NEW r \in Seq(Seq(S)), NEW n \in Nat,
           n <= Len(q), n <= Len(r), \A i \in 1 .. n : q[i] = r[i],
           NEW e \in FlatsOf(q, S), NEW f \in FlatsOf(r, S)
    PROVE  e[n] = f[n]
<1> DEFINE T == {i \in Nat : i <= n => e[i] = f[i]}
<1>0. Len(q) \in Nat /\ Len(r) \in Nat
  BY LenProperties
<1>1. 0 \in T
  BY DEF FlatsOf
<1>2. ASSUME NEW i \in Nat, i \in T
      PROVE  i + 1 \in T
  <2> SUFFICES ASSUME i + 1 <= n PROVE e[i + 1] = f[i + 1]
    OBVIOUS
  <2> PICK k : k = i + 1
    OBVIOUS
  <2>1. k \in 1 .. Len(q) /\ k \in 1 .. Len(r) /\ k \in 1 .. n /\ k - 1 = i
    BY <1>0
  <2>2. e[k] = e[k - 1] \o q[k] /\ f[k] = f[k - 1] \o r[k]
    BY <2>1 DEF FlatsOf
  <2>3. e[k - 1] = f[k - 1]
    <3>1. i <= n
      BY <2>1
    <3> QED
      BY <1>2, <2>1, <3>1
  <2>4. e[k] = f[k]
    BY <2>1, <2>2, <2>3
  <2> QED
    BY <2>4
<1>3. Nat \subseteq T
  <2> HIDE DEF T
  <2> QED
    BY <1>1, <1>2, SimpleInduction
<1> QED
  BY <1>3

LEMMA FlattenTyped ==
    ASSUME NEW S, NEW q \in Seq(Seq(S))
    PROVE  FlattenSeq(q) \in Seq(S)
<1>1. PICK e \in FlatsOf(q, S) : FlattenSeq(q) = e[Len(q)]
  BY FlattenIs
<1>2. Len(q) \in Nat /\ Len(q) \in 0 .. Len(q)
  BY LenProperties
<1> QED
  BY <1>1, <1>2 DEF FlatsOf

LEMMA FlattenEmpty == FlattenSeq(<<>>) = <<>>
BY DEF FlattenSeq

LEMMA FlattenBoth ==
    ASSUME NEW S, NEW q \in Seq(Seq(S)), NEW r \in Seq(Seq(S))
    PROVE  FlattenSeq(q \o r) = FlattenSeq(q) \o FlattenSeq(r)
<1> DEFINE qr == q \o r
           a == Len(q)
           b == Len(r)
<1>1. /\ qr \in Seq(Seq(S)) /\ Len(qr) = a + b /\ a \in Nat /\ b \in Nat
      /\ \A i \in 1 .. a : qr[i] = q[i]
      /\ \A i \in 1 .. b : qr[a + i] = r[i] /\ r[i] \in Seq(S)
  BY ConcatProperties, LenProperties, ElementOfSeq
<1> HIDE DEF qr
<1>2. PICK e \in FlatsOf(qr, S) : FlattenSeq(qr) = e[Len(qr)]
  BY <1>1, FlattenIs
<1>3. PICK f \in FlatsOf(q, S) : FlattenSeq(q) = f[Len(q)]
  BY FlattenIs
<1>4. PICK g \in FlatsOf(r, S) : FlattenSeq(r) = g[Len(r)]
  BY FlattenIs
<1>5. e[a] = f[a]
  <2>1. a <= Len(qr) /\ a <= Len(q)
    BY <1>1
  <2> HIDE DEF a
  <2> QED
    BY <1>1, <1>2, <1>3, <2>1, FlatsAgree
<1>6. f[a] \in Seq(S) /\ \A i \in 0 .. b : g[i] \in Seq(S)
  <2>1. f \in [0 .. a -> Seq(S)] /\ g \in [0 .. b -> Seq(S)]
    BY <1>3, <1>4 DEF FlatsOf
  <2>2. a \in 0 .. a
    BY <1>1
  <2> HIDE DEF a, b
  <2> QED
    BY <2>1, <2>2
<1> DEFINE T == {i \in Nat : i <= b => e[a + i] = f[a] \o g[i]}
<1>7. 0 \in T
  <2>1. g[0] = <<>> /\ a + 0 = a
    BY <1>1, <1>4 DEF FlatsOf
  <2>2. f[a] \o <<>> = f[a]
    BY <1>6, ConcatEmpty
  <2> HIDE DEF a
  <2> QED
    BY <1>5, <2>1, <2>2
<1>8. ASSUME NEW i \in Nat, i \in T
      PROVE  i + 1 \in T
  <2> SUFFICES ASSUME i + 1 <= b PROVE e[a + (i + 1)] = f[a] \o g[i + 1]
    <3>1. i + 1 \in Nat
      OBVIOUS
    <3> QED
      BY <3>1, Zenon
  <2> PICK k, j : k = a + (i + 1) /\ j = i + 1
    OBVIOUS
  <2>1. k \in 1 .. Len(qr) /\ k - 1 = a + i /\ j \in 1 .. b /\ j - 1 = i /\ k = a + j
        /\ i \in 0 .. b
    BY <1>1
  <2>2. e[k] = e[k - 1] \o qr[k]
    BY <1>2, <2>1 DEF FlatsOf
  <2>3. g[j] = g[j - 1] \o r[j]
    BY <1>4, <2>1 DEF FlatsOf
  <2>4. qr[k] = r[j] /\ r[j] \in Seq(S)
    BY <1>1, <2>1
  <2>5. e[k - 1] = f[a] \o g[i]
    <3>1. i \in 0 .. b /\ i <= b
      BY <2>1
    <3>2. e[a + i] = f[a] \o g[i]
      BY <1>8, <3>1
    <3> QED
      BY <2>1, <3>2
  <2>6. (f[a] \o g[i]) \o r[j] = f[a] \o (g[i] \o r[j])
    <3>1. f[a] \in Seq(S) /\ g[i] \in Seq(S) /\ r[j] \in Seq(S)
      BY <1>6, <2>1, <2>4
    <3>2. Associates(f[a], g[i], r[j])
      BY <3>1, ConcatAssociates
    <3> QED
      BY <3>2 DEF Associates
  <2>7. e[k] = f[a] \o g[j]
    BY <2>1, <2>2, <2>3, <2>4, <2>5, <2>6
  <2> QED
    BY <2>7
<1>9. Nat \subseteq T
  <2> HIDE DEF T
  <2> QED
    BY <1>7, <1>8, SimpleInduction
<1>10. e[a + b] = f[a] \o g[b]
  <2>1. b \in T
    <3> HIDE DEF T, b
    <3> QED
      BY <1>1, <1>9
  <2>2. b <= b
    BY <1>1
  <2> HIDE DEF a, b
  <2> QED
    BY <2>1, <2>2
<1> QED
  BY <1>1, <1>2, <1>3, <1>4, <1>10 DEF qr

LEMMA FlattenOne ==
    ASSUME NEW S, NEW s \in Seq(S)
    PROVE  FlattenSeq(<<s>>) = s
<1>1. <<s>> \in Seq(Seq(S)) /\ Len(<<s>>) = 1 /\ <<s>>[1] = s
  OBVIOUS
<1>2. PICK e \in FlatsOf(<<s>>, S) : FlattenSeq(<<s>>) = e[1]
  BY <1>1, FlattenIs
<1>3. e[0] = <<>> /\ e[1] = e[0] \o s
  <2>1. 1 \in 1 .. Len(<<s>>) /\ 1 - 1 = 0
    BY <1>1
  <2> QED
    BY <1>1, <1>2, <2>1 DEF FlatsOf
<1> QED
  BY <1>2, <1>3, ConcatEmpty

-----------------------------------------------------------------------------
(* The members of a set among the elements of a sequence.                  *)

Chosen(s, T) == [i \in DOMAIN s |-> IF s[i] \in T THEN <<s[i]>> ELSE <<>>]

LEMMA KeptIs ==
    ASSUME NEW S, NEW s \in Seq(S), NEW T
    PROVE  /\ Chosen(s, T) \in Seq(Seq(S \cap T)) /\ Len(Chosen(s, T)) = Len(s)
           /\ Only(s, T) = FlattenSeq(Chosen(s, T))
<1>1. DOMAIN s = 1 .. Len(s) /\ Len(s) \in Nat /\ \A i \in 1 .. Len(s) : s[i] \in S
  BY LenProperties, ElementOfSeq
<1>2. ASSUME NEW i \in DOMAIN s
      PROVE  (IF s[i] \in T THEN <<s[i]>> ELSE <<>>) \in Seq(S \cap T)
  <2>1. CASE s[i] \in T
    <3> PICK x : x = s[i]
      OBVIOUS
    <3>1. x \in S \cap T
      BY <1>1, <2>1
    <3>2. <<x>> \in Seq(S \cap T)
      BY <3>1
    <3> QED
      BY <2>1, <3>2
  <2>2. CASE s[i] \notin T
    <3>1. <<>> \in Seq(S \cap T)
      BY EmptySeq
    <3> QED
      BY <2>2, <3>1
  <2> QED
    BY <2>1, <2>2
<1>3. Chosen(s, T) \in [1 .. Len(s) -> Seq(S \cap T)]
  BY <1>1, <1>2 DEF Chosen
<1> QED
  BY <1>1, <1>3, SequenceOfLength DEF Only, Chosen

LEMMA OnlyTyped ==
    ASSUME NEW S, NEW s \in Seq(S), NEW T
    PROVE  Only(s, T) \in Seq(S \cap T)
<1> PICK R, q : R = S \cap T /\ q = Chosen(s, T)
  OBVIOUS
<1>1. q \in Seq(Seq(R)) /\ Only(s, T) = FlattenSeq(q)
  BY KeptIs
<1> QED
  BY <1>1, FlattenTyped

LEMMA OnlyNone ==
    ASSUME NEW S, NEW s \in Seq(S), NEW T, S \cap T = {}
    PROVE  Only(s, T) = <<>>
<1>1. Only(s, T) \in Seq(S \cap T)
  BY OnlyTyped
<1>2. Only(s, T) \in Seq({})
  BY <1>1
<1> QED
  BY <1>2, EmptySeq, ElementOfSeq, LenProperties

Splits(s, t, T) == Only(s \o t, T) = Only(s, T) \o Only(t, T)

LEMMA OnlyBoth ==
    ASSUME NEW S, NEW s \in Seq(S), NEW t \in Seq(S), NEW T
    PROVE  Splits(s, t, T)
<1> DEFINE a == Chosen(s, T)
           b == Chosen(t, T)
           ab == Chosen(s \o t, T)
           R == S \cap T
<1>1. /\ Len(s) \in Nat /\ DOMAIN s = 1 .. Len(s) /\ Len(t) \in Nat /\ DOMAIN t = 1 .. Len(t)
      /\ s \o t \in Seq(S) /\ Len(s \o t) = Len(s) + Len(t)
      /\ DOMAIN (s \o t) = 1 .. Len(s) + Len(t)
      /\ \A i \in 1 .. Len(s) + Len(t) :
            (s \o t)[i] = IF i <= Len(s) THEN s[i] ELSE t[i - Len(s)]
  BY ConcatProperties, LenProperties
<1>2. /\ a \in Seq(Seq(R)) /\ Len(a) = Len(s) /\ Only(s, T) = FlattenSeq(a)
      /\ b \in Seq(Seq(R)) /\ Len(b) = Len(t) /\ Only(t, T) = FlattenSeq(b)
      /\ ab \in Seq(Seq(R)) /\ Len(ab) = Len(s) + Len(t) /\ Only(s \o t, T) = FlattenSeq(ab)
  BY <1>1, KeptIs
<1>3. /\ \A i \in 1 .. Len(s) : a[i] = IF s[i] \in T THEN <<s[i]>> ELSE <<>>
      /\ \A i \in 1 .. Len(t) : b[i] = IF t[i] \in T THEN <<t[i]>> ELSE <<>>
      /\ \A i \in 1 .. Len(s) + Len(t) :
            ab[i] = IF (s \o t)[i] \in T THEN <<(s \o t)[i]>> ELSE <<>>
  BY <1>1 DEF Chosen
<1> HIDE DEF a, b, ab, R
<1>4. /\ a \o b \in Seq(Seq(R)) /\ Len(a \o b) = Len(s) + Len(t)
      /\ \A i \in 1 .. Len(s) + Len(t) :
            (a \o b)[i] = IF i <= Len(s) THEN a[i] ELSE b[i - Len(s)]
  <2>1. /\ a \o b \in Seq(Seq(R)) /\ Len(a \o b) = Len(a) + Len(b)
        /\ \A i \in 1 .. Len(a) + Len(b) :
              (a \o b)[i] = IF i <= Len(a) THEN a[i] ELSE b[i - Len(a)]
    <3> PICK V : V = Seq(R)
      OBVIOUS
    <3>1. a \in Seq(V) /\ b \in Seq(V)
      BY <1>2
    <3>2. /\ a \o b \in Seq(V) /\ Len(a \o b) = Len(a) + Len(b)
          /\ \A i \in 1 .. Len(a) + Len(b) :
                (a \o b)[i] = IF i <= Len(a) THEN a[i] ELSE b[i - Len(a)]
      BY <3>1, ConcatProperties
    <3> QED
      BY <3>2
  <2> QED
    BY <1>2, <2>1
<1>5. ASSUME NEW i \in 1 .. Len(s) + Len(t)
      PROVE  ab[i] = (a \o b)[i]
  <2>1. CASE i <= Len(s)
    <3>1. i \in 1 .. Len(s)
      BY <1>1, <2>1
    <3> QED
      BY <1>1, <1>3, <1>4, <2>1, <3>1
  <2>2. CASE ~(i <= Len(s))
    <3> PICK j : j = i - Len(s)
      OBVIOUS
    <3>1. j \in 1 .. Len(t)
      BY <1>1, <2>2
    <3>2. (s \o t)[i] = t[j] /\ (a \o b)[i] = b[j]
      BY <1>1, <1>4, <2>2
    <3> QED
      BY <1>3, <3>1, <3>2
  <2> QED
    BY <2>1, <2>2
<1>6. ab = a \o b
  BY <1>2, <1>4, <1>5, SeqEqual
<1> QED
  BY <1>2, <1>6, FlattenBoth DEF Splits

LEMMA OnlyOne ==
    ASSUME NEW x, NEW T
    PROVE  Only(<<x>>, T) = IF x \in T THEN <<x>> ELSE <<>>
<1> DEFINE s == <<x>>
<1>1. s \in Seq({x}) /\ Len(s) = 1 /\ DOMAIN s = {1} /\ s[1] = x
  OBVIOUS
<1> HIDE DEF s
<1>2. CASE x \in T
  <2>1. Chosen(s, T) = <<(<<x>>)>>
    <3>1. Chosen(s, T) \in Seq(Seq({x} \cap T)) /\ Len(Chosen(s, T)) = 1
      BY <1>1, KeptIs
    <3>2. Chosen(s, T)[1] = <<x>>
      BY <1>1, <1>2 DEF Chosen
    <3> QED
      BY <3>1, <3>2
  <2>2. FlattenSeq(<<(<<x>>)>>) = <<x>>
    <3> PICK y : y = <<x>>
      OBVIOUS
    <3>1. y \in Seq({x})
      OBVIOUS
    <3>2. FlattenSeq(<<y>>) = y
      BY <3>1, FlattenOne
    <3> QED
      BY <3>2
  <2> QED
    BY <1>1, <1>2, <2>1, <2>2, KeptIs DEF s
<1>3. CASE x \notin T
  <2>1. {x} \cap T = {}
    BY <1>3
  <2> QED
    BY <1>1, <1>3, <2>1, OnlyNone DEF s
<1> QED
  BY <1>2, <1>3

LEMMA OnlyEmpty == \A T : Only(<<>>, T) = <<>>
<1> TAKE T
<1>1. Chosen(<<>>, T) = <<>>
  BY DEF Chosen
<1> QED
  BY <1>1, FlattenEmpty DEF Only, Chosen

-----------------------------------------------------------------------------
(* The nodes of a tree in preorder.                                        *)

\* What the children of n list, if each node lists what f has for it
Lists(f, n) == [i \in DOMAIN nodes[n].children |-> f[nodes[n].children[i]]]

\* A node begins its list, what the lists of its children have follows.
Orders(o) ==
    \A n \in Nodes : /\ o[0][n] = <<>>
                     /\ \A k \in Nat : o[k + 1][n] = <<n>> \o FlattenSeq(Lists(o[k], n))

LEMMA ListsTyped ==
    ASSUME TreeTypeOK, NEW n \in Nodes, NEW S, NEW f,
           \A c \in ToSet(nodes[n].children) : f[c] \in Seq(S)
    PROVE  Lists(f, n) \in Seq(Seq(S)) /\ FlattenSeq(Lists(f, n)) \in Seq(S)
<1> DEFINE cs == nodes[n].children
           V == Seq(S)
<1>1. cs \in Seq(Nodes) /\ DOMAIN cs = 1 .. Len(cs) /\ Len(cs) \in Nat
  BY NodesAre, LenProperties
<1>2. Lists(f, n) \in [1 .. Len(cs) -> V]
  BY <1>1 DEF Lists, ToSet
<1> HIDE DEF V, cs
<1>3. Lists(f, n) \in Seq(V)
  BY <1>1, <1>2, SequenceOfLength
<1>4. Lists(f, n) \in Seq(Seq(S))
  BY <1>3 DEF V
<1> QED
  BY <1>4, FlattenTyped

LEMMA PreorderIs ==
    ASSUME TreeTypeOK
    PROVE  \E o : Orders(o) /\ \A n \in Nodes : Preorder(n) = o[Len(nodes)][n]
<1> DEFINE V == [Nodes -> Seq(Nodes)]
           Body(f) == [k \in Nat |-> [n \in Nodes |->
                         IF k = 0 THEN <<>>
                         ELSE <<n>> \o FlattenSeq([i \in DOMAIN nodes[n].children |->
                                                     f[k - 1][nodes[n].children[i]]])]]
           P(f) == f = Body(f)
           h == CHOOSE f : P(f)
           step == [k \in Nat |-> [v \in V |-> [n \in Nodes |-> <<n>> \o FlattenSeq(Lists(v, n))]]]
           b == [n \in Nodes |-> <<>>]
<1>1. \A n \in Nodes : Preorder(n) = h[Len(nodes)][n]
  BY DEF Preorder
<1>2. GoesOn(V, step)
  <2> SUFFICES ASSUME NEW k \in Nat, NEW v \in V PROVE step[k][v] \in V
    BY DEF GoesOn
  <2>1. ASSUME NEW n \in Nodes
        PROVE  <<n>> \o FlattenSeq(Lists(v, n)) \in Seq(Nodes)
    <3>1. \A c \in ToSet(nodes[n].children) : v[c] \in Seq(Nodes)
      BY NodesAre, MembersAre
    <3>2. FlattenSeq(Lists(v, n)) \in Seq(Nodes)
      BY <3>1, ListsTyped
    <3>3. <<n>> \in Seq(Nodes)
      OBVIOUS
    <3> QED
      BY <3>2, <3>3
  <2>2. step[k][v] = [n \in Nodes |-> <<n>> \o FlattenSeq(Lists(v, n))]
    OBVIOUS
  <2> HIDE DEF step
  <2> QED
    BY <2>1, <2>2
<1>3. b \in V
  BY EmptySeq
<1>4. \A k \in Nat, v \in V : step[k][v] = [n \in Nodes |-> <<n>> \o FlattenSeq(Lists(v, n))]
  OBVIOUS
<1>5. \E f : P(f)
  <2> HIDE DEF step, V, b
  <2>1. PICK f \in [Nat -> V] : Follows(f, b, step)
    BY <1>2, <1>3, RecursionExists
  <2>2. f[0] = b /\ \A k \in Nat : f[k + 1] = step[k][f[k]]
    BY <2>1 DEF Follows
  <2>3. ASSUME NEW k \in Nat
        PROVE  f[k] = Body(f)[k]
    <3>1. CASE k = 0
      <4>1. Body(f)[0] = [n \in Nodes |-> <<>>]
        OBVIOUS
      <4> HIDE DEF Body
      <4> QED
        BY <2>2, <3>1, <4>1 DEF b
    <3>2. CASE k # 0
      <4> PICK j : j = k - 1
        OBVIOUS
      <4>1. j \in Nat /\ j + 1 = k /\ f[j] \in V
        BY <3>2
      <4>2. f[k] = [n \in Nodes |-> <<n>> \o FlattenSeq(Lists(f[j], n))]
        BY <1>4, <2>2, <4>1
      <4>3. Body(f)[k] = [n \in Nodes |->
                            <<n>> \o FlattenSeq([i \in DOMAIN nodes[n].children |->
                                                   f[k - 1][nodes[n].children[i]]])]
        BY <3>2
      <4> HIDE DEF Body
      <4> QED
        BY <4>2, <4>3 DEF Lists
    <3> QED
      BY <3>1, <3>2
  <2>4. f = Body(f)
    <3>1. Body(f) = [k \in Nat |-> Body(f)[k]]
      OBVIOUS
    <3> HIDE DEF Body
    <3> QED
      BY <2>3, <3>1
  <2> QED
    BY <2>4
<1>6. h = Body(h)
  <2>1. P(h)
    <3> HIDE DEF P
    <3> QED
      BY <1>5
  <2> HIDE DEF h, Body
  <2> QED
    BY <2>1
<1> HIDE DEF h
<1>7. \A n \in Nodes : Body(h)[0][n] = <<>>
  OBVIOUS
<1>8. ASSUME NEW n \in Nodes, NEW k \in Nat
      PROVE  Body(h)[k + 1][n] = <<n>> \o FlattenSeq(Lists(h[k], n))
  <2>1. (k + 1) - 1 = k /\ k + 1 \in Nat /\ k + 1 # 0
    OBVIOUS
  <2> PICK j : j = k + 1
    OBVIOUS
  <2>2. Body(h)[j][n] = <<n>> \o FlattenSeq([i \in DOMAIN nodes[n].children |->
                                                h[j - 1][nodes[n].children[i]]])
    BY <2>1
  <2> HIDE DEF Body
  <2> QED
    BY <2>1, <2>2 DEF Lists
<1>9. Orders(h)
  <2> HIDE DEF Body
  <2> QED
    BY <1>6, <1>7, <1>8 DEF Orders
<1> QED
  BY <1>1, <1>9

\* What is below a child is below its parent, which is not.
LEMMA BelowIs ==
    ASSUME TreeInv, NEW n \in Nodes
    PROVE  /\ n \in Below(n) /\ Below(n) \subseteq Nodes
           /\ Cardinality(Below(n)) \in 1 .. Len(nodes) /\ Len(nodes) \in Nat
           /\ \A c \in ToSet(nodes[n].children) :
                 /\ c \in Nodes /\ Below(c) \subseteq Below(n) /\ n \notin Below(c)
                 /\ Cardinality(Below(c)) < Cardinality(Below(n))
<1>1. /\ TreeTypeOK /\ Acyclic(Children) /\ IsGraph(Children) /\ DOMAIN Children = Nodes
      /\ \A m \in Nodes : Children[m] = ToSet(nodes[m].children) /\ Below(m) = Reach(Children, m)
      /\ Len(nodes) \in Nat /\ Nodes = 1 .. Len(nodes)
  BY ChildrenAreGraph, NodesAre DEF TreeInv
<1>2. \A m \in Nodes : Reach(Children, m) \subseteq Nodes /\ ClosedIn(Children, Reach(Children, m))
                       /\ m \in Reach(Children, m)
  BY <1>1, ReachIsClosed
<1>3. \A m \in Nodes : IsFiniteSet(Below(m)) /\ Cardinality(Below(m)) \in 1 .. Len(nodes)
  <2> TAKE m \in Nodes
  <2>1. IsFiniteSet(Nodes) /\ Cardinality(Nodes) = Len(nodes)
    <3>1. IsFiniteSet(1 .. Len(nodes)) /\ Cardinality(1 .. Len(nodes)) = Len(nodes)
      <4> PICK k : k = Len(nodes)
        OBVIOUS
      <4>1. k \in Nat /\ k \in Int /\ 1 \in Int
        BY <1>1
      <4>2. IsFiniteSet(1 .. k) /\ Cardinality(1 .. k) = IF 1 > k THEN 0 ELSE k - 1 + 1
        BY <4>1, FS_Interval
      <4> QED
        BY <4>1, <4>2
    <3> QED
      BY <1>1, <3>1
  <2>2. Below(m) \subseteq Nodes /\ m \in Below(m)
    BY <1>1, <1>2
  <2>3. IsFiniteSet(Below(m)) /\ Cardinality(Below(m)) <= Len(nodes)
    BY <2>1, <2>2, FS_Subset
  <2>4. Cardinality(Below(m)) \in Nat /\ Cardinality(Below(m)) # 0
    BY <2>2, <2>3, FS_CardinalityType, FS_EmptySet
  <2> QED
    BY <1>1, <2>3, <2>4
<1>4. ASSUME NEW c \in ToSet(nodes[n].children)
      PROVE  /\ c \in Nodes /\ Below(c) \subseteq Below(n) /\ n \notin Below(c)
             /\ Cardinality(Below(c)) < Cardinality(Below(n))
  <2>1. c \in Children[n] /\ c \in Nodes /\ c \in Reach(Children, n)
    BY <1>1, <1>2 DEF IsGraph, ClosedIn
  <2>2. n \notin Reach(Children, c)
    BY <1>1, <2>1 DEF Acyclic
  <2>3. Reach(Children, c) \subseteq Reach(Children, n)
    BY <1>1, <2>1, ReachFurther
  <2>4. Below(c) \subseteq Below(n) /\ n \notin Below(c) /\ n \in Below(n)
    BY <1>1, <1>2, <2>1, <2>2, <2>3
  <2>5. /\ Cardinality(Below(c)) <= Cardinality(Below(n))
        /\ Cardinality(Below(c)) = Cardinality(Below(n)) => Below(c) = Below(n)
    BY <1>3, <2>4, FS_Subset
  <2> QED
    BY <1>3, <2>1, <2>4, <2>5
<1> QED
  BY <1>1, <1>2, <1>3, <1>4

\* The preorder of a node is the node and what the preorders of its children
\* are together.
LEMMA PreorderGoesOn ==
    ASSUME TreeInv, NEW n \in Nodes
    PROVE  /\ Preorder(n) \in Seq(Below(n))
           /\ Preorder(n) = <<n>> \o FlattenSeq([i \in DOMAIN nodes[n].children |->
                                                    Preorder(nodes[n].children[i])])
<1>0. TreeTypeOK
  BY DEF TreeInv
<1>1. PICK o : Orders(o) /\ \A m \in Nodes : Preorder(m) = o[Len(nodes)][m]
  BY <1>0, PreorderIs
<1> DEFINE Size(m) == Cardinality(Below(m))
           S == {k \in Nat : \A m \in Nodes : Size(m) <= k =>
                    o[k][m] \in Seq(Below(m)) /\ \A j \in Nat : j >= k => o[j][m] = o[k][m]}
<1>2. \A m \in Nodes : Size(m) \in 1 .. Len(nodes) /\ Len(nodes) \in Nat
  BY BelowIs
<1>3. 0 \in S
  BY <1>2
<1>4. ASSUME NEW k \in Nat, NEW m \in Nodes, \A c \in ToSet(nodes[m].children) :
                o[k][c] \in Seq(Below(c)) /\ \A j \in Nat : j >= k => o[j][c] = o[k][c]
      PROVE  /\ o[k + 1][m] \in Seq(Below(m))
             /\ \A j \in Nat : j >= k => /\ o[j + 1][m] = o[k + 1][m]
                                         /\ Lists(o[j], m) = Lists(o[k], m)
  <2>1. /\ \A c \in ToSet(nodes[m].children) : Below(c) \subseteq Below(m) /\ c \in Nodes
        /\ m \in Below(m)
    BY BelowIs
  <2>2. \A c \in ToSet(nodes[m].children) : o[k][c] \in Seq(Below(m))
    <3> TAKE c \in ToSet(nodes[m].children)
    <3> PICK A, B, s : A = Below(c) /\ B = Below(m) /\ s = o[k][c]
      OBVIOUS
    <3>1. s \in Seq(A) /\ A \subseteq B
      BY <1>4, <2>1
    <3>2. s \in Seq(B)
      BY <3>1
    <3> QED
      BY <3>2
  <2>3. FlattenSeq(Lists(o[k], m)) \in Seq(Below(m))
    BY <1>0, <2>2, ListsTyped
  <2>4. \A j \in Nat : o[j + 1][m] = <<m>> \o FlattenSeq(Lists(o[j], m))
    BY <1>1 DEF Orders
  <2>5. o[k + 1][m] \in Seq(Below(m))
    <3> PICK B, s : B = Below(m) /\ s = FlattenSeq(Lists(o[k], m))
      OBVIOUS
    <3>1. <<m>> \in Seq(B) /\ s \in Seq(B)
      BY <2>1, <2>3
    <3>2. <<m>> \o s \in Seq(B)
      BY <3>1
    <3> QED
      BY <2>4, <3>2
  <2>6. ASSUME NEW j \in Nat, j >= k
        PROVE  Lists(o[j], m) = Lists(o[k], m)
    <3>1. \A i \in DOMAIN nodes[m].children :
             o[j][nodes[m].children[i]] = o[k][nodes[m].children[i]]
      BY <1>4, <2>6 DEF ToSet
    <3> QED
      BY <3>1 DEF Lists
  <2> QED
    BY <2>4, <2>5, <2>6
<1>5. ASSUME NEW k \in Nat, k \in S
      PROVE  k + 1 \in S
  <2> SUFFICES ASSUME NEW m \in Nodes, Size(m) <= k + 1
               PROVE  /\ o[k + 1][m] \in Seq(Below(m))
                      /\ \A j \in Nat : j >= k + 1 => o[j][m] = o[k + 1][m]
    <3> HIDE DEF Size
    <3> QED
      OBVIOUS
  <2>1. \A c \in ToSet(nodes[m].children) : c \in Nodes /\ Size(c) < Size(m)
    BY BelowIs
  <2> HIDE DEF Size
  <2>2. \A c \in ToSet(nodes[m].children) :
           o[k][c] \in Seq(Below(c)) /\ \A j \in Nat : j >= k => o[j][c] = o[k][c]
    <3> TAKE c \in ToSet(nodes[m].children)
    <3>1. c \in Nodes /\ Size(c) <= k
      BY <1>2, <2>1
    <3> QED
      BY <1>5, <3>1
  <2>3. /\ o[k + 1][m] \in Seq(Below(m))
        /\ \A j \in Nat : j >= k => o[j + 1][m] = o[k + 1][m]
    BY <1>4, <2>2
  <2>4. ASSUME NEW j \in Nat, j >= k + 1
        PROVE  o[j][m] = o[k + 1][m]
    <3> PICK l : l = j - 1
      OBVIOUS
    <3>1. l \in Nat /\ l >= k /\ l + 1 = j
      BY <2>4
    <3> QED
      BY <2>3, <3>1
  <2> QED
    BY <2>3, <2>4
<1>6. Nat \subseteq S
  <2> HIDE DEF S
  <2> QED
    BY <1>3, <1>5, SimpleInduction
<1>7. \A k \in Nat, m \in Nodes : Size(m) <= k =>
          o[k][m] \in Seq(Below(m)) /\ \A j \in Nat : j >= k => o[j][m] = o[k][m]
  <2> HIDE DEF Size
  <2> QED
    BY <1>6
<1> PICK l : l = Len(nodes) - 1
  OBVIOUS
<1>8. l \in Nat /\ l + 1 = Len(nodes) /\ Len(nodes) \in Nat
  BY <1>2
<1>9. \A c \in ToSet(nodes[n].children) :
         /\ o[l][c] \in Seq(Below(c)) /\ \A j \in Nat : j >= l => o[j][c] = o[l][c]
         /\ Preorder(c) = o[l][c]
  <2> TAKE c \in ToSet(nodes[n].children)
  <2>1. c \in Nodes /\ Size(c) < Size(n)
    BY BelowIs
  <2> HIDE DEF Size
  <2>2. Size(c) <= l
    BY <1>2, <1>8, <2>1
  <2>3. o[l][c] \in Seq(Below(c)) /\ \A j \in Nat : j >= l => o[j][c] = o[l][c]
    BY <1>7, <1>8, <2>1, <2>2
  <2>4. Preorder(c) = o[l + 1][c]
    BY <1>1, <1>8, <2>1
  <2>5. l + 1 \in Nat /\ l + 1 >= l
    BY <1>8
  <2> QED
    BY <2>3, <2>4, <2>5
<1>10. Preorder(n) = o[l + 1][n] /\ o[l + 1][n] \in Seq(Below(n))
  BY ZenonT(60), <1>1, <1>4, <1>8, <1>9
<1>11. o[l + 1][n] = <<n>> \o FlattenSeq(Lists(o[l], n))
  BY <1>1, <1>8 DEF Orders
<1>12. Lists(o[l], n) = [i \in DOMAIN nodes[n].children |-> Preorder(nodes[n].children[i])]
  BY <1>9 DEF Lists, ToSet
<1> QED
  BY <1>10, <1>11, <1>12

-----------------------------------------------------------------------------
(* What a search has found, and what it will find.                         *)

\* A node without a match above it
Clear(n) == \A m \in want : n \in Below(m) => m = n

\* The matches that a search puts down
Sought == IF job = "collect" THEN want ELSE Outermost

\* The nodes that a list of steps visits and those below them, in order, and the
\* matches among them
AheadOf(todo) == FlattenSeq([i \in DOMAIN todo |-> Preorder(todo[i].node)])
Rest(todo) == Only(AheadOf(todo), Sought)

\* A search visits nodes only, and findNode none below a match.
Ready(todo) ==
    /\ todo \in Seq(Steps)
    /\ \A i \in DOMAIN todo : todo[i].node \in Nodes /\ (job = "find" => Clear(todo[i].node))

\* What a search that has put down some matches has to tell
Answer(found) == IF job = "collect" \/ found = <<>> THEN found ELSE <<Last(found)>>

\* The matches put down, and those that the frames have ahead, from the innermost
\* outwards, are all matches below the root.
Balance(st, found, r) ==
    /\ r[0] = <<>>
    /\ \A i \in 1 .. Len(st) : Ready(st[i].todo) /\ r[i] = Rest(st[i].todo) \o r[i - 1]
    /\ found \o r[Len(st)] = Only(Preorder(root), Sought)

Progress(st, res) ==
    \E found \in Seq(Nodes), r \in [0 .. Len(st) -> Seq(Nodes)] :
        Balance(st, found, r) /\ res = Answer(found)

SearchInv ==
    job \in Searches =>
        /\ want \subseteq Below(root)
        /\ ~done => Progress(stack, result)
        /\ done => result = Answer(Only(Preorder(root), Sought))

LEMMA SearchInvAnswers == SearchInv => SearchAnswers
BY DEF SearchInv, SearchAnswers, Answer, Sought, Searches

\* What is sought and what is ahead depend on the tree and on the search only.
LEMMA SameSearch ==
    ASSUME nodes' = nodes, job' = job, want' = want, root' = root
    PROVE  /\ Sought' = Sought
           /\ \A found : Answer(found)' = Answer(found)
           /\ \A n : Preorder(n)' = Preorder(n)
           /\ \A st, res : Progress(st, res)' <=> Progress(st, res)
<1>1. /\ Nodes' = Nodes /\ Steps' = Steps /\ \A n : Below(n)' = Below(n)
  BY SameTree
<1>2. \A n : Preorder(n)' = Preorder(n)
  BY <1>1 DEF Preorder
<1>3. Sought' = Sought /\ \A n : Clear(n)' <=> Clear(n)
  BY <1>1 DEF Sought, Outermost, Clear
<1>4. \A todo : Rest(todo)' = Rest(todo)
  BY <1>2, <1>3 DEF Rest, AheadOf
<1>5. \A todo : Ready(todo)' <=> Ready(todo)
  BY <1>1, <1>3 DEF Ready
<1>6. \A found : Answer(found)' = Answer(found)
  BY DEF Answer
<1>7. \A st, found, r : Balance(st, found, r)' <=> Balance(st, found, r)
  BY <1>2, <1>3, <1>4, <1>5 DEF Balance
<1>8. \A st, res : Progress(st, res)' <=> Progress(st, res)
  BY <1>1, <1>6, <1>7 DEF Progress
<1> QED
  BY <1>2, <1>3, <1>6, <1>8

-----------------------------------------------------------------------------
(* What is ahead.                                                          *)

LEMMA PreorderTyped ==
    ASSUME TreeInv, NEW n \in Nodes
    PROVE  Preorder(n) \in Seq(Nodes)
<1> PICK A, B, s : A = Below(n) /\ B = Nodes /\ s = Preorder(n)
  OBVIOUS
<1>1. s \in Seq(A) /\ A \subseteq B
  BY PreorderGoesOn, BelowIs
<1>2. s \in Seq(B)
  BY <1>1
<1> QED
  BY <1>2

LEMMA AheadTyped ==
    ASSUME TreeInv, NEW todo, Ready(todo)
    PROVE  /\ [i \in DOMAIN todo |-> Preorder(todo[i].node)] \in Seq(Seq(Nodes))
           /\ AheadOf(todo) \in Seq(Nodes) /\ Rest(todo) \in Seq(Nodes)
<1> DEFINE q == [i \in DOMAIN todo |-> Preorder(todo[i].node)]
           V == Seq(Nodes)
<1>1. todo \in Seq(Steps) /\ DOMAIN todo = 1 .. Len(todo) /\ Len(todo) \in Nat
  BY LenProperties DEF Ready
<1>2. \A i \in DOMAIN todo : Preorder(todo[i].node) \in V
  BY PreorderTyped DEF Ready
<1>3. q \in [1 .. Len(todo) -> V]
  BY <1>1, <1>2
<1> HIDE DEF q
<1>4. q \in Seq(V)
  <2> HIDE DEF V
  <2> QED
    BY <1>1, <1>3, SequenceOfLength
<1>5. AheadOf(todo) \in Seq(Nodes)
  BY <1>4, FlattenTyped DEF AheadOf, q
<1>6. Rest(todo) \in Seq(Nodes)
  <2> PICK A, B, s : A = Nodes \cap Sought /\ B = Nodes /\ s = Rest(todo)
    OBVIOUS
  <2>1. s \in Seq(A) /\ A \subseteq B
    BY <1>5, OnlyTyped DEF Rest
  <2>2. s \in Seq(B)
    BY <2>1
  <2> QED
    BY <2>2
<1> QED
  BY <1>4, <1>5, <1>6 DEF q

LEMMA RestEmpty == Ready(<<>>) /\ Rest(<<>>) = <<>>
<1>1. [i \in DOMAIN <<>> |-> Preorder(<<>>[i].node)] = <<>>
  OBVIOUS
<1> QED
  BY <1>1, FlattenEmpty, OnlyEmpty DEF Ready, Rest, AheadOf

\* What is ahead in the first step comes first.
LEMMA RestFirst ==
    ASSUME TreeInv, NEW todo, Ready(todo), todo # <<>>
    PROVE  /\ Ready(Tail(todo)) /\ Head(todo).node \in Nodes
           /\ job = "find" => Clear(Head(todo).node)
           /\ Rest(todo) = Only(Preorder(Head(todo).node), Sought) \o Rest(Tail(todo))
<1> DEFINE rest == Tail(todo)
           n == Head(todo).node
           q == [i \in DOMAIN todo |-> Preorder(todo[i].node)]
           p == [i \in DOMAIN rest |-> Preorder(rest[i].node)]
           one == Preorder(n)
           V == Seq(Nodes)
<1>1. /\ todo \in Seq(Steps) /\ DOMAIN todo = 1 .. Len(todo) /\ Len(todo) \in Nat
      /\ Len(todo) >= 1
  BY LenProperties, EmptySeq DEF Ready
<1>2. /\ rest \in Seq(Steps) /\ Len(rest) = Len(todo) - 1 /\ DOMAIN rest = 1 .. Len(todo) - 1
      /\ \A i \in 1 .. Len(todo) - 1 : rest[i] = todo[i + 1]
      /\ Head(todo) = todo[1]
  BY <1>1, HeadTailProperties, LenProperties
<1> HIDE DEF rest
<1>3. Ready(rest) /\ n \in Nodes /\ (job = "find" => Clear(n))
  <2>1. 1 \in DOMAIN todo /\ \A i \in 1 .. Len(todo) - 1 : i + 1 \in DOMAIN todo
    BY <1>1
  <2> QED
    BY <1>2, <2>1 DEF Ready
<1>4. /\ q \in Seq(V) /\ p \in Seq(V) /\ one \in V
  BY <1>3, AheadTyped, PreorderTyped
<1>5. /\ \A i \in 1 .. Len(todo) - 1 : p[i] = q[i + 1]
      /\ q[1] = one /\ Len(q) = Len(todo) /\ Len(p) = Len(todo) - 1
  <2>1. DOMAIN q = 1 .. Len(todo) /\ DOMAIN p = 1 .. Len(todo) - 1
    BY <1>1, <1>2
  <2>2. Len(q) = Len(todo) /\ Len(p) = Len(todo) - 1
    <3> HIDE DEF q, p, V
    <3>1. q \in [1 .. Len(todo) -> V] /\ p \in [1 .. Len(todo) - 1 -> V]
      BY <1>4, <2>1, LenProperties
    <3>2. Len(todo) - 1 \in Nat
      BY <1>1
    <3> QED
      BY ZenonT(60), <1>1, <3>1, <3>2, SequenceOfLength
  <2>3. \A i \in 1 .. Len(todo) - 1 : p[i] = q[i + 1]
    BY <1>1, <1>2
  <2>4. q[1] = one
    BY <1>1, <1>2
  <2> QED
    BY Zenon, <2>2, <2>3, <2>4
<1>6. q = <<one>> \o p
  <2> HIDE DEF q, p, one, V
  <2>1. <<one>> \in Seq(V) /\ Len(<<one>>) = 1 /\ <<one>>[1] = one
    BY <1>4
  <2> PICK c : c = <<one>> \o p
    OBVIOUS
  <2>2. /\ c \in Seq(V) /\ Len(c) = 1 + Len(p)
        /\ \A i \in 1 .. 1 + Len(p) : c[i] = IF i <= 1 THEN <<one>>[i] ELSE p[i - 1]
    BY <1>4, <2>1, ConcatProperties
  <2>3. ASSUME NEW i \in 1 .. Len(q)
        PROVE  q[i] = c[i]
    <3>1. CASE i = 1
      BY <1>1, <1>5, <2>1, <2>2, <3>1
    <3>2. CASE i # 1
      <4> PICK j : j = i - 1
        OBVIOUS
      <4>1. j \in 1 .. Len(todo) - 1 /\ j + 1 = i /\ i \in 1 .. 1 + Len(p) /\ ~(i <= 1)
        BY <1>1, <1>5, <3>2
      <4> QED
        BY <1>5, <2>2, <4>1
    <3> QED
      BY <3>1, <3>2
  <2>4. Len(q) = Len(c)
    <3>1. Len(todo) \in Nat
      BY <1>1
    <3>2. Len(q) = Len(todo) /\ Len(p) = Len(todo) - 1
      BY <1>5
    <3>3. Len(c) = 1 + Len(p)
      BY <2>2
    <3> QED
      BY <3>1, <3>2, <3>3
  <2> QED
    BY <1>4, <2>2, <2>3, <2>4, SeqEqual
<1>7. AheadOf(todo) = one \o AheadOf(rest)
  <2>1. AheadOf(todo) = FlattenSeq(q) /\ AheadOf(rest) = FlattenSeq(p)
    BY DEF AheadOf
  <2> HIDE DEF q, p, one
  <2>2. <<one>> \in Seq(V)
    BY <1>4
  <2>3. FlattenSeq(<<one>> \o p) = FlattenSeq(<<one>>) \o FlattenSeq(p)
    BY <1>4, <2>2, FlattenBoth
  <2>4. FlattenSeq(<<one>>) = one
    BY <1>4, FlattenOne
  <2> QED
    BY <1>6, <2>1, <2>3, <2>4
<1>8. Rest(todo) = Only(one, Sought) \o Rest(rest)
  <2>1. one \in Seq(Nodes) /\ AheadOf(rest) \in Seq(Nodes)
    BY <1>3, <1>4, AheadTyped
  <2> HIDE DEF one
  <2>2. Splits(one, AheadOf(rest), Sought)
    BY <2>1, OnlyBoth
  <2> QED
    BY <1>7, <2>1, <2>2 DEF Rest, Splits
<1> QED
  BY <1>3, <1>8 DEF rest

\* What is ahead in a node is the node and what is ahead in its children.
LEMMA RestOfNode ==
    ASSUME TreeInv, NEW n \in Nodes
    PROVE  Only(Preorder(n), Sought)
             = Only(<<n>>, Sought) \o Rest(Visits(nodes[n].children))
<1> DEFINE cs == nodes[n].children
           vs == Visits(cs)
           below == AheadOf(vs)
<1>1. [i \in DOMAIN vs |-> Preorder(vs[i].node)] = [i \in DOMAIN cs |-> Preorder(cs[i])]
  BY DEF Visits, Visit
<1>2. Preorder(n) = <<n>> \o below
  BY <1>1, PreorderGoesOn DEF AheadOf
<1>3. below \in Seq(Nodes)
  <2>1. TreeTypeOK
    BY DEF TreeInv
  <2>2. [i \in DOMAIN cs |-> Preorder(cs[i])] \in Seq(Seq(Nodes))
    <3> DEFINE f == [m \in Nodes |-> Preorder(m)]
    <3>1. \A c \in ToSet(cs) : c \in Nodes /\ f[c] \in Seq(Nodes)
      BY BelowIs, PreorderTyped
    <3>2. Lists(f, n) \in Seq(Seq(Nodes))
      <4> HIDE DEF f
      <4> QED
        BY <2>1, <3>1, ListsTyped
    <3>3. Lists(f, n) = [i \in DOMAIN cs |-> Preorder(cs[i])]
      BY <3>1 DEF Lists, ToSet
    <3> QED
      BY <3>2, <3>3
  <2> QED
    BY <1>1, <2>2, FlattenTyped DEF AheadOf
<1> HIDE DEF below
<1>4. Only(<<n>> \o below, Sought) = Only(<<n>>, Sought) \o Only(below, Sought)
  <2> PICK s : s = <<n>>
    OBVIOUS
  <2>1. s \in Seq(Nodes)
    OBVIOUS
  <2>2. Splits(s, below, Sought)
    BY <1>3, <2>1, OnlyBoth
  <2> QED
    BY <2>2 DEF Splits
<1> QED
  BY <1>2, <1>4 DEF Rest, below

-----------------------------------------------------------------------------
(* The steps of a search.                                                  *)

\* Without a match above a node that is none, there is none above its children.
LEMMA ClearFurther ==
    ASSUME TreeInv, root \in Nodes, IsTree(root), want \subseteq Below(root),
           NEW n \in Below(root), Clear(n), n \notin want, NEW c \in ToSet(nodes[n].children)
    PROVE  Clear(c)
<1> SUFFICES ASSUME NEW m \in want, c \in Below(m), m # c
             PROVE  FALSE
  BY DEF Clear
<1>1. /\ c \in Nodes /\ n \in Nodes
      /\ \A l \in Below(root) : c \in ToSet(nodes[l].children) => l = n
  BY OneParent
<1>2. /\ TreeTypeOK /\ IsGraph(Children) /\ DOMAIN Children = Nodes
      /\ \A l \in Nodes : Children[l] = ToSet(nodes[l].children) /\ Below(l) = Reach(Children, l)
  BY ChildrenAreGraph DEF TreeInv
<1>3. m \in Below(root) /\ m \in Nodes
  BY BelowIs
<1>4. Below(m) \subseteq Below(root)
  BY <1>2, <1>3, ReachFurther
<1>5. /\ m \in Below(m) /\ Below(m) \subseteq Nodes
      /\ \A l \in Below(m) : ToSet(nodes[l].children) \subseteq Below(m)
  BY <1>2, <1>3, ReachIsClosed DEF ClosedIn
\* Where c is below m and n is not, c can be left out of what is below m.
<1> DEFINE R == Below(m) \ {c}
<1>6. n \notin Below(m)
  BY DEF Clear
<1>7. ASSUME NEW l \in R, NEW d \in ToSet(nodes[l].children)
      PROVE  d \in R
  <2>1. d \in Below(m) /\ l \in Below(root) /\ l # n
    BY <1>4, <1>5, <1>6
  <2> QED
    BY <1>1, <2>1
<1>8. m \in R /\ R \subseteq Nodes
  BY <1>5
<1>9. ClosedIn(Children, R)
  BY <1>2, <1>7, <1>8 DEF ClosedIn
<1>10. R \in SUBSET DOMAIN Children
  BY <1>2, <1>8
<1> HIDE DEF R
<1>11. Reach(Children, m) \subseteq R
  BY <1>8, <1>9, <1>10, ReachIsLeast
<1> QED
  BY <1>2, <1>3, <1>11 DEF R

\* Below a match there is none that is outermost.
LEMMA NoneBelowMatch ==
    ASSUME TreeInv, NEW n \in Nodes, n \in want
    PROVE  Only(AheadOf(Visits(nodes[n].children)), Outermost) = <<>>
<1> DEFINE cs == nodes[n].children
           S == Below(n) \ {n}
           f == [m \in Nodes |-> Preorder(m)]
           vs == Visits(cs)
<1>1. TreeTypeOK
  BY DEF TreeInv
<1>2. \A c \in ToSet(cs) : c \in Nodes /\ f[c] \in Seq(S)
  <2> TAKE c \in ToSet(cs)
  <2>1. c \in Nodes /\ Below(c) \subseteq S
    BY BelowIs
  <2> PICK A, B, s : A = Below(c) /\ B = S /\ s = f[c]
    OBVIOUS
  <2>2. s \in Seq(A) /\ A \subseteq B
    BY <2>1, PreorderGoesOn
  <2>3. s \in Seq(B)
    BY <2>2
  <2> QED
    BY <2>1, <2>3
<1>3. FlattenSeq(Lists(f, n)) \in Seq(S)
  <2> HIDE DEF f, S
  <2> QED
    BY <1>1, <1>2, ListsTyped
<1>4. Lists(f, n) = [i \in DOMAIN vs |-> Preorder(vs[i].node)]
  BY <1>2 DEF Lists, Visits, Visit, ToSet
<1>5. S \cap Outermost = {}
  BY DEF Outermost
<1> HIDE DEF S
<1> QED
  BY <1>3, <1>4, <1>5, OnlyNone DEF AheadOf

LEMMA VisitsReady ==
    ASSUME TreeInv, NEW n \in Nodes,
           \A c \in ToSet(nodes[n].children) : job = "find" => Clear(c)
    PROVE  Ready(Visits(nodes[n].children))
<1> DEFINE cs == nodes[n].children
<1>1. cs \in Seq(Nodes) /\ DOMAIN cs = 1 .. Len(cs) /\ Len(cs) \in Nat
  BY NodesAre, LenProperties DEF TreeInv
<1>2. \A i \in DOMAIN cs : cs[i] \in Nodes /\ cs[i] \in ToSet(cs) /\ Visit(cs[i]) \in Steps
  BY <1>1, ElementOfSeq, StepOf DEF ToSet
<1>3. Visits(cs) \in [1 .. Len(cs) -> Steps]
  BY <1>1, <1>2 DEF Visits
<1>4. Visits(cs) \in Seq(Steps)
  BY <1>1, <1>3, SequenceOfLength
<1>5. \A i \in DOMAIN Visits(cs) : i \in DOMAIN cs /\ Visits(cs)[i].node = cs[i]
  BY DEF Visits, Visit
<1> QED
  BY <1>2, <1>4, <1>5 DEF Ready

\* The hook puts down a match that is sought, and leaves to be visited what may
\* have others.
LEMMA HookIs ==
    ASSUME TreeInv, job \in Searches, root \in Nodes, IsTree(root), want \subseteq Below(root),
           NEW n \in Below(root), job = "find" => Clear(n), NEW descend \in BOOLEAN,
           Hook(n, descend), NEW found \in Seq(Nodes), result = Answer(found),
           NEW todo, todo = IF descend THEN Visits(nodes[n].children) ELSE <<>>
    PROVE  /\ Ready(todo)
           /\ Only(Preorder(n), Sought) = Only(<<n>>, Sought) \o Rest(todo)
           /\ Only(<<n>>, Sought) \in Seq(Nodes)
           /\ result' = Answer(found \o Only(<<n>>, Sought))
<1> DEFINE vs == Visits(nodes[n].children)
           hit == Only(<<n>>, Sought)
<1>1. n \in Nodes
  BY BelowIs
<1>2. Only(Preorder(n), Sought) = hit \o Rest(vs)
  BY <1>1, RestOfNode
<1>3. hit = IF n \in Sought THEN <<n>> ELSE <<>>
  BY OnlyOne
<1>4. hit \in Seq(Nodes)
  <2>1. <<n>> \in Seq(Nodes) /\ <<>> \in Seq(Nodes)
    BY <1>1
  <2> QED
    BY <1>3, <2>1
<1>5. n \in Sought <=> n \in want
  BY DEF Sought, Outermost, Clear, Searches
<1>6. /\ found \o <<n>> = Append(found, n) /\ found \o <<n>> # <<>>
      /\ Last(found \o <<n>>) = n /\ found \o <<>> = found
  <2>1. /\ Append(found, n) \in Seq(Nodes) /\ Len(Append(found, n)) = Len(found) + 1
        /\ Append(found, n)[Len(found) + 1] = n /\ Len(found) \in Nat
    BY <1>1, AppendProperties, LenProperties
  <2>2. found \o <<n>> = Append(found, n) /\ found \o <<>> = found
    BY <1>1
  <2> QED
    BY <2>1, <2>2, EmptySeq DEF Last
<1> HIDE DEF vs, hit
<1>7. CASE job = "collect"
  <2>1. descend = TRUE /\ result' = IF n \in want THEN Append(result, n) ELSE result
    BY <1>7, Zenon DEF Hook
  <2>2. Ready(todo) /\ todo = vs
    BY <1>1, <1>7, <2>1, VisitsReady DEF vs
  <2>3. result' = Answer(found \o hit)
    BY <1>3, <1>5, <1>6, <1>7, <2>1 DEF Answer
  <2> QED
    BY <1>2, <1>4, <2>2, <2>3 DEF hit
<1>8. CASE job = "find" /\ n \in want
  <2>0. job # "collect"
    BY <1>8
  <2>1. todo = <<>> /\ result' = <<n>>
    <3>1. descend = FALSE /\ result' = <<n>>
      BY <1>8, <2>0, Zenon DEF Hook
    <3> QED
      BY <3>1
  <2>2. hit = <<n>>
    BY <1>3, <1>5, <1>8
  <2>3. Rest(vs) = <<>>
    BY <1>1, <1>8, NoneBelowMatch DEF Rest, Sought, vs
  <2>4. Ready(todo) /\ Rest(todo) = <<>>
    BY <2>1, RestEmpty
  <2>5. result' = Answer(found \o hit)
    BY <1>6, <1>8, <2>1, <2>2 DEF Answer
  <2> QED
    BY <1>2, <1>4, <2>3, <2>4, <2>5 DEF hit
<1>9. CASE job = "find" /\ n \notin want
  <2>0. job # "collect"
    BY <1>9
  <2>1. todo = vs /\ result' = result
    <3>1. descend = TRUE /\ result' = result
      BY <1>9, <2>0, Zenon DEF Hook
    <3> QED
      BY <3>1 DEF vs
  <2>2. \A c \in ToSet(nodes[n].children) : Clear(c)
    BY <1>9, ClearFurther
  <2>3. Ready(todo)
    BY <1>1, <2>1, <2>2, VisitsReady DEF vs
  <2>4. hit = <<>>
    BY <1>3, <1>5, <1>9
  <2>5. result' = Answer(found \o hit)
    BY <1>6, <2>1, <2>4
  <2> QED
    BY <1>2, <1>4, <2>1, <2>3, <2>5 DEF hit
<1> QED
  BY <1>7, <1>8, <1>9 DEF Searches

\* A node that is visited moves the matches that it puts down from what its frame
\* has ahead to what is found; the rest of what was ahead in it is its own frame's.
LEMMA ProgressEnters ==
    ASSUME TreeInv, WalkInv, job \in Searches, ~done, want \subseteq Below(root),
           Progress(stack, result), NEW n \in Nodes, EnterNode(n)
    PROVE  Progress(stack', result')
<1> DEFINE L == Len(stack)
           todo == stack[L].todo
           hit == Only(<<n>>, Sought)
<1>1. /\ root \in Nodes /\ IsTree(root) /\ stack \in Seq(Frame) /\ L \in Nat /\ L >= 1
      /\ Last(stack) = stack[L]
  BY WalkTyped, FramesAre DEF Searches
<1>2. PICK found \in Seq(Nodes), r \in [0 .. L -> Seq(Nodes)] :
         Balance(stack, found, r) /\ result = Answer(found)
  BY DEF Progress
<1>3. PICK descend \in BOOLEAN :
         /\ Hook(n, descend)
         /\ stack' = Append(Advanced, [node |-> n, indented |-> FALSE,
                                       todo |-> IF descend THEN Visits(nodes[n].children)
                                                           ELSE <<>>])
  BY DEF EnterNode
<1> DEFINE ahead == IF descend THEN Visits(nodes[n].children) ELSE <<>>
           f == [node |-> n, indented |-> FALSE, todo |-> ahead]
<1>4. /\ NextStep(Visit(n)) /\ todo # <<>> /\ Head(todo).node = n
  <2>1. NextStep(Visit(n))
    BY DEF EnterNode
  <2>2. Visit(n).node = n
    BY DEF Visit
  <2> QED
    BY <1>1, <2>1, <2>2 DEF NextStep
<1>5. /\ \A i \in 1 .. L : Ready(stack[i].todo) /\ r[i] = Rest(stack[i].todo) \o r[i - 1]
      /\ r[0] = <<>> /\ found \o r[L] = Only(Preorder(root), Sought)
  BY <1>2 DEF Balance
<1>6. /\ Ready(Tail(todo)) /\ (job = "find" => Clear(n))
      /\ Rest(todo) = Only(Preorder(n), Sought) \o Rest(Tail(todo))
  <2>1. Ready(todo)
    BY SMTT(30), <1>1, <1>5
  <2> HIDE DEF todo
  <2> QED
    BY <1>4, <2>1, RestFirst
<1>7. n \in Below(root)
  BY <1>4, NextIsBelow DEF Searches
<1>8. /\ Ready(ahead) /\ Only(Preorder(n), Sought) = hit \o Rest(ahead)
      /\ hit \in Seq(Nodes) /\ result' = Answer(found \o hit)
  <2> PICK a : a = ahead
    OBVIOUS
  <2>1. /\ Ready(a) /\ Only(Preorder(n), Sought) = Only(<<n>>, Sought) \o Rest(a)
        /\ Only(<<n>>, Sought) \in Seq(Nodes)
        /\ result' = Answer(found \o Only(<<n>>, Sought))
    BY <1>1, <1>2, <1>3, <1>6, <1>7, HookIs
  <2> QED
    BY <2>1
<1> HIDE DEF hit, ahead, todo
<1>9. /\ Len(stack') = L + 1 /\ stack'[L + 1].todo = ahead
      /\ stack'[L].todo = Tail(todo)
      /\ \A i \in 1 .. L - 1 : stack'[i] = stack[i]
  <2> PICK adv : adv = Advanced
    OBVIOUS
  <2>1. /\ adv \in Seq(Frame) /\ Len(adv) = L /\ adv[L].todo = Tail(todo)
        /\ \A i \in 1 .. L - 1 : adv[i] = stack[i]
    BY <1>1, <1>4, AdvancedIs DEF todo
  <2>2. f \in Frame /\ f.todo = ahead
    BY <1>8 DEF Ready, Frame, MaybeNode
  <2>3. stack' = Append(adv, f)
    BY <1>3 DEF ahead
  <2> HIDE DEF f
  <2>4. /\ Len(Append(adv, f)) = L + 1 /\ Append(adv, f)[L + 1] = f
        /\ \A i \in 1 .. L : Append(adv, f)[i] = adv[i]
    BY <2>1, <2>2, AppendProperties
  <2> QED
    BY <1>1, <2>1, <2>2, <2>3, <2>4
<1> PICK h, x, y, z, t : h = hit /\ x = Rest(ahead) /\ y = Rest(Tail(todo)) /\ z = r[L - 1]
                         /\ t = Only(Preorder(root), Sought)
  OBVIOUS
<1>10. /\ h \in Seq(Nodes) /\ x \in Seq(Nodes) /\ y \in Seq(Nodes) /\ z \in Seq(Nodes)
       /\ y \o z \in Seq(Nodes) /\ x \o (y \o z) \in Seq(Nodes) /\ found \o h \in Seq(Nodes)
       /\ h \o x \in Seq(Nodes)
  <2>1. x \in Seq(Nodes) /\ y \in Seq(Nodes)
    BY <1>6, <1>8, AheadTyped
  <2>2. z \in Seq(Nodes)
    <3>1. L - 1 \in 0 .. L
      BY <1>1
    <3> HIDE DEF L
    <3> QED
      BY <1>2, <3>1
  <2>3. h \in Seq(Nodes)
    BY <1>8
  <2> QED
    BY <2>1, <2>2, <2>3
<1>11. found \o (((h \o x) \o y) \o z) = t
  <2>1. L \in 1 .. L
    BY <1>1
  <2>2. r[L] = Rest(stack[L].todo) \o r[L - 1]
    <3> HIDE DEF L
    <3> QED
      BY <1>5, <2>1
  <2>3. r[L] = Rest(todo) \o z
    BY <2>2 DEF todo
  <2> QED
    BY <1>5, <1>6, <1>8, <2>3
<1>12. (found \o h) \o (x \o (y \o z)) = t
  <2>1. Associates(h \o x, y, z) /\ Associates(h, x, y \o z) /\ Associates(found, h, x \o (y \o z))
    BY <1>10, ConcatAssociates
  <2> QED
    BY <1>11, <2>1 DEF Associates
<1> DEFINE q == [i \in 0 .. L + 1 |-> IF i < L THEN r[i]
                                      ELSE IF i = L THEN y \o z ELSE x \o (y \o z)]
<1>13. /\ q \in [0 .. L + 1 -> Seq(Nodes)]
       /\ q[0] = <<>> /\ q[L] = y \o z /\ q[L + 1] = x \o (y \o z)
       /\ \A i \in 0 .. L - 1 : q[i] = r[i]
  <2> HIDE DEF L
  <2> PICK u, v : u = y \o z /\ v = x \o (y \o z)
    OBVIOUS
  <2>1. u \in Seq(Nodes) /\ v \in Seq(Nodes)
    BY <1>10
  <2>2. q = [i \in 0 .. L + 1 |-> IF i < L THEN r[i] ELSE IF i = L THEN u ELSE v]
    OBVIOUS
  <2> HIDE DEF q
  <2>3. /\ q \in [0 .. L + 1 -> Seq(Nodes)]
        /\ q[L] = u /\ q[L + 1] = v /\ \A i \in 0 .. L - 1 : q[i] = r[i]
    <3> PICK k, V : k = L /\ V = Seq(Nodes)
      OBVIOUS
    <3>1. k \in Nat /\ k >= 1 /\ u \in V /\ v \in V /\ r \in [0 .. k -> V]
      BY <1>1, <1>2, <2>1
    <3>2. q = [i \in 0 .. k + 1 |-> IF i < k THEN r[i] ELSE IF i = k THEN u ELSE v]
      BY <2>2
    <3>3. \A i \in 0 .. k - 1 : i \in 0 .. k /\ i \in 0 .. k + 1 /\ i < k
      BY <3>1
    <3>4. k \in 0 .. k + 1 /\ ~(k < k) /\ k + 1 \in 0 .. k + 1 /\ ~(k + 1 < k) /\ k + 1 # k
      BY <3>1
    <3>5. q[k] = u /\ q[k + 1] = v /\ \A i \in 0 .. k - 1 : q[i] = r[i]
      BY <3>2, <3>3, <3>4
    <3>6. ASSUME NEW i \in 0 .. k + 1
          PROVE  (IF i < k THEN r[i] ELSE IF i = k THEN u ELSE v) \in V
      BY <3>1
    <3>7. q \in [0 .. k + 1 -> V]
      BY <3>2, <3>6
    <3> QED
      BY <3>5, <3>7
  <2>4. 0 \in 0 .. L - 1
    BY <1>1
  <2> QED
    BY <1>5, <2>3, <2>4
<1> HIDE DEF q
<1>14. ASSUME NEW i \in 1 .. Len(stack')
       PROVE  Ready(stack'[i].todo) /\ q[i] = Rest(stack'[i].todo) \o q[i - 1]
  <2>1. CASE i = L + 1
    <3>1. i - 1 = L
      BY <1>1, <2>1
    <3> QED
      BY <1>8, <1>9, <1>13, <2>1, <3>1
  <2>2. CASE i = L
    <3>1. i - 1 \in 0 .. L - 1
      BY <1>1, <2>2
    <3> QED
      BY <1>6, <1>9, <1>13, <2>2, <3>1
  <2>3. CASE i # L /\ i # L + 1
    <3>1. i \in 1 .. L - 1 /\ i \in 0 .. L - 1 /\ i - 1 \in 0 .. L - 1 /\ i \in 1 .. L
      BY <1>1, <1>9, <2>3
    <3> QED
      BY <1>5, <1>9, <1>13, <3>1
  <2> QED
    BY <2>1, <2>2, <2>3
<1>15. Balance(stack', found \o h, q)
  BY <1>1, <1>9, <1>12, <1>13, <1>14 DEF Balance
<1> QED
  BY <1>8, <1>9, <1>10, <1>13, <1>15 DEF Progress

\* A node that is left has nothing ahead.
LEMMA ProgressLeaves ==
    ASSUME TreeInv, WalkInv, job \in Searches, ~done, Progress(stack, result), LeaveNode
    PROVE  Progress(stack', result')
<1> DEFINE L == Len(stack)
<1>1. /\ stack \in Seq(Frame) /\ L \in Nat /\ L > 1 /\ stack[L].todo = <<>>
      /\ stack' = Front(stack) /\ result' = result /\ Frames(stack, ToSet(entered))
  BY WalkTyped, FramesAre DEF Searches, LeaveNode, NodeDone
<1>2. Len(stack') = L - 1 /\ \A i \in 1 .. L - 1 : stack'[i] = stack[i]
  BY <1>1, FramesLeft
<1>3. PICK found \in Seq(Nodes), r \in [0 .. L -> Seq(Nodes)] :
         Balance(stack, found, r) /\ result = Answer(found)
  BY DEF Progress
<1>4. /\ \A i \in 1 .. L : Ready(stack[i].todo) /\ r[i] = Rest(stack[i].todo) \o r[i - 1]
      /\ r[0] = <<>> /\ found \o r[L] = Only(Preorder(root), Sought)
  BY <1>3 DEF Balance
<1>5. r[L] = r[L - 1]
  <2> PICK s : s = r[L - 1]
    OBVIOUS
  <2>1. L \in 1 .. L /\ L - 1 \in 0 .. L
    BY <1>1
  <2>2. r[L] = <<>> \o s /\ s \in Seq(Nodes)
    <3> HIDE DEF L
    <3>1. r[L] = Rest(stack[L].todo) \o r[L - 1]
      BY <1>4, <2>1
    <3> QED
      BY <1>1, <1>3, <2>1, <3>1, RestEmpty
  <2> QED
    BY <2>2
<1> DEFINE p == [i \in 0 .. L - 1 |-> r[i]]
<1>6. p \in [0 .. L - 1 -> Seq(Nodes)] /\ \A i \in 0 .. L - 1 : p[i] = r[i]
  BY <1>1
<1> HIDE DEF p
<1>7. ASSUME NEW i \in 1 .. L - 1
      PROVE  Ready(stack'[i].todo) /\ p[i] = Rest(stack'[i].todo) \o p[i - 1]
  <2>1. i \in 1 .. L /\ i \in 0 .. L - 1 /\ i - 1 \in 0 .. L - 1
    BY <1>1
  <2> QED
    BY <1>2, <1>4, <1>6, <2>1
<1>8. p[0] = <<>> /\ found \o p[L - 1] = Only(Preorder(root), Sought)
  <2>1. 0 \in 0 .. L - 1 /\ L - 1 \in 0 .. L - 1
    BY <1>1
  <2> HIDE DEF L
  <2> QED
    BY <1>4, <1>5, <1>6, <2>1
<1>9. Balance(stack', found, p)
  BY <1>2, <1>7, <1>8 DEF Balance
<1> QED
  BY <1>1, <1>2, <1>3, <1>6, <1>9 DEF Progress

\* When the search returns, all that there was ahead is found.
LEMMA ProgressEnds ==
    ASSUME TreeInv, WalkInv, job \in Searches, ~done, Progress(stack, result), Return
    PROVE  result = Answer(Only(Preorder(root), Sought))
<1>1. stack \in Seq(Frame) /\ Len(stack) = 1 /\ stack[1].todo = <<>>
  BY WalkTyped, FramesAre DEF Searches, Return
<1>2. PICK found \in Seq(Nodes), r \in [0 .. 1 -> Seq(Nodes)] :
         Balance(stack, found, r) /\ result = Answer(found)
  BY <1>1 DEF Progress
<1>3. r[1] = Rest(<<>>) \o r[0] /\ r[0] = <<>> /\ found \o r[1] = Only(Preorder(root), Sought)
  <2>1. 1 \in 1 .. Len(stack) /\ 1 - 1 = 0
    BY <1>1
  <2>2. r[1] = Rest(stack[1].todo) \o r[1 - 1]
    BY <1>2, <2>1 DEF Balance
  <2>3. r[0] = <<>> /\ found \o r[Len(stack)] = Only(Preorder(root), Sought)
    BY <1>2 DEF Balance
  <2> QED
    BY <1>1, <2>1, <2>2, <2>3
<1>4. r[1] = <<>>
  BY <1>3, RestEmpty
<1>5. found \o <<>> = found
  OBVIOUS
<1> QED
  BY <1>2, <1>3, <1>4, <1>5

-----------------------------------------------------------------------------
(* A search that begins.                                                   *)

Starting ==
    /\ TreeInv /\ root \in Nodes /\ want \subseteq Below(root)
    /\ stack = <<[node |-> None, todo |-> <<Visit(root)>>, indented |-> FALSE]>>
    /\ result = <<>>

LEMMA StartingWell == Starting => Progress(stack, result)
<1> SUFFICES ASSUME Starting
             PROVE  Progress(stack, result)
  OBVIOUS
<1> DEFINE todo == <<Visit(root)>>
           all == Only(Preorder(root), Sought)
           r == [i \in 0 .. 1 |-> IF i = 0 THEN <<>> ELSE all]
<1>1. TreeInv /\ root \in Nodes /\ want \subseteq Below(root) /\ result = <<>>
      /\ Len(stack) = 1 /\ stack[1].todo = todo
  BY DEF Starting
<1>2. Clear(root)
  <2> SUFFICES ASSUME NEW m \in want, root \in Below(m), m # root
               PROVE  FALSE
    BY DEF Clear
  <2>1. /\ IsGraph(Children) /\ Acyclic(Children) /\ DOMAIN Children = Nodes
        /\ \A l \in Nodes : Children[l] = ToSet(nodes[l].children) /\ Below(l) = Reach(Children, l)
    BY <1>1, ChildrenAreGraph DEF TreeInv
  <2>2. m \in Nodes /\ m \in Reach(Children, root) /\ root \in Reach(Children, m)
    BY <1>1, <2>1, BelowIs
\* What is below the root, but for the root, is below one of its children.
  <2>3. PICK c \in ToSet(nodes[root].children) : m \in Below(c)
    <3> DEFINE U == {root} \cup UNION {Below(c) : c \in ToSet(nodes[root].children)}
    <3>1. /\ U \subseteq Nodes /\ root \in U
      BY <1>1, BelowIs
    <3>2. \A l \in U : Children[l] \subseteq U
      <4>1. \A c \in ToSet(nodes[root].children) : c \in Below(c) /\ c \in Nodes
        BY <1>1, BelowIs
      <4>2. \A c \in ToSet(nodes[root].children) : ClosedIn(Children, Below(c))
        BY <2>1, <4>1, ReachIsClosed
      <4> QED
        BY <1>1, <2>1, <4>1, <4>2 DEF ClosedIn
    <3> HIDE DEF U
    <3>3. U \in SUBSET DOMAIN Children /\ ClosedIn(Children, U)
      BY <2>1, <3>1, <3>2 DEF ClosedIn
    <3>4. Reach(Children, root) \subseteq U
      BY <3>1, <3>3, ReachIsLeast
    <3> QED
      BY <2>2, <3>4 DEF U
  <2>4. c \in Nodes /\ root \notin Below(c)
    BY <1>1, BelowIs
  <2>5. Reach(Children, m) \subseteq Reach(Children, c)
    BY <2>1, <2>3, <2>4, ReachFurther
  <2> QED
    BY <2>1, <2>2, <2>4, <2>5
<1>3. /\ todo \in Seq(Steps) /\ DOMAIN todo = {1} /\ todo[1].node = root /\ todo # <<>>
      /\ Head(todo).node = root /\ Tail(todo) = <<>>
  <2>1. Visit(root) \in Steps
    BY <1>1, StepOf
  <2>2. Visit(root).node = root
    BY DEF Visit
  <2> QED
    BY <2>1, <2>2
<1> HIDE DEF todo
<1>4. Ready(todo)
  BY <1>1, <1>2, <1>3 DEF Ready
<1>5. all \in Seq(Nodes) /\ Rest(todo) = all
  <2>1. Rest(todo) = all \o Rest(<<>>) /\ Rest(<<>>) = <<>>
    BY <1>1, <1>3, <1>4, RestFirst, RestEmpty
  <2>2. all \in Seq(Nodes)
    <3> PICK A, B : A = Nodes \cap Sought /\ B = Nodes
      OBVIOUS
    <3>1. all \in Seq(A) /\ A \subseteq B
      BY <1>1, PreorderTyped, OnlyTyped
    <3>2. all \in Seq(B)
      <4> HIDE DEF all
      <4> QED
        BY <3>1
    <3> QED
      BY <3>2
  <2> HIDE DEF all
  <2> QED
    BY <2>1, <2>2
<1> HIDE DEF all
<1>6. /\ r \in [0 .. 1 -> Seq(Nodes)] /\ r[0] = <<>> /\ r[1] = all
      /\ <<>> \in Seq(Nodes) /\ all \o <<>> = all /\ <<>> \o all = all
  BY <1>5, EmptySeq
<1> HIDE DEF r
<1>7. Balance(stack, <<>>, r)
  <2>1. \A i \in 1 .. 1 : i = 1 /\ i - 1 = 0
    OBVIOUS
  <2> QED
    BY <1>1, <1>4, <1>5, <1>6, <2>1 DEF Balance, all
<1>8. result = Answer(<<>>)
  BY <1>1 DEF Answer
<1> QED
  BY <1>1, <1>6, <1>7, <1>8 DEF Progress

LEMMA StartingNext == Starting' => Progress(stack, result)'
BY StartingWell, PTL

-----------------------------------------------------------------------------
(* What a search answers.                                                  *)

LEMMA SearchKept ==
    ASSUME TreeInv, WalkInv, TreeInv', SearchInv, [Next]_vars
    PROVE  SearchInv'
<1>1. CASE job' \notin Searches
  BY <1>1 DEF SearchInv
<1>2. ASSUME NEW what \in Searches \cup {"visit"}, NEW r \in Nodes, BeginSearch(what, r),
             UNCHANGED treeVars, job' \in Searches
      PROVE  SearchInv'
  <2>1. /\ nodes' = nodes /\ job = "idle" /\ job' = what /\ root' = r /\ done' = done
        /\ result' = result
        /\ stack' = <<[node |-> None, todo |-> <<Visit(r)>>, indented |-> FALSE]>>
    BY <1>2 DEF BeginSearch, Begin, treeVars
  <2>2. done = FALSE /\ result = <<>>
    BY <2>1 DEF WalkInv, VisitorTypeOK
  <2>3. want' \subseteq Below(r)
    BY <1>2 DEF BeginSearch
  <2>4. Nodes' = Nodes /\ (Below(root))' = Below(r)
    BY <2>1, SameTree
  <2>5. Starting'
    BY <2>1, <2>2, <2>3, <2>4 DEF Starting, Visit
  <2>6. Progress(stack, result)'
    BY <2>5, StartingNext
  <2> QED
    BY <2>1, <2>2, <2>3, <2>4, <2>6 DEF SearchInv
<1>3. ASSUME job \in Searches, UNCHANGED <<nodes, job, root, want>>, ~done, ~done',
             Progress(stack', result')
      PROVE  SearchInv'
  <2>1. Progress(stack, result)'
    BY <1>3, SameSearch
  <2>2. want' \subseteq Below(root)'
    BY <1>3, SameTree DEF SearchInv
  <2> QED
    BY <1>3, <2>1, <2>2 DEF SearchInv
<1>4. ASSUME NEW n \in Nodes, EnterNode(n), UNCHANGED treeVars, job \in Searches
      PROVE  SearchInv'
  <2>1. /\ UNCHANGED <<nodes, job, root, want>> /\ ~done /\ ~done'
    BY <1>4 DEF EnterNode, Running, treeVars
  <2>2. want \subseteq Below(root) /\ Progress(stack, result)
    BY <1>4, <2>1 DEF SearchInv
  <2> QED
    BY <1>3, <1>4, <2>1, <2>2, ProgressEnters
<1>5. ASSUME LeaveNode, UNCHANGED treeVars, job \in Searches
      PROVE  SearchInv'
  <2>1. /\ UNCHANGED <<nodes, job, root, want>> /\ ~done /\ ~done'
    BY <1>5 DEF LeaveNode, Running, treeVars
  <2>2. Progress(stack, result)
    BY <1>5, <2>1 DEF SearchInv
  <2> QED
    BY <1>3, <1>5, <2>1, <2>2, ProgressLeaves
<1>6. ASSUME EndSearch, UNCHANGED treeVars, job \in Searches
      PROVE  SearchInv'
  <2>1. /\ UNCHANGED <<nodes, job, root, want, result>> /\ ~done /\ done' /\ Return
    BY <1>6 DEF EndSearch, Return, Running, treeVars
  <2>2. want \subseteq Below(root) /\ Progress(stack, result)
    BY <1>6, <2>1 DEF SearchInv
  <2>3. result = Answer(Only(Preorder(root), Sought))
    BY <1>6, <2>1, <2>2, ProgressEnds
  <2>4. (result = Answer(Only(Preorder(root), Sought)))'
    <3>1. Sought' = Sought /\ Preorder(root)' = Preorder(root)
      BY <2>1, SameSearch
    <3>2. Only(Preorder(root), Sought)' = Only(Preorder(root), Sought)
      BY <3>1 DEF Only
    <3> QED
      BY <2>1, <2>3, <3>2 DEF Answer
  <2>5. want' \subseteq Below(root)'
    BY <2>1, <2>2, SameTree
  <2> QED
    BY <2>1, <2>4, <2>5 DEF SearchInv
<1>7. ASSUME UNCHANGED vars, job \in Searches
      PROVE  SearchInv'
  <2>1. UNCHANGED <<nodes, job, done, root, want, stack, result>>
    BY <1>7 DEF vars, treeVars, visitorVars, walkVars
  <2>2. CASE ~done
    <3>1. Progress(stack', result')
      BY <1>7, <2>1, <2>2 DEF SearchInv
    <3> QED
      BY <1>3, <1>7, <2>1, <2>2, <3>1
  <2>3. CASE done
    <3>1. Sought' = Sought /\ Preorder(root)' = Preorder(root)
      BY <2>1, SameSearch
    <3>2. Only(Preorder(root), Sought)' = Only(Preorder(root), Sought)
      BY <3>1 DEF Only
    <3>3. (result = Answer(Only(Preorder(root), Sought)))'
      BY <1>7, <2>1, <2>3, <3>2 DEF Answer, SearchInv
    <3>4. want' \subseteq Below(root)'
      BY <1>7, <2>1, SameTree DEF SearchInv
    <3> QED
      BY <2>1, <2>3, <3>3, <3>4 DEF SearchInv
  <2> QED
    BY <2>2, <2>3
<1>8. CASE job = "idle" /\ TreeNext /\ UNCHANGED <<visitorVars, printVars>>
  BY <1>1, <1>8 DEF visitorVars, Searches
<1>9. CASE VisitorNext /\ UNCHANGED <<treeVars, printVars>>
  <2>1. UNCHANGED treeVars
    BY <1>9
  <2>2. ASSUME NEW what \in Searches \cup {"visit"}, NEW r \in Nodes, BeginSearch(what, r)
        PROVE  SearchInv'
    BY <1>1, <1>2, <2>1, <2>2
  <2>3. ASSUME job' = job, job \notin Searches
        PROVE  SearchInv'
    BY <1>1, <2>3
  <2>4. ASSUME NEW n \in Nodes, EnterNode(n)
        PROVE  SearchInv'
    <3>1. job' = job
      BY <2>4 DEF EnterNode
    <3> QED
      BY <1>4, <2>1, <2>3, <2>4, <3>1
  <2>5. CASE LeaveNode
    <3>1. job' = job
      BY <2>5 DEF LeaveNode
    <3> QED
      BY <1>5, <2>1, <2>3, <2>5, <3>1
  <2>6. CASE EndSearch
    <3>1. job' = job
      BY <2>6 DEF EndSearch, Return
    <3> QED
      BY <1>6, <2>1, <2>3, <2>6, <3>1
  <2> QED
    BY <1>9, <2>2, <2>4, <2>5, <2>6 DEF VisitorNext
<1>10. ASSUME NEW n \in Nodes, BeginPrint(n) \/ SkipNode(n) \/ CutNode(n) \/ PrintNode(n)
       PROVE  SearchInv'
  <2>1. job' = "print"
    BY <1>10 DEF BeginPrint, Begin, SkipNode, CutNode, PrintNode, Printing, Running
  <2> QED
    BY <1>1, <2>1 DEF Searches
<1>11. CASE PrintText \/ LeavePrinted \/ EndPrint
  <2>1. job' = "print"
    BY <1>11 DEF PrintText, LeavePrinted, EndPrint, Printing, Running, Return
  <2> QED
    BY <1>1, <2>1 DEF Searches
<1>12. CASE ForgetOutput
  <2>1. job' = "idle"
    BY <1>12 DEF ForgetOutput, Forget
  <2> QED
    BY <1>1, <2>1 DEF Searches
<1>13. CASE UNCHANGED vars
  <2>1. job' = job
    BY <1>13 DEF vars, visitorVars
  <2> QED
    BY <1>1, <1>7, <1>13, <2>1
<1> QED
  BY <1>8, <1>9, <1>10, <1>11, <1>12, <1>13 DEF Next

\* A search answers what it promises, for trees of any size, shape and history and
\* whatever it is for: collectNodes every match in the order of the text, findNode
\* the last of the outermost ones.
THEOREM SpecSearchAnswers == Spec => []SearchAnswers
<1>1. Init => TreeInv /\ WalkInv /\ SearchInv
  <2>1. Init => SearchInv
    BY DEF Init, VisitorInit, SearchInv, Searches
  <2> QED
    BY <2>1, InvBegins DEF Inv
<1>2. TreeInv /\ WalkInv /\ SearchInv /\ [Next]_vars => TreeInv' /\ WalkInv' /\ SearchInv'
  BY TreeAndWalkKept, SearchKept
<1> QED
  BY <1>1, <1>2, SearchInvAnswers, PTL DEF Spec

-----------------------------------------------------------------------------
(* What a function makes of the members of a sequence, put together.       *)

Each(g, s) == [i \in DOMAIN s |-> g[s[i]]]
All(g, s) == FlattenSeq(Each(g, s))

LEMMA EachTyped ==
    ASSUME NEW T, NEW s \in Seq(T), NEW S, NEW g, \A x \in ToSet(s) : g[x] \in Seq(S)
    PROVE  Each(g, s) \in Seq(Seq(S)) /\ Len(Each(g, s)) = Len(s) /\ All(g, s) \in Seq(S)
<1> PICK V : V = Seq(S)
  OBVIOUS
<1>1. DOMAIN s = 1 .. Len(s) /\ Len(s) \in Nat
  BY LenProperties
<1>2. Each(g, s) \in [1 .. Len(s) -> V]
  BY <1>1 DEF Each, ToSet
<1>3. Each(g, s) \in Seq(V) /\ Len(Each(g, s)) = Len(s)
  BY <1>1, <1>2, SequenceOfLength
<1>4. Each(g, s) \in Seq(Seq(S))
  BY <1>3
<1> QED
  BY <1>3, <1>4, FlattenTyped DEF All

LEMMA AllEmpty == \A g : All(g, <<>>) = <<>>
<1> TAKE g
<1>1. Each(g, <<>>) = <<>>
  BY DEF Each
<1> QED
  BY <1>1, FlattenEmpty DEF All

LEMMA AllOne ==
    ASSUME NEW x, NEW S, NEW g, g[x] \in Seq(S)
    PROVE  All(g, <<x>>) = g[x]
<1> PICK v : v = g[x]
  OBVIOUS
<1>1. Each(g, <<x>>) = <<v>>
  <2> PICK s : s = <<x>>
    OBVIOUS
  <2>1. DOMAIN s = 1 .. 1 /\ s[1] = x
    OBVIOUS
  <2>2. Each(g, s) = [i \in 1 .. 1 |-> v]
    BY <2>1 DEF Each
  <2>3. <<v>> = [i \in 1 .. 1 |-> v]
    OBVIOUS
  <2> QED
    BY <2>2, <2>3
<1>2. FlattenSeq(<<v>>) = v
  BY FlattenOne
<1> QED
  BY <1>1, <1>2 DEF All

Parted(g, s, t) == All(g, s \o t) = All(g, s) \o All(g, t)

LEMMA AllBoth ==
    ASSUME NEW T, NEW s \in Seq(T), NEW t \in Seq(T), NEW S, NEW g \in [T -> Seq(S)]
    PROVE  Parted(g, s, t)
<1> PICK V : V = Seq(S)
  OBVIOUS
<1> PICK a, b, c, st : a = Each(g, s) /\ b = Each(g, t) /\ c = Each(g, s \o t) /\ st = s \o t
  OBVIOUS
<1>1. /\ Len(s) \in Nat /\ DOMAIN s = 1 .. Len(s) /\ Len(t) \in Nat /\ DOMAIN t = 1 .. Len(t)
      /\ st \in Seq(T) /\ Len(st) = Len(s) + Len(t) /\ DOMAIN st = 1 .. Len(s) + Len(t)
      /\ \A i \in 1 .. Len(s) + Len(t) : st[i] = IF i <= Len(s) THEN s[i] ELSE t[i - Len(s)]
  BY ConcatProperties, LenProperties
<1>2. \A x \in ToSet(s) \cup ToSet(t) \cup ToSet(st) : g[x] \in Seq(S)
  BY <1>1, MembersAre
<1>3. /\ a \in Seq(V) /\ Len(a) = Len(s) /\ b \in Seq(V) /\ Len(b) = Len(t)
      /\ c \in Seq(V) /\ Len(c) = Len(s) + Len(t)
  BY <1>1, <1>2, EachTyped
<1>4. /\ \A i \in 1 .. Len(s) : a[i] = g[s[i]]
      /\ \A i \in 1 .. Len(t) : b[i] = g[t[i]]
      /\ \A i \in 1 .. Len(s) + Len(t) : c[i] = g[st[i]]
  BY <1>1 DEF Each
<1> PICK ab : ab = a \o b
  OBVIOUS
<1>5. /\ ab \in Seq(V) /\ Len(ab) = Len(s) + Len(t)
      /\ \A i \in 1 .. Len(s) + Len(t) : ab[i] = IF i <= Len(s) THEN a[i] ELSE b[i - Len(s)]
  <2> PICK m, n : m = Len(s) /\ n = Len(t)
    OBVIOUS
  <2>1. Len(a) = m /\ Len(b) = n /\ a \in Seq(V) /\ b \in Seq(V)
    BY <1>3
  <2>2. /\ a \o b \in Seq(V) /\ Len(a \o b) = Len(a) + Len(b)
        /\ \A i \in 1 .. Len(a) + Len(b) :
              (a \o b)[i] = IF i <= Len(a) THEN a[i] ELSE b[i - Len(a)]
    BY ZenonT(60), <2>1, ConcatProperties
  <2> QED
    BY <2>1, <2>2
<1>6. ASSUME NEW i \in 1 .. Len(s) + Len(t)
      PROVE  c[i] = ab[i]
  <2>1. CASE i <= Len(s)
    <3>1. i \in 1 .. Len(s)
      BY <1>1, <2>1
    <3>2. st[i] = s[i] /\ ab[i] = a[i]
      BY <1>1, <1>5, <2>1
    <3> QED
      BY ZenonT(60), <1>4, <3>1, <3>2
  <2>2. CASE ~(i <= Len(s))
    <3> PICK j : j = i - Len(s)
      OBVIOUS
    <3>1. j \in 1 .. Len(t)
      BY <1>1, <2>2
    <3>2. st[i] = t[j] /\ ab[i] = b[j]
      BY <1>1, <1>5, <2>2
    <3> QED
      BY ZenonT(60), <1>4, <3>1, <3>2
  <2> QED
    BY <2>1, <2>2
<1>7. c = ab
  BY <1>3, <1>5, <1>6, SeqEqual
<1>8. a \in Seq(Seq(S)) /\ b \in Seq(Seq(S))
  BY <1>3
<1>9. FlattenSeq(a \o b) = FlattenSeq(a) \o FlattenSeq(b)
  BY <1>8, FlattenBoth
<1> QED
  BY <1>7, <1>9 DEF All, Parted

\* What there is first, and the rest
LEMMA AllFirst ==
    ASSUME NEW T, NEW s \in Seq(T), s # <<>>, NEW S, NEW g \in [T -> Seq(S)]
    PROVE  /\ All(g, s) = g[Head(s)] \o All(g, Tail(s)) /\ Head(s) \in T /\ Tail(s) \in Seq(T)
<1>1. Head(s) \in T /\ Tail(s) \in Seq(T) /\ <<Head(s)>> \in Seq(T) /\ s = <<Head(s)>> \o Tail(s)
  OBVIOUS
<1> PICK x, t, h : x = Head(s) /\ t = Tail(s) /\ h = <<Head(s)>>
  OBVIOUS
<1>2. Parted(g, h, t)
  BY <1>1, AllBoth
<1>3. All(g, <<x>>) = g[x]
  BY <1>1, AllOne
<1> QED
  BY <1>1, <1>2, <1>3 DEF Parted

LEMMA AllSame ==
    ASSUME NEW s, NEW g, NEW h, \A x \in ToSet(s) : g[x] = h[x]
    PROVE  Each(g, s) = Each(h, s) /\ All(g, s) = All(h, s)
<1>1. Each(g, s) = Each(h, s)
  BY DEF Each, ToSet
<1> QED
  BY <1>1 DEF All

LEMMA AllThemselves ==
    ASSUME NEW T, NEW s \in Seq(T), NEW g, \A x \in ToSet(s) : g[x] = <<x>>
    PROVE  All(g, s) = s
<1> PICK q : q = Each(g, s)
  OBVIOUS
<1>1. Len(s) \in Nat /\ DOMAIN s = 1 .. Len(s) /\ \A i \in 1 .. Len(s) : s[i] \in T
  BY LenProperties, ElementOfSeq
<1>2. \A i \in 1 .. Len(s) : q[i] = <<s[i]>>
  BY <1>1 DEF Each, ToSet
<1>3. q \in Seq(Seq(T)) /\ Len(q) = Len(s)
  <2>1. \A x \in ToSet(s) : x \in T
    BY <1>1 DEF ToSet
  <2>2. \A x \in T : <<x>> \in Seq(T)
    OBVIOUS
  <2>3. \A x \in ToSet(s) : g[x] \in Seq(T)
    BY <2>1, <2>2
  <2> QED
    BY <2>3, EachTyped
<1>4. PICK e \in FlatsOf(q, T) : FlattenSeq(q) = e[Len(q)]
  BY <1>3, FlattenIs
<1>5. /\ e \in [0 .. Len(s) -> Seq(T)] /\ e[0] = <<>>
      /\ \A i \in 1 .. Len(s) : e[i] = e[i - 1] \o q[i]
  BY <1>3, <1>4 DEF FlatsOf
<1> DEFINE U == {k \in Nat : k <= Len(s) =>
                    e[k] \in Seq(T) /\ Len(e[k]) = k /\ \A j \in 1 .. k : e[k][j] = s[j]}
<1>6. 0 \in U
  BY <1>1, <1>5, EmptySeq
<1>7. ASSUME NEW k \in Nat, k \in U
      PROVE  k + 1 \in U
  <2> SUFFICES ASSUME k + 1 <= Len(s)
               PROVE  /\ e[k + 1] \in Seq(T) /\ Len(e[k + 1]) = k + 1
                      /\ \A j \in 1 .. k + 1 : e[k + 1][j] = s[j]
    OBVIOUS
  <2>1. k + 1 \in 1 .. Len(s) /\ (k + 1) - 1 = k /\ k <= Len(s)
    BY <1>1
  <2> PICK v, x : v = e[k] /\ x = s[k + 1]
    OBVIOUS
  <2>2. v \in Seq(T) /\ Len(v) = k /\ (\A j \in 1 .. k : v[j] = s[j]) /\ x \in T
    BY <1>1, <1>7, <2>1
  <2>3. e[k + 1] = v \o <<x>>
    <3> PICK m : m = k + 1
      OBVIOUS
    <3>1. e[m] = e[m - 1] \o q[m] /\ q[m] = <<s[m]>> /\ m - 1 = k
      BY <1>2, <1>5, <2>1
    <3> QED
      BY <3>1
  <2>4. v \o <<x>> = Append(v, x)
    BY <2>2
  <2>5. /\ Append(v, x) \in Seq(T) /\ Len(Append(v, x)) = k + 1 /\ Append(v, x)[k + 1] = x
        /\ \A j \in 1 .. k : Append(v, x)[j] = v[j]
    BY <2>2, AppendProperties
  <2> QED
    BY <2>2, <2>3, <2>4, <2>5
<1>8. Nat \subseteq U
  <2> HIDE DEF U
  <2> QED
    BY <1>6, <1>7, SimpleInduction
<1>9. /\ e[Len(s)] \in Seq(T) /\ Len(e[Len(s)]) = Len(s)
      /\ \A j \in 1 .. Len(s) : e[Len(s)][j] = s[j]
  BY <1>1, <1>8
<1>10. e[Len(s)] = s
  BY <1>9, SeqEqual
<1> QED
  BY <1>3, <1>4, <1>10 DEF All

-----------------------------------------------------------------------------
(* Lists: only some kinds have one, and it is all that the children of an  *)
(* interpolated string are.                                                *)

ListsAre(ns, N) ==
    \A n \in N : /\ ns[n].kind \notin WithItems => ns[n].items = <<>>
                 /\ ns[n].kind = "stringExpr" => ns[n].items = ns[n].children

ListInv == ListsAre(nodes, Nodes)

\* ms differs from ns at n and in parents only, and has the kinds of ns.
Elsewhere(ms, ns, N, n) ==
    /\ AreNodes(ms, N) /\ ms[n].kind = ns[n].kind
    /\ \A i \in N : i # n => /\ ms[i].kind = ns[i].kind /\ ms[i].items = ns[i].items
                             /\ ms[i].children = ns[i].children

LEMMA ElsewhereTwice ==
    ASSUME NEW N, NEW n \in N, NEW ms, NEW ns, NEW ls,
           Elsewhere(ns, ls, N, n), Elsewhere(ms, ns, N, n)
    PROVE  Elsewhere(ms, ls, N, n)
BY DEF Elsewhere

LEMMA AddsElsewhere ==
    ASSUME NEW N, NEW ns, AreNodes(ns, N), NEW n \in N, NEW c \in N, n # c, c # None
    PROVE  Elsewhere(AddChild(ns, n, c), ns, N, n)
<1> PICK ms : ms = AddChild(ns, n, c)
  OBVIOUS
<1>1. Attached(ms, ns, N, n, c)
  BY AddChildIs
<1> QED
  BY <1>1 DEF Attached, SameFields, Elsewhere

LEMMA RemovesElsewhere ==
    ASSUME NEW N, NEW ns, AreNodes(ns, N), NEW n \in N, NEW c, n # c
    PROVE  Elsewhere(RemoveChild(ns, n, c), ns, N, n)
<1> PICK ms : ms = RemoveChild(ns, n, c)
  OBVIOUS
<1>1. CASE c \in ToSet(ns[n].children)
  <2>1. Detached(ms, ns, N, n, c)
    BY <1>1, RemoveChildIs
  <2> QED
    BY <2>1 DEF Detached, SameFields, Elsewhere
<1>2. CASE c \notin ToSet(ns[n].children)
  <2>1. ms = ns
    BY <1>2 DEF RemoveChild
  <2> QED
    BY <2>1 DEF Elsewhere
<1> QED
  BY <1>1, <1>2

LEMMA ListsElsewhere ==
    ASSUME ListInv, TreeTypeOK, NEW n \in Nodes, nodes[n].kind \in WithItems \ {"stringExpr"},
           Elsewhere(nodes', nodes, Nodes, n)
    PROVE  ListInv'
<1>1. Nodes' = Nodes
  BY DEF Elsewhere, AreNodes, Nodes
<1> QED
  BY <1>1 DEF ListInv, ListsAre, Elsewhere

LEMMA AddItemKeepsLists ==
    ASSUME TreeInv, ListInv, NEW n \in Nodes, NEW c \in Nodes, AddItem(n, c)
    PROVE  ListInv'
<1> DEFINE v == Append(nodes[n].items, c)
           ms == [nodes EXCEPT ![n].items = v]
<1>1. /\ AreNodes(nodes, Nodes) /\ None \notin Nodes /\ n # c /\ c # None
      /\ nodes[n].items \in Seq(Nodes) /\ v \in Seq(Nodes)
  <2>1. TreeTypeOK /\ n \notin Below(c)
    BY DEF TreeInv, AddItem, Attachable
  <2> QED
    BY <2>1, NodesAre, NotItsOwnChild, AppendProperties
<1>2. nodes' = AddChild(ms, n, c) /\ nodes[n].kind \in WithItems
  <2>1. n \in DOMAIN nodes
    BY <1>1 DEF AreNodes
  <2> QED
    BY <2>1 DEF AddItem
<1> HIDE DEF ms
<1>3. Listed(ms, nodes, Nodes, n, v)
  BY <1>1, SetItemsIs DEF ms
<1> HIDE DEF v
<1>4. /\ AreNodes(ms, Nodes)
      /\ \A i \in Nodes : i # n => ms[i] = nodes[i]
      /\ ms[n].items = v /\ ms[n].kind = nodes[n].kind /\ ms[n].children = nodes[n].children
  BY <1>3 DEF Listed
<1>5. Attached(nodes', ms, Nodes, n, c)
  BY <1>1, <1>2, <1>4, AddChildIs
<1>6. /\ Nodes' = Nodes
      /\ \A i \in Nodes : i # n => /\ nodes'[i].kind = nodes[i].kind
                                   /\ nodes'[i].items = nodes[i].items
                                   /\ nodes'[i].children = nodes[i].children
      /\ nodes'[n].kind = nodes[n].kind
      /\ nodes'[n].items = v
      /\ nodes'[n].children = Append(nodes[n].children, c)
  BY <1>4, <1>5 DEF Attached, AreNodes, SameFields, Nodes
<1>7. \A i \in Nodes : /\ nodes[i].kind \notin WithItems => nodes[i].items = <<>>
                       /\ nodes[i].kind = "stringExpr" => nodes[i].items = nodes[i].children
  BY DEF ListInv, ListsAre
<1>8. nodes[n].kind = "stringExpr" => v = nodes'[n].children
  <2> SUFFICES ASSUME nodes[n].kind = "stringExpr"
               PROVE  v = nodes'[n].children
    OBVIOUS
  <2>1. nodes[n].items = nodes[n].children
    BY <1>7
  <2>2. v = Append(nodes[n].items, c)
    BY DEF v
  <2>3. nodes'[n].children = Append(nodes[n].children, c)
    BY <1>6
  <2> QED
    BY <2>1, <2>2, <2>3, Zenon
<1>9. ASSUME NEW i \in Nodes
      PROVE  /\ nodes'[i].kind \notin WithItems => nodes'[i].items = <<>>
             /\ nodes'[i].kind = "stringExpr" => nodes'[i].items = nodes'[i].children
  <2>1. CASE i = n
    BY <1>2, <1>6, <1>8, <2>1
  <2>2. CASE i # n
    BY <1>6, <1>7, <2>2
  <2> QED
    BY <2>1, <2>2
<1>10. ListsAre(nodes', Nodes)
  BY <1>9 DEF ListsAre
<1> QED
  BY <1>6, <1>10 DEF ListInv

LEMMA ConstructKeepsLists ==
    ASSUME TreeInv, ListInv, Construct
    PROVE  ListInv'
<1> PICK new : new = Len(nodes) + 1
  OBVIOUS
<1>1. PICK kind, args : Constructed(kind, args, new)
  BY ConstructIs
<1>2. TreeTypeOK /\ Len(nodes) \in Nat /\ Nodes = 1 .. Len(nodes)
  BY NodesAre DEF TreeInv
<1>3. Nodes' = Nodes \cup {new} /\ new \in 1 .. new
  <2>1. Nodes' = 1 .. new
    BY <1>1 DEF Constructed, AreNodes, Nodes
  <2> QED
    BY <1>2, <2>1
<1>4. \A i \in Nodes : /\ nodes'[i].kind = nodes[i].kind /\ nodes'[i].items = nodes[i].items
                       /\ nodes'[i].children = nodes[i].children
  BY <1>1 DEF Constructed
<1>5. nodes'[new].kind = kind /\ nodes'[new].items = <<>>
  BY <1>1 DEF Constructed
<1>6. kind = "stringExpr" => nodes'[new].children = <<>>
  <2> SUFFICES ASSUME kind = "stringExpr"
               PROVE  nodes'[new].children = <<>>
    OBVIOUS
  <2>1. args \in Seq(MaybeNode) /\ Len(args) = 0
    BY <1>1 DEF Constructed, ArgsRight, Arity
  <2>2. ToSet(args) = {}
    BY <2>1, LenProperties DEF ToSet
  <2> PICK cs : cs = nodes'[new].children
    OBVIOUS
  <2>3. cs \in Seq(1 .. new) /\ \A x \in 1 .. new : x \notin ToSet(cs)
    <3>1. nodes'[new] \in NodeOver(1 .. new)
      BY <1>1, <1>3 DEF Constructed, AreNodes
    <3> QED
      BY <1>1, <2>2, <3>1 DEF Constructed, NodeOver
  <2>4. ToSet(cs) = {}
    BY <2>3, MembersAre
  <2>5. cs = <<>>
    BY SMTT(30), <2>3, <2>4 DEF ToSet
  <2> QED
    BY <2>5
<1> QED
  BY <1>3, <1>4, <1>5, <1>6 DEF ListInv, ListsAre

LEMMA TreeKeepsLists ==
    ASSUME TreeInv, ListInv, TreeNext
    PROVE  ListInv'
<1> USE DEF TreeInv
<1>1. /\ AreNodes(nodes, Nodes) /\ None \notin Nodes
      /\ \A n \in Nodes : nodes[n].items \in Seq(Nodes) /\ nodes[n].field \in {None} \cup Nodes
  BY NodesAre DEF MaybeNode
<1>2. ASSUME NEW n \in Nodes, NEW c \in Nodes, SetBinding(n, c)
      PROVE  ListInv'
  <2> PICK ms : ms = [nodes EXCEPT ![n].field = c]
    OBVIOUS
  <2>1. n # c /\ c # None /\ nodes' = AddChild(ms, n, c) /\ nodes[n].kind = "matchCase"
    BY <1>1, <1>2, NotItsOwnChild DEF SetBinding, Attachable
  <2>2. Filled(ms, nodes, Nodes, n, c)
    BY <1>1, SetFieldIs
  <2>3. Elsewhere(ms, nodes, Nodes, n) /\ AreNodes(ms, Nodes)
    BY <2>2 DEF Filled, Elsewhere
  <2>4. Elsewhere(nodes', ms, Nodes, n)
    BY <2>1, <2>3, AddsElsewhere
  <2>5. Elsewhere(nodes', nodes, Nodes, n)
    BY <2>3, <2>4, ElsewhereTwice
  <2> QED
    BY <2>1, <2>5, ListsElsewhere DEF WithItems
<1>3. ASSUME NEW n \in Nodes, NEW c \in Nodes, RemoveItem(n, c)
      PROVE  ListInv'
  <2> PICK v : v = RemoveFirst(nodes[n].items, c)
    OBVIOUS
  <2> PICK ms : ms = [nodes EXCEPT ![n].items = v]
    OBVIOUS
  <2>1. c \in ToSet(nodes[n].items) /\ nodes[n].kind = "plain"
    BY <1>3 DEF RemoveItem
  <2>2. n # c
    <3>1. Occurs(nodes[n].items, c) > 0
      BY <1>1, <2>1, PlacesFinite, OccursNever
    <3> QED
      BY <3>1, NotItsOwnChild
  <2>3. nodes' = RemoveChild(ms, n, c)
    <3>1. n \in DOMAIN nodes
      BY <1>1 DEF AreNodes
    <3> QED
      BY <1>3, <3>1 DEF RemoveItem
  <2>4. v \in Seq(Nodes)
    BY <1>1, <2>1, RemoveFirstIs
  <2>5. Listed(ms, nodes, Nodes, n, v)
    BY <1>1, <2>4, SetItemsIs
  <2>6. Elsewhere(ms, nodes, Nodes, n) /\ AreNodes(ms, Nodes)
    BY <2>5 DEF Listed, Elsewhere
  <2>7. Elsewhere(nodes', ms, Nodes, n)
    BY <2>2, <2>3, <2>6, RemovesElsewhere
  <2>8. Elsewhere(nodes', nodes, Nodes, n)
    BY <2>6, <2>7, ElsewhereTwice
  <2> QED
    BY <2>1, <2>8, ListsElsewhere DEF WithItems
<1>4. ASSUME NEW n \in Nodes, NEW c \in MaybeNode, SetField(n, c)
      PROVE  ListInv'
  <2> PICK d : d = nodes[n].field
    OBVIOUS
  <2> PICK rs : rs = RemoveChild(nodes, n, d)
    OBVIOUS
  <2> PICK ms : ms = [rs EXCEPT ![n].field = c]
    OBVIOUS
  <2>1. /\ nodes[n].kind \in WithField /\ nodes' = AddChild(ms, n, c)
        /\ c \in {None} \cup Nodes /\ (c # None => n # c /\ c \in Nodes)
    BY <1>4, NotItsOwnChild DEF SetField, Attachable, MaybeNode
  <2>2. n # d
    <3>1. d = None => n # d
      BY <1>1
    <3>2. d # None => d \in Nodes /\ If(d = d) > 0
      BY <1>1 DEF If
    <3> QED
      BY <3>1, <3>2, NotItsOwnChild
  <2>3. Elsewhere(rs, nodes, Nodes, n) /\ AreNodes(rs, Nodes)
    BY <1>1, <2>2, RemovesElsewhere DEF Elsewhere
  <2>4. Filled(ms, rs, Nodes, n, c)
    <3>1. c \in {None} \cup Nodes /\ AreNodes(rs, Nodes)
      BY <2>1, <2>3
    <3> QED
      BY <3>1, SetFieldIs
  <2>5. Elsewhere(ms, rs, Nodes, n) /\ AreNodes(ms, Nodes)
    BY <2>4 DEF Filled, Elsewhere
  <2>6. Elsewhere(nodes', ms, Nodes, n)
    <3>1. CASE c = None
      <4>1. nodes' = ms
        BY <2>1, <3>1 DEF AddChild
      <4> QED
        BY <2>5, <4>1 DEF Elsewhere
    <3>2. CASE c # None
      <4>1. c \in Nodes /\ n # c /\ nodes' = AddChild(ms, n, c) /\ AreNodes(ms, Nodes)
        BY <2>1, <2>5, <3>2
      <4> QED
        BY <3>2, <4>1, AddsElsewhere
    <3> QED
      BY <3>1, <3>2
  <2>7. Elsewhere(nodes', nodes, Nodes, n)
    BY <2>3, <2>5, <2>6, ElsewhereTwice
  <2> QED
    BY <2>1, <2>7, ListsElsewhere DEF WithItems, WithField
<1> QED
  BY <1>2, <1>3, <1>4, AddItemKeepsLists, ConstructKeepsLists DEF TreeNext

LEMMA SpecListInv == Spec => []ListInv
<1>1. Init => ListInv
  BY DEF Init, TreeInit, ListInv, ListsAre, Nodes
<1>2. TreeInv /\ ListInv /\ [Next]_vars => ListInv'
  <2> SUFFICES ASSUME TreeInv, ListInv, [Next]_vars
               PROVE  ListInv'
    OBVIOUS
  <2>1. CASE TreeNext
    BY <2>1, TreeKeepsLists
  <2>2. CASE UNCHANGED treeVars
    BY <2>2 DEF treeVars, ListInv, ListsAre, Nodes
  <2> QED
    BY <2>1, <2>2, TreeOrNot
<1> QED
  BY <1>1, <1>2, SpecTreeInv, PTL DEF Spec

-----------------------------------------------------------------------------
(* What the printer is meant to print, as a recursion.                     *)

\* What is told of the members of a node if v is told of the nodes
Told(v, n) == [c \in Nodes |-> IF Raw(n, c) THEN <<c>> ELSE v[c]]
ToldOf(v, n) == IF Kind(n) \in config.hidden THEN <<>> ELSE <<n>> \o All(Told(v, n), InOrder(n))

\* The members of a node are children of its.
LEMMA InOrderIs ==
    ASSUME TreeInv, NEW n \in Nodes
    PROVE  /\ InOrder(n) \in Seq(Nodes)
           /\ ToSet(InOrder(n)) \subseteq ToSet(nodes[n].children)
           /\ ToSet(nodes[n].children) \subseteq Nodes
<1> PICK S : S = ToSet(nodes[n].children)
  OBVIOUS
<1>1. /\ nodes[n].children \in Seq(Nodes) /\ nodes[n].items \in Seq(Nodes)
      /\ nodes[n].args \in Seq(MaybeNode) /\ None \notin Nodes
  BY NodesAre DEF TreeInv
<1>2. S \subseteq Nodes
  BY <1>1, MembersAre
<1>3. Named(n) \subseteq S
  BY TreeInvAgrees DEF TreeAgrees, ChildrenAreFields
<1>4. \A c \in S \cup {None} : Present(c) \in Seq(S)
  <2> TAKE c \in S \cup {None}
  <2>1. CASE c = None
    BY <2>1, EmptySeq DEF Present
  <2>2. CASE c # None
    <3>1. c \in S
      BY <2>2
    <3> QED
      BY <2>2, <3>1 DEF Present
  <2> QED
    BY <2>1, <2>2
<1>5. InOrder(n) \in Seq(S)
  <2>1. CASE nodes[n].kind = "forStmt"
    <3>1. Len(nodes[n].args) = 3
      BY <2>1 DEF TreeInv, FieldsCounted, ArgsRight, Arity
    <3> PICK as, is : as = nodes[n].args /\ is = nodes[n].items
      OBVIOUS
    <3>2. DOMAIN as = 1 .. 3 /\ ToSet(as) \subseteq S \cup {None} /\ ToSet(is) \subseteq S
      <4>1. ToSet(is) \subseteq Nodes
        BY <1>1, MembersAre
      <4> QED
        BY <1>1, <1>3, <3>1, <4>1, LenProperties DEF Named
    <3>3. as[1] \in S \cup {None} /\ as[2] \in S \cup {None} /\ as[3] \in S \cup {None}
      BY <3>2 DEF ToSet
    <3>4. is \in Seq(S)
      <4>1. DOMAIN is = 1 .. Len(is) /\ Len(is) \in Nat /\ is \in Seq(Nodes)
        BY <1>1, LenProperties
      <4>2. is \in [1 .. Len(is) -> S]
        <5>1. is \in [1 .. Len(is) -> Nodes]
          BY <4>1, LenProperties
        <5>2. \A i \in 1 .. Len(is) : is[i] \in S
          BY <3>2, <4>1 DEF ToSet
        <5> QED
          BY <5>1, <5>2
      <4> QED
        BY <4>1, <4>2, SequenceOfLength
    <3> PICK p, q, r : p = Present(as[1]) /\ q = Present(as[3]) /\ r = Present(as[2])
      OBVIOUS
    <3>5. p \in Seq(S) /\ q \in Seq(S) /\ r \in Seq(S)
      BY <1>4, <3>3
    <3>6. InOrder(n) = is \o p \o q \o r
      BY <2>1 DEF InOrder, Kind
    <3> QED
      BY <3>4, <3>5, <3>6
  <2>2. CASE nodes[n].kind # "forStmt"
    <3> PICK cs : cs = nodes[n].children
      OBVIOUS
    <3>1. DOMAIN cs = 1 .. Len(cs) /\ Len(cs) \in Nat /\ cs \in [1 .. Len(cs) -> Nodes]
      BY <1>1, LenProperties
    <3>2. \A i \in 1 .. Len(cs) : cs[i] \in S
      BY <3>1 DEF ToSet
    <3>3. cs \in [1 .. Len(cs) -> S]
      BY <3>1, <3>2
    <3>4. cs \in Seq(S)
      BY <3>1, <3>3, SequenceOfLength
    <3> QED
      BY <2>2, <3>4 DEF InOrder, Kind
  <2> QED
    BY <2>1, <2>2
<1>6. ToSet(InOrder(n)) \subseteq S
  BY <1>5, MembersAre
<1>7. InOrder(n) \in Seq(Nodes)
  <2> PICK s : s = InOrder(n)
    OBVIOUS
  <2>1. s \in Seq(S)
    BY <1>5
  <2>2. s \in Seq(Nodes)
    BY <1>2, <2>1
  <2> QED
    BY <2>2
<1> QED
  BY <1>2, <1>6, <1>7

LEMMA ToldTyped ==
    ASSUME TreeInv, NEW v \in [Nodes -> Seq(Nodes)], NEW n \in Nodes
    PROVE  /\ Told(v, n) \in [Nodes -> Seq(Nodes)]
           /\ ToldOf(v, n) \in Seq(Nodes)
<1>1. Told(v, n) \in [Nodes -> Seq(Nodes)]
  <2>1. \A c \in Nodes : <<c>> \in Seq(Nodes) /\ v[c] \in Seq(Nodes)
    OBVIOUS
  <2> QED
    BY <2>1 DEF Told
<1> PICK g, s : g = Told(v, n) /\ s = InOrder(n)
  OBVIOUS
<1>2. s \in Seq(Nodes) /\ ToSet(s) \subseteq Nodes
  BY InOrderIs
<1>3. \A c \in ToSet(s) : g[c] \in Seq(Nodes)
  BY <1>1, <1>2
<1> PICK a : a = All(g, s)
  OBVIOUS
<1>4. a \in Seq(Nodes)
  BY <1>2, <1>3, EachTyped
<1>5. <<n>> \o a \in Seq(Nodes) /\ <<>> \in Seq(Nodes)
  BY <1>4
<1> QED
  BY <1>1, <1>5 DEF ToldOf

\* What is told of a node depends on what is told of its children.
LEMMA ToldLocally ==
    ASSUME TreeInv, NEW n \in Nodes, NEW v, NEW w,
           \A c \in ToSet(nodes[n].children) : v[c] = w[c]
    PROVE  ToldOf(v, n) = ToldOf(w, n)
<1> PICK g, h, s : g = Told(v, n) /\ h = Told(w, n) /\ s = InOrder(n)
  OBVIOUS
<1>1. \A c \in ToSet(s) : g[c] = h[c]
  BY InOrderIs DEF Told
<1>2. All(g, s) = All(h, s)
  BY <1>1, AllSame
<1> QED
  BY <1>2 DEF ToldOf

\* What goes on by what is told settles when it has gone on as often as there are
\* nodes.
LEMMA Settles ==
    ASSUME TreeInv, NEW o, o[0] \in [Nodes -> Seq(Nodes)],
           \A k \in Nat : o[k + 1] = [n \in Nodes |-> ToldOf(o[k], n)]
    PROVE  /\ o[Len(nodes)] \in [Nodes -> Seq(Nodes)]
           /\ o[Len(nodes)] = [n \in Nodes |-> ToldOf(o[Len(nodes)], n)]
<1> DEFINE V == [Nodes -> Seq(Nodes)]
           T == {k \in Nat : o[k] \in V}
           Size(m) == Cardinality(Below(m))
           S == {k \in Nat : \A m \in Nodes : Size(m) <= k =>
                    \A j \in Nat : j >= k => o[j][m] = o[k][m]}
<1>1. \A m \in Nodes : Size(m) \in 1 .. Len(nodes) /\ Len(nodes) \in Nat
  BY BelowIs
<1>2. Nat \subseteq T
  <2>1. 0 \in T
    OBVIOUS
  <2>2. ASSUME NEW k \in Nat, k \in T
        PROVE  k + 1 \in T
    <3> PICK v : v = o[k]
      OBVIOUS
    <3>1. v \in V
      BY <2>2
    <3>2. \A n \in Nodes : ToldOf(v, n) \in Seq(Nodes)
      BY <3>1, ToldTyped
    <3>3. o[k + 1] = [n \in Nodes |-> ToldOf(v, n)]
      OBVIOUS
    <3>4. o[k + 1] \in V
      BY <3>2, <3>3
    <3> QED
      BY <3>4
  <2> HIDE DEF T
  <2> QED
    BY <2>1, <2>2, SimpleInduction
<1>3. 0 \in S
  BY <1>1
<1>4. ASSUME NEW k \in Nat, k \in S
      PROVE  k + 1 \in S
  <2> SUFFICES ASSUME NEW m \in Nodes, Size(m) <= k + 1, NEW j \in Nat, j >= k + 1
               PROVE  o[j][m] = o[k + 1][m]
    <3> HIDE DEF Size
    <3> QED
      OBVIOUS
  <2>1. \A c \in ToSet(nodes[m].children) : c \in Nodes /\ Size(c) < Size(m)
    BY BelowIs
  <2> HIDE DEF Size
  <2> PICK l : l = j - 1
    OBVIOUS
  <2>2. l \in Nat /\ l >= k /\ l + 1 = j
    OBVIOUS
  <2>3. \A c \in ToSet(nodes[m].children) : o[l][c] = o[k][c]
    <3> TAKE c \in ToSet(nodes[m].children)
    <3>1. c \in Nodes /\ Size(c) <= k
      BY <1>1, <2>1
    <3> QED
      BY <1>4, <2>2, <3>1
  <2> PICK v, w : v = o[l] /\ w = o[k]
    OBVIOUS
  <2>4. ToldOf(v, m) = ToldOf(w, m)
    BY <2>3, ToldLocally
  <2>5. o[j] = [n \in Nodes |-> ToldOf(v, n)] /\ o[k + 1] = [n \in Nodes |-> ToldOf(w, n)]
    BY <2>2
  <2> QED
    BY <2>4, <2>5
<1>5. Nat \subseteq S
  <2> HIDE DEF S
  <2> QED
    BY <1>3, <1>4, SimpleInduction
<1> PICK L : L = Len(nodes)
  OBVIOUS
<1>6. L \in Nat
  BY NodesAre DEF TreeInv
<1>7. o[L] \in V
  BY <1>2, <1>6
<1>8. \A m \in Nodes : o[L + 1][m] = o[L][m]
  <2> TAKE m \in Nodes
  <2>1. Size(m) <= L
    BY <1>1
  <2>2. L \in S /\ L + 1 \in Nat /\ L + 1 >= L
    BY <1>5, <1>6
  <2> HIDE DEF Size
  <2> QED
    BY <2>1, <2>2
<1>9. o[L + 1] \in V /\ o[L + 1] = [n \in Nodes |-> ToldOf(o[L], n)]
  BY <1>2, <1>6
<1>10. o[L + 1] = o[L]
  BY <1>7, <1>8, <1>9
<1> QED
  BY <1>7, <1>9, <1>10

\* What is told of each node
Telling == [n \in Nodes |-> Expected(n)]

LEMMA ExpectedIs ==
    ASSUME TreeInv
    PROVE  /\ Telling \in [Nodes -> Seq(Nodes)]
           /\ \A n \in Nodes : Telling[n] = Expected(n) /\ Expected(n) = ToldOf(Telling, n)
<1> DEFINE V == [Nodes -> Seq(Nodes)]
           Body(f) == [k \in Nat |-> [n \in Nodes |->
                        IF k = 0 \/ Kind(n) \in config.hidden THEN <<>>
                        ELSE <<n>> \o FlattenSeq([i \in DOMAIN InOrder(n) |->
                                         IF Raw(n, InOrder(n)[i]) THEN <<InOrder(n)[i]>>
                                         ELSE f[k - 1][InOrder(n)[i]]])]]
           P(f) == f = Body(f)
           h == CHOOSE f : P(f)
           step == [k \in Nat |-> [v \in V |-> [n \in Nodes |-> ToldOf(v, n)]]]
           b == [n \in Nodes |-> <<>>]
<1>1. \A n \in Nodes : Expected(n) = h[Len(nodes)][n]
  BY DEF Expected
<1>2. \A k \in Nat, v \in V : step[k][v] = [n \in Nodes |-> ToldOf(v, n)]
  OBVIOUS
<1>3. b \in V
  BY EmptySeq
<1>4. GoesOn(V, step)
  <2> SUFFICES ASSUME NEW k \in Nat, NEW v \in V PROVE step[k][v] \in V
    BY DEF GoesOn
  <2>1. \A n \in Nodes : ToldOf(v, n) \in Seq(Nodes)
    BY ToldTyped
  <2>2. step[k][v] = [n \in Nodes |-> ToldOf(v, n)]
    BY <1>2
  <2> HIDE DEF step
  <2> QED
    BY <2>1, <2>2
\* The body, in terms of what is told
<1>5. \A f : Body(f)[0] = b
  OBVIOUS
<1>6. ASSUME NEW f, NEW k \in Nat
      PROVE  Body(f)[k + 1] = [n \in Nodes |-> ToldOf(f[k], n)]
  <2> PICK j, w : j = k + 1 /\ w = f[k]
    OBVIOUS
  <2>1. j - 1 = k /\ j \in Nat /\ j # 0
    OBVIOUS
  <2>2. ASSUME NEW n \in Nodes
        PROVE  [i \in DOMAIN InOrder(n) |->
                   IF Raw(n, InOrder(n)[i]) THEN <<InOrder(n)[i]>> ELSE w[InOrder(n)[i]]]
               = Each(Told(w, n), InOrder(n))
    <3>1. \A i \in DOMAIN InOrder(n) : InOrder(n)[i] \in Nodes
      BY InOrderIs DEF ToSet
    <3> QED
      BY <3>1 DEF Each, Told
  <2>3. Body(f)[j] = [n \in Nodes |->
                        IF Kind(n) \in config.hidden THEN <<>>
                        ELSE <<n>> \o FlattenSeq([i \in DOMAIN InOrder(n) |->
                                         IF Raw(n, InOrder(n)[i]) THEN <<InOrder(n)[i]>>
                                         ELSE w[InOrder(n)[i]]])]
    BY <2>1
  <2> HIDE DEF Body
  <2> QED
    BY <2>2, <2>3 DEF ToldOf, All
<1>7. \E f : P(f)
  <2> HIDE DEF step, V, b
  <2>1. PICK f \in [Nat -> V] : Follows(f, b, step)
    BY <1>3, <1>4, RecursionExists
  <2>2. f[0] = b /\ \A k \in Nat : f[k + 1] = step[k][f[k]] /\ f[k] \in V
    BY <2>1 DEF Follows
  <2>3. Body(f) = [k \in Nat |-> Body(f)[k]]
    OBVIOUS
  <2> HIDE DEF Body
  <2>4. ASSUME NEW k \in Nat
        PROVE  f[k] = Body(f)[k]
    <3>1. CASE k = 0
      BY <1>5, <2>2, <3>1
    <3>2. CASE k # 0
      <4> PICK j : j = k - 1
        OBVIOUS
      <4>1. j \in Nat /\ j + 1 = k
        BY <3>2
      <4>2. f[k] = [n \in Nodes |-> ToldOf(f[j], n)]
        BY <1>2, <2>2, <4>1
      <4>3. Body(f)[k] = [n \in Nodes |-> ToldOf(f[j], n)]
        BY <1>6, <4>1
      <4> QED
        BY <4>2, <4>3
    <3> QED
      BY <3>1, <3>2
  <2>5. f = Body(f)
    BY <2>3, <2>4
  <2> QED
    BY <2>5
<1>8. h = Body(h)
  <2>1. P(h)
    <3> HIDE DEF P
    <3> QED
      BY <1>7
  <2> HIDE DEF h, Body
  <2> QED
    BY <2>1
<1> HIDE DEF h, Body
<1>9. h[0] \in V /\ \A k \in Nat : h[k + 1] = [n \in Nodes |-> ToldOf(h[k], n)]
  <2>1. Body(h)[0] = b
    BY <1>5
  <2>2. \A k \in Nat : Body(h)[k + 1] = [n \in Nodes |-> ToldOf(h[k], n)]
    BY <1>6
  <2> HIDE DEF b, V
  <2>3. h[0] = b
    BY <1>8, <2>1, Zenon
  <2>4. \A k \in Nat : h[k + 1] = [n \in Nodes |-> ToldOf(h[k], n)]
    BY <1>8, <2>2, Zenon
  <2> QED
    BY <1>3, <2>3, <2>4
<1> PICK e : e = h[Len(nodes)]
  OBVIOUS
<1>10. e \in V /\ e = [n \in Nodes |-> ToldOf(e, n)]
  BY <1>9, Settles
<1>11. Telling = e
  BY <1>1, <1>10 DEF Telling
<1> QED
  BY <1>1, <1>10, <1>11

-----------------------------------------------------------------------------
(* The nodes that pieces of output show.                                   *)

ShownKinds == {"open", "name", "error", "text"}
Show == [p \in Piece |-> IF p.what \in ShownKinds THEN <<p.node>> ELSE <<>>]

LEMMA ShowTyped == Show \in [Piece -> Seq(Nodes)]
<1>1. ASSUME NEW p \in Piece
      PROVE  (IF p.what \in ShownKinds THEN <<p.node>> ELSE <<>>) \in Seq(Nodes)
  <2>1. p.node \in Nodes
    BY DEF Piece
  <2>2. <<p.node>> \in Seq(Nodes) /\ <<>> \in Seq(Nodes)
    BY <2>1
  <2> QED
    BY <2>2
<1> QED
  BY <1>1 DEF Show

LEMMA ShownIs ==
    ASSUME NEW s \in Seq(Piece)
    PROVE  Shown(s) = All(Show, s) /\ Shown(s) \in Seq(Nodes)
<1>1. \A i \in DOMAIN s : s[i] \in Piece
  BY LenProperties, ElementOfSeq
<1>2. \A i \in DOMAIN s : Show[s[i]] = IF s[i].what \in ShownKinds THEN <<s[i].node>> ELSE <<>>
  BY <1>1 DEF Show
<1>3. Each(Show, s) = [i \in DOMAIN s |-> IF s[i].what \in ShownKinds
                                           THEN <<s[i].node>> ELSE <<>>]
  BY <1>2 DEF Each
<1>4. Shown(s) = All(Show, s)
  BY <1>3 DEF Shown, All, ShownKinds
<1>5. \A x \in ToSet(s) : Show[x] \in Seq(Nodes)
  BY <1>1, ShowTyped DEF ToSet
<1> PICK g : g = Show
  OBVIOUS
<1>6. All(g, s) \in Seq(Nodes)
  BY <1>5, EachTyped
<1> QED
  BY <1>4, <1>6

ShownParted(s, t) == Shown(s \o t) = Shown(s) \o Shown(t)

LEMMA ShownBoth ==
    ASSUME NEW s \in Seq(Piece), NEW t \in Seq(Piece)
    PROVE  ShownParted(s, t) /\ s \o t \in Seq(Piece)
<1> PICK g, P : g = Show /\ P = Piece
  OBVIOUS
<1>1. Parted(g, s, t)
  <2>1. g \in [P -> Seq(Nodes)] /\ s \in Seq(P) /\ t \in Seq(P)
    BY ShowTyped
  <2> QED
    BY <2>1, AllBoth
<1>2. s \o t \in Seq(P)
  OBVIOUS
<1> QED
  BY <1>1, <1>2, ShownIs DEF Parted, ShownParted

LEMMA ShownOne ==
    ASSUME NEW p \in Piece
    PROVE  /\ <<p>> \in Seq(Piece)
           /\ Shown(<<p>>) = IF p.what \in ShownKinds THEN <<p.node>> ELSE <<>>
<1> PICK g, P : g = Show /\ P = Piece
  OBVIOUS
<1>1. <<p>> \in Seq(P)
  OBVIOUS
<1>2. All(g, <<p>>) = g[p]
  <2>1. g[p] \in Seq(Nodes)
    BY ShowTyped
  <2> QED
    BY <2>1, AllOne
<1>3. Shown(<<p>>) = All(g, <<p>>)
  BY <1>1, ShownIs
<1>4. g[p] = IF p.what \in ShownKinds THEN <<p.node>> ELSE <<>>
  BY DEF Show
<1> QED
  BY <1>1, <1>2, <1>3, <1>4

LEMMA PutShown ==
    ASSUME indent \in Nat, Len(stack) \in Nat, Len(stack) >= 1, NEW n \in Nodes,
           NEW what \in {"open", "close", "attributes", "name", "text", "error", "dots"}
    PROVE  /\ Put(what, n) \in Piece /\ Put(what, n).what = what /\ Put(what, n).node = n
           /\ <<Put(what, n)>> \in Seq(Piece)
           /\ Shown(<<Put(what, n)>>) = IF what \in ShownKinds THEN <<n>> ELSE <<>>
<1> PICK p : p = Put(what, n)
  OBVIOUS
<1>1. p \in Piece
  BY PutTyped
<1>2. p.what = what /\ p.node = n
  BY DEF Put
<1>3. <<p>> \in Seq(Piece) /\ Shown(<<p>>) = IF p.what \in ShownKinds THEN <<p.node>> ELSE <<>>
  BY <1>1, ShownOne
<1> QED
  BY <1>1, <1>2, <1>3

\* A piece that shows nothing, behind others, changes nothing.
LEMMA ShownBehind ==
    ASSUME NEW s \in Seq(Piece), NEW t \in Seq(Piece), Shown(t) = <<>>
    PROVE  Shown(s \o t) = Shown(s)
<1> PICK a : a = Shown(s)
  OBVIOUS
<1>1. a \in Seq(Nodes) /\ Shown(s \o t) = a \o <<>>
  BY ShownIs, ShownBoth DEF ShownParted
<1>2. a \o <<>> = a
  BY <1>1
<1> QED
  BY <1>1, <1>2

LEMMA OpeningShown ==
    ASSUME indent \in Nat, Len(stack) \in Nat, Len(stack) >= 1, NEW n \in Nodes
    PROVE  Opening(n) \in Seq(Piece) /\ Shown(Opening(n)) = <<n>>
<1> PICK a, b : a = <<Put("open", n)>> /\ b = <<Put("attributes", n)>>
  OBVIOUS
<1>1. /\ a \in Seq(Piece) /\ b \in Seq(Piece) /\ Shown(a) = <<n>> /\ Shown(b) = <<>>
  BY PutShown DEF ShownKinds
<1>2. Opening(n) = a \o b
  BY DEF Opening
<1>3. a \o b \in Seq(Piece)
  BY <1>1, ShownBoth
<1> QED
  BY <1>1, <1>2, <1>3, ShownBehind

\* The hook of a node shows it, and that of a for statement its variables.
LEMMA PrintedShown ==
    ASSUME TreeTypeOK, indent \in Nat, Len(stack) \in Nat, Len(stack) >= 1, NEW n \in Nodes
    PROVE  Shown(Printed(n)) = IF Kind(n) = "forStmt" THEN <<n>> \o nodes[n].items ELSE <<n>>
<1> PICK o, c : o = Opening(n) /\ c = <<Put("close", n)>>
  OBVIOUS
<1>1. o \in Seq(Piece) /\ Shown(o) = <<n>> /\ c \in Seq(Piece) /\ Shown(c) = <<>>
  BY OpeningShown, PutShown DEF ShownKinds
<1>2. CASE Inline(n)
  <2>1. Printed(n) = o \o c /\ Kind(n) # "forStmt"
    BY <1>2 DEF Printed, Inline
  <2>2. Shown(o \o c) = <<n>>
    BY <1>1, ShownBehind
  <2> QED
    BY <2>1, <2>2
<1>3. CASE Kind(n) = "primitive"
  <2>1. Printed(n) = PrimitiveType(n)
    BY <1>3 DEF Printed, Inline
  <2>2. CASE config.compact
    <3>1. PrimitiveType(n) = o \o c
      BY <2>2 DEF PrimitiveType, Opening
    <3>2. Shown(o \o c) = <<n>>
      BY <1>1, ShownBehind
    <3> QED
      BY <1>3, <2>1, <3>1, <3>2
  <2>3. CASE ~config.compact
    <3>1. PrimitiveType(n) = <<Put("open", n)>>
      BY <2>3 DEF PrimitiveType
    <3>2. Shown(<<Put("open", n)>>) = <<n>>
      BY PutShown DEF ShownKinds
    <3> QED
      BY <1>3, <2>1, <3>1, <3>2
  <2> QED
    BY <2>2, <2>3
<1>4. CASE Kind(n) = "forStmt"
  <2> PICK is, v : is = nodes[n].items /\ v = Variables(n)
    OBVIOUS
  <2>1. is \in Seq(Nodes) /\ DOMAIN is = 1 .. Len(is) /\ Len(is) \in Nat
    BY NodesAre, LenProperties
  <2>2. DOMAIN v = DOMAIN is /\ \A i \in DOMAIN is : is[i] \in Nodes
    BY <2>1, ElementOfSeq DEF Variables
  <2>3. ASSUME NEW i \in DOMAIN is
        PROVE  v[i] \in Piece /\ Show[v[i]] = <<is[i]>>
    <3>1. v[i] = Put(IF Kind(is[i]) = "leaf" THEN "name" ELSE "error", is[i])
      BY DEF Variables
    <3> PICK x, what : x = is[i] /\ what = IF Kind(is[i]) = "leaf" THEN "name" ELSE "error"
      OBVIOUS
    <3>2. x \in Nodes /\ what \in {"name", "error"} /\ v[i] = Put(what, x)
      BY <2>2, <3>1
    <3>3. what \in {"open", "close", "attributes", "name", "text", "error", "dots"}
      BY <3>2
    <3>4. Put(what, x) \in Piece /\ Put(what, x).what = what /\ Put(what, x).node = x
      BY ZenonT(60), <3>2, <3>3, PutShown
    <3>5. v[i] \in Piece /\ v[i].what \in ShownKinds /\ v[i].node = x
      BY <3>2, <3>4 DEF ShownKinds
    <3> QED
      BY <3>5 DEF Show
  <2>4. v = [i \in 1 .. Len(is) |-> v[i]]
    BY <2>1 DEF Variables
  <2>5. v \in Seq(Piece)
    <3>1. v \in [1 .. Len(is) -> Piece]
      BY <2>1, <2>3, <2>4
    <3> QED
      BY <2>1, <3>1, SequenceOfLength
  <2>6. Shown(v) = is
    <3> PICK g : g = [x \in Nodes |-> <<x>>]
      OBVIOUS
    <3>1. Each(Show, v) = Each(g, is)
      BY <2>2, <2>3 DEF Each
    <3>2. All(Show, v) = All(g, is)
      BY <3>1 DEF All
    <3>3. \A x \in ToSet(is) : g[x] = <<x>>
      BY <2>2 DEF ToSet
    <3>4. All(g, is) = is
      BY <2>1, <3>3, AllThemselves
    <3> QED
      BY <2>5, <3>2, <3>4, ShownIs
  <2>7. Printed(n) = o \o v
    BY <1>4 DEF Printed, Inline
  <2>8. Shown(o \o v) = <<n>> \o is
    <3>1. ShownParted(o, v)
      BY <1>1, <2>5, ShownBoth
    <3> PICK m : m = <<n>>
      OBVIOUS
    <3>2. Shown(o) = m /\ Shown(v) = is
      BY <1>1, <2>6
    <3> QED
      BY <3>1, <3>2 DEF ShownParted
  <2> QED
    BY <1>4, <2>7, <2>8
<1>5. CASE ~Inline(n) /\ Kind(n) \notin {"primitive", "forStmt"}
  <2>1. Printed(n) = o
    BY <1>5 DEF Printed
  <2> QED
    BY <1>1, <1>5, <2>1
<1> QED
  BY <1>2, <1>3, <1>4, <1>5

-----------------------------------------------------------------------------
(* What the steps that are left are to print.                              *)

Ahead == [s \in Steps |-> IF s.do = "visit" THEN Expected(s.node)
                          ELSE IF s.do = "text" THEN <<s.node>> ELSE <<>>]
Unprinted(todo) == All(Ahead, todo)

LEMMA AheadIs ==
    ASSUME TreeInv
    PROVE  /\ Ahead \in [Steps -> Seq(Nodes)]
           /\ \A c \in Nodes : /\ Visit(c) \in Steps /\ Ahead[Visit(c)] = Expected(c)
                               /\ Text(c) \in Steps /\ Ahead[Text(c)] = <<c>>
                               /\ Expected(c) \in Seq(Nodes)
           /\ [do |-> "close", node |-> None] \in Steps
           /\ Ahead[[do |-> "close", node |-> None]] = <<>>
<1>1. \A c \in Nodes : Expected(c) \in Seq(Nodes)
  <2>1. Telling \in [Nodes -> Seq(Nodes)] /\ \A c \in Nodes : Telling[c] = Expected(c)
    BY ExpectedIs
  <2> QED
    BY <2>1
<1>2. ASSUME NEW s \in Steps
      PROVE  (IF s.do = "visit" THEN Expected(s.node)
              ELSE IF s.do = "text" THEN <<s.node>> ELSE <<>>) \in Seq(Nodes)
  <2>1. s.do \in {"visit", "text"} => s.node \in Nodes
    BY DEF Steps
  <2>2. s.do = "text" => <<s.node>> \in Seq(Nodes)
    BY <2>1
  <2>3. <<>> \in Seq(Nodes)
    OBVIOUS
  <2>4. s.do = "visit" => Expected(s.node) \in Seq(Nodes)
    BY <1>1, <2>1
  <2> QED
    BY <2>2, <2>3, <2>4
<1>3. Ahead \in [Steps -> Seq(Nodes)]
  BY <1>2 DEF Ahead
<1>4. ASSUME NEW c \in Nodes
      PROVE  /\ Visit(c) \in Steps /\ Ahead[Visit(c)] = Expected(c)
             /\ Text(c) \in Steps /\ Ahead[Text(c)] = <<c>>
  <2> PICK v, t : v = Visit(c) /\ t = Text(c)
    OBVIOUS
  <2>1. v \in Steps /\ t \in Steps
    BY StepOf
  <2>2. v.do = "visit" /\ v.node = c /\ t.do = "text" /\ t.node = c
    BY DEF Visit, Text
  <2> QED
    BY <2>1, <2>2 DEF Ahead
<1>5. /\ [do |-> "close", node |-> None] \in Steps
      /\ Ahead[[do |-> "close", node |-> None]] = <<>>
  <2> PICK s : s = [do |-> "close", node |-> None]
    OBVIOUS
  <2>1. s \in Steps /\ s.do = "close"
    BY DEF Steps
  <2> QED
    BY <2>1 DEF Ahead
<1> QED
  BY <1>1, <1>3, <1>4, <1>5

LEMMA UnprintedEmpty == Unprinted(<<>>) = <<>>
BY AllEmpty DEF Unprinted

UnprintedParted(s, t) == Unprinted(s \o t) = Unprinted(s) \o Unprinted(t)

LEMMA UnprintedBoth ==
    ASSUME TreeInv, NEW s \in Seq(Steps), NEW t \in Seq(Steps)
    PROVE  UnprintedParted(s, t) /\ s \o t \in Seq(Steps)
<1> PICK g, P : g = Ahead /\ P = Steps
  OBVIOUS
<1>1. g \in [P -> Seq(Nodes)] /\ s \in Seq(P) /\ t \in Seq(P)
  BY AheadIs
<1>2. Parted(g, s, t) /\ s \o t \in Seq(P)
  BY <1>1, AllBoth
<1> QED
  BY <1>2 DEF Unprinted, UnprintedParted, Parted

LEMMA UnprintedTyped ==
    ASSUME TreeInv, NEW s \in Seq(Steps)
    PROVE  Unprinted(s) \in Seq(Nodes)
<1> PICK g : g = Ahead
  OBVIOUS
<1>1. \A i \in DOMAIN s : s[i] \in Steps
  BY LenProperties, ElementOfSeq
<1>2. \A x \in ToSet(s) : g[x] \in Seq(Nodes)
  BY <1>1, AheadIs DEF ToSet
<1> QED
  BY <1>2, EachTyped DEF Unprinted

\* What is ahead in the first step comes first.
LEMMA UnprintedFirst ==
    ASSUME TreeInv, NEW s \in Seq(Steps), s # <<>>
    PROVE  /\ Unprinted(s) = Ahead[Head(s)] \o Unprinted(Tail(s))
           /\ Head(s) \in Steps /\ Tail(s) \in Seq(Steps)
<1> PICK g, P : g = Ahead /\ P = Steps
  OBVIOUS
<1>1. g \in [P -> Seq(Nodes)] /\ s \in Seq(P)
  BY AheadIs
<1>2. All(g, s) = g[Head(s)] \o All(g, Tail(s)) /\ Head(s) \in P /\ Tail(s) \in Seq(P)
  BY <1>1, AllFirst
<1> QED
  BY <1>2 DEF Unprinted

-----------------------------------------------------------------------------
(* A hook prints a node and leaves to be visited what else the node has to *)
(* tell.                                                                   *)

\* What is told in a node whose hook does not print a list
LEMMA TellingIs ==
    ASSUME TreeInv, NEW n \in Nodes, NEW c \in Nodes
    PROVE  Told(Telling, n)[c] = IF Raw(n, c) THEN <<c>> ELSE Expected(c)
BY ExpectedIs DEF Told

LEMMA ChildrenTold ==
    ASSUME TreeInv, NEW n \in Nodes, Kind(n) \notin {"forStmt", "stringExpr"}
    PROVE  Unprinted(Visits(nodes[n].children)) = All(Told(Telling, n), InOrder(n))
<1> PICK cs, g : cs = nodes[n].children /\ g = Told(Telling, n)
  OBVIOUS
<1>1. InOrder(n) = cs /\ \A c : ~Raw(n, c)
  BY DEF InOrder, Raw
<1>2. cs \in Seq(Nodes) /\ \A i \in DOMAIN cs : cs[i] \in Nodes
  BY NodesAre, LenProperties, ElementOfSeq DEF TreeInv
<1>3. \A i \in DOMAIN cs : Ahead[Visit(cs[i])] = g[cs[i]]
  BY <1>1, <1>2, AheadIs, TellingIs
<1>4. DOMAIN Visits(cs) = DOMAIN cs /\ \A i \in DOMAIN cs : Visits(cs)[i] = Visit(cs[i])
  BY DEF Visits
<1>5. Each(Ahead, Visits(cs)) = Each(g, cs)
  BY <1>3, <1>4 DEF Each
<1> QED
  BY <1>1, <1>5 DEF All, Unprinted

\* Nodes without fields or list have no children.
LEMMA NoChildren ==
    ASSUME TreeInv, ListInv, NEW n \in Nodes, Kind(n) \in {"leaf", "string", "primitive"}
    PROVE  nodes[n].children = <<>>
<1>1. /\ nodes[n].children \in Seq(Nodes) /\ nodes[n].args \in Seq(MaybeNode)
  BY NodesAre DEF TreeInv
<1>2. nodes[n].items = <<>> /\ nodes[n].field = None /\ Len(nodes[n].args) = 0
  BY DEF TreeInv, FieldsCounted, ArgsRight, Arity, ListInv, ListsAre, WithItems, WithField, Kind
<1>3. ToSet(nodes[n].args) = {} /\ ToSet(<<>>) = {}
  BY <1>1, <1>2, LenProperties DEF ToSet
<1>4. Named(n) = {}
  BY <1>2, <1>3 DEF Named
<1>5. ToSet(nodes[n].children) = {}
  BY <1>4, TreeInvAgrees DEF TreeAgrees, ChildrenAreFields, Kind
<1> PICK cs : cs = nodes[n].children
  OBVIOUS
<1>6. cs \in Seq(Nodes) /\ ToSet(cs) = {}
  BY <1>1, <1>5
<1>7. cs = <<>>
  <2>1. DOMAIN cs = 1 .. Len(cs) /\ Len(cs) \in Nat
    BY <1>6, LenProperties
  <2>2. Len(cs) = 0
    <3> SUFFICES ASSUME Len(cs) # 0
                 PROVE  FALSE
      OBVIOUS
    <3>1. 1 \in DOMAIN cs
      BY <2>1
    <3> QED
      BY <1>6, <3>1 DEF ToSet
  <2> QED
    BY <1>6, <2>2, EmptySeq
<1> QED
  BY <1>7

LEMMA PartsTold ==
    ASSUME TreeInv, ListInv, NEW n \in Nodes, Kind(n) = "stringExpr"
    PROVE  Unprinted(Parts(n)) = All(Told(Telling, n), InOrder(n))
<1> PICK is, g : is = nodes[n].items /\ g = Told(Telling, n)
  OBVIOUS
<1> DEFINE a == [i \in DOMAIN is |-> IF Kind(is[i]) = "string" THEN Text(is[i])
                                                                ELSE Visit(is[i])]
           b == IF config.compact THEN <<[do |-> "close", node |-> None]>> ELSE <<>>
<1>1. InOrder(n) = is /\ \A c : Raw(n, c) <=> Kind(c) = "string"
  BY DEF InOrder, Raw, ListInv, ListsAre, Kind
<1>2. /\ is \in Seq(Nodes) /\ DOMAIN is = 1 .. Len(is) /\ Len(is) \in Nat
      /\ \A i \in DOMAIN is : is[i] \in Nodes
  BY NodesAre, LenProperties, ElementOfSeq DEF TreeInv
<1>3. Parts(n) = a \o b
  BY DEF Parts
<1>4. ASSUME NEW i \in DOMAIN is
      PROVE  a[i] \in Steps /\ Ahead[a[i]] = g[is[i]]
  <2> PICK c : c = is[i]
    OBVIOUS
  <2>1. c \in Nodes /\ a[i] = IF Kind(c) = "string" THEN Text(c) ELSE Visit(c)
    BY <1>2
  <2> HIDE DEF a
  <2>2. g[c] = IF Kind(c) = "string" THEN <<c>> ELSE Expected(c)
    BY <1>1, <2>1, TellingIs
  <2> QED
    BY <2>1, <2>2, AheadIs
<1>5. DOMAIN a = DOMAIN is /\ a = [i \in DOMAIN is |-> a[i]]
  OBVIOUS
<1>6. b \in Seq(Steps) /\ Unprinted(b) = <<>>
  <2>1. CASE config.compact
    <3> PICK s : s = [do |-> "close", node |-> None]
      OBVIOUS
    <3>1. b = <<s>> /\ s \in Steps /\ Ahead[s] = <<>>
      BY <2>1, AheadIs
    <3> PICK g2 : g2 = Ahead
      OBVIOUS
    <3>2. g2[s] \in Seq(Nodes)
      BY <3>1
    <3>3. All(g2, <<s>>) = g2[s]
      BY <3>2, AllOne
    <3>4. <<s>> \in Seq(Steps)
      BY <3>1
    <3> QED
      BY <3>1, <3>3, <3>4 DEF Unprinted
  <2>2. CASE ~config.compact
    <3>1. b = <<>> /\ <<>> \in Seq(Steps)
      BY <2>2
    <3> QED
      BY <3>1, UnprintedEmpty
  <2> QED
    BY <2>1, <2>2
<1> HIDE DEF a, b
<1>7. a \in Seq(Steps)
  <2>1. a \in [1 .. Len(is) -> Steps]
    BY <1>2, <1>4, <1>5
  <2> QED
    BY <1>2, <2>1, SequenceOfLength
<1>8. Unprinted(a) = All(g, is)
  <2>1. Each(Ahead, a) = Each(g, is)
    BY <1>4, <1>5 DEF Each
  <2> QED
    BY <2>1 DEF Unprinted, All
<1>9. Unprinted(a \o b) = Unprinted(a)
  <2>1. UnprintedParted(a, b)
    BY <1>6, <1>7, UnprintedBoth
  <2> PICK u : u = Unprinted(a)
    OBVIOUS
  <2>2. u \in Seq(Nodes)
    BY <1>7, UnprintedTyped
  <2>3. u \o <<>> = u
    BY <2>2
  <2> QED
    BY <1>6, <2>1, <2>3 DEF UnprintedParted
<1> QED
  BY <1>1, <1>3, <1>8, <1>9

\* A part of a for statement that is no variable of its
LEMMA PartTold ==
    ASSUME TreeInv, NEW n \in Nodes, NEW c, c # None => c \in Nodes /\ ~Raw(n, c)
    PROVE  /\ Unprinted(VisitPart(c)) = All(Told(Telling, n), Present(c))
           /\ VisitPart(c) \in Seq(Steps) /\ Present(c) \in Seq(Nodes)
<1>1. CASE c = None
  <2>1. VisitPart(c) = <<>> /\ Present(c) = <<>>
    BY <1>1 DEF VisitPart, Present
  <2>2. All(Told(Telling, n), <<>>) = <<>>
    BY AllEmpty
  <2>3. <<>> \in Seq(Nodes) /\ <<>> \in Seq(Steps)
    OBVIOUS
  <2> QED
    BY <2>1, <2>2, <2>3, UnprintedEmpty
<1>2. CASE c # None
  <2> PICK v, e, g, h : v = Visit(c) /\ e = Expected(c) /\ g = Ahead /\ h = Told(Telling, n)
    OBVIOUS
  <2>1. c \in Nodes /\ v \in Steps /\ g[v] = e /\ e \in Seq(Nodes) /\ h[c] = e
    BY <1>2, AheadIs, TellingIs
  <2>2. VisitPart(c) = <<v>> /\ Present(c) = <<c>>
    BY <1>2 DEF VisitPart, Present
  <2>3. All(g, <<v>>) = e
    <3>1. g[v] \in Seq(Nodes)
      BY <2>1
    <3>2. All(g, <<v>>) = g[v]
      BY <3>1, AllOne
    <3> QED
      BY <2>1, <3>2
  <2>4. All(h, <<c>>) = e
    <3>1. h[c] \in Seq(Nodes)
      BY <2>1
    <3>2. All(h, <<c>>) = h[c]
      BY <3>1, AllOne
    <3> QED
      BY <2>1, <3>2
  <2>5. <<v>> \in Seq(Steps) /\ <<c>> \in Seq(Nodes)
    BY <2>1
  <2> QED
    BY <2>2, <2>3, <2>4, <2>5 DEF Unprinted
<1> QED
  BY <1>1, <1>2

\* In a tree, the variables of a for statement are none of its parts.
LEMMA PartsDiffer ==
    ASSUME TreeInv, IsTree(root), root \in Nodes, NEW n \in Below(root), Kind(n) = "forStmt",
           NEW i \in 1 .. 3
    PROVE  nodes[n].args[i] # None => nodes[n].args[i] \in Nodes /\ ~Raw(n, nodes[n].args[i])
<1> SUFFICES ASSUME nodes[n].args[i] # None
             PROVE  nodes[n].args[i] \in Nodes /\ ~Raw(n, nodes[n].args[i])
  OBVIOUS
<1> PICK as, x, is, cs : /\ as = nodes[n].args /\ x = nodes[n].args[i]
                         /\ is = nodes[n].items /\ cs = nodes[n].children
  OBVIOUS
<1>1. n \in Nodes /\ cs \in Seq(Nodes) /\ as \in Seq(MaybeNode) /\ is \in Seq(Nodes)
  BY OneParent, NodesAre DEF TreeInv
<1>2. Len(as) = 3
  BY <1>1 DEF TreeInv, FieldsCounted, ArgsRight, Arity, Kind
<1>3. DOMAIN as = 1 .. 3 /\ x \in ToSet(as) /\ x \in Nodes
  <2>1. DOMAIN as = 1 .. 3
    BY <1>1, <1>2, LenProperties
  <2>2. as[i] \in MaybeNode
    BY <1>1, <1>2, ElementOfSeq
  <2> QED
    BY <2>1, <2>2 DEF ToSet, MaybeNode
<1>4. /\ Occurs(as, x) \in Nat /\ Occurs(as, x) # 0 /\ Occurs(is, x) \in Nat
      /\ Occurs(cs, x) \in Nat
  BY <1>1, <1>3, PlacesFinite, OccursNever
<1>5. Occurs(cs, x) = Uses(as, nodes[n].field, is, x)
  BY <1>1, <1>3 DEF TreeInv, FieldsCounted, UsesRight, Kind
<1>6. Occurs(cs, x) # 0
  BY <1>4, <1>5 DEF Uses, If
<1>7. x \in ToSet(cs)
  BY <1>1, <1>6, OccursNever
<1>8. Occurs(cs, x) <= 1
  BY <1>7, OneParent
<1>9. Occurs(is, x) = 0
  BY <1>4, <1>5, <1>8 DEF Uses, If
<1>10. x \notin ToSet(is)
  BY <1>1, <1>9, OccursNever
<1> QED
  BY <1>3, <1>10 DEF Raw, Kind

LEMMA ForPartsTold ==
    ASSUME TreeInv, IsTree(root), root \in Nodes, NEW n \in Below(root), Kind(n) = "forStmt"
    PROVE  /\ nodes[n].items \in Seq(Nodes) /\ Unprinted(ForParts(n)) \in Seq(Nodes)
           /\ nodes[n].items \o Unprinted(ForParts(n)) = All(Told(Telling, n), InOrder(n))
<1> PICK as, is, g : as = nodes[n].args /\ is = nodes[n].items /\ g = Told(Telling, n)
  OBVIOUS
<1> PICK a, b, c, x, y, z :
        /\ a = VisitPart(as[1]) /\ b = VisitPart(as[3]) /\ c = VisitPart(as[2])
        /\ x = Present(as[1]) /\ y = Present(as[3]) /\ z = Present(as[2])
  OBVIOUS
<1>1. n \in Nodes /\ is \in Seq(Nodes)
  BY OneParent, NodesAre DEF TreeInv
<1>2. \A i \in 1 .. 3 : /\ Unprinted(VisitPart(as[i])) = All(g, Present(as[i]))
                        /\ VisitPart(as[i]) \in Seq(Steps) /\ Present(as[i]) \in Seq(Nodes)
  <2> TAKE i \in 1 .. 3
  <2> PICK w : w = as[i]
    OBVIOUS
  <2>1. w # None => w \in Nodes /\ ~Raw(n, w)
    BY PartsDiffer
  <2>2. /\ Unprinted(VisitPart(w)) = All(Told(Telling, n), Present(w))
        /\ VisitPart(w) \in Seq(Steps) /\ Present(w) \in Seq(Nodes)
    BY <1>1, <2>1, PartTold
  <2> QED
    BY <2>2
<1>3. /\ a \in Seq(Steps) /\ b \in Seq(Steps) /\ c \in Seq(Steps)
      /\ x \in Seq(Nodes) /\ y \in Seq(Nodes) /\ z \in Seq(Nodes)
      /\ Unprinted(a) = All(g, x) /\ Unprinted(b) = All(g, y) /\ Unprinted(c) = All(g, z)
  BY <1>2
<1>4. ForParts(n) = (a \o b) \o c /\ InOrder(n) = ((is \o x) \o y) \o z
  BY DEF ForParts, InOrder
<1>5. g \in [Nodes -> Seq(Nodes)]
  BY <1>1, ExpectedIs, ToldTyped
<1>6. All(g, is) = is
  <2>1. \A u \in ToSet(is) : g[u] = <<u>>
    <3> TAKE u \in ToSet(is)
    <3>1. u \in Nodes
      BY <1>1, MembersAre
    <3>2. Raw(n, u)
      BY DEF Raw
    <3> QED
      BY <1>1, <3>1, <3>2, TellingIs
  <2> QED
    BY <1>1, <2>1, AllThemselves
<1> PICK N : N = Nodes
  OBVIOUS
<1> PICK A, B, C : A = All(g, x) /\ B = All(g, y) /\ C = All(g, z)
  OBVIOUS
<1>7. A \in Seq(N) /\ B \in Seq(N) /\ C \in Seq(N) /\ is \in Seq(N)
  BY <1>1, <1>3, UnprintedTyped
<1>8. Unprinted(ForParts(n)) = (A \o B) \o C
  <2> PICK ab : ab = a \o b
    OBVIOUS
  <2>1. UnprintedParted(a, b) /\ ab \in Seq(Steps)
    BY <1>3, UnprintedBoth
  <2>2. UnprintedParted(ab, c)
    BY Zenon, <1>3, <2>1, UnprintedBoth
  <2>3. Unprinted(ab) = A \o B
    BY Zenon, <1>3, <2>1 DEF UnprintedParted
  <2>4. Unprinted(ab \o c) = (A \o B) \o C
    BY Zenon, <1>3, <2>2, <2>3 DEF UnprintedParted
  <2> QED
    BY Zenon, <1>4, <2>4
<1>9. All(g, InOrder(n)) = ((is \o A) \o B) \o C
  <2> PICK ix, ixy : ix = is \o x /\ ixy = (is \o x) \o y
    BY Zenon
  <2>1. /\ is \in Seq(N) /\ x \in Seq(N) /\ y \in Seq(N) /\ z \in Seq(N)
        /\ ix \in Seq(N) /\ ixy \in Seq(N) /\ ixy = ix \o y /\ g \in [N -> Seq(N)]
    <3>1. is \in Seq(N) /\ x \in Seq(N) /\ y \in Seq(N) /\ z \in Seq(N) /\ g \in [N -> Seq(N)]
      BY <1>1, <1>3, <1>5
    <3>2. ix \in Seq(N) /\ ixy \in Seq(N) /\ ixy = ix \o y
      BY <3>1
    <3> QED
      BY Zenon, <3>1, <3>2
  <2>2. Parted(g, is, x) /\ Parted(g, ix, y) /\ Parted(g, ixy, z)
    BY Zenon, <2>1, AllBoth
  <2>3. All(g, ix) = is \o A
    BY Zenon, <1>6, <2>2 DEF Parted
  <2>4. All(g, ixy) = (is \o A) \o B
    BY Zenon, <2>1, <2>2, <2>3 DEF Parted
  <2>5. All(g, ixy \o z) = ((is \o A) \o B) \o C
    BY Zenon, <2>2, <2>4 DEF Parted
  <2> QED
    BY Zenon, <1>4, <2>5
<1>10. is \o ((A \o B) \o C) = ((is \o A) \o B) \o C /\ (A \o B) \o C \in Seq(N)
  <2>1. Associates(is, A, B) /\ A \o B \in Seq(N)
    BY <1>7, ConcatAssociates
  <2> PICK ab : ab = A \o B
    OBVIOUS
  <2>2. ab \in Seq(N)
    BY <2>1
  <2>3. ab \o C \in Seq(N)
    BY <1>7, <2>2
  <2>4. Associates(is, ab, C)
    BY <1>7, <2>2, ConcatAssociates
  <2> QED
    BY Zenon, <2>1, <2>3, <2>4 DEF Associates
<1> QED
  BY Zenon, <1>7, <1>8, <1>9, <1>10

\* A hook prints a node and leaves to be visited what else there is to tell of it.
LEMMA NodeTold ==
    ASSUME TreeInv, ListInv, IsTree(root), root \in Nodes, NEW n \in Below(root),
           indent \in Nat, Len(stack) \in Nat, Len(stack) >= 1, Kind(n) \notin config.hidden
    PROVE  /\ Shown(Printed(n)) \in Seq(Nodes) /\ Unprinted(ToVisit(n)) \in Seq(Nodes)
           /\ Shown(Printed(n)) \o Unprinted(ToVisit(n)) = Expected(n)
<1> PICK g, tail : g = Told(Telling, n) /\ tail = All(Told(Telling, n), InOrder(n))
  OBVIOUS
<1>1. n \in Nodes /\ TreeTypeOK
  BY OneParent DEF TreeInv
<1>2. Expected(n) = <<n>> \o tail
  <2>1. Expected(n) = ToldOf(Telling, n)
    BY <1>1, ExpectedIs
  <2> QED
    BY <2>1 DEF ToldOf
<1>3. Printed(n) \in Seq(Piece) /\ Shown(Printed(n)) \in Seq(Nodes)
  BY <1>1, PrintedTyped, ShownIs
<1>4. Shown(Printed(n)) = IF Kind(n) = "forStmt" THEN <<n>> \o nodes[n].items ELSE <<n>>
  BY <1>1, PrintedShown
<1>5. ToVisit(n) \in Seq(Steps) /\ Unprinted(ToVisit(n)) \in Seq(Nodes)
  <2>1. ToVisit(n) \in Seq(Steps)
    BY ToVisitPending DEF Pending
  <2> QED
    BY <2>1, UnprintedTyped
<1>6. CASE Kind(n) = "forStmt"
  <2> PICK is, u, m : is = nodes[n].items /\ u = Unprinted(ForParts(n)) /\ m = <<n>>
    OBVIOUS
  <2>1. is \in Seq(Nodes) /\ u \in Seq(Nodes) /\ is \o u = tail /\ m \in Seq(Nodes)
    <3>1. is \in Seq(Nodes) /\ u \in Seq(Nodes) /\ is \o u = tail
      BY <1>6, ForPartsTold
    <3>2. m \in Seq(Nodes)
      BY <1>1
    <3> QED
      BY <3>1, <3>2
  <2>2. Unprinted(ToVisit(n)) = u
    BY <1>6 DEF ToVisit, Descends
  <2>3. Associates(m, is, u)
    BY <2>1, ConcatAssociates
  <2>4. Shown(Printed(n)) = m \o is /\ Expected(n) = m \o tail
    BY <1>2, <1>4, <1>6
  <2>5. (m \o is) \o u = m \o tail
    BY <2>1, <2>3 DEF Associates
  <2>6. Shown(Printed(n)) \o Unprinted(ToVisit(n)) = Expected(n)
    BY <2>2, <2>4, <2>5
  <2> QED
    BY <1>3, <1>5, <2>6
<1>7. CASE Kind(n) = "stringExpr"
  <2>1. ToVisit(n) = Parts(n)
    BY <1>7 DEF ToVisit, Descends
  <2>2. Unprinted(ToVisit(n)) = tail
    BY <1>1, <1>7, <2>1, PartsTold
  <2> QED
    BY <1>2, <1>3, <1>4, <1>5, <1>7, <2>2
<1>8. CASE Descends(n)
  <2>1. ToVisit(n) = Visits(nodes[n].children) /\ Kind(n) \notin {"forStmt", "stringExpr"}
    BY <1>8 DEF ToVisit, Descends
  <2>2. Unprinted(ToVisit(n)) = tail
    BY <1>1, <2>1, ChildrenTold
  <2> QED
    BY <1>2, <1>3, <1>4, <1>5, <2>1, <2>2
<1>9. CASE ~Descends(n) /\ Kind(n) \notin {"stringExpr", "forStmt"}
  <2>1. ToVisit(n) = <<>>
    BY <1>9 DEF ToVisit
  <2>2. Kind(n) \in {"leaf", "string", "primitive"}
    <3>1. Kind(n) \in Kinds
      BY <1>1, NodesAre DEF Kind
    <3> QED
      BY <1>9, <3>1 DEF Descends, Kinds
  <2>3. InOrder(n) = <<>>
    BY <1>1, <2>2, NoChildren DEF InOrder
  <2>4. tail = <<>> /\ Unprinted(ToVisit(n)) = <<>>
    BY <2>1, <2>3, AllEmpty, UnprintedEmpty
  <2> QED
    BY <1>2, <1>3, <1>4, <1>5, <1>9, <2>4
<1> QED
  BY <1>6, <1>7, <1>8, <1>9

-----------------------------------------------------------------------------
(* What was printed, and what will be.                                     *)

\* The nodes shown, and those that the frames have ahead, from the innermost
\* outwards, are what is expected of the root.
ToPrint(st, o, r) ==
    /\ r[0] = <<>>
    /\ \A i \in 1 .. Len(st) : r[i] = Unprinted(st[i].todo) \o r[i - 1]
    /\ Shown(o) \o r[Len(st)] = Expected(root)

PrintedSoFar(st, o) == \E r \in [0 .. Len(st) -> Seq(Nodes)] : ToPrint(st, o, r)

PrintInv ==
    job = "print" /\ config.maxDepth = 0 =>
        /\ ~done => PrintedSoFar(stack, out)
        /\ done => Shown(out) = Expected(root)

LEMMA PrintInvPrints == PrintInv => PrintedOnce
BY DEF PrintInv, PrintedOnce

\* What is expected depends on the tree and on the filter only.
LEMMA SamePrint ==
    ASSUME nodes' = nodes, config' = config, root' = root
    PROVE  /\ \A n : Expected(n)' = Expected(n)
           /\ \A o : Shown(o)' = Shown(o)
           /\ \A st, o : PrintedSoFar(st, o)' <=> PrintedSoFar(st, o)
<1>1. Nodes' = Nodes /\ Steps' = Steps
  BY SameTree
<1>2. /\ \A n : Kind(n)' = Kind(n)
      /\ \A n : InOrder(n)' = InOrder(n)
      /\ \A n, c : Raw(n, c)' <=> Raw(n, c)
  BY DEF Kind, InOrder, Raw
<1>3. \A n : Expected(n)' = Expected(n)
  BY <1>1 DEF Expected, InOrder, Raw, Kind, Present
<1>4. \A o : Shown(o)' = Shown(o)
  BY DEF Shown
<1>5. Ahead' = Ahead
  BY <1>1, <1>3 DEF Ahead
<1>6. \A todo : Unprinted(todo)' = Unprinted(todo)
  BY <1>5 DEF Unprinted, All, Each
<1>7. \A st, o, r : ToPrint(st, o, r)' <=> ToPrint(st, o, r)
  BY <1>3, <1>4, <1>6 DEF ToPrint
<1>8. \A st, o : PrintedSoFar(st, o)' <=> PrintedSoFar(st, o)
  BY <1>1, <1>7 DEF PrintedSoFar
<1> QED
  BY <1>3, <1>4, <1>8

LEMMA StacksTyped ==
    ASSUME WalkInv, job = "print", ~done
    PROVE  /\ stack \in Seq(Frame) /\ Len(stack) \in Nat /\ Len(stack) >= 1
           /\ Last(stack) = stack[Len(stack)] /\ root \in Nodes /\ IsTree(root)
           /\ \A i \in 1 .. Len(stack) : stack[i].todo \in Seq(Steps)
<1>1. /\ stack \in Seq(Frame) /\ Len(stack) \in Nat /\ Len(stack) >= 1
      /\ root \in Nodes /\ IsTree(root)
  BY WalkTyped
<1>2. Last(stack) = stack[Len(stack)] /\ \A i \in 1 .. Len(stack) : stack[i] \in Frame
  BY <1>1, FramesAre
<1> QED
  BY <1>1, <1>2 DEF Frame

\* A step that enters nothing shows what was ahead in it.
LEMMA StepShows ==
    ASSUME TreeInv, WalkInv, job = "print", ~done, PrintedSoFar(stack, out),
           Last(stack).todo # <<>>, NEW st, st = Advanced,
           NEW o, Shown(o) = Shown(out) \o Ahead[Head(Last(stack).todo)],
           Shown(out) \in Seq(Nodes)
    PROVE  PrintedSoFar(st, o)
<1> PICK L, todo, s : L = Len(stack) /\ todo = Last(stack).todo /\ s = Shown(out)
  OBVIOUS
<1>1. /\ stack \in Seq(Frame) /\ L \in Nat /\ L >= 1 /\ todo = stack[L].todo
      /\ \A i \in 1 .. L : stack[i].todo \in Seq(Steps)
  BY StacksTyped
<1>2. todo \in Seq(Steps) /\ todo # <<>> /\ L \in 1 .. L
  BY <1>1
<1> PICK N : N = Nodes
  OBVIOUS
<1>3. PICK r \in [0 .. L -> Seq(N)] : ToPrint(stack, out, r)
  BY DEF PrintedSoFar
<1>4. /\ Len(st) = L /\ st[L].todo = Tail(todo)
      /\ \A i \in 1 .. L : i # L => st[i] = stack[i]
  BY <1>1, AdvancedIs
<1> PICK a, b, c : a = Ahead[Head(todo)] /\ b = Unprinted(Tail(todo)) /\ c = r[L - 1]
  OBVIOUS
<1>5. /\ Unprinted(todo) = a \o b /\ a \in Seq(N) /\ b \in Seq(N) /\ c \in Seq(N)
      /\ s \in Seq(N)
  <2>1. /\ Unprinted(todo) = Ahead[Head(todo)] \o Unprinted(Tail(todo))
        /\ Head(todo) \in Steps /\ Tail(todo) \in Seq(Steps)
    BY <1>2, UnprintedFirst
  <2>2. a \in Seq(N) /\ b \in Seq(N)
    BY <2>1, AheadIs, UnprintedTyped
  <2>3. L - 1 \in 0 .. L
    BY <1>1
  <2> QED
    BY <2>1, <2>2, <2>3
<1>6. b \o c \in Seq(N)
  BY <1>5
<1> PICK bc : bc = b \o c
  BY Zenon
<1>7. s \o ((a \o b) \o c) = Expected(root)
  <2>1. s \o r[L] = Expected(root) /\ r[L] = Unprinted(stack[L].todo) \o r[L - 1]
    BY Zenon, <1>2, <1>3 DEF ToPrint
  <2>2. r[L] = (a \o b) \o c
    BY Zenon, <1>1, <1>5, <2>1
  <2> QED
    BY Zenon, <2>1, <2>2
<1>8. (s \o a) \o bc = Expected(root)
  <2>1. Associates(a, b, c)
    BY <1>5, ConcatAssociates
  <2>2. Associates(s, a, bc)
    BY <1>5, <1>6, ConcatAssociates
  <2> QED
    BY Zenon, <1>7, <2>1, <2>2 DEF Associates
<1> DEFINE q == [i \in 0 .. L |-> IF i = L THEN bc ELSE r[i]]
<1>9. q \in [0 .. L -> Seq(N)] /\ q[L] = bc /\ \A i \in 0 .. L - 1 : q[i] = r[i]
  <2> PICK V : V = Seq(N)
    OBVIOUS
  <2>1. bc \in V /\ r \in [0 .. L -> V] /\ L \in Nat
    BY <1>1, <1>6
  <2>2. ASSUME NEW i \in 0 .. L
        PROVE  (IF i = L THEN bc ELSE r[i]) \in V
    BY <2>1
  <2>3. q \in [0 .. L -> V]
    BY <2>2
  <2>4. L \in 0 .. L /\ \A i \in 0 .. L - 1 : i \in 0 .. L /\ i # L
    BY <2>1
  <2> QED
    BY <2>3, <2>4
<1> HIDE DEF q
<1>10. ASSUME NEW i \in 1 .. L
       PROVE  q[i] = Unprinted(st[i].todo) \o q[i - 1]
  <2>1. CASE i = L
    <3>1. q[L - 1] = c
      <4>1. L - 1 \in 0 .. L - 1
        BY <1>1
      <4> QED
        BY <1>9, <4>1
    <3> QED
      BY <1>4, <1>9, <2>1, <3>1
  <2>2. CASE i # L
    <3>1. i \in 0 .. L - 1 /\ i - 1 \in 0 .. L - 1
      BY <1>1, <2>2
    <3>2. st[i] = stack[i] /\ q[i] = r[i] /\ q[i - 1] = r[i - 1]
      BY <1>4, <1>9, <2>2, <3>1
    <3>3. r[i] = Unprinted(stack[i].todo) \o r[i - 1]
      BY <1>3 DEF ToPrint
    <3> QED
      BY <3>2, <3>3
  <2> QED
    BY <2>1, <2>2
<1>11. q[0] = <<>>
  <2>1. 0 \in 0 .. L - 1
    BY <1>1
  <2> QED
    BY <1>3, <1>9, <2>1 DEF ToPrint
<1>12. Shown(o) \o q[L] = Expected(root)
  <2>1. Shown(o) = s \o a
    OBVIOUS
  <2> QED
    BY <1>8, <1>9, <2>1
<1>13. ToPrint(st, o, q)
  BY <1>4, <1>10, <1>11, <1>12 DEF ToPrint
<1> QED
  BY <1>4, <1>9, <1>13 DEF PrintedSoFar

\* A node that is entered shows itself, and its frame has ahead the rest of what was
\* ahead in its visit.
LEMMA NodeShows ==
    ASSUME TreeInv, ListInv, WalkInv, job = "print", ~done, indent \in Nat, out \in Seq(Piece),
           PrintedSoFar(stack, out), NEW n \in Nodes, NextStep(Visit(n)),
           Kind(n) \notin config.hidden,
           NEW f \in Frame, f.todo = ToVisit(n), NEW st, st = Append(Advanced, f),
           NEW o, o = out \o Printed(n)
    PROVE  PrintedSoFar(st, o)
<1> PICK L, todo, s : L = Len(stack) /\ todo = Last(stack).todo /\ s = Shown(out)
  OBVIOUS
<1>1. /\ stack \in Seq(Frame) /\ L \in Nat /\ L >= 1 /\ todo = stack[L].todo
      /\ \A i \in 1 .. L : stack[i].todo \in Seq(Steps)
      /\ root \in Nodes /\ IsTree(root)
  BY StacksTyped
<1>2. todo \in Seq(Steps) /\ todo # <<>> /\ Head(todo) = Visit(n) /\ L \in 1 .. L
  BY <1>1 DEF NextStep
<1>3. n \in Below(root)
  BY NextIsBelow
<1> PICK N : N = Nodes
  OBVIOUS
<1>4. PICK r \in [0 .. L -> Seq(N)] : ToPrint(stack, out, r)
  BY DEF PrintedSoFar
<1>5. /\ Len(st) = L + 1 /\ st[L].todo = Tail(todo) /\ st[L + 1] = f
      /\ \A i \in 1 .. L - 1 : st[i] = stack[i]
  <2> PICK adv : adv = Advanced
    OBVIOUS
  <2>1. /\ adv \in Seq(Frame) /\ Len(adv) = L /\ adv[L].todo = Tail(todo)
        /\ \A i \in 1 .. L : i # L => adv[i] = stack[i]
    BY <1>1, <1>2, AdvancedIs
  <2>2. /\ Len(Append(adv, f)) = L + 1 /\ Append(adv, f)[L + 1] = f
        /\ \A i \in 1 .. L : Append(adv, f)[i] = adv[i]
    BY <2>1, AppendProperties
  <2>3. \A i \in 1 .. L - 1 : i \in 1 .. L /\ i # L
    BY <1>1
  <2> QED
    BY <1>2, <2>1, <2>2, <2>3
<1> PICK h, t, b, c :
        /\ h = Shown(Printed(n)) /\ t = Unprinted(ToVisit(n))
        /\ b = Unprinted(Tail(todo)) /\ c = r[L - 1]
  OBVIOUS
<1>6. /\ Unprinted(todo) = (h \o t) \o b /\ s \in Seq(N) /\ h \in Seq(N) /\ t \in Seq(N)
      /\ b \in Seq(N) /\ c \in Seq(N) /\ Shown(o) = s \o h
  <2>1. /\ Unprinted(todo) = Ahead[Head(todo)] \o Unprinted(Tail(todo))
        /\ Tail(todo) \in Seq(Steps)
    BY <1>2, UnprintedFirst
  <2>2. Ahead[Head(todo)] = Expected(n)
    BY <1>2, AheadIs
  <2>3. h \in Seq(N) /\ t \in Seq(N) /\ h \o t = Expected(n)
    BY <1>1, <1>3, NodeTold
  <2>4. b \in Seq(N) /\ s \in Seq(N)
    BY <2>1, UnprintedTyped, ShownIs
  <2>5. c \in Seq(N)
    <3>1. L - 1 \in 0 .. L
      BY <1>1
    <3> QED
      BY <3>1
  <2>6. Shown(o) = s \o h
    <3>1. TreeTypeOK
      BY DEF TreeInv
    <3>2. Printed(n) \in Seq(Piece)
      BY <1>1, <3>1, PrintedTyped
    <3> QED
      BY <3>2, ShownBoth DEF ShownParted
  <2> QED
    BY <2>1, <2>2, <2>3, <2>4, <2>5, <2>6
<1> PICK bc, tbc : bc = b \o c /\ tbc = t \o (b \o c)
  OBVIOUS
<1>7. bc \in Seq(N) /\ tbc \in Seq(N) /\ tbc = t \o bc
  <2>1. bc \in Seq(N)
    BY <1>6
  <2>2. tbc = t \o bc
    OBVIOUS
  <2> QED
    BY <1>6, <2>1, <2>2
<1>8. s \o (((h \o t) \o b) \o c) = Expected(root)
  <2>1. s \o r[L] = Expected(root) /\ r[L] = Unprinted(stack[L].todo) \o r[L - 1]
    BY <1>2, <1>4 DEF ToPrint
  <2>2. r[L] = ((h \o t) \o b) \o c
    BY <1>1, <1>6, <2>1
  <2> QED
    BY <2>1, <2>2
<1>9. (s \o h) \o tbc = Expected(root)
  <2> PICK ht : ht = h \o t
    OBVIOUS
  <2>1. ht \in Seq(N)
    BY <1>6
  <2>2. Associates(ht, b, c)
    BY <1>6, <2>1, ConcatAssociates
  <2>3. Associates(h, t, bc)
    BY <1>6, <1>7, ConcatAssociates
  <2>4. Associates(s, h, tbc)
    BY <1>6, <1>7, ConcatAssociates
  <2>5. (ht \o b) \o c = ht \o bc /\ ht \o bc = h \o tbc
    BY <1>7, <2>2, <2>3 DEF Associates
  <2>6. s \o (h \o tbc) = Expected(root)
    BY <1>8, <2>5
  <2> QED
    BY <2>4, <2>6 DEF Associates
<1> DEFINE q == [i \in 0 .. L + 1 |-> IF i < L THEN r[i] ELSE IF i = L THEN bc ELSE tbc]
<1>10. /\ q \in [0 .. L + 1 -> Seq(N)] /\ q[L] = bc /\ q[L + 1] = tbc
       /\ \A i \in 0 .. L - 1 : q[i] = r[i]
  <2> PICK V : V = Seq(N)
    OBVIOUS
  <2>1. bc \in V /\ tbc \in V /\ r \in [0 .. L -> V] /\ L \in Nat /\ L >= 1
    BY <1>1, <1>4, <1>7
  <2>2. ASSUME NEW i \in 0 .. L + 1
        PROVE  (IF i < L THEN r[i] ELSE IF i = L THEN bc ELSE tbc) \in V
    <3>1. CASE i < L
      <4>1. i \in 0 .. L
        BY <2>1, <3>1
      <4>2. r[i] \in V
        BY <2>1, <4>1
      <4> QED
        BY <3>1, <4>2
    <3>2. CASE ~(i < L)
      BY <2>1, <3>2
    <3> QED
      BY <3>1, <3>2
  <2>3. q \in [0 .. L + 1 -> V]
    BY <2>2
  <2>4. /\ L \in 0 .. L + 1 /\ ~(L < L) /\ L + 1 \in 0 .. L + 1 /\ ~(L + 1 < L) /\ L + 1 # L
        /\ \A i \in 0 .. L - 1 : i \in 0 .. L + 1 /\ i < L
    BY <2>1
  <2> QED
    BY <2>3, <2>4
<1> HIDE DEF q
<1>11. ASSUME NEW i \in 1 .. L + 1
       PROVE  q[i] = Unprinted(st[i].todo) \o q[i - 1]
  <2>1. CASE i = L + 1
    <3>1. i - 1 = L
      BY <1>1, <2>1
    <3> QED
      BY <1>5, <1>7, <1>10, <2>1, <3>1
  <2>2. CASE i = L
    <3>1. i - 1 \in 0 .. L - 1
      BY <1>1, <2>2
    <3> QED
      BY <1>5, <1>10, <2>2, <3>1
  <2>3. CASE i # L /\ i # L + 1
    <3>1. i \in 1 .. L - 1 /\ i \in 0 .. L - 1 /\ i - 1 \in 0 .. L - 1 /\ i \in 1 .. L
      BY <1>1, <2>3
    <3>2. r[i] = Unprinted(stack[i].todo) \o r[i - 1]
      BY <1>4, <3>1 DEF ToPrint
    <3> QED
      BY <1>5, <1>10, <3>1, <3>2
  <2> QED
    BY <2>1, <2>2, <2>3
<1>12. q[0] = <<>>
  <2>1. 0 \in 0 .. L - 1
    BY <1>1
  <2> QED
    BY <1>4, <1>10, <2>1 DEF ToPrint
<1>13. ToPrint(st, o, q)
  BY <1>5, <1>6, <1>9, <1>10, <1>11, <1>12 DEF ToPrint
<1> QED
  BY <1>5, <1>10, <1>13 DEF PrintedSoFar

\* A node that is left has nothing ahead.
LEMMA LeavingShows ==
    ASSUME TreeInv, WalkInv, job = "print", ~done, PrintedSoFar(stack, out), NodeDone,
           NEW st, st = Front(stack), NEW o, Shown(o) = Shown(out)
    PROVE  PrintedSoFar(st, o)
<1> PICK L : L = Len(stack)
  OBVIOUS
<1>1. /\ stack \in Seq(Frame) /\ L \in Nat /\ L > 1 /\ stack[L].todo = <<>>
      /\ Frames(stack, ToSet(entered))
  BY WalkTyped, StacksTyped DEF NodeDone
<1>2. Len(st) = L - 1 /\ \A i \in 1 .. L - 1 : st[i] = stack[i]
  BY <1>1, FramesLeft
<1> PICK N : N = Nodes
  OBVIOUS
<1>3. PICK r \in [0 .. L -> Seq(N)] : ToPrint(stack, out, r)
  BY DEF PrintedSoFar
<1>4. r[L] = r[L - 1]
  <2> PICK s : s = r[L - 1]
    OBVIOUS
  <2>1. L \in 1 .. L /\ L - 1 \in 0 .. L
    BY <1>1
  <2>2. r[L] = Unprinted(stack[L].todo) \o s /\ s \in Seq(N)
    BY <1>3, <2>1 DEF ToPrint
  <2>3. <<>> \o s = s
    BY <2>2
  <2> QED
    BY <1>1, <2>2, <2>3, UnprintedEmpty
<1> DEFINE p == [i \in 0 .. L - 1 |-> r[i]]
<1>5. p \in [0 .. L - 1 -> Seq(N)] /\ \A i \in 0 .. L - 1 : p[i] = r[i]
  BY <1>1
<1> HIDE DEF p
<1>6. ASSUME NEW i \in 1 .. L - 1
      PROVE  p[i] = Unprinted(st[i].todo) \o p[i - 1]
  <2>1. i \in 1 .. L /\ i \in 0 .. L - 1 /\ i - 1 \in 0 .. L - 1
    BY <1>1
  <2>2. r[i] = Unprinted(stack[i].todo) \o r[i - 1]
    BY <1>3, <2>1 DEF ToPrint
  <2> QED
    BY <1>2, <1>5, <2>1, <2>2
<1>7. p[0] = <<>> /\ Shown(o) \o p[L - 1] = Expected(root)
  <2>1. 0 \in 0 .. L - 1 /\ L - 1 \in 0 .. L - 1
    BY <1>1
  <2>2. r[0] = <<>> /\ Shown(out) \o r[L] = Expected(root)
    BY <1>3 DEF ToPrint
  <2> QED
    BY <1>4, <1>5, <2>1, <2>2
<1>8. ToPrint(st, o, p)
  BY <1>2, <1>6, <1>7 DEF ToPrint
<1> QED
  BY <1>2, <1>5, <1>8 DEF PrintedSoFar

\* When the printer returns, there is nothing ahead.
LEMMA EndShows ==
    ASSUME TreeInv, WalkInv, job = "print", ~done, PrintedSoFar(stack, out), Return,
           out \in Seq(Piece)
    PROVE  Shown(out) = Expected(root)
<1>1. stack \in Seq(Frame) /\ Len(stack) = 1 /\ stack[1].todo = <<>>
  BY StacksTyped DEF Return
<1>2. PICK r \in [0 .. 1 -> Seq(Nodes)] : ToPrint(stack, out, r)
  BY <1>1 DEF PrintedSoFar
<1>3. r[1] = Unprinted(<<>>) \o r[0] /\ r[0] = <<>> /\ Shown(out) \o r[1] = Expected(root)
  <2>1. 1 \in 1 .. Len(stack) /\ 1 - 1 = 0
    BY <1>1
  <2>2. r[1] = Unprinted(stack[1].todo) \o r[1 - 1]
    BY <1>2, <2>1 DEF ToPrint
  <2>3. r[0] = <<>> /\ Shown(out) \o r[Len(stack)] = Expected(root)
    BY <1>2 DEF ToPrint
  <2> QED
    BY <1>1, <2>1, <2>2, <2>3
<1>4. r[1] = <<>>
  BY <1>3, UnprintedEmpty
<1> PICK s : s = Shown(out)
  OBVIOUS
<1>5. s \in Seq(Nodes) /\ s \o <<>> = s
  BY ShownIs
<1> QED
  BY <1>3, <1>4, <1>5

-----------------------------------------------------------------------------
(* A printer that begins.                                                  *)

StartingPrint ==
    /\ TreeInv /\ root \in Nodes /\ out = <<>>
    /\ stack = <<[node |-> None, todo |-> <<Visit(root)>>, indented |-> FALSE]>>

LEMMA StartingPrints == StartingPrint => PrintedSoFar(stack, out)
<1> SUFFICES ASSUME StartingPrint
             PROVE  PrintedSoFar(stack, out)
  OBVIOUS
<1> PICK all, v, g : all = Expected(root) /\ v = Visit(root) /\ g = Ahead
  OBVIOUS
<1>1. TreeInv /\ root \in Nodes /\ out = <<>> /\ Len(stack) = 1 /\ stack[1].todo = <<v>>
  BY DEF StartingPrint
<1>2. all \in Seq(Nodes) /\ v \in Steps /\ g[v] = all
  BY <1>1, AheadIs
<1>3. Unprinted(<<v>>) = all
  <2>1. g[v] \in Seq(Nodes)
    BY <1>2
  <2>2. All(g, <<v>>) = g[v]
    BY <2>1, AllOne
  <2> QED
    BY <1>2, <2>2 DEF Unprinted
<1>4. Shown(out) = <<>>
  <2>1. [i \in DOMAIN <<>> |-> IF <<>>[i].what \in ShownKinds THEN <<<<>>[i].node>>
                                                                ELSE <<>>] = <<>>
    OBVIOUS
  <2> QED
    BY <1>1, <2>1, FlattenEmpty DEF Shown, ShownKinds
<1> DEFINE r == [i \in 0 .. 1 |-> IF i = 0 THEN <<>> ELSE all]
<1>5. /\ r \in [0 .. 1 -> Seq(Nodes)] /\ r[0] = <<>> /\ r[1] = all
      /\ all \o <<>> = all /\ <<>> \o all = all
  BY <1>2, EmptySeq
<1> HIDE DEF r
<1>6. \A i \in 1 .. 1 : i = 1 /\ i - 1 = 0
  OBVIOUS
<1>7. \A i \in 1 .. 1 : r[i] = Unprinted(stack[i].todo) \o r[i - 1]
  <2>1. Unprinted(stack[1].todo) = all
    BY <1>1, <1>3
  <2>2. r[1] = Unprinted(stack[1].todo) \o r[0]
    BY <1>5, <2>1
  <2> QED
    BY <1>6, <2>2
<1>8. Shown(out) \o r[1] = Expected(root)
  BY <1>4, <1>5
<1>9. ToPrint(stack, out, r)
  BY <1>1, <1>5, <1>7, <1>8 DEF ToPrint
<1> QED
  BY <1>1, <1>5, <1>9 DEF PrintedSoFar

LEMMA StartingPrintNext == StartingPrint' => PrintedSoFar(stack, out)'
BY StartingPrints, PTL

-----------------------------------------------------------------------------
(* The steps of the printer.                                               *)

LEMMA PrintGoesOn ==
    ASSUME Printing, PrintedSoFar(stack', out')
    PROVE  PrintInv'
<1>1. nodes' = nodes /\ config' = config /\ root' = root /\ ~done'
  BY DEF Printing, Running, treeVars
<1>2. PrintedSoFar(stack, out)'
  BY <1>1, SamePrint
<1> QED
  BY <1>1, <1>2 DEF PrintInv

\* A node that the filter rejects was not expected.
LEMMA SkipShows ==
    ASSUME TreeInv, WalkInv, PrintTypeOK, job = "print", ~done, PrintedSoFar(stack, out),
           NEW n \in Nodes, SkipNode(n)
    PROVE  PrintInv'
<1>1. /\ Printing /\ NextStep(Visit(n)) /\ Kind(n) \in config.hidden
      /\ stack' = Advanced /\ out' = out
  BY DEF SkipNode
<1>2. Ahead[Head(Last(stack).todo)] = <<>> /\ Last(stack).todo # <<>>
  <2>1. Expected(n) = <<>>
    BY <1>1, ExpectedIs DEF ToldOf
  <2>2. Head(Last(stack).todo) = Visit(n) /\ Last(stack).todo # <<>>
    BY <1>1 DEF NextStep
  <2>3. Ahead[Visit(n)] = Expected(n)
    BY AheadIs
  <2> QED
    BY <2>1, <2>2, <2>3
<1> PICK s : s = Shown(out)
  OBVIOUS
<1>3. s \in Seq(Nodes) /\ s \o <<>> = s
  <2>1. s \in Seq(Nodes)
    BY ShownIs DEF PrintTypeOK
  <2> QED
    BY <2>1
<1>4. Shown(out) = Shown(out) \o Ahead[Head(Last(stack).todo)]
  BY <1>2, <1>3
<1>5. PrintedSoFar(Advanced, out)
  BY <1>2, <1>3, <1>4, StepShows
<1> QED
  BY <1>1, <1>5, PrintGoesOn

LEMMA HookCloses ==
    ASSUME indent \in Nat, Len(stack) \in Nat, Len(stack) >= 1, NEW n \in Nodes
    PROVE  /\ <<Put("close", n)>> \in Seq(Piece) /\ Shown(<<Put("close", n)>>) = <<>>
           /\ <<Put("attributes", n)>> \in Seq(Piece) /\ Shown(<<Put("attributes", n)>>) = <<>>
<1>1. /\ <<Put("close", n)>> \in Seq(Piece)
      /\ Shown(<<Put("close", n)>>) = IF "close" \in ShownKinds THEN <<n>> ELSE <<>>
  BY PutShown
<1>2. /\ <<Put("attributes", n)>> \in Seq(Piece)
      /\ Shown(<<Put("attributes", n)>>) = IF "attributes" \in ShownKinds THEN <<n>> ELSE <<>>
  BY PutShown
<1>3. "close" \notin ShownKinds /\ "attributes" \notin ShownKinds
  BY DEF ShownKinds
<1> QED
  BY <1>1, <1>2, <1>3

\* Only the frame of a node has other steps than visits.
LEMMA TopIsNode ==
    ASSUME WalkInv, job # "idle", ~done, NEW top, top = Last(stack), top.todo # <<>>,
           Head(top.todo).do # "visit"
    PROVE  top.node \in Nodes /\ Len(stack) >= 2
<1>1. /\ stack \in Seq(Frame) /\ Len(stack) \in Nat /\ Len(stack) >= 1
      /\ \A i \in 2 .. Len(stack) : stack[i].node \in Nodes
      /\ Frames(stack, ToSet(entered))
  BY WalkTyped
<1>2. top = stack[Len(stack)]
  BY <1>1, FramesAre
<1>3. Len(stack) # 1
  <2> SUFFICES ASSUME Len(stack) = 1
               PROVE  FALSE
    OBVIOUS
  <2>1. top.todo = <<Visit(root)>>
    BY <1>1, <1>2 DEF Frames
  <2>2. Head(top.todo) = Visit(root)
    BY <2>1
  <2> QED
    BY <2>2 DEF Visit
<1>4. Len(stack) >= 2 /\ Len(stack) \in 2 .. Len(stack)
  <2> PICK l : l = Len(stack)
    OBVIOUS
  <2>1. l \in Nat /\ l >= 1 /\ l # 1
    BY <1>1, <1>3
  <2>2. l >= 2 /\ l \in 2 .. l
    BY <2>1
  <2> QED
    BY <2>2
<1> QED
  BY <1>1, <1>2, <1>4

LEMMA TextShows ==
    ASSUME TreeInv, WalkInv, PrintTypeOK, job = "print", ~done, PrintedSoFar(stack, out),
           PrintText
    PROVE  PrintInv'
<1> PICK top, step, s : top = Last(stack) /\ step = Head(Last(stack).todo) /\ s = Shown(out)
  OBVIOUS
<1>1. /\ Printing /\ top.todo # <<>> /\ step.do # "visit" /\ stack' = Advanced
      /\ out' = out \o IF step.do = "text"
                       THEN <<Put("text", step.node)>>
                       ELSE <<Put("attributes", top.node), Put("close", top.node)>>
  BY DEF PrintText
<1>2. /\ stack \in Seq(Frame) /\ Len(stack) \in Nat /\ Len(stack) >= 1
      /\ top = stack[Len(stack)] /\ top.todo \in Seq(Steps)
  BY StacksTyped
<1>3. step \in Steps
  BY <1>1, <1>2, UnprintedFirst
<1>4. out \in Seq(Piece) /\ indent \in Nat /\ s \in Seq(Nodes)
  BY ShownIs DEF PrintTypeOK
<1>5. CASE step.do = "text"
  <2>1. step \in [do : {"visit", "text"}, node : Nodes]
    BY <1>3, <1>5 DEF Steps
  <2>2. step.node \in Nodes /\ step = Text(step.node)
    BY <1>5, <2>1 DEF Text
  <2> PICK p : p = <<Put("text", step.node)>>
    OBVIOUS
  <2>3. p \in Seq(Piece) /\ Shown(p) = <<step.node>>
    BY ZenonT(60), <1>2, <1>4, <2>2, PutShown DEF ShownKinds
  <2>4. Shown(out \o p) = Shown(out) \o Ahead[step]
    <3>1. Ahead[step] = <<step.node>>
      BY <2>2, AheadIs
    <3>2. ShownParted(out, p)
      BY <1>4, <2>3, ShownBoth
    <3> QED
      BY <2>3, <3>1, <3>2 DEF ShownParted
  <2>5. PrintedSoFar(Advanced, out \o p)
    BY <1>1, <1>4, <2>4, StepShows
  <2> QED
    BY <1>1, <1>5, <2>5, PrintGoesOn
<1>6. CASE step.do # "text"
  <2>1. step \in [do : {"close"}, node : {None}]
    BY <1>1, <1>3, <1>6 DEF Steps
  <2>2. step = [do |-> "close", node |-> None]
    BY <2>1
  <2>3. top.node \in Nodes
    BY <1>1, TopIsNode
  <2> PICK a, b, p :
        /\ a = <<Put("attributes", top.node)>> /\ b = <<Put("close", top.node)>>
        /\ p = <<Put("attributes", top.node), Put("close", top.node)>>
    OBVIOUS
  <2>4. a \in Seq(Piece) /\ b \in Seq(Piece) /\ Shown(a) = <<>> /\ Shown(b) = <<>>
    BY <1>2, <1>4, <2>3, HookCloses
  <2>5. p \in Seq(Piece) /\ Shown(p) = <<>>
    <3>1. p = a \o b
      OBVIOUS
    <3>2. a \o b \in Seq(Piece) /\ Shown(a \o b) = Shown(a)
      BY <2>4, ShownBoth, ShownBehind
    <3> QED
      BY <2>4, <3>1, <3>2
  <2>6. Shown(out \o p) = Shown(out) \o Ahead[step]
    <3>1. Ahead[step] = <<>>
      BY <2>2, AheadIs
    <3>2. s \o <<>> = s
      BY <1>4
    <3>3. Shown(out \o p) = s
      BY <1>4, <2>5, ShownBehind
    <3> QED
      BY <3>1, <3>2, <3>3
  <2>7. PrintedSoFar(Advanced, out \o p)
    BY <1>1, <1>4, <2>6, StepShows
  <2> QED
    BY <1>1, <1>6, <2>7, PrintGoesOn
<1> QED
  BY <1>5, <1>6

LEMMA FrameOfNode ==
    ASSUME TreeInv, WalkInv, NEW n \in Nodes, Printing, NextStep(Visit(n)),
           NEW f, f = [node |-> n, todo |-> ToVisit(n), indented |-> Descends(n)]
    PROVE  f \in Frame /\ f.node = n /\ f.todo = ToVisit(n) /\ n \in Below(root)
<1>1. n \in Below(root)
  BY RunningPrint, NextIsBelow
<1>2. ToVisit(n) \in Seq(Steps)
  BY <1>1, RunningPrint, WalkTyped, ToVisitPending DEF Pending
<1>3. Descends(n) \in BOOLEAN
  BY DEF Descends
<1> QED
  BY <1>1, <1>2, <1>3 DEF Frame, MaybeNode

LEMMA PrintNodeShows ==
    ASSUME TreeInv, ListInv, WalkInv, PrintTypeOK, job = "print", ~done,
           PrintedSoFar(stack, out), NEW n \in Nodes, PrintNode(n)
    PROVE  PrintInv'
<1> PICK f : f = [node |-> n, todo |-> ToVisit(n), indented |-> Descends(n)]
  OBVIOUS
<1>1. /\ Printing /\ NextStep(Visit(n)) /\ Kind(n) \notin config.hidden
      /\ stack' = Append(Advanced, f) /\ out' = out \o Printed(n)
  BY DEF PrintNode
<1>2. f \in Frame /\ f.todo = ToVisit(n)
  BY <1>1, FrameOfNode
<1>3. PrintedSoFar(Append(Advanced, f), out \o Printed(n))
  BY <1>1, <1>2, NodeShows DEF PrintTypeOK
<1> QED
  BY <1>1, <1>3, PrintGoesOn

LEMMA LeavePrintedShows ==
    ASSUME TreeInv, WalkInv, PrintTypeOK, job = "print", ~done, PrintedSoFar(stack, out),
           LeavePrinted
    PROVE  PrintInv'
<1> PICK n : n = Last(stack).node
  OBVIOUS
<1>1. /\ Printing /\ NodeDone /\ stack' = Front(stack)
      /\ out' = IF Inline(n) THEN out ELSE Append(out, Put("close", n))
  BY DEF LeavePrinted
<1>2. /\ stack \in Seq(Frame) /\ Len(stack) \in Nat /\ Len(stack) >= 1 /\ n \in Nodes
      /\ out \in Seq(Piece) /\ indent \in Nat
  <2>1. Len(stack) >= 2
    BY <1>1, StacksTyped DEF NodeDone
  <2> QED
    BY <2>1, StacksTyped, WalkTyped DEF PrintTypeOK
<1>3. Shown(out') = Shown(out)
  <2>1. CASE Inline(n)
    BY <1>1, <2>1
  <2>2. CASE ~Inline(n)
    <3> PICK p : p = Put("close", n)
      OBVIOUS
    <3>1. <<p>> \in Seq(Piece) /\ Shown(<<p>>) = <<>>
      BY <1>2, HookCloses
    <3>2. Append(out, p) = out \o <<p>>
      <4>1. p \in Piece
        BY <1>2, PutTyped
      <4> QED
        BY <1>2, <4>1
    <3>3. Shown(out \o <<p>>) = Shown(out)
      BY <1>2, <3>1, ShownBehind
    <3> QED
      BY <1>1, <2>2, <3>2, <3>3
  <2> QED
    BY <2>1, <2>2
<1> PICK o : o = out'
  OBVIOUS
<1>4. PrintedSoFar(Front(stack), o)
  BY <1>1, <1>3, LeavingShows
<1> QED
  BY <1>1, <1>4, PrintGoesOn

LEMMA EndPrintShows ==
    ASSUME TreeInv, WalkInv, PrintTypeOK, job = "print", ~done, PrintedSoFar(stack, out),
           EndPrint
    PROVE  PrintInv'
<1>1. /\ nodes' = nodes /\ config' = config /\ root' = root /\ out' = out /\ done' = TRUE
      /\ Return
  BY DEF EndPrint, Return, treeVars, printVars
<1>2. Shown(out) = Expected(root)
  BY <1>1, EndShows DEF PrintTypeOK
<1>3. Shown(out)' = Expected(root)'
  <2>1. Shown(out)' = Shown(out) /\ Expected(root)' = Expected(root)
    BY <1>1, SamePrint
  <2> QED
    BY <1>2, <2>1
<1> QED
  BY <1>1, <1>3 DEF PrintInv

LEMMA PrintKept ==
    TreeInv /\ ListInv /\ WalkInv /\ PrintTypeOK /\ TreeInv' /\ PrintInv /\ [Next]_vars
        => PrintInv'
<1> SUFFICES ASSUME TreeInv, ListInv, WalkInv, PrintTypeOK, TreeInv', PrintInv, [Next]_vars
             PROVE  PrintInv'
  OBVIOUS
<1>1. ASSUME job' # "print"
      PROVE  PrintInv'
  BY <1>1 DEF PrintInv
<1>2. ASSUME NEW r \in Nodes, BeginPrint(r)
      PROVE  PrintInv'
  <2>1. /\ nodes' = nodes /\ root' = r /\ done' = done /\ out' = <<>> /\ job = "idle"
        /\ stack' = <<[node |-> None, todo |-> <<Visit(r)>>, indented |-> FALSE]>>
    BY <1>2 DEF BeginPrint, Begin, treeVars
  <2>2. ~done /\ Nodes' = Nodes
    BY <2>1, SameTree DEF WalkInv
  <2>3. StartingPrint'
    BY <2>1, <2>2 DEF StartingPrint, Visit
  <2>4. PrintedSoFar(stack, out)'
    BY <2>3, StartingPrintNext
  <2> QED
    BY <2>1, <2>2, <2>4 DEF PrintInv
<1>3. ASSUME job = "print", UNCHANGED vars
      PROVE  PrintInv'
  <2>1. UNCHANGED <<nodes, job, done, root, stack, out, config>>
    BY <1>3 DEF vars, treeVars, visitorVars, walkVars, printVars
  <2>2. /\ PrintedSoFar(stack, out)' <=> PrintedSoFar(stack', out')
        /\ Shown(out)' = Shown(out) /\ Expected(root)' = Expected(root)
    BY <2>1, SamePrint
  <2>3. PrintedSoFar(stack, out)' <=> PrintedSoFar(stack, out)
    BY <2>1, <2>2
  <2> QED
    BY <1>3, <2>1, <2>2, <2>3 DEF PrintInv
<1>4. CASE job = "idle" /\ TreeNext /\ UNCHANGED <<visitorVars, printVars>>
  BY <1>1, <1>4 DEF visitorVars
<1>5. CASE VisitorNext /\ UNCHANGED <<treeVars, printVars>>
  <2>1. job' # "print"
    BY <1>5 DEF VisitorNext, BeginSearch, Begin, EnterNode, LeaveNode, EndSearch, Return,
                Running, Searches
  <2> QED
    BY <1>1, <2>1
<1>6. ASSUME Printing, config.maxDepth # 0
      PROVE  PrintInv'
  <2>1. config' = config
    BY <1>6, RunningPrint
  <2> QED
    BY <1>6, <2>1 DEF PrintInv
<1>7. ASSUME Printing, config.maxDepth = 0
      PROVE  job = "print" /\ ~done /\ PrintedSoFar(stack, out)
  BY <1>7 DEF PrintInv, Printing, Running
<1>8. ASSUME NEW n \in Nodes, SkipNode(n) \/ CutNode(n) \/ PrintNode(n)
      PROVE  PrintInv'
  <2>1. Printing
    BY <1>8 DEF SkipNode, CutNode, PrintNode
  <2>2. CASE config.maxDepth = 0
    <3>1. job = "print" /\ ~done /\ PrintedSoFar(stack, out)
      BY <1>7, <2>1, <2>2
    <3>2. ~CutNode(n)
      BY <2>2 DEF CutNode, Cut
    <3> QED
      BY <1>8, <3>1, <3>2, SkipShows, PrintNodeShows
  <2> QED
    BY <1>6, <2>1, <2>2
<1>9. CASE PrintText \/ LeavePrinted
  <2>1. Printing
    BY <1>9 DEF PrintText, LeavePrinted
  <2>2. CASE config.maxDepth = 0
    <3>1. job = "print" /\ ~done /\ PrintedSoFar(stack, out)
      BY <1>7, <2>1, <2>2
    <3> QED
      BY <1>9, <3>1, TextShows, LeavePrintedShows
  <2> QED
    BY <1>6, <2>1, <2>2
<1>10. CASE EndPrint
  <2>1. job = "print" /\ ~done /\ config' = config
    BY <1>10 DEF EndPrint, Running, printVars
  <2>2. CASE config.maxDepth = 0
    BY <1>10, <2>1, <2>2, EndPrintShows DEF PrintInv
  <2>3. CASE config.maxDepth # 0
    BY <2>1, <2>3 DEF PrintInv
  <2> QED
    BY <2>2, <2>3
<1>11. CASE ForgetOutput
  BY <1>1, <1>11 DEF ForgetOutput, Forget
<1>12. CASE UNCHANGED vars
  <2>1. job' = job
    BY <1>12 DEF vars, visitorVars
  <2> QED
    BY <1>1, <1>3, <1>12, <2>1
<1> QED
  BY <1>2, <1>4, <1>5, <1>8, <1>9, <1>10, <1>11, <1>12 DEF Next

LEMMA SpecPrintInv == Spec => []PrintInv
<1>1. Init => PrintInv
  BY DEF Init, VisitorInit, PrintInv
<1>2. Inv /\ ListInv /\ Inv' /\ PrintInv /\ [Next]_vars => PrintInv'
  BY PrintKept DEF Inv
<1>3. Init => Inv
  BY InvBegins
<1>4. Inv /\ [Next]_vars => Inv'
  BY InvKept
<1> QED
  BY <1>1, <1>2, <1>3, <1>4, SpecListInv, PTL DEF Spec

-----------------------------------------------------------------------------
(* Whole nodes: the pieces of each kind that a node has in the output,     *)
(* counted.  A string on one line whose parts are still being printed owes *)
(* a bracket and its attributes; a node that is not left yet owes its      *)
(* bracket.                                                                *)

Marked(o, w, n) == {i \in DOMAIN o : o[i].what = w /\ o[i].node = n}
Count(o, w, n) == Cardinality(Marked(o, w, n))

LEMMA CountIs ==
    ASSUME NEW o \in Seq(Piece), NEW w, NEW n
    PROVE  IsFiniteSet(Marked(o, w, n)) /\ Count(o, w, n) \in Nat
<1>1. DOMAIN o = 1 .. Len(o) /\ Len(o) \in Nat
  BY LenProperties
<1>2. IsFiniteSet(DOMAIN o)
  BY <1>1, FS_Interval
<1>3. IsFiniteSet(Marked(o, w, n))
  BY <1>2, FS_Subset DEF Marked
<1> QED
  BY <1>3, FS_CardinalityType DEF Count

LEMMA TimesIs == \A w, n : Times(w, n) = Count(out, w, n)
<1> TAKE w, n
<1>1. {i \in Pieces(w) : out[i].node = n} = Marked(out, w, n)
  BY DEF Pieces, Marked
<1> QED
  BY <1>1 DEF Times, Count

LEMMA CountNone ==
    ASSUME NEW o, NEW w, NEW n, \A i \in DOMAIN o : ~(o[i].what = w /\ o[i].node = n)
    PROVE  Count(o, w, n) = 0
<1>1. Marked(o, w, n) = {}
  BY DEF Marked
<1> QED
  BY <1>1, FS_EmptySet DEF Count

Counted(s, t, w, n) == Count(s \o t, w, n) = Count(s, w, n) + Count(t, w, n)

LEMMA CountBoth ==
    ASSUME NEW s \in Seq(Piece), NEW t \in Seq(Piece), NEW w, NEW n
    PROVE  Counted(s, t, w, n)
<1> PICK st, L, A, B, C :
        /\ st = s \o t /\ L = Len(s)
        /\ A = Marked(s, w, n) /\ B = Marked(t, w, n)
        /\ C = {i \in DOMAIN st : i > L /\ i \in Marked(st, w, n)}
  OBVIOUS
<1>1. /\ L \in Nat /\ Len(t) \in Nat /\ DOMAIN s = 1 .. L /\ DOMAIN t = 1 .. Len(t)
      /\ DOMAIN st = 1 .. L + Len(t)
      /\ \A i \in 1 .. L : st[i] = s[i]
      /\ \A i \in 1 .. Len(t) : st[L + i] = t[i]
  <2>1. /\ Len(s \o t) = Len(s) + Len(t) /\ s \o t \in Seq(Piece)
        /\ \A i \in 1 .. Len(s) + Len(t) : (s \o t)[i] = IF i <= Len(s) THEN s[i] ELSE t[i - Len(s)]
    BY ConcatProperties
  <2>2. L \in Nat /\ Len(t) \in Nat /\ DOMAIN s = 1 .. L /\ DOMAIN t = 1 .. Len(t)
    BY LenProperties
  <2> PICK M : M = Len(t)
    OBVIOUS
  <2>3. Len(st) = L + M /\ DOMAIN st = 1 .. Len(st)
    BY <2>1, LenProperties
  <2>4. \A i \in 1 .. L + M : st[i] = IF i <= L THEN s[i] ELSE t[i - L]
    BY <2>1
  <2>5. M \in Nat
    BY <2>2
  <2>6. \A i \in 1 .. L : i \in 1 .. L + M /\ i <= L
    BY <2>2, <2>5
  <2>7. \A i \in 1 .. M : L + i \in 1 .. L + M /\ ~(L + i <= L) /\ (L + i) - L = i
    BY <2>2, <2>5
  <2> QED
    BY <2>2, <2>3, <2>4, <2>6, <2>7
<1>2. Marked(st, w, n) = A \cup C /\ A \cap C = {}
  <2>1. \A i \in A : i \in DOMAIN st /\ st[i] = s[i] /\ ~(i > L)
    BY <1>1 DEF Marked
  <2>2. \A i \in Marked(st, w, n) : ~(i > L) => i \in A
    BY <1>1 DEF Marked
  <2>3. A \subseteq Marked(st, w, n)
    BY <2>1 DEF Marked
  <2>4. C \subseteq Marked(st, w, n) /\ \A i \in C : i > L
    OBVIOUS
  <2>5. \A i \in Marked(st, w, n) : i > L => i \in C
    BY DEF Marked
  <2> QED
    BY <2>1, <2>2, <2>3, <2>4, <2>5
<1> DEFINE f == [i \in B |-> L + i]
<1>3. f \in Bijection(B, C)
  <2>1. \A i \in B : i \in 1 .. Len(t) /\ t[i].what = w /\ t[i].node = n
    BY <1>1 DEF Marked
  <2>2. \A i \in B : L + i \in C
    <3> TAKE i \in B
    <3>1. L + i \in DOMAIN st /\ L + i > L /\ st[L + i] = t[i]
      BY <1>1, <2>1
    <3> QED
      BY <2>1, <3>1 DEF Marked
  <2>3. \A j \in C : \E i \in B : j = L + i
    <3> TAKE j \in C
    <3>1. j \in 1 .. L + Len(t) /\ j > L /\ st[j].what = w /\ st[j].node = n
      BY <1>1 DEF Marked
    <3>2. j - L \in 1 .. Len(t) /\ j = L + (j - L)
      BY <1>1, <3>1
    <3>3. j - L \in B
      BY <1>1, <3>1, <3>2 DEF Marked
    <3> QED
      BY <3>2, <3>3
  <2>4. \A i, j \in B : L + i = L + j => i = j
    BY <1>1, <2>1
  <2>5. f \in [B -> C] /\ \A i \in B : f[i] = L + i
    BY <2>2
  <2> HIDE DEF f
  <2>6. \A j \in C : \E i \in B : f[i] = j
    BY <2>3, <2>5
  <2>7. \A i, j \in B : f[i] = f[j] => i = j
    BY <2>4, <2>5
  <2> QED
    BY <2>5, <2>6, <2>7 DEF Bijection, Injection, Surjection, IsInjective
<1> HIDE DEF f
<1>4. /\ IsFiniteSet(A) /\ IsFiniteSet(B) /\ IsFiniteSet(C) /\ Cardinality(C) = Cardinality(B)
      /\ Cardinality(A) \in Nat /\ Cardinality(C) \in Nat
  <2>1. IsFiniteSet(A) /\ IsFiniteSet(B)
    BY CountIs
  <2>2. IsFiniteSet(C) /\ Cardinality(C) = Cardinality(B)
    <3>1. ExistsBijection(B, C)
      BY <1>3 DEF ExistsBijection
    <3> QED
      BY <2>1, <3>1, FS_Bijection
  <2> QED
    BY <2>1, <2>2, FS_CardinalityType
<1>5. Cardinality(A \cup C) = Cardinality(A) + Cardinality(C)
  <2>1. Cardinality(A \cup C) = Cardinality(A) + Cardinality(C) - Cardinality(A \cap C)
    BY ZenonT(60), <1>4, FS_Union
  <2>2. Cardinality(A \cap C) = 0
    BY <1>2, FS_EmptySet
  <2> QED
    BY <1>4, <2>1, <2>2
<1> QED
  BY <1>2, <1>4, <1>5 DEF Counted, Count

LEMMA CountOne ==
    ASSUME NEW p, NEW w, NEW n
    PROVE  Count(<<p>>, w, n) = If(p.what = w /\ p.node = n)
<1>1. DOMAIN <<p>> = {1} /\ <<p>>[1] = p
  OBVIOUS
<1>2. CASE p.what = w /\ p.node = n
  <2>1. Marked(<<p>>, w, n) = {1}
    BY <1>1, <1>2 DEF Marked
  <2> QED
    BY <1>2, <2>1, FS_Singleton DEF Count, If
<1>3. CASE ~(p.what = w /\ p.node = n)
  <2>1. \A i \in DOMAIN <<p>> : ~(<<p>>[i].what = w /\ <<p>>[i].node = n)
    BY <1>1, <1>3
  <2> QED
    BY <1>3, <2>1, CountNone DEF If
<1> QED
  BY <1>2, <1>3

\* The pieces that every node has, and how many of each its hook prints
Brackets == {"open", "close", "attributes"}

First(n, w) ==
    CASE w = "open" -> 1
      [] w = "close" -> If(Inline(n) \/ (Kind(n) = "primitive" /\ config.compact))
      [] w = "attributes" -> If(~(Kind(n) = "primitive" /\ ~config.compact))

LEMMA CountPut ==
    ASSUME NEW n, NEW v, NEW w, NEW m
    PROVE  Count(<<Put(v, n)>>, w, m) = If(v = w /\ n = m)
<1> PICK p : p = Put(v, n)
  OBVIOUS
<1>1. p.what = v /\ p.node = n
  BY DEF Put
<1>2. Count(<<p>>, w, m) = If(p.what = w /\ p.node = m)
  BY CountOne
<1> QED
  BY <1>1, <1>2

LEMMA CountAnother ==
    ASSUME NEW s \in Seq(Piece), NEW t \in Seq(Piece), NEW w, NEW n, Count(t, w, n) = 0
    PROVE  Count(s \o t, w, n) = Count(s, w, n)
<1> PICK a : a = Count(s, w, n)
  OBVIOUS
<1>1. a \in Nat /\ a + 0 = a
  <2>1. a \in Nat
    BY CountIs
  <2> QED
    BY <2>1
<1>2. Count(s \o t, w, n) = a + Count(t, w, n)
  BY CountBoth DEF Counted
<1> QED
  BY <1>1, <1>2

LEMMA OpeningCounts ==
    ASSUME indent \in Nat, Len(stack) \in Nat, Len(stack) >= 1, NEW n \in Nodes, NEW w, NEW m
    PROVE  Count(Opening(n), w, m) = If("open" = w /\ n = m) + If("attributes" = w /\ n = m)
<1> PICK a, b : a = <<Put("open", n)>> /\ b = <<Put("attributes", n)>>
  OBVIOUS
<1>1. a \in Seq(Piece) /\ b \in Seq(Piece)
  BY PutShown
<1>2. Opening(n) = a \o b
  BY DEF Opening
<1>3. Count(a, w, m) = If("open" = w /\ n = m) /\ Count(b, w, m) = If("attributes" = w /\ n = m)
  BY CountPut
<1>4. Counted(a, b, w, m)
  BY <1>1, CountBoth
<1> QED
  BY <1>2, <1>3, <1>4 DEF Counted

LEMMA VariablesCount ==
    ASSUME TreeTypeOK, indent \in Nat, Len(stack) \in Nat, Len(stack) >= 1, NEW n \in Nodes,
           NEW w \in Brackets, NEW m
    PROVE  Variables(n) \in Seq(Piece) /\ Count(Variables(n), w, m) = 0
<1> PICK is : is = nodes[n].items
  OBVIOUS
<1>1. is \in Seq(Nodes) /\ \A i \in DOMAIN is : is[i] \in Nodes
  BY NodesAre, LenProperties, ElementOfSeq
<1> DEFINE what(i) == IF Kind(is[i]) = "leaf" THEN "name" ELSE "error"
           V == [i \in DOMAIN is |-> Put(what(i), is[i])]
<1>2. Variables(n) = V
  BY DEF Variables
<1>3. ASSUME NEW i \in DOMAIN is
      PROVE  V[i] \in Piece /\ V[i].what \notin Brackets
  <2>1. V[i] = Put(what(i), is[i])
    OBVIOUS
  <2>2. what(i) \in {"name", "error"} /\ what(i) \notin Brackets
    BY DEF Brackets
  <2> PICK u, x : u = what(i) /\ x = is[i]
    OBVIOUS
  <2>3. V[i] = Put(u, x) /\ u \in {"name", "error"} /\ u \notin Brackets /\ x \in Nodes
    BY <1>1, <2>1, <2>2
  <2> HIDE DEF what, V
  <2>4. Put(u, x) \in Piece /\ Put(u, x).what = u
    BY <2>3 DEF Put, Piece
  <2> QED
    BY <2>3, <2>4
<1>4. DOMAIN V = DOMAIN is
  OBVIOUS
<1> HIDE DEF V
<1>5. Count(V, w, m) = 0
  <2>1. \A i \in DOMAIN V : ~(V[i].what = w /\ V[i].node = m)
    BY <1>3, <1>4
  <2> QED
    BY <2>1, CountNone
<1>6. V \in Seq(Piece)
  <2>1. DOMAIN V = 1 .. Len(is) /\ Len(is) \in Nat
    BY <1>1, <1>4, LenProperties
  <2>2. V \in [1 .. Len(is) -> Piece]
    BY <1>2, <1>3, <1>4, <2>1 DEF V
  <2> QED
    BY <2>1, <2>2, SequenceOfLength
<1> QED
  BY <1>2, <1>5, <1>6

LEMMA PrintedCounts ==
    ASSUME TreeTypeOK, indent \in Nat, Len(stack) \in Nat, Len(stack) >= 1, NEW n \in Nodes,
           NEW w \in Brackets, NEW m
    PROVE  Count(Printed(n), w, m) = IF m = n THEN First(n, w) ELSE 0
<1> PICK o, c, v : o = Opening(n) /\ c = <<Put("close", n)>> /\ v = Variables(n)
  OBVIOUS
<1>1. /\ o \in Seq(Piece) /\ c \in Seq(Piece) /\ v \in Seq(Piece)
      /\ Count(o, w, m) = If("open" = w /\ n = m) + If("attributes" = w /\ n = m)
      /\ Count(c, w, m) = If("close" = w /\ n = m) /\ Count(v, w, m) = 0
  <2>1. o \in Seq(Piece) /\ c \in Seq(Piece)
    BY OpeningShown, HookCloses
  <2> QED
    BY <2>1, OpeningCounts, CountPut, VariablesCount
<1>2. w \in {"open", "close", "attributes"}
  BY DEF Brackets
<1>3. CASE Inline(n)
  <2>1. Printed(n) = o \o c /\ Kind(n) # "primitive"
    BY <1>3 DEF Printed, Inline
  <2>2. Counted(o, c, w, m)
    BY <1>1, CountBoth
  <2>3. Count(o \o c, w, m) = Count(o, w, m) + Count(c, w, m)
    BY <2>2 DEF Counted
  <2> QED
    BY <1>1, <1>2, <1>3, <2>1, <2>3 DEF First, If
<1>4. CASE Kind(n) = "primitive" /\ config.compact
  <2>1. Printed(n) = o \o c /\ ~Inline(n)
    BY <1>4 DEF Printed, Inline, PrimitiveType, Opening
  <2>2. Counted(o, c, w, m)
    BY <1>1, CountBoth
  <2>3. Count(o \o c, w, m) = Count(o, w, m) + Count(c, w, m)
    BY <2>2 DEF Counted
  <2> QED
    BY <1>1, <1>2, <1>4, <2>1, <2>3 DEF First, If
<1>5. CASE Kind(n) = "primitive" /\ ~config.compact
  <2>1. Printed(n) = <<Put("open", n)>> /\ ~Inline(n)
    BY <1>5 DEF Printed, Inline, PrimitiveType
  <2>2. Count(<<Put("open", n)>>, w, m) = If("open" = w /\ n = m)
    BY CountPut
  <2> QED
    BY <1>2, <1>5, <2>1, <2>2 DEF First, If
<1>6. CASE Kind(n) = "forStmt"
  <2>1. Printed(n) = o \o v /\ ~Inline(n) /\ Kind(n) # "primitive"
    BY <1>6 DEF Printed, Inline
  <2>2. Count(o \o v, w, m) = Count(o, w, m)
    BY <1>1, CountAnother
  <2> QED
    BY <1>1, <1>2, <2>1, <2>2 DEF First, If
<1>7. CASE ~Inline(n) /\ Kind(n) \notin {"primitive", "forStmt"}
  <2>1. Printed(n) = o
    BY <1>7 DEF Printed
  <2> QED
    BY <1>1, <1>2, <1>7, <2>1 DEF First, If
<1> QED
  BY <1>3, <1>4, <1>5, <1>6, <1>7

-----------------------------------------------------------------------------
(* What frames owe.                                                        *)

\* A bracket by hand is the last thing a frame does.
Owes(todo) == \E k \in DOMAIN todo : todo[k].do = "close"
ClosesLast(todo) == \A k \in DOMAIN todo : todo[k].do = "close" => k = Len(todo)

OnStack(st, n) == \E i \in 2 .. Len(st) : st[i].node = n
Owing(st, n) == \E i \in 2 .. Len(st) : st[i].node = n /\ Owes(st[i].todo)

\* The bracket by hand comes last in every frame, and no node has two frames.
Orderly(st) ==
    /\ \A i \in 2 .. Len(st) : ClosesLast(st[i].todo)
    /\ \A i, j \in 2 .. Len(st) : st[i].node = st[j].node => i = j

LEMMA OwesNothing == ~Owes(<<>>) /\ ClosesLast(<<>>)
BY DEF Owes, ClosesLast

LEMMA OwesBehind ==
    ASSUME NEW todo \in Seq(Steps), todo # <<>>, ClosesLast(todo)
    PROVE  /\ ClosesLast(Tail(todo))
           /\ Head(todo).do # "close" => (Owes(Tail(todo)) <=> Owes(todo))
           /\ Head(todo).do = "close" => Owes(todo) /\ ~Owes(Tail(todo))
<1> PICK L, t : L = Len(todo) /\ t = Tail(todo)
  OBVIOUS
<1>1. /\ L \in Nat /\ L >= 1 /\ DOMAIN todo = 1 .. L /\ DOMAIN t = 1 .. L - 1 /\ Len(t) = L - 1
      /\ \A i \in 1 .. L - 1 : t[i] = todo[i + 1]
      /\ Head(todo) = todo[1]
  BY HeadTailProperties, LenProperties, EmptySeq
<1>2. ClosesLast(t)
  <2> SUFFICES ASSUME NEW k \in 1 .. L - 1, t[k].do = "close"
               PROVE  k = L - 1
    BY <1>1 DEF ClosesLast
  <2>1. k + 1 \in 1 .. L /\ todo[k + 1].do = "close"
    BY <1>1
  <2>2. k + 1 = L
    BY <1>1, <2>1 DEF ClosesLast
  <2> QED
    BY <1>1, <2>2
<1>3. ASSUME todo[1].do # "close"
      PROVE  Owes(t) <=> Owes(todo)
  <2>1. ASSUME NEW k \in 1 .. L - 1, t[k].do = "close"
        PROVE  Owes(todo)
    <3>1. k + 1 \in 1 .. L /\ todo[k + 1].do = "close"
      BY <1>1, <2>1
    <3> QED
      BY <1>1, <3>1 DEF Owes
  <2>2. ASSUME NEW k \in 1 .. L, todo[k].do = "close"
        PROVE  Owes(t)
    <3>1. k # 1
      BY <1>3, <2>2
    <3>2. k - 1 \in 1 .. L - 1 /\ k = (k - 1) + 1
      BY <1>1, <3>1
    <3>3. t[k - 1].do = "close"
      BY <1>1, <2>2, <3>2
    <3> QED
      BY <1>1, <3>2, <3>3 DEF Owes
  <2> QED
    BY <1>1, <2>1, <2>2 DEF Owes
<1>4. ASSUME todo[1].do = "close"
      PROVE  Owes(todo) /\ ~Owes(t)
  <2>1. 1 \in DOMAIN todo
    BY <1>1
  <2>2. 1 = L
    BY <1>4, <2>1 DEF ClosesLast
  <2>3. DOMAIN t = {}
    BY <1>1, <2>2
  <2> QED
    BY <1>4, <2>1, <2>3 DEF Owes
<1> QED
  BY <1>1, <1>2, <1>3, <1>4

\* What the next step leaves: the frames owe what they owed, unless it was the bracket
\* of the innermost.
LEMMA AdvancedOwes ==
    ASSUME stack \in Seq(Frame), Len(stack) >= 1, Last(stack).todo # <<>>, Orderly(stack),
           Head(Last(stack).todo).do = "close" => Len(stack) >= 2
    PROVE  /\ Orderly(Advanced) /\ \A m : OnStack(Advanced, m) <=> OnStack(stack, m)
           /\ Head(Last(stack).todo).do # "close" =>
                 \A m : Owing(Advanced, m) <=> Owing(stack, m)
           /\ Head(Last(stack).todo).do = "close" =>
                 /\ Owing(stack, Last(stack).node)
                 /\ \A m : Owing(Advanced, m) <=> Owing(stack, m) /\ m # Last(stack).node
<1> PICK L, st, top : L = Len(stack) /\ st = Advanced /\ top = Last(stack)
  OBVIOUS
<1>1. /\ L \in Nat /\ L >= 1 /\ top = stack[L] /\ top.todo \in Seq(Steps) /\ Len(st) = L
      /\ \A i \in 1 .. L : /\ st[i].node = stack[i].node
                           /\ i # L => st[i] = stack[i]
      /\ st[L].todo = Tail(top.todo)
  <2>1. /\ st \in Seq(Frame) /\ Len(st) = L
        /\ \A i \in 1 .. L : /\ st[i].node = stack[i].node
                             /\ i # L => st[i] = stack[i]
        /\ st[L].todo = Tail(stack[L].todo)
        /\ Last(stack) = stack[L] /\ L \in Nat /\ L >= 1 /\ stack[L] \in Frame
    BY FramesAre, AdvancedIs
  <2> QED
    BY <2>1 DEF Frame
<1>2. \A i \in 2 .. L : i \in 1 .. L
  BY <1>1
<1>3. L \in 2 .. L => ClosesLast(top.todo)
  BY <1>1 DEF Orderly
<1>4. Orderly(st)
  <2>1. ASSUME NEW i \in 2 .. L
        PROVE  ClosesLast(st[i].todo)
    <3>1. CASE i = L
      BY <1>1, <1>3, <2>1, <3>1, OwesBehind
    <3>2. CASE i # L
      BY <1>1, <1>2, <2>1, <3>2 DEF Orderly
    <3> QED
      BY <3>1, <3>2
  <2>2. \A i, j \in 2 .. L : st[i].node = st[j].node => i = j
    BY <1>1, <1>2 DEF Orderly
  <2> QED
    BY <1>1, <2>1, <2>2 DEF Orderly
<1>5. \A m : OnStack(st, m) <=> OnStack(stack, m)
  BY <1>1, <1>2 DEF OnStack
<1>6. ASSUME Head(top.todo).do # "close", NEW m
      PROVE  Owing(st, m) <=> Owing(stack, m)
  <2>1. ASSUME NEW i \in 2 .. L
        PROVE  Owes(st[i].todo) <=> Owes(stack[i].todo)
    <3>1. CASE i = L
      BY <1>1, <1>3, <1>6, <2>1, <3>1, OwesBehind
    <3>2. CASE i # L
      BY <1>1, <1>2, <2>1, <3>2
    <3> QED
      BY <3>1, <3>2
  <2> QED
    BY <1>1, <1>2, <2>1 DEF Owing
<1>7. ASSUME Head(top.todo).do = "close"
      PROVE  /\ Owing(stack, top.node)
             /\ \A m : Owing(st, m) <=> Owing(stack, m) /\ m # top.node
  <2>1. L \in 2 .. L /\ Owes(top.todo) /\ ~Owes(Tail(top.todo))
    <3>1. L \in 2 .. L
      BY <1>1, <1>7
    <3> QED
      BY <1>1, <1>3, <1>7, <3>1, OwesBehind
  <2>2. Owing(stack, top.node)
    BY <1>1, <2>1 DEF Owing
  <2>3. ASSUME NEW m, Owing(st, m)
        PROVE  Owing(stack, m) /\ m # top.node
    <3>1. PICK i \in 2 .. L : st[i].node = m /\ Owes(st[i].todo)
      BY <1>1, <2>3 DEF Owing
    <3>2. i # L
      BY <1>1, <2>1, <3>1
    <3>3. st[i] = stack[i]
      BY <1>1, <1>2, <3>2
    <3>4. stack[i].node # stack[L].node
      BY <2>1, <3>2 DEF Orderly
    <3> QED
      BY <1>1, <3>1, <3>3, <3>4 DEF Owing
  <2>4. ASSUME NEW m, Owing(stack, m), m # top.node
        PROVE  Owing(st, m)
    <3>1. PICK i \in 2 .. L : stack[i].node = m /\ Owes(stack[i].todo)
      BY <2>4 DEF Owing
    <3>2. i # L
      BY <1>1, <2>4, <3>1
    <3>3. st[i] = stack[i]
      BY <1>1, <1>2, <3>2
    <3> QED
      BY <1>1, <3>1, <3>3 DEF Owing
  <2> QED
    BY <2>2, <2>3, <2>4
<1> QED
  BY <1>4, <1>5, <1>6, <1>7

\* A frame that is entered
LEMMA EnteredOwes ==
    ASSUME NEW st \in Seq(Frame), Orderly(st), NEW f \in Frame, ClosesLast(f.todo),
           ~OnStack(st, f.node), Len(st) >= 1
    PROVE  /\ Orderly(Append(st, f))
           /\ \A m : OnStack(Append(st, f), m) <=> OnStack(st, m) \/ m = f.node
           /\ \A m : Owing(Append(st, f), m) <=>
                        Owing(st, m) \/ (m = f.node /\ Owes(f.todo))
<1> PICK L, su, n : L = Len(st) /\ su = Append(st, f) /\ n = f.node
  OBVIOUS
<1>1. /\ L \in Nat /\ L >= 1 /\ Len(su) = L + 1 /\ su[L + 1] = f
      /\ \A i \in 1 .. L : su[i] = st[i]
  BY AppendProperties, LenProperties
<1>2. /\ \A i \in 2 .. L : i \in 1 .. L /\ i \in 2 .. L + 1 /\ su[i] = st[i]
      /\ L + 1 \in 2 .. L + 1
      /\ \A i \in 2 .. L + 1 : i \in 2 .. L \/ i = L + 1
  BY <1>1
<1>3. Orderly(su)
  <2>1. \A i \in 2 .. L + 1 : ClosesLast(su[i].todo)
    BY <1>1, <1>2 DEF Orderly
  <2>2. \A i \in 2 .. L : su[i].node # n
    BY <1>2 DEF OnStack
  <2>3. \A i, j \in 2 .. L : su[i].node = su[j].node => i = j
    BY <1>2 DEF Orderly
  <2>4. \A i, j \in 2 .. L + 1 : su[i].node = su[j].node => i = j
    BY <1>1, <1>2, <2>2, <2>3
  <2> QED
    BY <1>1, <2>1, <2>4 DEF Orderly
<1>4. \A m : OnStack(su, m) <=> OnStack(st, m) \/ m = n
  BY <1>1, <1>2 DEF OnStack
<1>5. \A m : Owing(su, m) <=> Owing(st, m) \/ (m = n /\ Owes(f.todo))
  BY <1>1, <1>2 DEF Owing
<1> QED
  BY <1>3, <1>4, <1>5

\* A frame that is left, with nothing to do
LEMMA LeftOwes ==
    ASSUME NEW st, NEW L \in Nat, L = Len(stack), L >= 2, Orderly(stack),
           stack[L].todo = <<>>, Len(st) = L - 1, \A i \in 1 .. L - 1 : st[i] = stack[i]
    PROVE  /\ Orderly(st) /\ OnStack(stack, stack[L].node) /\ ~Owing(stack, stack[L].node)
           /\ \A m : OnStack(st, m) <=> OnStack(stack, m) /\ m # stack[L].node
           /\ \A m : Owing(st, m) <=> Owing(stack, m)
<1> PICK n : n = stack[L].node
  OBVIOUS
<1>1. /\ \A i \in 2 .. L - 1 : i \in 2 .. L /\ i # L /\ st[i] = stack[i]
      /\ L \in 2 .. L /\ \A i \in 2 .. L : i \in 2 .. L - 1 \/ i = L
  OBVIOUS
<1>2. \A i \in 2 .. L : stack[i].node = n => i = L
  BY <1>1 DEF Orderly
<1>3. Orderly(st)
  <2>1. \A i \in 2 .. L - 1 : ClosesLast(st[i].todo)
    BY <1>1 DEF Orderly
  <2>2. \A i, j \in 2 .. L - 1 : st[i].node = st[j].node => i = j
    <3> TAKE i, j \in 2 .. L - 1
    <3>1. i \in 2 .. L /\ j \in 2 .. L /\ st[i] = stack[i] /\ st[j] = stack[j]
      BY <1>1
    <3>2. stack[i].node = stack[j].node => i = j
      BY <3>1 DEF Orderly
    <3> QED
      BY <3>1, <3>2
  <2> QED
    BY <2>1, <2>2 DEF Orderly
<1>4. OnStack(stack, n) /\ ~Owing(stack, n)
  BY <1>1, <1>2, OwesNothing DEF OnStack, Owing
<1>5. \A m : OnStack(st, m) <=> OnStack(stack, m) /\ m # n
  BY ZenonT(60), <1>1, <1>2 DEF OnStack
<1>6. \A m : Owing(st, m) <=> Owing(stack, m)
  BY <1>1, OwesNothing DEF Owing
<1> QED
  BY <1>3, <1>4, <1>5, <1>6

\* Steps among which no bracket is
LEMMA OwesNotBoth ==
    ASSUME NEW s \in Seq(Steps), NEW t \in Seq(Steps), ~Owes(s), ~Owes(t)
    PROVE  ~Owes(s \o t)
<1> PICK u, L, M : u = s \o t /\ L = Len(s) /\ M = Len(t)
  OBVIOUS
<1>1. /\ L \in Nat /\ M \in Nat /\ DOMAIN s = 1 .. L /\ DOMAIN t = 1 .. M /\ DOMAIN u = 1 .. L + M
      /\ \A i \in 1 .. L + M : u[i] = IF i <= L THEN s[i] ELSE t[i - L]
  <2>1. /\ Len(s \o t) = Len(s) + Len(t) /\ s \o t \in Seq(Steps)
        /\ \A i \in 1 .. Len(s) + Len(t) : (s \o t)[i] = IF i <= Len(s) THEN s[i] ELSE t[i - Len(s)]
    BY ConcatProperties
  <2>2. L \in Nat /\ M \in Nat /\ DOMAIN s = 1 .. L /\ DOMAIN t = 1 .. M
    BY LenProperties
  <2>3. Len(u) = L + M /\ DOMAIN u = 1 .. Len(u)
    BY <2>1, LenProperties
  <2>4. \A i \in 1 .. L + M : u[i] = IF i <= L THEN s[i] ELSE t[i - L]
    BY <2>1
  <2> QED
    BY <2>2, <2>3, <2>4
<1> SUFFICES ASSUME NEW i \in 1 .. L + M, u[i].do = "close"
             PROVE  FALSE
  BY <1>1 DEF Owes
<1>2. CASE i <= L
  <2>1. i \in 1 .. L /\ u[i] = s[i]
    BY <1>1, <1>2
  <2> QED
    BY <1>1, <2>1 DEF Owes
<1>3. CASE ~(i <= L)
  <2>1. i - L \in 1 .. M /\ u[i] = t[i - L]
    BY <1>1, <1>3
  <2> QED
    BY <1>1, <2>1 DEF Owes
<1> QED
  BY <1>2, <1>3

LEMMA OwesLast ==
    ASSUME NEW s \in Seq(Steps), ~Owes(s), NEW c \in Steps, c.do = "close"
    PROVE  Owes(s \o <<c>>) /\ ClosesLast(s \o <<c>>)
<1> PICK u, L : u = s \o <<c>> /\ L = Len(s)
  OBVIOUS
<1>1. /\ L \in Nat /\ DOMAIN s = 1 .. L /\ Len(u) = L + 1 /\ DOMAIN u = 1 .. L + 1
      /\ u[L + 1] = c /\ \A i \in 1 .. L : u[i] = s[i]
  <2>1. Append(s, c) = s \o <<c>>
    OBVIOUS
  <2>2. /\ Append(s, c) \in Seq(Steps) /\ Len(Append(s, c)) = Len(s) + 1
        /\ \A i \in 1 .. Len(s) : Append(s, c)[i] = s[i]
        /\ Append(s, c)[Len(s) + 1] = c
    BY AppendProperties
  <2>3. u = Append(s, c)
    BY <2>1
  <2>4. u \in Seq(Steps) /\ Len(u) = L + 1 /\ u[L + 1] = c /\ \A i \in 1 .. L : u[i] = s[i]
    BY <2>2, <2>3
  <2> QED
    BY <2>4, LenProperties
<1>2. Owes(u)
  BY <1>1 DEF Owes
<1>3. ClosesLast(u)
  <2> SUFFICES ASSUME NEW i \in 1 .. L + 1, u[i].do = "close", i # L + 1
               PROVE  FALSE
    BY <1>1 DEF ClosesLast
  <2>1. i \in 1 .. L /\ u[i] = s[i]
    BY <1>1
  <2> QED
    BY <1>1, <2>1 DEF Owes
<1> QED
  BY <1>2, <1>3

LEMMA VisitsOweNothing ==
    ASSUME NEW cs
    PROVE  ~Owes(Visits(cs)) /\ ~Owes(VisitPart(cs))
<1>1. \A c : Visit(c).do # "close"
  BY DEF Visit
<1>2. ~Owes(Visits(cs))
  <2>1. DOMAIN Visits(cs) = DOMAIN cs /\ \A i \in DOMAIN cs : Visits(cs)[i] = Visit(cs[i])
    BY DEF Visits
  <2> QED
    BY <1>1, <2>1 DEF Owes
<1>3. ~Owes(VisitPart(cs))
  <2>1. CASE cs = None
    BY <2>1, OwesNothing DEF VisitPart
  <2>2. CASE cs # None
    <3> PICK v : v = Visit(cs)
      OBVIOUS
    <3>1. VisitPart(cs) = <<v>> /\ v.do # "close"
      BY <1>1, <2>2 DEF VisitPart
    <3>2. \A i \in DOMAIN <<v>> : <<v>>[i] = v
      OBVIOUS
    <3> QED
      BY <3>1, <3>2 DEF Owes
  <2> QED
    BY <2>1, <2>2
<1> QED
  BY <1>2, <1>3

LEMMA ToVisitOwes ==
    ASSUME TreeInv, IsTree(root), root \in Nodes, NEW n \in Below(root)
    PROVE  /\ ClosesLast(ToVisit(n))
           /\ Owes(ToVisit(n)) <=> config.compact /\ Kind(n) = "stringExpr"
<1>1. n \in Nodes
  BY OneParent
<1>2. ASSUME NEW todo, ~Owes(todo)
      PROVE  ClosesLast(todo)
  BY <1>2 DEF Owes, ClosesLast
<1>3. CASE Descends(n)
  <2>1. ToVisit(n) = Visits(nodes[n].children) /\ Kind(n) # "stringExpr"
    BY <1>3 DEF ToVisit, Descends
  <2> QED
    BY <1>2, <2>1, VisitsOweNothing
<1>4. CASE Kind(n) = "stringExpr"
  <2> PICK is : is = nodes[n].items
    OBVIOUS
  <2> DEFINE a == [i \in DOMAIN is |-> IF Kind(is[i]) = "string" THEN Text(is[i])
                                                                  ELSE Visit(is[i])]
  <2>1. Parts(n) = a \o IF config.compact THEN <<[do |-> "close", node |-> None]>> ELSE <<>>
    BY DEF Parts
  <2>2. is \in Seq(Nodes) /\ DOMAIN is = 1 .. Len(is) /\ Len(is) \in Nat
        /\ \A i \in DOMAIN is : is[i] \in Nodes
    BY <1>1, NodesAre, LenProperties, ElementOfSeq DEF TreeInv
  <2>3. ASSUME NEW i \in DOMAIN is
        PROVE  a[i] \in Steps /\ a[i].do # "close"
    <3>1. Visit(is[i]) \in Steps /\ Text(is[i]) \in Steps
      BY <2>2, AheadIs
    <3>2. Visit(is[i]).do # "close" /\ Text(is[i]).do # "close"
      BY DEF Visit, Text
    <3> QED
      BY <3>1, <3>2
  <2>4. DOMAIN a = DOMAIN is
    OBVIOUS
  <2>5. a \in Seq(Steps)
    <3>1. a \in [1 .. Len(is) -> Steps]
      BY <2>2, <2>3
    <3> HIDE DEF a
    <3> QED
      BY <2>2, <3>1, SequenceOfLength
  <2> HIDE DEF a
  <2>6. ~Owes(a)
    BY <2>3, <2>4 DEF Owes
  <2>7. ToVisit(n) = Parts(n)
    BY <1>4 DEF ToVisit, Descends
  <2>8. CASE config.compact
    <3> PICK c : c = [do |-> "close", node |-> None]
      OBVIOUS
    <3>1. c \in Steps /\ c.do = "close" /\ Parts(n) = a \o <<c>>
      BY <2>1, <2>8, AheadIs
    <3> QED
      BY <1>4, <2>5, <2>6, <2>7, <2>8, <3>1, OwesLast
  <2>9. CASE ~config.compact
    <3>1. Parts(n) = a
      BY <2>1, <2>5, <2>9
    <3> QED
      BY <1>2, <2>6, <2>7, <2>9, <3>1
  <2> QED
    BY <2>8, <2>9
<1>5. CASE Kind(n) = "forStmt"
  <2> PICK x, y, z : /\ x = VisitPart(nodes[n].args[1]) /\ y = VisitPart(nodes[n].args[3])
                     /\ z = VisitPart(nodes[n].args[2])
    OBVIOUS
  <2>1. ToVisit(n) = (x \o y) \o z
    BY <1>5 DEF ToVisit, Descends, ForParts
  <2>2. x \in Seq(Steps) /\ y \in Seq(Steps) /\ z \in Seq(Steps)
    <3>1. \A i \in 1 .. 3 : VisitPart(nodes[n].args[i]) \in Seq(Steps)
      <4> TAKE i \in 1 .. 3
      <4> PICK v : v = nodes[n].args[i]
        OBVIOUS
      <4>1. v # None => v \in Nodes /\ ~Raw(n, v)
        BY <1>5, PartsDiffer
      <4>2. VisitPart(v) \in Seq(Steps)
        BY <1>1, <4>1, PartTold
      <4> QED
        BY <4>2
    <3> QED
      BY <3>1
  <2>3. ~Owes(x) /\ ~Owes(y) /\ ~Owes(z)
    BY VisitsOweNothing
  <2>4. ~Owes((x \o y) \o z)
    <3> PICK xy : xy = x \o y
      OBVIOUS
    <3>1. xy \in Seq(Steps) /\ ~Owes(xy)
      BY <2>2, <2>3, OwesNotBoth
    <3> QED
      BY <2>2, <2>3, <3>1, OwesNotBoth
  <2> QED
    BY <1>2, <1>5, <2>1, <2>4
<1>6. CASE ~Descends(n) /\ Kind(n) \notin {"stringExpr", "forStmt"}
  <2>1. ToVisit(n) = <<>>
    BY <1>6 DEF ToVisit
  <2> QED
    BY <1>6, <2>1, OwesNothing
<1> QED
  BY <1>3, <1>4, <1>5, <1>6

-----------------------------------------------------------------------------
(* The invariant: a node has, in the end, what NodesAreWhole says, and     *)
(* before that as much less as its frame still owes.                       *)

Final(n, w) ==
    CASE w = "open" -> 1
      [] w = "close" -> IF config.compact /\ Kind(n) \in {"primitive", "stringExpr"} THEN 2 ELSE 1
      [] w = "attributes" -> IF config.compact /\ Kind(n) = "stringExpr" THEN 2
                             ELSE IF ~config.compact /\ Kind(n) = "primitive" THEN 0 ELSE 1

Due(st, n, w) ==
    CASE w = "open" -> 0
      [] w = "close" -> If(Owing(st, n)) + If(OnStack(st, n) /\ ~Inline(n))
      [] w = "attributes" -> If(Owing(st, n))

CountsAre(st, o, seen) ==
    \A n \in Nodes, w \in Brackets :
        Count(o, w, n) = IF n \in seen THEN Final(n, w) - Due(st, n, w) ELSE 0

WholeInv ==
    job = "print" => Orderly(stack) /\ CountsAre(stack, out, ToSet(entered))

LEMMA WholeInvIsWhole == TreeInv /\ WalkInv /\ WholeInv => NodesAreWhole
<1> SUFFICES ASSUME TreeInv, WalkInv, WholeInv, done, job = "print", NEW n \in ToSet(entered)
             PROVE  /\ Times("open", n) = Final(n, "open")
                    /\ Times("close", n) = Final(n, "close")
                    /\ Times("attributes", n) = Final(n, "attributes")
  BY DEF NodesAreWhole, Final
<1>1. stack = <<>> /\ entered \in Seq(Nodes)
  BY DEF WalkInv, VisitorTypeOK
<1>2. n \in Nodes
  BY <1>1, MembersAre
<1>3. ~OnStack(stack, n) /\ ~Owing(stack, n)
  <2>1. Len(<<>>) = 0
    BY EmptySeq
  <2> QED
    BY <1>1, <2>1 DEF OnStack, Owing
<1>4. ASSUME NEW w \in Brackets
      PROVE  Times(w, n) = Final(n, w)
  <2>1. Count(out, w, n) = Final(n, w) - Due(stack, n, w)
    BY <1>2 DEF WholeInv, CountsAre
  <2>2. Due(stack, n, w) = 0 /\ Final(n, w) \in Nat
    BY <1>3, <1>4 DEF Due, Final, If, Brackets
  <2>3. Times(w, n) = Count(out, w, n)
    BY TimesIs
  <2> QED
    BY <2>1, <2>2, <2>3
<1> QED
  BY <1>4 DEF Brackets

LEMMA SameCounts ==
    ASSUME nodes' = nodes, config' = config
    PROVE  \A st, o, seen : CountsAre(st, o, seen)' <=> CountsAre(st, o, seen)
<1>1. Nodes' = Nodes
  BY SameTree
<1>2. /\ \A n, w : Final(n, w)' = Final(n, w)
      /\ \A st, n, w : Due(st, n, w)' = Due(st, n, w)
  BY DEF Final, Due, Kind, Inline
<1> QED
  BY <1>1, <1>2 DEF CountsAre

LEMMA WholeGoesOn ==
    ASSUME Printing, Orderly(stack'), CountsAre(stack', out', ToSet(entered'))
    PROVE  WholeInv'
<1>1. nodes' = nodes /\ config' = config
  BY DEF Printing, treeVars
<1>2. CountsAre(stack, out, ToSet(entered))'
  BY <1>1, SameCounts
<1> QED
  BY <1>2 DEF WholeInv

LEMMA WholeTyped ==
    ASSUME TreeInv, WalkInv, PrintTypeOK, WholeInv, Printing
    PROVE  /\ job = "print" /\ ~done /\ root \in Nodes /\ IsTree(root)
           /\ stack \in Seq(Frame) /\ Len(stack) \in Nat /\ Len(stack) >= 1
           /\ \A i \in 2 .. Len(stack) : stack[i].node \in Nodes
           /\ Frames(stack, ToSet(entered)) /\ entered \in Seq(Nodes)
           /\ out \in Seq(Piece) /\ indent \in Nat /\ TreeTypeOK
           /\ Orderly(stack) /\ CountsAre(stack, out, ToSet(entered))
<1>1. job = "print" /\ ~done
  BY DEF Printing, Running
<1> QED
  BY <1>1, WalkTyped DEF WholeInv, PrintTypeOK, TreeInv

\* A step that prints nothing that is counted, and changes nothing that is owed
LEMMA CountsStay ==
    ASSUME NEW seen, CountsAre(stack, out, seen), NEW st, NEW o,
           \A m : OnStack(st, m) <=> OnStack(stack, m),
           \A m : Owing(st, m) <=> Owing(stack, m),
           \A m \in Nodes, w \in Brackets : Count(o, w, m) = Count(out, w, m)
    PROVE  CountsAre(st, o, seen)
<1>1. \A m, w : Due(st, m, w) = Due(stack, m, w)
  <2> TAKE m, w
  <2>1. (OnStack(st, m) <=> OnStack(stack, m)) /\ (Owing(st, m) <=> Owing(stack, m))
    OBVIOUS
  <2>2. If(Owing(st, m)) = If(Owing(stack, m))
        /\ If(OnStack(st, m) /\ ~Inline(m)) = If(OnStack(stack, m) /\ ~Inline(m))
    BY <2>1 DEF If
  <2> QED
    BY <2>2 DEF Due
<1> QED
  BY <1>1 DEF CountsAre

LEMMA CountUncounted ==
    ASSUME NEW s \in Seq(Piece), NEW p \in Piece, NEW w, p.what # w, NEW m
    PROVE  Count(s \o <<p>>, w, m) = Count(s, w, m)
<1>1. <<p>> \in Seq(Piece)
  OBVIOUS
<1>2. Count(<<p>>, w, m) = 0
  BY CountOne DEF If
<1>3. Counted(s, <<p>>, w, m)
  BY <1>1, CountBoth
<1>4. Count(s, w, m) \in Nat
  BY CountIs
<1> QED
  BY <1>2, <1>3, <1>4 DEF Counted

LEMMA CountSame ==
    ASSUME indent \in Nat, Len(stack) \in Nat, Len(stack) >= 1, out \in Seq(Piece),
           NEW n \in Nodes, NEW what \in {"name", "text", "error", "dots"},
           NEW m, NEW w \in Brackets
    PROVE  Count(out \o <<Put(what, n)>>, w, m) = Count(out, w, m)
<1> PICK p : p = Put(what, n)
  OBVIOUS
<1>1. p \in Piece /\ p.what # w
  BY DEF Put, Piece, Brackets
<1>2. Count(out \o <<p>>, w, m) = Count(out, w, m)
  BY <1>1, CountUncounted
<1> QED
  BY <1>2

LEMMA SkipKeepsWhole ==
    ASSUME TreeInv, WalkInv, PrintTypeOK, WholeInv, NEW n \in Nodes,
           SkipNode(n) \/ CutNode(n)
    PROVE  WholeInv'
<1>1. /\ Printing /\ NextStep(Visit(n)) /\ stack' = Advanced /\ entered' = entered
      /\ out' = out \/ out' = Append(out, Put("dots", n))
  BY DEF SkipNode, CutNode
<1>2. /\ stack \in Seq(Frame) /\ Len(stack) \in Nat /\ Len(stack) >= 1 /\ indent \in Nat
      /\ out \in Seq(Piece) /\ Orderly(stack) /\ CountsAre(stack, out, ToSet(entered))
  BY <1>1, WholeTyped
<1>3. Last(stack).todo # <<>> /\ Head(Last(stack).todo).do # "close"
  BY <1>1 DEF NextStep, Visit
<1>4. /\ Orderly(Advanced) /\ \A m : OnStack(Advanced, m) <=> OnStack(stack, m)
      /\ \A m : Owing(Advanced, m) <=> Owing(stack, m)
  BY <1>2, <1>3, AdvancedOwes
<1>5. \A m \in Nodes, w \in Brackets : Count(out', w, m) = Count(out, w, m)
  <2>1. CASE out' = out
    BY <2>1
  <2>2. CASE out' = Append(out, Put("dots", n))
    <3> PICK p : p = Put("dots", n)
      OBVIOUS
    <3>1. p \in Piece
      BY <1>2, PutTyped
    <3>2. Append(out, p) = out \o <<p>>
      BY <1>2, <3>1
    <3>3. \A m \in Nodes, w \in Brackets : Count(out \o <<p>>, w, m) = Count(out, w, m)
      BY ZenonT(60), <1>2, CountSame
    <3> QED
      BY <2>2, <3>2, <3>3
  <2> QED
    BY <1>1, <2>1, <2>2
<1> PICK o, st, seen : o = out' /\ st = Advanced /\ seen = ToSet(entered)
  OBVIOUS
<1>6. CountsAre(st, o, seen)
  BY <1>2, <1>4, <1>5, CountsStay
<1> QED
  BY <1>1, <1>4, <1>6, WholeGoesOn

\* The pieces that close a string on one line are those its frame owed.
LEMMA TextKeepsWhole ==
    ASSUME TreeInv, WalkInv, PrintTypeOK, WholeInv, PrintText
    PROVE  WholeInv'
<1> PICK top, step, seen, st :
        /\ top = Last(stack) /\ step = Head(Last(stack).todo) /\ seen = ToSet(entered)
        /\ st = Advanced
  OBVIOUS
<1>1. /\ Printing /\ top.todo # <<>> /\ step.do # "visit" /\ stack' = st /\ entered' = entered
      /\ out' = out \o IF step.do = "text"
                       THEN <<Put("text", step.node)>>
                       ELSE <<Put("attributes", top.node), Put("close", top.node)>>
  BY DEF PrintText
<1>2. /\ stack \in Seq(Frame) /\ Len(stack) \in Nat /\ Len(stack) >= 1 /\ indent \in Nat
      /\ out \in Seq(Piece) /\ Orderly(stack) /\ CountsAre(stack, out, seen)
      /\ job = "print" /\ ~done
  BY <1>1, WholeTyped
<1>3. top.node \in Nodes /\ Len(stack) >= 2 /\ step \in Steps /\ top = stack[Len(stack)]
  <2>1. top.node \in Nodes /\ Len(stack) >= 2
    BY <1>1, <1>2, TopIsNode
  <2>2. top = stack[Len(stack)] /\ top.todo \in Seq(Steps)
    BY <1>2, StacksTyped
  <2>3. step \in Steps
    BY <1>1, <2>2, UnprintedFirst
  <2> QED
    BY <2>1, <2>2, <2>3
<1>4. /\ Orderly(st) /\ \A m : OnStack(st, m) <=> OnStack(stack, m)
      /\ step.do # "close" => \A m : Owing(st, m) <=> Owing(stack, m)
      /\ step.do = "close" => /\ Owing(stack, top.node)
                              /\ \A m : Owing(st, m) <=> Owing(stack, m) /\ m # top.node
  BY <1>1, <1>2, <1>3, AdvancedOwes
<1>5. CASE step.do = "text"
  <2>1. step.node \in Nodes
    BY <1>3, <1>5 DEF Steps
  <2> PICK o, p : p = Put("text", step.node) /\ o = out \o <<p>>
    OBVIOUS
  <2>2. \A m \in Nodes, w \in Brackets : Count(o, w, m) = Count(out, w, m)
    BY ZenonT(60), <1>2, <2>1, CountSame
  <2>3. CountsAre(st, o, seen)
    BY <1>2, <1>4, <1>5, <2>2, CountsStay
  <2>4. out' = o
    BY <1>1, <1>5
  <2> QED
    BY <1>1, <1>4, <2>3, <2>4, WholeGoesOn
<1>6. CASE step.do # "text"
  <2>1. step.do = "close"
    BY <1>1, <1>3, <1>6 DEF Steps
  <2> PICK n, a, b, p :
        /\ n = top.node /\ a = <<Put("attributes", top.node)>> /\ b = <<Put("close", top.node)>>
        /\ p = <<Put("attributes", top.node), Put("close", top.node)>>
    OBVIOUS
  <2>5. p = a \o b
    OBVIOUS
  <2> PICK o : o = out \o (a \o b)
    OBVIOUS
  <2>2. out' = o
    BY <1>1, <1>6, <2>5
  <2>3. ASSUME NEW m \in Nodes, NEW w \in Brackets
        PROVE  Count(o, w, m) = Count(out, w, m) + (If(m = n /\ w = "attributes")
                                                    + If(m = n /\ w = "close"))
    <3>1. a \in Seq(Piece) /\ b \in Seq(Piece)
      BY <1>2, <1>3, HookCloses
    <3>2. /\ Count(a, w, m) = If("attributes" = w /\ n = m)
          /\ Count(b, w, m) = If("close" = w /\ n = m)
      BY CountPut
    <3>3. Counted(a, b, w, m)
      BY <3>1, CountBoth
    <3> PICK ab : ab = a \o b
      OBVIOUS
    <3>4. ab \in Seq(Piece) /\ Count(ab, w, m) = Count(a, w, m) + Count(b, w, m)
      BY <3>1, <3>3, ShownBoth DEF Counted
    <3>5. Counted(out, ab, w, m)
      BY <1>2, <3>4, CountBoth
    <3>6. Count(o, w, m) = Count(out, w, m) + (Count(a, w, m) + Count(b, w, m))
      BY <3>4, <3>5 DEF Counted
    <3> QED
      BY <3>2, <3>6 DEF If
  <2>4. CountsAre(st, o, seen)
    <3> SUFFICES ASSUME NEW m \in Nodes, NEW w \in Brackets
                 PROVE  Count(o, w, m) = IF m \in seen THEN Final(m, w) - Due(st, m, w) ELSE 0
      BY DEF CountsAre
    <3>1. Count(out, w, m) = IF m \in seen THEN Final(m, w) - Due(stack, m, w) ELSE 0
      BY <1>2 DEF CountsAre
    <3>2. n \in seen
      <4>1. Frames(stack, seen)
        BY <1>1, WholeTyped
      <4> PICK l : l = Len(stack)
        OBVIOUS
      <4>2. l \in 2 .. l /\ n = stack[l].node
        BY <1>2, <1>3
      <4> QED
        BY <4>1, <4>2 DEF Frames
    <3>3. w \in {"open", "close", "attributes"} /\ Final(m, w) \in Nat
      BY DEF Brackets, Final
    <3>4. CASE m # n
      <4>1. (OnStack(st, m) <=> OnStack(stack, m)) /\ (Owing(st, m) <=> Owing(stack, m))
        BY <1>4, <2>1, <3>4
      <4>2. Due(st, m, w) = Due(stack, m, w)
        <5>1. If(Owing(st, m)) = If(Owing(stack, m))
              /\ If(OnStack(st, m) /\ ~Inline(m)) = If(OnStack(stack, m) /\ ~Inline(m))
          BY <4>1 DEF If
        <5> QED
          BY <5>1 DEF Due
      <4>3. Due(stack, m, w) \in Int
        BY <3>3 DEF Due, If
      <4>4. Count(o, w, m) = Count(out, w, m) + (0 + 0)
        BY <2>3, <3>4 DEF If
      <4> QED
        BY SMTT(30), <3>1, <3>3, <4>2, <4>3, <4>4
    <3>5. CASE m = n
      <4>1. (OnStack(st, n) <=> OnStack(stack, n)) /\ Owing(stack, n) /\ ~Owing(st, n)
        BY <1>4, <2>1
      <4>2. If(OnStack(st, n) /\ ~Inline(n)) = If(OnStack(stack, n) /\ ~Inline(n))
            /\ If(OnStack(stack, n) /\ ~Inline(n)) \in Int
            /\ If(Owing(stack, n)) = 1 /\ If(Owing(st, n)) = 0
        BY <4>1 DEF If
      <4>3. /\ Due(stack, n, w) = Due(st, n, w) + (IF w = "open" THEN 0 ELSE 1)
            /\ Due(st, n, w) \in Int
        BY <3>3, <4>2 DEF Due
      <4>4. Count(o, w, n) = Count(out, w, n) + (IF w = "open" THEN 0 ELSE 1)
        BY <2>3, <3>3, <3>5 DEF If
      <4> QED
        BY <3>1, <3>2, <3>3, <3>5, <4>3, <4>4
    <3> QED
      BY <3>4, <3>5
  <2> QED
    BY <1>1, <1>4, <2>2, <2>4, WholeGoesOn
<1> QED
  BY <1>5, <1>6

\* What a hook prints of its node is what the node has in the end, less what the new frame
\* owes.
LEMMA FirstIs ==
    ASSUME NEW n, NEW w \in Brackets, NEW owes, NEW due,
           owes <=> config.compact /\ Kind(n) = "stringExpr",
           due = IF w = "open" THEN 0
                 ELSE If(owes) + (IF w = "close" THEN If(~Inline(n)) ELSE 0)
    PROVE  First(n, w) = Final(n, w) - due
<1>1. w \in {"open", "close", "attributes"}
  BY DEF Brackets
<1>2. CASE w = "open"
  BY <1>2 DEF First, Final
<1>3. CASE w = "close"
  <2>1. CASE Inline(n)
    BY <1>3, <2>1 DEF First, Final, If, Inline
  <2>2. CASE ~Inline(n) /\ Kind(n) = "primitive"
    BY <1>3, <2>2 DEF First, Final, If
  <2>3. CASE ~Inline(n) /\ Kind(n) # "primitive"
    BY <1>3, <2>3 DEF First, Final, If
  <2> QED
    BY <2>1, <2>2, <2>3
<1>4. CASE w = "attributes"
  BY <1>4 DEF First, Final, If
<1> QED
  BY <1>1, <1>2, <1>3, <1>4

LEMMA PrintNodeKeepsWhole ==
    ASSUME TreeInv, WalkInv, PrintTypeOK, WholeInv, NEW n \in Nodes, PrintNode(n)
    PROVE  WholeInv'
<1> PICK f, adv, seen, st, o :
        /\ f = [node |-> n, todo |-> ToVisit(n), indented |-> Descends(n)]
        /\ adv = Advanced /\ seen = ToSet(entered) /\ st = Append(adv, f)
        /\ o = out \o Printed(n)
  OBVIOUS
<1>1. /\ Printing /\ NextStep(Visit(n)) /\ stack' = st /\ out' = o
      /\ entered' = Append(entered, n)
  BY DEF PrintNode
<1>2. /\ stack \in Seq(Frame) /\ Len(stack) \in Nat /\ Len(stack) >= 1 /\ indent \in Nat
      /\ out \in Seq(Piece) /\ Orderly(stack) /\ CountsAre(stack, out, seen)
      /\ job = "print" /\ ~done /\ root \in Nodes /\ IsTree(root) /\ TreeTypeOK
      /\ Frames(stack, seen) /\ entered \in Seq(Nodes)
  BY <1>1, WholeTyped
<1>3. f \in Frame /\ f.node = n /\ f.todo = ToVisit(n) /\ n \in Below(root)
  BY <1>1, FrameOfNode
<1>4. n \notin seen
  <2>1. Pending(f.todo, n, {})
    BY <1>2, <1>3, ToVisitPending
  <2> QED
    BY <1>1, <1>2, <1>3, <2>1, FramesEntered
<1>5. Last(stack).todo # <<>> /\ Head(Last(stack).todo).do # "close"
  BY <1>1 DEF NextStep, Visit
<1>6. /\ Orderly(adv) /\ \A m : OnStack(adv, m) <=> OnStack(stack, m)
      /\ \A m : Owing(adv, m) <=> Owing(stack, m)
      /\ adv \in Seq(Frame) /\ Len(adv) >= 1
  <2>1. adv \in Seq(Frame) /\ Len(adv) = Len(stack)
    BY <1>2, <1>5, AdvancedIs
  <2> QED
    BY <1>2, <1>5, <2>1, AdvancedOwes
<1>7. ClosesLast(f.todo) /\ (Owes(f.todo) <=> config.compact /\ Kind(n) = "stringExpr")
  BY <1>2, <1>3, ToVisitOwes
<1>8. ~OnStack(stack, n) /\ ~Owing(stack, n)
  BY <1>2, <1>4 DEF Frames, OnStack, Owing
<1>9. /\ Orderly(st) /\ \A m : OnStack(st, m) <=> OnStack(adv, m) \/ m = n
      /\ \A m : Owing(st, m) <=> Owing(adv, m) \/ (m = n /\ Owes(f.todo))
  BY <1>3, <1>6, <1>7, <1>8, EnteredOwes
<1>10. ASSUME NEW m \in Nodes, NEW w \in Brackets
       PROVE  Count(o, w, m) = Count(out, w, m) + (IF m = n THEN First(n, w) ELSE 0)
  <2> PICK p : p = Printed(n)
    OBVIOUS
  <2>1. p \in Seq(Piece)
    BY <1>2, PrintedTyped
  <2>2. Count(p, w, m) = IF m = n THEN First(n, w) ELSE 0
    BY <1>2, PrintedCounts
  <2>3. Counted(out, p, w, m)
    BY <1>2, <2>1, CountBoth
  <2> QED
    BY <2>2, <2>3 DEF Counted
<1>11. CountsAre(st, o, seen \cup {n})
  <2> SUFFICES ASSUME NEW m \in Nodes, NEW w \in Brackets
               PROVE  Count(o, w, m) = IF m \in seen \cup {n}
                                       THEN Final(m, w) - Due(st, m, w) ELSE 0
    BY DEF CountsAre
  <2>1. Count(out, w, m) = IF m \in seen THEN Final(m, w) - Due(stack, m, w) ELSE 0
    BY <1>2 DEF CountsAre
  <2>2. w \in {"open", "close", "attributes"}
    BY DEF Brackets
  <2>3. Final(m, w) \in Int /\ Due(stack, m, w) \in Int
    BY <2>2 DEF Final, Due, If
  <2>4. CASE m # n
    <3>1. (OnStack(st, m) <=> OnStack(stack, m)) /\ (Owing(st, m) <=> Owing(stack, m))
      BY <1>6, <1>9, <2>4
    <3>2. Due(st, m, w) = Due(stack, m, w)
      <4>1. If(Owing(st, m)) = If(Owing(stack, m))
            /\ If(OnStack(st, m) /\ ~Inline(m)) = If(OnStack(stack, m) /\ ~Inline(m))
        BY <3>1 DEF If
      <4> QED
        BY <4>1 DEF Due
    <3>3. Count(o, w, m) = Count(out, w, m) + 0
      BY <1>10, <2>4
    <3>4. m \in seen \cup {n} <=> m \in seen
      BY <2>4
    <3> QED
      BY <2>1, <2>3, <3>2, <3>3, <3>4
  <2>5. CASE m = n
    <3>1. OnStack(st, n) /\ (Owing(st, n) <=> Owes(f.todo))
      BY <1>6, <1>8, <1>9
    <3> PICK owes : owes = Owes(f.todo)
      OBVIOUS
    <3>2. If(Owing(st, n)) = If(owes) /\ If(OnStack(st, n) /\ ~Inline(n)) = If(~Inline(n))
      BY <3>1 DEF If
    <3>3. Due(st, n, w) = IF w = "open" THEN 0
                          ELSE If(owes) + (IF w = "close" THEN If(~Inline(n)) ELSE 0)
      <4>1. If(owes) + 0 = If(owes)
        BY DEF If
      <4> QED
        BY <2>2, <3>2, <4>1 DEF Due
    <3>4. First(n, w) = Final(n, w) - Due(st, n, w)
      BY <1>7, <3>3, FirstIs
    <3>5. Count(o, w, n) = 0 + First(n, w)
      BY <1>4, <1>10, <2>1, <2>5
    <3>6. Due(st, n, w) \in Int
      BY <2>2 DEF Due, If
    <3> QED
      BY <2>3, <2>5, <3>4, <3>5, <3>6
  <2> QED
    BY <2>4, <2>5
<1>12. ToSet(entered') = seen \cup {n}
  <2> PICK e : e = entered
    OBVIOUS
  <2>1. e \in Seq(Nodes)
    BY <1>2
  <2>2. ToSet(Append(e, n)) = ToSet(e) \cup {n}
    BY <2>1, SeenMore
  <2> QED
    BY <1>1, <2>2
<1> QED
  BY <1>1, <1>9, <1>11, <1>12, WholeGoesOn

LEMMA LeaveKeepsWhole ==
    ASSUME TreeInv, WalkInv, PrintTypeOK, WholeInv, LeavePrinted
    PROVE  WholeInv'
<1> PICK L, n, st, seen, o :
        L = Len(stack) /\ n = Last(stack).node /\ st = Front(stack) /\ seen = ToSet(entered)
        /\ o = out'
  OBVIOUS
<1>1. /\ Printing /\ NodeDone /\ stack' = st /\ entered' = entered
      /\ o = IF Inline(n) THEN out ELSE Append(out, Put("close", n))
  BY DEF LeavePrinted
<1>2. /\ stack \in Seq(Frame) /\ L \in Nat /\ L >= 1 /\ indent \in Nat
      /\ out \in Seq(Piece) /\ Orderly(stack) /\ CountsAre(stack, out, seen)
      /\ Frames(stack, seen) /\ \A i \in 2 .. L : stack[i].node \in Nodes
  BY <1>1, WholeTyped
<1>3. L >= 2 /\ stack[L] = Last(stack) /\ stack[L].todo = <<>> /\ n = stack[L].node
  BY <1>1, <1>2, FramesAre DEF NodeDone
<1>4. n \in Nodes /\ n \in seen
  <2>1. L \in 2 .. L
    BY <1>2, <1>3
  <2> QED
    BY <1>2, <1>3, <2>1 DEF Frames
<1>5. Len(st) = L - 1 /\ \A i \in 1 .. L - 1 : st[i] = stack[i]
  BY <1>2, <1>3, FramesLeft
<1>6. /\ Orderly(st) /\ OnStack(stack, n) /\ ~Owing(stack, n)
      /\ \A m : OnStack(st, m) <=> OnStack(stack, m) /\ m # n
      /\ \A m : Owing(st, m) <=> Owing(stack, m)
  BY <1>2, <1>3, <1>5, LeftOwes
<1>7. ASSUME NEW m \in Nodes, NEW w \in Brackets
      PROVE  Count(o, w, m) = Count(out, w, m) + If(~Inline(n) /\ w = "close" /\ m = n)
  <2>1. Count(out, w, m) \in Nat
    BY <1>2, CountIs
  <2>2. CASE Inline(n)
    <3>1. o = out /\ If(~Inline(n) /\ w = "close" /\ m = n) = 0
      BY <1>1, <2>2 DEF If
    <3> QED
      BY <2>1, <3>1
  <2>3. CASE ~Inline(n)
    <3> PICK p : p = Put("close", n)
      OBVIOUS
    <3>1. p \in Piece /\ o = Append(out, p)
      BY <1>1, <1>2, <1>4, <2>3, PutTyped
    <3>2. Append(out, p) = out \o <<p>> /\ <<p>> \in Seq(Piece)
      BY <1>2, <3>1
    <3>3. Count(<<p>>, w, m) = If("close" = w /\ n = m)
      BY CountPut
    <3>4. Counted(out, <<p>>, w, m)
      BY <1>2, <3>2, CountBoth
    <3>5. If("close" = w /\ n = m) = If(~Inline(n) /\ w = "close" /\ m = n)
      BY <2>3 DEF If
    <3> QED
      BY <3>1, <3>2, <3>3, <3>4, <3>5 DEF Counted
  <2> QED
    BY <2>2, <2>3
<1>8. CountsAre(st, o, seen)
  <2> SUFFICES ASSUME NEW m \in Nodes, NEW w \in Brackets
               PROVE  Count(o, w, m) = IF m \in seen THEN Final(m, w) - Due(st, m, w) ELSE 0
    BY DEF CountsAre
  <2>1. Count(out, w, m) = IF m \in seen THEN Final(m, w) - Due(stack, m, w) ELSE 0
    BY <1>2 DEF CountsAre
  <2>2. w \in {"open", "close", "attributes"}
    BY DEF Brackets
  <2>3. Final(m, w) \in Int /\ Due(stack, m, w) \in Int /\ Due(st, m, w) \in Int
    BY <2>2 DEF Final, Due, If
  <2>4. If(Owing(st, m)) = If(Owing(stack, m))
    BY <1>6 DEF If
  <2>5. Due(stack, m, w) = Due(st, m, w) + If(~Inline(n) /\ w = "close" /\ m = n)
    <3>1. CASE m = n
      <4>1. OnStack(stack, n) /\ ~OnStack(st, n)
        BY <1>6
      <4> QED
        BY <2>2, <2>4, <3>1, <4>1 DEF Due, If
    <3>2. CASE m # n
      <4>1. OnStack(st, m) <=> OnStack(stack, m)
        BY <1>6, <3>2
      <4> QED
        BY <2>2, <2>4, <3>2, <4>1 DEF Due, If
    <3> QED
      BY <3>1, <3>2
  <2>6. Count(o, w, m) = Count(out, w, m) + If(~Inline(n) /\ w = "close" /\ m = n)
    BY <1>7
  <2>7. m \notin seen => If(~Inline(n) /\ w = "close" /\ m = n) = 0
    BY <1>4 DEF If
  <2>8. If(~Inline(n) /\ w = "close" /\ m = n) \in Int
    BY DEF If
  <2> QED
    BY <2>1, <2>3, <2>5, <2>6, <2>7, <2>8
<1> QED
  BY <1>1, <1>6, <1>8, WholeGoesOn

LEMMA EndKeepsWhole ==
    ASSUME TreeInv, WalkInv, PrintTypeOK, WholeInv, EndPrint
    PROVE  WholeInv'
<1> PICK seen : seen = ToSet(entered)
  OBVIOUS
<1>1. /\ nodes' = nodes /\ config' = config /\ out' = out /\ entered' = entered /\ stack' = <<>>
      /\ Len(stack) = 1 /\ job = "print"
  BY DEF EndPrint, Return, Running, treeVars, printVars
<1>2. Orderly(stack) /\ CountsAre(stack, out, seen)
  BY <1>1 DEF WholeInv
<1>3. \A m : ~OnStack(stack, m) /\ ~Owing(stack, m) /\ ~OnStack(<<>>, m) /\ ~Owing(<<>>, m)
  <2>1. ASSUME NEW st, Len(st) \in {0, 1}, NEW m
        PROVE  ~OnStack(st, m) /\ ~Owing(st, m)
    <3>1. 2 .. Len(st) = {}
      BY <2>1
    <3> QED
      BY <3>1 DEF OnStack, Owing
  <2>2. Len(<<>>) \in {0, 1}
    OBVIOUS
  <2>3. Len(stack) \in {0, 1}
    BY <1>1
  <2>4. \A m : ~OnStack(stack, m) /\ ~Owing(stack, m)
    BY <2>1, <2>3
  <2>5. \A m : ~OnStack(<<>>, m) /\ ~Owing(<<>>, m)
    BY <2>1, <2>2
  <2> QED
    BY <2>4, <2>5
<1>4. CountsAre(<<>>, out, seen)
  BY <1>2, <1>3, CountsStay
<1>5. Orderly(<<>>)
  BY DEF Orderly
<1>6. CountsAre(stack, out, ToSet(entered))'
  BY <1>1, <1>4, SameCounts
<1> QED
  BY <1>1, <1>5, <1>6 DEF WholeInv

LEMMA BeginsWhole ==
    ASSUME WalkInv, NEW r \in Nodes, BeginPrint(r)
    PROVE  WholeInv'
<1>1. /\ job = "idle" /\ out' = <<>> /\ entered' = entered
      /\ stack' = <<[node |-> None, todo |-> <<Visit(r)>>, indented |-> FALSE]>>
  BY DEF BeginPrint, Begin
<1>2. ToSet(entered') = {}
  BY <1>1 DEF WalkInv, ToSet
<1>3. \A w, m : Count(<<>>, w, m) = 0
  BY CountNone
<1>4. CountsAre(stack, out, ToSet(entered))'
  BY <1>1, <1>2, <1>3 DEF CountsAre
<1>5. Orderly(stack')
  <2>1. Len(stack') = 1
    BY <1>1
  <2> QED
    BY <2>1 DEF Orderly
<1> QED
  BY <1>4, <1>5 DEF WholeInv

LEMMA WholeKept ==
    TreeInv /\ WalkInv /\ PrintTypeOK /\ WholeInv /\ [Next]_vars => WholeInv'
<1> SUFFICES ASSUME TreeInv, WalkInv, PrintTypeOK, WholeInv, [Next]_vars
             PROVE  WholeInv'
  OBVIOUS
<1>1. ASSUME job' # "print"
      PROVE  WholeInv'
  BY <1>1 DEF WholeInv
<1>2. CASE job = "idle" /\ TreeNext /\ UNCHANGED <<visitorVars, printVars>>
  BY <1>1, <1>2 DEF visitorVars
<1>3. CASE VisitorNext /\ UNCHANGED <<treeVars, printVars>>
  <2>1. job' # "print"
    BY <1>3 DEF VisitorNext, BeginSearch, Begin, EnterNode, LeaveNode, EndSearch, Return,
                Running, Searches
  <2> QED
    BY <1>1, <2>1
<1>4. ASSUME NEW n \in Nodes, BeginPrint(n) \/ SkipNode(n) \/ CutNode(n) \/ PrintNode(n)
      PROVE  WholeInv'
  BY <1>4, BeginsWhole, SkipKeepsWhole, PrintNodeKeepsWhole
<1>5. CASE PrintText \/ LeavePrinted \/ EndPrint
  BY <1>5, TextKeepsWhole, LeaveKeepsWhole, EndKeepsWhole
<1>6. CASE ForgetOutput
  BY <1>1, <1>6 DEF ForgetOutput, Forget
<1>7. CASE UNCHANGED vars
  <2>1. UNCHANGED <<nodes, job, stack, entered, out, config>>
    BY <1>7 DEF vars, treeVars, visitorVars, walkVars, printVars
  <2>2. CASE job = "print"
    <3>1. Orderly(stack) /\ CountsAre(stack, out, ToSet(entered))
      BY <2>2 DEF WholeInv
    <3>2. CountsAre(stack, out, ToSet(entered))'
      BY <2>1, <3>1, SameCounts
    <3> QED
      BY <2>1, <3>1, <3>2 DEF WholeInv
  <2>3. CASE job # "print"
    BY <1>1, <2>1, <2>3
  <2> QED
    BY <2>2, <2>3
<1> QED
  BY <1>2, <1>3, <1>4, <1>5, <1>6, <1>7 DEF Next

LEMMA SpecNodesAreWhole == Spec => []NodesAreWhole
<1>1. Init => Inv /\ WholeInv
  <2>1. Init => WholeInv
    BY DEF Init, VisitorInit, WholeInv
  <2> QED
    BY <2>1, InvBegins
<1>2. Inv /\ WholeInv /\ [Next]_vars => Inv' /\ WholeInv'
  BY InvKept, WholeKept DEF Inv
<1>3. Inv /\ WholeInv => NodesAreWhole
  BY WholeInvIsWhole DEF Inv
<1> QED
  BY <1>1, <1>2, <1>3, PTL DEF Spec

\* What the printer prints of a tree is the tree, whatever its size, shape and history,
\* and with every configuration: the nodes it enters are opened, closed and given their
\* attributes as often as the hooks of their kinds do, and without a depth limit what it
\* shows is every node that the filter accepts, once, in the order of the text.
THEOREM SpecOutputIsTheTree == Spec => []OutputIsTheTree
<1>1. NodesAreWhole /\ PrintInv => OutputIsTheTree
  BY PrintInvPrints DEF OutputIsTheTree
<1> QED
  BY <1>1, SpecNodesAreWhole, SpecPrintInv, PTL

=============================================================================
