------------------------- MODULE TypeRegistryProofs -------------------------
(***************************************************************************)
(* Proofs about the types and the registry, for any requests and any       *)
(* number of types: what is stored is well typed, no two registered        *)
(* objects are equal, equal types have one layout and answer alike, what   *)
(* chains of bases and of virtual methods answer, and where the fields of  *)
(* structs and of classes lie.                                             *)
(***************************************************************************)
EXTENDS TypeRegistry, FiniteSetTheorems, SequenceTheorems, WellFoundedInduction, TLAPS

-----------------------------------------------------------------------------
(* Induction over the natural numbers, about a set: the numbers for which  *)
(* a claim holds.  (The library's is about an operator P(_), which the     *)
(* provers cannot instantiate.)                                            *)

\* A set of natural numbers that is not empty has a least member.
LEMMA LeastNatural ==
    ASSUME NEW S \in SUBSET Nat, S # {}
    PROVE  \E n \in S : \A m \in S : n <= m
<1>1. PICK n \in S : \A m \in S : <<m, n>> \notin OpToRel(<, Nat)
  BY NatLessThanWellFounded, WFMin, Zenon
<1>2. \A m \in S : ~ (m < n)
  BY <1>1, Zenon DEF OpToRel
<1> QED
  BY <1>2

\* A set that has 0 and with each natural number the next has them all.
LEMMA SimpleInduction ==
    ASSUME NEW S, 0 \in S, \A n \in Nat : n \in S => n + 1 \in S
    PROVE  Nat \subseteq S
<1> SUFFICES ASSUME Nat \ S # {}
             PROVE  FALSE
  OBVIOUS
<1>1. PICK n \in Nat \ S : \A m \in Nat \ S : n <= m
  BY LeastNatural
<1>2. n # 0 /\ n - 1 \in Nat
  OBVIOUS
<1> QED
  BY <1>1, <1>2

\* A set that has a natural number whenever it has all smaller ones has them all.
LEMMA StrongInduction ==
    ASSUME NEW S, \A n \in Nat : (\A m \in 0 .. n - 1 : m \in S) => n \in S
    PROVE  Nat \subseteq S
<1> SUFFICES ASSUME Nat \ S # {}
             PROVE  FALSE
  OBVIOUS
<1>1. PICK n \in Nat \ S : \A m \in Nat \ S : n <= m
  BY LeastNatural
<1> QED
  BY <1>1

-----------------------------------------------------------------------------
(* A recursion that goes on at one other place, and gets nearer to its end *)
(* at each: from x in D it goes on at nxt[x], where it does not stop with  *)
(* val[x].  How far it is from its end is m[x].                            *)

GoesOn(f, D, Stop, val, nxt) == f = [x \in D |-> IF x \in Stop THEN val[x] ELSE f[nxt[x]]]

LEMMA RecursionExists ==
    ASSUME NEW D, NEW Stop, NEW val, NEW nxt, NEW m, NEW M \in Nat,
           \A x \in D : m[x] \in 0 .. M,
           \A x \in D \ Stop : nxt[x] \in D /\ m[nxt[x]] < m[x]
    PROVE  \E f : GoesOn(f, D, Stop, val, nxt)
<1> DEFINE Within(n) == {x \in D : m[x] < n}
           S == {n \in Nat : \E f : GoesOn(f, Within(n), Stop, val, nxt)}
<1>1. 0 \in S
  <2> DEFINE f == [x \in Within(0) |-> val[x]]
  <2>1. Within(0) = {}
    OBVIOUS
  <2>2. GoesOn(f, Within(0), Stop, val, nxt)
    BY <2>1 DEF GoesOn
  <2> QED
    BY <2>2
<1>2. ASSUME NEW n \in Nat, n \in S
      PROVE  n + 1 \in S
  <2>1. PICK f : GoesOn(f, Within(n), Stop, val, nxt)
    BY <1>2
  <2> DEFINE value(g, x) == IF x \in Stop THEN val[x] ELSE g[nxt[x]]
             u == [x \in Within(n + 1) |-> value(f, x)]
  <2>2. \A x \in Within(n + 1) : x \in Stop \/ nxt[x] \in Within(n)
    OBVIOUS
  <2>3. \A x \in Within(n) : f[x] = value(f, x)
    <3>1. f = [x \in Within(n) |-> value(f, x)]
      BY <2>1 DEF GoesOn
    <3> DEFINE w == [x \in Within(n) |-> value(f, x)]
    <3>2. \A x \in Within(n) : w[x] = value(f, x)
      OBVIOUS
    <3> HIDE DEF w, value, Within
    <3>3. f = w
      BY <3>1 DEF w
    <3> QED
      BY <3>2, <3>3
  <2>4. \A x \in Within(n) : x \in Within(n + 1)
    OBVIOUS
  <2>5. \A x \in Within(n + 1) : u[x] = value(f, x)
    OBVIOUS
  <2>6. \A x \in Within(n + 1) : value(f, x) = value(u, x)
    <3> TAKE x \in Within(n + 1)
    <3>1. CASE x \in Stop
      BY <3>1
    <3>2. CASE x \notin Stop
      <4>1. nxt[x] \in Within(n)
        BY <2>2, <3>2
      <4>2. u[nxt[x]] = f[nxt[x]]
        <5> HIDE DEF u, value, Within
        <5> QED
          BY <2>3, <2>4, <2>5, <4>1
      <4> HIDE DEF u, Within
      <4> QED
        BY <3>2, <4>2
    <3> QED
      BY <3>1, <3>2
  <2>7. u = [x \in Within(n + 1) |-> value(u, x)]
    <3> DEFINE w == [x \in Within(n + 1) |-> value(u, x)]
    <3> SUFFICES u = w
      OBVIOUS
    <3> HIDE DEF Within, value
    <3> QED
      BY <2>6
  <2>8. GoesOn(u, Within(n + 1), Stop, val, nxt)
    BY <2>7 DEF GoesOn
  <2> HIDE DEF u
  <2> QED
    BY <2>8
<1>3. M + 1 \in S
  <2> HIDE DEF S
  <2> QED
    BY <1>1, <1>2, SimpleInduction
<1>4. Within(M + 1) = D
  OBVIOUS
<1> QED
  BY <1>3, <1>4

LEMMA GoingOn ==
    ASSUME NEW f, NEW D, NEW Stop, NEW val, NEW nxt, GoesOn(f, D, Stop, val, nxt)
    PROVE  \A x \in D : f[x] = IF x \in Stop THEN val[x] ELSE f[nxt[x]]
<1> DEFINE w == [x \in D |-> IF x \in Stop THEN val[x] ELSE f[nxt[x]]]
<1>1. \A x \in D : w[x] = IF x \in Stop THEN val[x] ELSE f[nxt[x]]
  OBVIOUS
<1>2. f = w
  BY DEF GoesOn
<1> HIDE DEF w
<1> QED
  BY <1>1, <1>2

\* Such a recursion stops somewhere, nowhere farther from its end.
LEMMA RecursionEnds ==
    ASSUME NEW f, NEW D, NEW Stop, NEW val, NEW nxt, NEW m, NEW M \in Nat,
           GoesOn(f, D, Stop, val, nxt),
           \A x \in D : m[x] \in 0 .. M,
           \A x \in D \ Stop : nxt[x] \in D /\ m[nxt[x]] < m[x]
    PROVE  \A x \in D : \E y \in D \cap Stop : f[x] = val[y] /\ m[y] <= m[x]
<1> DEFINE Ends(x) == \E y \in D \cap Stop : f[x] = val[y] /\ m[y] <= m[x]
           S == {n \in Nat : \A x \in D : m[x] = n => Ends(x)}
<1>1. ASSUME NEW n \in Nat, \A k \in 0 .. n - 1 : k \in S
      PROVE  n \in S
  <2> SUFFICES ASSUME NEW x \in D, m[x] = n PROVE Ends(x)
    OBVIOUS
  <2>1. f[x] = IF x \in Stop THEN val[x] ELSE f[nxt[x]]
    BY GoingOn
  <2>2. CASE x \in Stop
    BY <2>1, <2>2
  <2>3. CASE x \notin Stop
    <3>1. nxt[x] \in D /\ m[nxt[x]] \in 0 .. n - 1
      BY <2>3
    <3>2. Ends(nxt[x])
      <4>1. m[nxt[x]] \in S
        BY <1>1, <3>1
      <4> HIDE DEF Ends
      <4> QED
        BY <3>1, <4>1
    <3>3. PICK y \in D \cap Stop : f[nxt[x]] = val[y] /\ m[y] <= m[nxt[x]]
      BY <3>2
    <3>4. m[y] <= m[x]
      BY <3>1, <3>3
    <3> QED
      BY <2>1, <2>3, <3>3, <3>4
  <2> QED
    BY <2>2, <2>3
<1>2. Nat \subseteq S
  <2> HIDE DEF S
  <2> QED
    BY <1>1, StrongInduction
<1> SUFFICES ASSUME NEW x \in D PROVE Ends(x)
  OBVIOUS
<1> HIDE DEF Ends
<1> QED
  BY <1>2

-----------------------------------------------------------------------------
(* Sums of the first values of a function.                                 *)

IsSum(t, g, k) == t = [i \in 0 .. k |-> IF i = 0 THEN 0 ELSE t[i - 1] + g[i]]

Total(g, k) == (CHOOSE t : IsSum(t, g, k))[k]

LEMMA SumAt ==
    ASSUME NEW t, NEW g, NEW k \in Nat, IsSum(t, g, k)
    PROVE  \A i \in 0 .. k : t[i] = IF i = 0 THEN 0 ELSE t[i - 1] + g[i]
<1> DEFINE u == [i \in 0 .. k |-> IF i = 0 THEN 0 ELSE t[i - 1] + g[i]]
<1>1. t = u
  BY DEF IsSum
<1>2. \A i \in 0 .. k : u[i] = IF i = 0 THEN 0 ELSE t[i - 1] + g[i]
  OBVIOUS
<1> HIDE DEF u
<1> QED
  BY <1>1, <1>2

LEMMA SumsExist ==
    ASSUME NEW g
    PROVE  \A k \in Nat : \E t : IsSum(t, g, k)
<1> DEFINE S == {k \in Nat : \E t : IsSum(t, g, k)}
<1>1. 0 \in S
  <2> DEFINE t == [i \in 0 .. 0 |-> 0]
  <2>1. IsSum(t, g, 0)
    BY DEF IsSum
  <2> QED
    BY <2>1
<1>2. ASSUME NEW k \in Nat, k \in S
      PROVE  k + 1 \in S
  <2>1. PICK t : IsSum(t, g, k)
    BY <1>2
  <2> DEFINE u == [i \in 0 .. k + 1 |-> IF i <= k THEN t[i] ELSE t[k] + g[k + 1]]
  <2>2. u[k + 1] = t[k] + g[k + 1] /\ \A i \in 0 .. k : u[i] = t[i]
    OBVIOUS
  <2>3. \A i \in 0 .. k : t[i] = IF i = 0 THEN 0 ELSE t[i - 1] + g[i]
    BY <2>1, SumAt
  <2>4. \A i \in 0 .. k + 1 : u[i] = IF i = 0 THEN 0 ELSE u[i - 1] + g[i]
    <3> TAKE i \in 0 .. k + 1
    <3> HIDE DEF u
    <3>1. CASE i <= k
      <4>1. i \in 0 .. k /\ (i # 0 => i - 1 \in 0 .. k)
        BY <3>1
      <4> QED
        BY <2>2, <2>3, <4>1
    <3>2. CASE i = k + 1
      <4>1. i # 0 /\ i - 1 = k /\ k \in 0 .. k
        BY <3>2
      <4> QED
        BY <2>2, <3>2, <4>1
    <3> QED
      BY <3>1, <3>2
  <2>5. IsSum(u, g, k + 1)
    BY <2>4 DEF IsSum
  <2> HIDE DEF u
  <2> QED
    BY <2>5
<1> HIDE DEF S
<1>3. Nat \subseteq S
  BY <1>1, <1>2, SimpleInduction
<1> QED
  BY <1>3 DEF S

LEMMA SumsAgree ==
    ASSUME NEW g, NEW t, NEW u, NEW k \in Nat, NEW l \in Nat, k <= l,
           IsSum(t, g, k), IsSum(u, g, l)
    PROVE  \A i \in 0 .. k : t[i] = u[i]
<1> DEFINE R == {i \in Nat : i <= k => t[i] = u[i]}
<1>1. 0 \in R
  BY SumAt
<1>2. ASSUME NEW i \in Nat, i \in R
      PROVE  i + 1 \in R
  <2> SUFFICES ASSUME i + 1 <= k PROVE t[i + 1] = u[i + 1]
    OBVIOUS
  <2>1. t[i] = u[i]
    BY <1>2
  <2>2. i + 1 \in 0 .. k /\ i + 1 \in 0 .. l /\ i + 1 # 0 /\ (i + 1) - 1 = i
    OBVIOUS
  <2> HIDE DEF R
  <2>3. t[i + 1] = t[(i + 1) - 1] + g[i + 1]
    BY <2>2, SumAt
  <2>4. u[i + 1] = u[(i + 1) - 1] + g[i + 1]
    BY <2>2, SumAt
  <2> QED
    BY <2>1, <2>2, <2>3, <2>4
<1>3. Nat \subseteq R
  <2> HIDE DEF R
  <2> QED
    BY <1>1, <1>2, SimpleInduction
<1> QED
  BY <1>3

LEMMA TotalIs ==
    ASSUME NEW g, NEW k \in Nat, NEW t, IsSum(t, g, k)
    PROVE  Total(g, k) = t[k]
<1> DEFINE u == CHOOSE v : IsSum(v, g, k)
<1>1. IsSum(u, g, k)
  BY SumsExist
<1>2. Total(g, k) = u[k]
  BY DEF Total
<1> HIDE DEF u
<1> QED
  BY <1>1, <1>2, SumsAgree

\* The recursion of a sum
LEMMA TotalStep ==
    ASSUME NEW g
    PROVE  Total(g, 0) = 0 /\ \A k \in Nat : Total(g, k + 1) = Total(g, k) + g[k + 1]
<1>1. Total(g, 0) = 0
  <2>1. PICK t : IsSum(t, g, 0)
    BY SumsExist
  <2> QED
    BY <2>1, TotalIs, SumAt
<1>2. ASSUME NEW k \in Nat
      PROVE  Total(g, k + 1) = Total(g, k) + g[k + 1]
  <2>1. PICK t : IsSum(t, g, k)
    BY SumsExist
  <2>2. PICK u : IsSum(u, g, k + 1)
    BY SumsExist
  <2>3. Total(g, k) = t[k] /\ Total(g, k + 1) = u[k + 1]
    BY <2>1, <2>2, TotalIs
  <2>4. k \in 0 .. k /\ k + 1 \in Nat /\ k <= k + 1
    OBVIOUS
  <2>5. t[k] = u[k]
    BY <2>1, <2>2, <2>4, SumsAgree
  <2>6. k + 1 \in 0 .. k + 1 /\ k + 1 # 0 /\ (k + 1) - 1 = k
    OBVIOUS
  <2>7. u[k + 1] = u[k] + g[k + 1]
    BY <2>2, <2>6, SumAt
  <2> QED
    BY <2>3, <2>5, <2>7
<1> QED
  BY <1>1, <1>2

\* Where each value is at most the other, so is the sum.
LEMMA TotalsCompare ==
    ASSUME NEW g, NEW h, NEW n \in Nat,
           \A i \in 1 .. n : g[i] \in Nat /\ h[i] \in Nat /\ g[i] <= h[i]
    PROVE  Total(g, n) \in Nat /\ Total(h, n) \in Nat /\ Total(g, n) <= Total(h, n)
<1> DEFINE S == {k \in Nat : k <= n => /\ Total(g, k) \in Nat /\ Total(h, k) \in Nat
                                       /\ Total(g, k) <= Total(h, k)}
<1>1. 0 \in S
  BY TotalStep
<1>2. ASSUME NEW k \in Nat, k \in S
      PROVE  k + 1 \in S
  <2> SUFFICES ASSUME k + 1 <= n
               PROVE  /\ Total(g, k + 1) \in Nat /\ Total(h, k + 1) \in Nat
                      /\ Total(g, k + 1) <= Total(h, k + 1)
    OBVIOUS
  <2>1. /\ Total(g, k) \in Nat /\ Total(h, k) \in Nat /\ Total(g, k) <= Total(h, k)
        /\ g[k + 1] \in Nat /\ h[k + 1] \in Nat /\ g[k + 1] <= h[k + 1]
    BY <1>2
  <2>2. /\ Total(g, k + 1) = Total(g, k) + g[k + 1]
        /\ Total(h, k + 1) = Total(h, k) + h[k + 1]
    BY TotalStep
  <2> QED
    BY <2>1, <2>2
<1>3. Nat \subseteq S
  <2> HIDE DEF S
  <2> QED
    BY <1>1, <1>2, SimpleInduction
<1> QED
  BY <1>3

LEMMA TotalNat ==
    ASSUME NEW g, NEW n \in Nat, \A i \in 1 .. n : g[i] \in Nat
    PROVE  Total(g, n) \in Nat
BY TotalsCompare

\* Fewer values have a smaller sum.
LEMMA TotalOfFewer ==
    ASSUME NEW g, NEW n \in Nat, \A i \in 1 .. n : g[i] \in Nat, NEW k \in 0 .. n
    PROVE  Total(g, k) <= Total(g, n)
<1> DEFINE S == {d \in Nat : k + d <= n => Total(g, k) <= Total(g, k + d)}
<1>1. 0 \in S
  BY TotalNat
<1>2. ASSUME NEW d \in Nat, d \in S
      PROVE  d + 1 \in S
  <2> SUFFICES ASSUME k + (d + 1) <= n
               PROVE  Total(g, k) <= Total(g, k + (d + 1))
    OBVIOUS
  <2>1. k + d \in Nat /\ k + d <= n /\ k + (d + 1) = (k + d) + 1
    OBVIOUS
  <2>2. Total(g, k) <= Total(g, k + d) /\ g[(k + d) + 1] \in Nat
    BY <1>2, <2>1
  <2>3. Total(g, (k + d) + 1) = Total(g, k + d) + g[(k + d) + 1]
    BY <2>1, TotalStep
  <2>4. Total(g, k) \in Nat /\ Total(g, k + d) \in Nat
    BY <2>1, TotalNat
  <2> QED
    BY <2>1, <2>2, <2>3, <2>4
<1>3. Nat \subseteq S
  <2> HIDE DEF S
  <2> QED
    BY <1>1, <1>2, SimpleInduction
<1>4. n - k \in Nat /\ k + (n - k) = n
  OBVIOUS
<1> QED
  BY <1>3, <1>4

\* t is built from the first n types.
Built(t, n) ==
  /\ t \in Object
  /\ \A i \in 1..Len(t.parts) : t.parts[i] \in 1..n
  /\ \A i \in 1..Len(t.methods) : t.methods[i].signature \in 1..n
  /\ t.ret \in 0..n /\ t.base \in 0..n
  /\ t.kind \in {"pointer", "reference", "array"} => Len(t.parts) = 1
  /\ t.kind = "function" => t.ret # 0
  /\ t.kind = "union" => Len(t.parts) # 0
  /\ t.kind = "integer" => t.variant \in DOMAIN IntegerBytes
  /\ t.kind = "float" => t.variant \in DOMAIN FloatBytes

WellFormed(ts) == ts \in Seq(Object) /\ \A d \in 1..Len(ts) : Built(ts[d], d - 1)

LEMMA PartsAre ==
  ASSUME NEW ts, WellFormed(ts), NEW d \in 1..Len(ts)
  PROVE  /\ Len(ts) \in Nat /\ DOMAIN ts = 1..Len(ts) /\ ts[d].kind \in Kinds
         /\ Len(ts[d].parts) \in Nat /\ DOMAIN ts[d].parts = 1..Len(ts[d].parts)
         /\ \A i \in 1..Len(ts[d].parts) :
              ts[d].parts[i] \in 1..(d - 1) /\ ts[d].parts[i] \in 1..Len(ts)
         /\ Len(ts[d].methods) \in Nat /\ DOMAIN ts[d].methods = 1..Len(ts[d].methods)
         /\ \A i \in 1..Len(ts[d].methods) :
              ts[d].methods[i].signature \in 1..(d - 1) /\ ts[d].methods[i].signature \in 1..Len(ts)
         /\ ts[d].kind \in {"pointer", "reference", "array"} =>
              ts[d].parts[1] \in 1..(d - 1) /\ ts[d].parts[1] \in 1..Len(ts)
         /\ ts[d].kind = "function" => ts[d].ret \in 1..(d - 1) /\ ts[d].ret \in 1..Len(ts)
<1> DEFINE t == ts[d]
           n == Len(ts)
<1>1. n \in Nat /\ DOMAIN ts = 1..n /\ Built(t, d - 1) /\ d \in 1..n
  BY DEF WellFormed
<1>2. t \in Object
  BY <1>1 DEF Built
<1>3. /\ t.kind \in Kinds /\ t.parts \in Seq(Nat) /\ t.ret \in Nat
      /\ t.methods \in Seq([name : STRING, signature : Nat])
  BY <1>2 DEF Object
<1>4. /\ Len(t.parts) \in Nat /\ DOMAIN t.parts = 1..Len(t.parts)
      /\ Len(t.methods) \in Nat /\ DOMAIN t.methods = 1..Len(t.methods)
  BY <1>3
<1> HIDE DEF t, n
<1>5. 1..(d - 1) \subseteq 1..n
  BY <1>1
<1>6. t.kind \in {"pointer", "reference", "array"} => 1 \in 1..Len(t.parts)
  <2> SUFFICES ASSUME t.kind \in {"pointer", "reference", "array"} PROVE 1 \in 1..Len(t.parts)
    OBVIOUS
  <2>1. Len(t.parts) = 1
    BY <1>1 DEF Built
  <2> QED
    BY <2>1
<1>7. t.kind = "function" => t.ret \in 1..(d - 1)
  BY <1>1 DEF Built
<1> QED
  BY <1>1, <1>3, <1>4, <1>5, <1>6, <1>7 DEF Built, t, n

LEMMA PartsRange ==
  ASSUME NEW ts, WellFormed(ts), NEW d \in 1..Len(ts)
  PROVE  Range(ts[d].parts) \subseteq 1..(d - 1) /\ Range(ts[d].parts) \subseteq 1..Len(ts)
<1> PICK ps : ps = ts[d].parts
  OBVIOUS
<1>1. \A i \in DOMAIN ps : ps[i] \in 1..(d - 1) /\ ps[i] \in 1..Len(ts)
  BY PartsAre
<1> QED
  BY <1>1 DEF Range

Agree(f, g, m, n) ==
  \A k \in Questions, x \in 1..m, y \in 1..n : f[<<k, x, y>>] = g[<<k, x, y>>]

LEMMA ElementwiseLocally ==
  ASSUME NEW f, NEW g, NEW m, NEW n, Agree(f, g, m, n), NEW k \in Questions,
         NEW ps, NEW qs, \A i \in 1..Len(ps) : ps[i] \in 1..m,
         \A i \in 1..Len(qs) : qs[i] \in 1..n
  PROVE  Elementwise(f, k, ps, qs) = Elementwise(g, k, ps, qs)
<1>1. CASE Len(ps) = Len(qs)
  <2>1. \A i \in 1..Len(ps) : f[<<k, ps[i], qs[i]>>] = g[<<k, ps[i], qs[i]>>]
    BY <1>1 DEF Agree
  <2> QED
    BY <2>1 DEF Elementwise
<1>2. CASE Len(ps) # Len(qs)
  BY <1>2 DEF Elementwise
<1> QED
  BY <1>1, <1>2

\* An answer depends on answers about the types that the asked one is built from.
LEMMA AskedLocally ==
  ASSUME NEW ts, WellFormed(ts), NEW k \in Questions,
         NEW d \in 1..Len(ts), NEW e \in 1..Len(ts),
         NEW f, NEW g, Agree(f, g, d - 1, Len(ts))
  PROVE  Asked(ts, f, k, d, e) = Asked(ts, g, k, d, e)
<1> DEFINE ps == ts[d].parts
           qs == ts[e].parts
<1>1. "equals" \in Questions
  BY DEF Questions
<1>2. /\ Elementwise(f, k, ps, qs) = Elementwise(g, k, ps, qs)
      /\ Elementwise(f, "equals", ps, qs) = Elementwise(g, "equals", ps, qs)
  <2>1. (\A i \in 1..Len(ps) : ps[i] \in 1..(d - 1)) /\ \A i \in 1..Len(qs) : qs[i] \in 1..Len(ts)
    BY PartsAre
  <2> HIDE DEF ps, qs
  <2>2. \A l \in Questions : Elementwise(f, l, ps, qs) = Elementwise(g, l, ps, qs)
    BY <2>1, ElementwiseLocally
  <2> QED
    BY <1>1, <2>2
<1>3. ASSUME NEW kind \in {"pointer", "reference", "array"}, ts[d].kind = kind, ts[e].kind = kind
      PROVE  /\ f[<<k, ps[1], qs[1]>>] = g[<<k, ps[1], qs[1]>>]
             /\ f[<<"equals", ps[1], qs[1]>>] = g[<<"equals", ps[1], qs[1]>>]
  <2>1. ps[1] \in 1..(d - 1) /\ qs[1] \in 1..Len(ts)
    BY <1>3, PartsAre
  <2> QED
    BY <1>1, <2>1 DEF Agree
<1>4. \A v \in Range(ps), w \in Range(qs) \cup {e} : f[<<k, v, w>>] = g[<<k, v, w>>]
  <2>1. Range(ps) \subseteq 1..(d - 1) /\ Range(qs) \subseteq 1..Len(ts)
    BY PartsRange
  <2> QED
    BY <2>1 DEF Agree
<1>5. RecordEquals(ts, f, d, e) = RecordEquals(ts, g, d, e)
  <2> DEFINE ms == ts[d].methods
             ns == ts[e].methods
  <2>1. CASE Len(ms) = Len(ns)
    <3>1. \A i \in DOMAIN ms : /\ ms[i].signature \in 1..(d - 1) /\ ns[i].signature \in 1..Len(ts)
      BY <2>1, PartsAre
    <3>2. \A i \in DOMAIN ms : f[<<"equals", ms[i].signature, ns[i].signature>>]
                               = g[<<"equals", ms[i].signature, ns[i].signature>>]
      BY <1>1, <3>1 DEF Agree
    <3> QED
      BY <1>2, <3>2 DEF RecordEquals
  <2>2. CASE Len(ms) # Len(ns)
    BY <2>2 DEF RecordEquals
  <2> QED
    BY <2>1, <2>2
<1>6. CASE ts[d].kind \in {"integer", "float", "bool", "char", "void", "auto"}
  BY <1>6 DEF Asked
<1>7. CASE ts[d].kind = "pointer"
  <2>1. PointerRelation(ts, f, k, d, e) = PointerRelation(ts, g, k, d, e)
    <3>1. CASE ts[e].kind = "pointer"
      BY <1>3, <1>7, <3>1 DEF PointerRelation
    <3>2. CASE ts[e].kind # "pointer"
      BY <3>2 DEF PointerRelation
    <3> QED
      BY <3>1, <3>2
  <2> QED
    BY <1>7, <2>1 DEF Asked
<1>8. CASE ts[d].kind = "reference"
  <2>1. ReferenceRelation(ts, f, k, d, e) = ReferenceRelation(ts, g, k, d, e)
    <3>1. CASE ts[e].kind = "reference"
      BY <1>3, <1>8, <3>1 DEF ReferenceRelation
    <3>2. CASE ts[e].kind # "reference"
      BY <3>2 DEF ReferenceRelation
    <3> QED
      BY <3>1, <3>2
  <2> QED
    BY <1>8, <2>1 DEF Asked
<1>9. CASE ts[d].kind = "array"
  <2>1. ArrayRelation(ts, f, k, d, e) = ArrayRelation(ts, g, k, d, e)
    <3>1. CASE ts[e].kind = "array"
      BY <1>3, <1>9, <3>1 DEF ArrayRelation
    <3>2. CASE ts[e].kind # "array"
      BY <3>2 DEF ArrayRelation
    <3> QED
      BY <3>1, <3>2
  <2> QED
    BY <1>9, <2>1 DEF Asked
<1>10. CASE ts[d].kind = "tuple"
  <2>1. TupleRelation(ts, f, k, d, e) = TupleRelation(ts, g, k, d, e)
    BY <1>2 DEF TupleRelation
  <2> QED
    BY <1>10, <2>1 DEF Asked
<1>11. CASE ts[d].kind = "union"
  <2>1. UnionRelation(ts, f, k, d, e) = UnionRelation(ts, g, k, d, e)
    BY <1>2, <1>4 DEF UnionRelation
  <2> QED
    BY <1>11, <2>1 DEF Asked
<1>12. CASE ts[d].kind = "function"
  <2>1. FunctionRelation(ts, f, d, e) = FunctionRelation(ts, g, d, e)
    <3>1. CASE ts[e].kind = "function"
      <4>1. ts[d].ret \in 1..(d - 1) /\ ts[e].ret \in 1..Len(ts)
        BY <1>12, <3>1, PartsAre
      <4>2. f[<<"equals", ts[d].ret, ts[e].ret>>] = g[<<"equals", ts[d].ret, ts[e].ret>>]
        BY <1>1, <4>1 DEF Agree
      <4> QED
        BY <1>2, <4>2 DEF FunctionRelation
    <3>2. CASE ts[e].kind # "function"
      BY <3>2 DEF FunctionRelation
    <3> QED
      BY <3>1, <3>2
  <2> QED
    BY <1>12, <2>1 DEF Asked
<1>13. CASE ts[d].kind = "struct"
  <2>1. StructRelation(ts, f, k, d, e) = StructRelation(ts, g, k, d, e)
    BY <1>5 DEF StructRelation
  <2> QED
    BY <1>13, <2>1 DEF Asked
<1>14. CASE ts[d].kind = "class"
  <2>1. ClassRelation(ts, f, k, d, e) = ClassRelation(ts, g, k, d, e)
    BY <1>5 DEF ClassRelation
  <2> QED
    BY <1>14, <2>1 DEF Asked
<1>15. ts[d].kind \in Kinds
  BY PartsAre
<1> QED
  BY <1>6, <1>7, <1>8, <1>9, <1>10, <1>11, <1>12, <1>13, <1>14, <1>15 DEF Kinds

\* There is a relation: the answers about each type follow from those about the
\* types it is built from.
LEMMA RelationIs ==
  ASSUME NEW ts, WellFormed(ts)
  PROVE  \A k \in Questions, d \in 1..Len(ts), e \in 1..Len(ts) :
           Relation(ts)[<<k, d, e>>] = Asked(ts, Relation(ts), k, d, e)
<1> DEFINE n == Len(ts)
           Body(f) == [q \in Questions \X (DOMAIN ts) \X (DOMAIN ts) |->
                         Asked(ts, f, q[1], q[2], q[3])]
           P(f) == f = Body(f)
           Settled(f, m) == Agree(Body(f), f, m, n)
           S == {m \in Nat : m <= n => \E f : Settled(f, m)}
<1>1. n \in Nat /\ DOMAIN ts = 1..n
  BY DEF WellFormed
<1>2. ASSUME NEW f, NEW k \in Questions, NEW d \in 1..n, NEW e \in 1..n
      PROVE  Body(f)[<<k, d, e>>] = Asked(ts, f, k, d, e)
  <2>1. <<k, d, e>> \in Questions \X (DOMAIN ts) \X (DOMAIN ts)
    BY <1>1
  <2> QED
    BY <2>1
<1>3. ASSUME NEW f, NEW m \in Nat, m + 1 <= n, Settled(f, m)
      PROVE  Settled(Body(f), m + 1)
  <2> DEFINE g == Body(f)
  <2>1. \A k \in Questions, d \in 1..n, e \in 1..n :
           /\ Body(g)[<<k, d, e>>] = Asked(ts, g, k, d, e)
           /\ g[<<k, d, e>>] = Asked(ts, f, k, d, e)
    BY <1>2
  <2>2. Agree(g, f, m, n)
    BY <1>3
  <2> HIDE DEF g, Body
  <2>3. ASSUME NEW k \in Questions, NEW d \in 1..(m + 1), NEW e \in 1..n
        PROVE  Body(g)[<<k, d, e>>] = g[<<k, d, e>>]
    <3>1. d \in 1..n /\ 1..(d - 1) \subseteq 1..m
      BY <1>1, <1>3
    <3>2. Agree(g, f, d - 1, n)
      BY <2>2, <3>1 DEF Agree
    <3>3. Asked(ts, g, k, d, e) = Asked(ts, f, k, d, e)
      BY <3>1, <3>2, AskedLocally
    <3> QED
      BY <2>1, <3>1, <3>3
  <2> QED
    BY <2>3 DEF Agree, g
<1> HIDE DEF Body, Settled
<1>4. Nat \subseteq S
  <2>1. 0 \in S
    <3>1. \A f : Settled(f, 0)
      BY DEF Settled, Agree
    <3> QED
      BY <3>1
  <2>2. ASSUME NEW m \in Nat, m \in S PROVE m + 1 \in S
    <3>1. SUFFICES ASSUME m + 1 <= n PROVE \E f : Settled(f, m + 1)
      OBVIOUS
    <3>2. PICK f : Settled(f, m)
      BY <1>1, <2>2, <3>1
    <3> QED
      BY <1>3, <3>1, <3>2
  <2> HIDE DEF S
  <2> QED
    BY <2>1, <2>2, SimpleInduction
<1>5. PICK f : Settled(f, n)
  BY <1>1, <1>4
<1> DEFINE g == Body(f)
<1>6. P(g)
  <2>1. \A k \in Questions, d \in 1..n, e \in 1..n : g[<<k, d, e>>] = f[<<k, d, e>>]
    BY <1>5 DEF Settled, Agree
  <2>2. \A k \in Questions, d \in 1..n, e \in 1..n : Asked(ts, g, k, d, e) = Asked(ts, f, k, d, e)
    <3> SUFFICES ASSUME NEW k \in Questions, NEW d \in 1..n, NEW e \in 1..n
                 PROVE  Asked(ts, g, k, d, e) = Asked(ts, f, k, d, e)
      OBVIOUS
    <3>1. 1..(d - 1) \subseteq 1..n
      BY <1>1
    <3>2. Agree(g, f, d - 1, n)
      BY <2>1, <3>1 DEF Agree
    <3> QED
      BY <3>2, AskedLocally
  <2> HIDE DEF g
  <2>3. Body(g) = Body(f)
    BY <1>1, <2>2 DEF Body
  <2> QED
    BY <2>3 DEF g
<1> HIDE DEF g
<1> DEFINE rel == CHOOSE h : P(h)
<1>7. Relation(ts) = rel
  BY DEF Relation, Body
<1> HIDE DEF P
<1>8. P(rel)
  BY <1>6
<1> HIDE DEF rel
<1>9. rel = Body(rel)
  BY <1>8 DEF P
<1>10. \A k \in Questions, d \in 1..n, e \in 1..n : Body(rel)[<<k, d, e>>] = Asked(ts, rel, k, d, e)
  BY <1>2
<1> HIDE DEF Body
<1>11. \A k \in Questions, d \in 1..n, e \in 1..n : rel[<<k, d, e>>] = Asked(ts, rel, k, d, e)
  BY <1>9, <1>10
<1> QED
  BY <1>7, <1>11

-----------------------------------------------------------------------------
(* Equality.                                                               *)

Same(ts) == {p \in (1..Len(ts)) \X (1..Len(ts)) : Relation(ts)[<<"equals", p[1], p[2]>>]}

\* Types are equal if they agree in all that equals compares, where E tells which
\* of the types they are built from are equal.
PartsIn(E, ps, qs) == Len(ps) = Len(qs) /\ \A i \in 1..Len(ps) : <<ps[i], qs[i]>> \in E

MethodsIn(E, ms, ns) ==
  /\ Len(ms) = Len(ns)
  /\ \A i \in 1..Len(ms) : ms[i].name = ns[i].name /\ <<ms[i].signature, ns[i].signature>> \in E

Alike(E, t, u) ==
  /\ t.kind = u.kind \/ ({t.kind, u.kind} \subseteq {"struct", "class"})
  /\ t.kind \in {"integer", "float"} => t.variant = u.variant
  /\ t.kind \in {"pointer", "reference", "array"} => <<t.parts[1], u.parts[1]>> \in E
  /\ t.kind = "array" => t.count = u.count
  /\ t.kind \in {"tuple", "union", "function", "struct", "class"} => PartsIn(E, t.parts, u.parts)
  /\ t.kind = "function" => <<t.ret, u.ret>> \in E
  /\ t.kind \in {"struct", "class"} =>
       /\ t.name = u.name /\ t.flags = u.flags /\ t.names = u.names
       /\ MethodsIn(E, t.methods, u.methods)

LEMMA SameIs ==
  ASSUME NEW ts, WellFormed(ts), NEW d \in 1..Len(ts), NEW e \in 1..Len(ts)
  PROVE  <<d, e>> \in Same(ts) <=> Alike(Same(ts), ts[d], ts[e])
<1> DEFINE E == Same(ts)
           rel == Relation(ts)
           t == ts[d]
           u == ts[e]
           n == Len(ts)
<1>1. n \in Nat /\ t.kind \in Kinds /\ u.kind \in Kinds
  BY PartsAre
<1>2. \A x \in 1..n, y \in 1..n : rel[<<"equals", x, y>>] <=> <<x, y>> \in E
  BY DEF Same
<1>3. <<d, e>> \in E <=> Asked(ts, rel, "equals", d, e)
  <2>1. rel[<<"equals", d, e>>] = Asked(ts, rel, "equals", d, e)
    BY RelationIs DEF Questions
  <2> HIDE DEF rel, E
  <2> QED
    BY <1>2, <2>1
<1> HIDE DEF E, rel
<1>4. Elementwise(rel, "equals", t.parts, u.parts) <=> PartsIn(E, t.parts, u.parts)
  <2>1. CASE Len(t.parts) = Len(u.parts)
    <3>1. \A i \in 1..Len(t.parts) : t.parts[i] \in 1..n /\ u.parts[i] \in 1..n
      BY <2>1, PartsAre
    <3>2. \A i \in 1..Len(t.parts) :
             rel[<<"equals", t.parts[i], u.parts[i]>>] <=> <<t.parts[i], u.parts[i]>> \in E
      BY <1>2, <3>1
    <3> QED
      BY <2>1, <3>2 DEF Elementwise, PartsIn
  <2>2. CASE Len(t.parts) # Len(u.parts)
    BY <2>2 DEF Elementwise, PartsIn
  <2> QED
    BY <2>1, <2>2
<1>5. ASSUME NEW kind \in {"pointer", "reference", "array"}, t.kind = kind, u.kind = kind
      PROVE  rel[<<"equals", t.parts[1], u.parts[1]>>] <=> <<t.parts[1], u.parts[1]>> \in E
  <2>1. t.parts[1] \in 1..n /\ u.parts[1] \in 1..n
    BY <1>5, PartsAre
  <2> QED
    BY <1>2, <2>1
<1>6. RecordEquals(ts, rel, d, e) <=>
        /\ u.kind \in {"struct", "class"} /\ t.name = u.name /\ t.flags = u.flags
        /\ t.names = u.names
        /\ PartsIn(E, t.parts, u.parts) /\ MethodsIn(E, t.methods, u.methods)
  <2>1. CASE Len(t.methods) = Len(u.methods)
    <3>1. DOMAIN t.methods = 1..Len(t.methods) /\ \A i \in 1..Len(t.methods) :
             t.methods[i].signature \in 1..n /\ u.methods[i].signature \in 1..n
      BY <2>1, PartsAre
    <3>2. \A i \in 1..Len(t.methods) :
             rel[<<"equals", t.methods[i].signature, u.methods[i].signature>>]
               <=> <<t.methods[i].signature, u.methods[i].signature>> \in E
      BY <1>2, <3>1
    <3> QED
      BY <1>4, <2>1, <3>1, <3>2 DEF RecordEquals, MethodsIn
  <2>2. CASE Len(t.methods) # Len(u.methods)
    BY <2>2 DEF RecordEquals, MethodsIn
  <2> QED
    BY <2>1, <2>2
<1>20. SUFFICES <<d, e>> \in E <=> Alike(E, t, u)
  BY DEF E
<1>7. CASE t.kind \in {"integer", "float", "bool", "char", "void", "auto"}
  <2>1. CASE t.kind = "integer"
    BY <1>3, <2>1 DEF Asked, IntegerRelation, Alike
  <2>2. CASE t.kind = "float"
    BY <1>3, <2>2 DEF Asked, FloatRelation, Alike
  <2>3. CASE t.kind = "bool"
    BY <1>3, <2>3 DEF Asked, BoolRelation, Alike
  <2>4. CASE t.kind = "char"
    BY <1>3, <2>4 DEF Asked, CharRelation, Alike
  <2>5. CASE t.kind = "void"
    BY <1>3, <2>5 DEF Asked, VoidRelation, Alike
  <2>6. CASE t.kind = "auto"
    BY <1>3, <2>6 DEF Asked, AutoRelation, Alike
  <2> QED
    BY <1>7, <2>1, <2>2, <2>3, <2>4, <2>5, <2>6
<1>8. CASE t.kind = "pointer"
  <2>1. Asked(ts, rel, "equals", d, e) <=> PointerRelation(ts, rel, "equals", d, e)
    BY <1>8 DEF Asked
  <2>2. PointerRelation(ts, rel, "equals", d, e) <=>
          u.kind = "pointer" /\ rel[<<"equals", t.parts[1], u.parts[1]>>]
    BY DEF PointerRelation
  <2> QED
    BY <1>3, <1>5, <1>8, <2>1, <2>2 DEF Alike
<1>9. CASE t.kind = "reference"
  <2>1. Asked(ts, rel, "equals", d, e) <=> ReferenceRelation(ts, rel, "equals", d, e)
    BY <1>9 DEF Asked
  <2>2. ReferenceRelation(ts, rel, "equals", d, e) <=>
          u.kind = "reference" /\ rel[<<"equals", t.parts[1], u.parts[1]>>]
    BY DEF ReferenceRelation
  <2> QED
    BY <1>3, <1>5, <1>9, <2>1, <2>2 DEF Alike
<1>10. CASE t.kind = "array"
  <2>1. Asked(ts, rel, "equals", d, e) <=> ArrayRelation(ts, rel, "equals", d, e)
    BY <1>10 DEF Asked
  <2>2. ArrayRelation(ts, rel, "equals", d, e) <=>
          u.kind = "array" /\ t.count = u.count /\ rel[<<"equals", t.parts[1], u.parts[1]>>]
    BY DEF ArrayRelation
  <2> QED
    BY <1>3, <1>5, <1>10, <2>1, <2>2 DEF Alike
<1>11. CASE t.kind = "tuple"
  <2>1. Asked(ts, rel, "equals", d, e) <=> u.kind = "tuple" /\ PartsIn(E, t.parts, u.parts)
    BY <1>4, <1>11 DEF Asked, TupleRelation
  <2> QED
    BY <1>3, <1>11, <2>1 DEF Alike
<1>12. CASE t.kind = "union"
  <2>1. Asked(ts, rel, "equals", d, e) <=> UnionRelation(ts, rel, "equals", d, e)
    BY <1>12 DEF Asked
  <2>2. UnionRelation(ts, rel, "equals", d, e) <=> u.kind = "union" /\ PartsIn(E, t.parts, u.parts)
    BY <1>4 DEF UnionRelation
  <2> QED
    BY <1>3, <1>12, <2>1, <2>2 DEF Alike
<1>13. CASE t.kind = "function"
  <2>1. Asked(ts, rel, "equals", d, e) <=> FunctionRelation(ts, rel, d, e)
    BY <1>13 DEF Asked
  <2>2. u.kind = "function" => (rel[<<"equals", t.ret, u.ret>>] <=> <<t.ret, u.ret>> \in E)
    <3> SUFFICES ASSUME u.kind = "function"
                 PROVE  rel[<<"equals", t.ret, u.ret>>] <=> <<t.ret, u.ret>> \in E
      OBVIOUS
    <3>1. t.ret \in 1..n /\ u.ret \in 1..n
      BY <1>13, PartsAre
    <3> QED
      BY <1>2, <3>1
  <2>3. FunctionRelation(ts, rel, d, e) <=>
          u.kind = "function" /\ <<t.ret, u.ret>> \in E /\ PartsIn(E, t.parts, u.parts)
    BY <1>4, <2>2 DEF FunctionRelation
  <2> QED
    BY <1>3, <1>13, <2>1, <2>3 DEF Alike
<1>14. CASE t.kind = "struct"
  <2>1. Asked(ts, rel, "equals", d, e) <=> RecordEquals(ts, rel, d, e)
    BY <1>14 DEF Asked, StructRelation
  <2> QED
    BY <1>3, <1>6, <1>14, <2>1 DEF Alike
<1>15. CASE t.kind = "class"
  <2>1. Asked(ts, rel, "equals", d, e) <=> RecordEquals(ts, rel, d, e)
    BY <1>15 DEF Asked, ClassRelation
  <2> QED
    BY <1>3, <1>6, <1>15, <2>1 DEF Alike
<1> QED
  BY <1>1, <1>7, <1>8, <1>9, <1>10, <1>11, <1>12, <1>13, <1>14, <1>15 DEF Kinds

\* The answers about the parts of t and u determine that about t and u ...
LEMMA AlikeLocally ==
  ASSUME NEW ts, WellFormed(ts), NEW d \in 1..Len(ts), NEW e \in 1..Len(ts), NEW E, NEW F,
         \A x \in 1..(d - 1), y \in 1..Len(ts) : <<x, y>> \in E <=> <<x, y>> \in F
  PROVE  Alike(E, ts[d], ts[e]) => Alike(F, ts[d], ts[e])
<1> DEFINE t == ts[d]
           u == ts[e]
<1> SUFFICES ASSUME Alike(E, t, u) PROVE Alike(F, t, u)
  OBVIOUS
<1>1. \/ t.kind = u.kind
      \/ {t.kind, u.kind} \subseteq {"struct", "class"}
  BY DEF Alike
<1>2. t.kind \in {"pointer", "reference", "array"} => <<t.parts[1], u.parts[1]>> \in F
  <2> SUFFICES ASSUME t.kind \in {"pointer", "reference", "array"}
               PROVE  <<t.parts[1], u.parts[1]>> \in F
    OBVIOUS
  <2>1. u.kind \in {"pointer", "reference", "array"}
    BY <1>1
  <2>2. t.parts[1] \in 1..(d - 1) /\ u.parts[1] \in 1..Len(ts)
    BY <2>1, PartsAre
  <2>3. <<t.parts[1], u.parts[1]>> \in E
    BY DEF Alike
  <2> QED
    BY <2>2, <2>3
<1>3. PartsIn(E, t.parts, u.parts) => PartsIn(F, t.parts, u.parts)
  <2> SUFFICES ASSUME PartsIn(E, t.parts, u.parts), NEW i \in 1..Len(t.parts)
               PROVE  <<t.parts[i], u.parts[i]>> \in F
    BY DEF PartsIn
  <2>1. <<t.parts[i], u.parts[i]>> \in E /\ i \in 1..Len(u.parts)
    BY DEF PartsIn
  <2>2. t.parts[i] \in 1..(d - 1) /\ u.parts[i] \in 1..Len(ts)
    BY <2>1, PartsAre
  <2> QED
    BY <2>1, <2>2
<1>4. t.kind = "function" => <<t.ret, u.ret>> \in F
  <2> SUFFICES ASSUME t.kind = "function" PROVE <<t.ret, u.ret>> \in F
    OBVIOUS
  <2>1. u.kind = "function"
    BY <1>1
  <2>2. t.ret \in 1..(d - 1) /\ u.ret \in 1..Len(ts)
    BY <2>1, PartsAre
  <2>3. <<t.ret, u.ret>> \in E
    BY DEF Alike
  <2> QED
    BY <2>2, <2>3
<1>5. MethodsIn(E, t.methods, u.methods) => MethodsIn(F, t.methods, u.methods)
  <2> SUFFICES ASSUME MethodsIn(E, t.methods, u.methods), NEW i \in 1..Len(t.methods)
               PROVE  <<t.methods[i].signature, u.methods[i].signature>> \in F
    BY DEF MethodsIn
  <2>1. <<t.methods[i].signature, u.methods[i].signature>> \in E /\ i \in 1..Len(u.methods)
    BY DEF MethodsIn
  <2>2. t.methods[i].signature \in 1..(d - 1) /\ u.methods[i].signature \in 1..Len(ts)
    BY <2>1, PartsAre
  <2> QED
    BY <2>1, <2>2
<1> QED
  BY <1>2, <1>3, <1>4, <1>5 DEF Alike

\* ... whichever of the two is asked.
LEMMA AlikeTurned ==
  ASSUME NEW ts, WellFormed(ts), NEW d \in 1..Len(ts), NEW e \in 1..Len(ts), NEW E, NEW F,
         \A x, y : <<x, y>> \in E => <<y, x>> \in F, Alike(E, ts[d], ts[e])
  PROVE  Alike(F, ts[e], ts[d])
<1> DEFINE t == ts[d]
           u == ts[e]
<1>1. PartsIn(E, t.parts, u.parts) => PartsIn(F, u.parts, t.parts)
  BY DEF PartsIn
<1>2. MethodsIn(E, t.methods, u.methods) => MethodsIn(F, u.methods, t.methods)
  BY DEF MethodsIn
<1> QED
  BY <1>1, <1>2 DEF Alike

\* Equality is symmetric.
LEMMA SameIsSymmetric ==
  ASSUME NEW ts, WellFormed(ts)
  PROVE  \A d \in 1..Len(ts), e \in 1..Len(ts) : <<d, e>> \in Same(ts) <=> <<e, d>> \in Same(ts)
<1> DEFINE E == Same(ts)
           F == {<<p[2], p[1]>> : p \in E}
           n == Len(ts)
           S == {d \in Nat : d \in 1..n =>
                   \A e \in 1..n : <<d, e>> \in E <=> <<e, d>> \in E}
<1>1. n \in Nat
  BY DEF WellFormed
<1>2. \A x, y : <<x, y>> \in F <=> <<y, x>> \in E
  <2>1. E \subseteq (1..n) \X (1..n)
    BY DEF Same
  <2> HIDE DEF E
  <2>2. ASSUME NEW x, NEW y, <<y, x>> \in E PROVE <<x, y>> \in F
    <3>1. <<y, x>>[1] = y /\ <<y, x>>[2] = x
      OBVIOUS
    <3> QED
      BY <2>2, <3>1
  <2>3. ASSUME NEW x, NEW y, <<x, y>> \in F PROVE <<y, x>> \in E
    <3>1. PICK p \in E : <<x, y>> = <<p[2], p[1]>>
      BY <2>3
    <3>2. p = <<p[1], p[2]>>
      BY <2>1
    <3> QED
      BY <3>1, <3>2
  <2> QED
    BY <2>2, <2>3
<1>3. ASSUME NEW d \in Nat, \A k \in 0..d - 1 : k \in S
      PROVE  d \in S
  <2> SUFFICES ASSUME d \in 1..n, NEW e \in 1..n
               PROVE  <<d, e>> \in E <=> <<e, d>> \in E
    OBVIOUS
  <2>1. \A x \in 1..(d - 1), y \in 1..n : <<x, y>> \in E <=> <<x, y>> \in F
    <3> SUFFICES ASSUME NEW x \in 1..(d - 1), NEW y \in 1..n
                 PROVE  <<x, y>> \in E <=> <<y, x>> \in E
      BY <1>2
    <3>1. x \in 0..d - 1 /\ x \in 1..n
      BY <1>1
    <3>2. x \in S
      BY <1>3, <3>1
    <3> HIDE DEF E
    <3> QED
      BY <3>1, <3>2
  <2>2. (<<d, e>> \in E <=> Alike(E, ts[d], ts[e])) /\ (<<e, d>> \in E <=> Alike(E, ts[e], ts[d]))
    BY SameIs
  <2> HIDE DEF E
  <2>3. Alike(E, ts[d], ts[e]) => Alike(E, ts[e], ts[d])
    <3> SUFFICES ASSUME Alike(E, ts[d], ts[e]) PROVE Alike(E, ts[e], ts[d])
      OBVIOUS
    <3>1. Alike(F, ts[d], ts[e])
      <4> HIDE DEF F
      <4> QED
        BY <2>1, AlikeLocally
    <3> HIDE DEF F
    <3> QED
      BY <1>2, <3>1, AlikeTurned
  <2>4. Alike(E, ts[e], ts[d]) => Alike(E, ts[d], ts[e])
    <3> SUFFICES ASSUME Alike(E, ts[e], ts[d]) PROVE Alike(E, ts[d], ts[e])
      OBVIOUS
    <3> HIDE DEF F
    <3>1. Alike(F, ts[d], ts[e])
      BY <1>2, AlikeTurned
    <3> QED
      BY <2>1, <3>1, AlikeLocally
  <2> QED
    BY <2>2, <2>3, <2>4
<1>4. Nat \subseteq S
  <2> HIDE DEF S
  <2> QED
    BY <1>3, StrongInduction
<1> SUFFICES ASSUME NEW d \in 1..n PROVE \A e \in 1..n : <<d, e>> \in E <=> <<e, d>> \in E
  OBVIOUS
<1> HIDE DEF E
<1> QED
  BY <1>4

\* A later object does not change the answer about earlier ones.
LEMMA SameIsKept ==
  ASSUME NEW ts, WellFormed(ts), NEW us, WellFormed(us), Len(ts) <= Len(us),
         \A d \in 1..Len(ts) : us[d] = ts[d]
  PROVE  \A d \in 1..Len(ts), e \in 1..Len(ts) : <<d, e>> \in Same(us) <=> <<d, e>> \in Same(ts)
<1> DEFINE E == Same(ts)
           F == Same(us)
           n == Len(ts)
           S == {d \in Nat : d \in 1..n =>
                   \A e \in 1..n : <<d, e>> \in F <=> <<d, e>> \in E}
<1>1. n \in Nat /\ Len(us) \in Nat
  BY DEF WellFormed
<1>2. ASSUME NEW d \in Nat, \A k \in 0..d - 1 : k \in S
      PROVE  d \in S
  <2> SUFFICES ASSUME d \in 1..n, NEW e \in 1..n
               PROVE  <<d, e>> \in F <=> <<d, e>> \in E
    OBVIOUS
  <2>1. \A x \in 1..(d - 1), y \in 1..n : <<x, y>> \in F <=> <<x, y>> \in E
    <3> SUFFICES ASSUME NEW x \in 1..(d - 1), NEW y \in 1..n
                 PROVE  <<x, y>> \in F <=> <<x, y>> \in E
      OBVIOUS
    <3>1. x \in 0..d - 1 /\ x \in 1..n
      BY <1>1
    <3>2. x \in S
      BY <1>2, <3>1
    <3> HIDE DEF E, F
    <3> QED
      BY <3>1, <3>2
  <2>2. <<d, e>> \in E <=> Alike(E, ts[d], ts[e])
    BY SameIs
  <2>3. <<d, e>> \in F <=> Alike(F, ts[d], ts[e])
    <3>1. d \in 1..Len(us) /\ e \in 1..Len(us)
      BY <1>1
    <3> QED
      BY <3>1, SameIs
  <2> HIDE DEF E, F
  <2>4. Alike(E, ts[d], ts[e]) <=> Alike(F, ts[d], ts[e])
    BY <2>1, AlikeLocally
  <2> QED
    BY <2>2, <2>3, <2>4
<1>3. Nat \subseteq S
  <2> HIDE DEF S
  <2> QED
    BY <1>2, StrongInduction
<1> SUFFICES ASSUME NEW d \in 1..n PROVE \A e \in 1..n : <<d, e>> \in F <=> <<d, e>> \in E
  OBVIOUS
<1> HIDE DEF E, F
<1> QED
  BY <1>3

-----------------------------------------------------------------------------
(* What the getters allocate.                                              *)

\* An object that may come after those of ts.
Fitting(t, ts) ==
  /\ Built(t, Len(ts))
  /\ t.base # None => t.kind = "class" /\ ts[t.base].kind = "class"
  /\ t.kind = "pointer" => ts[t.parts[1]].kind # "reference"
  /\ t.kind = "reference" => ts[t.parts[1]].kind # "pointer"
  /\ Len(t.names) = (IF t.kind \in {"struct", "class"} THEN Len(t.parts) ELSE 0)

\* The inductive invariant
IInv == TypeOK /\ WellFormed(types)

\* An object that is built from the parts ps, and for a function from r.
Composed(kind, variant, ps, r, count) ==
  [kind |-> kind, variant |-> variant, parts |-> ps, ret |-> r, count |-> count,
   name |-> "none", names |-> <<>>, methods |-> <<>>, flags |-> {}, base |-> None]

LEMMA ComposedFits ==
  ASSUME NEW kind \in Kinds \ {"struct", "class"}, NEW n \in Nat, NEW ps \in Seq(1..n),
         NEW r \in 0..n, NEW count \in Nat, NEW variant \in Variants,
         kind \in {"pointer", "reference", "array"} => Len(ps) = 1,
         kind = "function" => r # 0,
         kind = "union" => Len(ps) # 0,
         kind = "integer" => variant \in DOMAIN IntegerBytes,
         kind = "float" => variant \in DOMAIN FloatBytes,
         NEW t, t = Composed(kind, variant, ps, r, count)
  PROVE  Built(t, n) /\ t.base = None /\ Len(t.names) = 0 /\ t.kind = kind /\ t.parts = ps
<1>1. /\ t.kind = kind /\ t.variant = variant /\ t.parts = ps /\ t.names = <<>>
      /\ t.methods = <<>> /\ t.ret = r /\ t.base = None
  BY DEF Composed
<1>2. Len(ps) \in Nat /\ \A i \in 1..Len(ps) : ps[i] \in 1..n
  OBVIOUS
<1>3. ps \in Seq(Nat)
  <2>1. 1..n \subseteq Nat
    OBVIOUS
  <2> QED
    BY <2>1, SeqMonotonic
<1>4. t \in Object
  <2>1. <<>> \in Seq(STRING) /\ <<>> \in Seq([name : STRING, signature : Nat])
    BY EmptySeq
  <2>2. kind \in Kinds /\ r \in Nat /\ {} \in SUBSET STRING /\ None \in Nat
    BY DEF None
  <2> QED
    BY <1>3, <2>1, <2>2 DEF Object, Composed
<1>5. Len(t.names) = 0 /\ Len(t.methods) = 0 /\ None = 0
  BY <1>1 DEF None
<1>6. Built(t, n)
  BY <1>1, <1>2, <1>4, <1>5 DEF Built
<1> QED
  BY <1>1, <1>5, <1>6

LEMMA PrimitivesFit ==
  ASSUME IInv, NEW t \in Primitives
  PROVE  Fitting(t, types)
<1> DEFINE n == Len(types)
<1>1. n \in Nat
  BY DEF IInv, WellFormed
<1>2. PICK kind \in {"integer", "float", "bool", "char", "void", "auto"}, variant \in Variants :
        /\ t = Composed(kind, variant, <<>>, None, 0)
        /\ kind = "integer" => variant \in DOMAIN IntegerBytes
        /\ kind = "float" => variant \in DOMAIN FloatBytes
  <2>1. ASSUME NEW v \in DOMAIN IntegerBytes, t = [Plain EXCEPT !.kind = "integer", !.variant = v]
        PROVE  v \in Variants /\ t = Composed("integer", v, <<>>, None, 0)
    BY <2>1 DEF Variants, Plain, Composed
  <2>2. ASSUME NEW v \in DOMAIN FloatBytes, t = [Plain EXCEPT !.kind = "float", !.variant = v]
        PROVE  v \in Variants /\ t = Composed("float", v, <<>>, None, 0)
    BY <2>2 DEF Variants, Plain, Composed
  <2>3. ASSUME NEW k \in {"bool", "char", "void", "auto"}, t = [Plain EXCEPT !.kind = k]
        PROVE  t = Composed(k, "none", <<>>, None, 0)
    BY <2>3 DEF Plain, Composed
  <2>4. "none" \in Variants
    BY DEF Variants
  <2> QED
    BY <2>1, <2>2, <2>3, <2>4 DEF Primitives
<1>3. kind \in Kinds \ {"struct", "class"} /\ <<>> \in Seq(1..n) /\ None \in 0..n
  BY <1>1 DEF Kinds, None
<1>4. kind \notin {"pointer", "reference", "array", "function"}
  OBVIOUS
<1>5. Built(t, n) /\ t.base = None /\ Len(t.names) = 0 /\ t.kind = kind
  <2> HIDE DEF n
  <2>1. /\ kind \notin {"pointer", "reference", "array"} /\ kind \notin {"function", "union"}
        /\ 0 \in Nat
    BY <1>4
  <2>2. Built(t, n)
    <3> DEFINE ps == <<>>
    <3>1. ps \in Seq(1..n) /\ t = Composed(kind, variant, ps, None, 0)
      BY <1>2, <1>3
    <3>2. /\ kind = "integer" => variant \in DOMAIN IntegerBytes
          /\ kind = "float" => variant \in DOMAIN FloatBytes
      BY <1>2
    <3> HIDE DEF ps
    <3> QED
      BY <1>1, <1>3, <2>1, <3>1, <3>2, ComposedFits
  <2>3. t.base = None /\ Len(t.names) = 0 /\ t.kind = kind
    BY <1>2, EmptySeq DEF Composed
  <2> QED
    BY <2>2, <2>3
<1> QED
  BY <1>3, <1>4, <1>5 DEF Fitting

\* A chain of references ends at a type that is none.
LEMMA ReferentIs ==
  ASSUME IInv, NEW p \in Ids
  PROVE  Referent(p) \in Ids /\ types[Referent(p)].kind # "reference"
<1> DEFINE Body(f) == [x \in Ids |->
                         IF types[x].kind = "reference" THEN f[types[x].parts[1]] ELSE x]
           P(f) == f = Body(f)
           Stop == {x \in Ids : types[x].kind # "reference"}
           val == [x \in Ids |-> x]
           nxt == [x \in Ids |-> types[x].parts[1]]
           m == [x \in Ids |-> x]
           n == Len(types)
           referent == CHOOSE f : P(f)
<1>1. n \in Nat /\ Ids = 1..n
  BY DEF IInv, WellFormed, Ids
<1>2. \A x \in Ids : val[x] = x /\ nxt[x] = types[x].parts[1] /\ m[x] = x
  OBVIOUS
<1>3. \A x \in Ids : m[x] \in 0..n
  BY <1>1
<1>4. \A x \in Ids \ Stop : nxt[x] \in Ids /\ m[nxt[x]] < m[x]
  <2> SUFFICES ASSUME NEW x \in Ids, types[x].kind = "reference"
               PROVE  nxt[x] \in Ids /\ m[nxt[x]] < m[x]
    OBVIOUS
  <2>1. types[x].parts[1] \in 1..(x - 1) /\ types[x].parts[1] \in 1..Len(types)
    BY <1>1, PartsAre DEF IInv
  <2> QED
    BY <1>1, <1>2, <2>1
<1>5. \A f : P(f) <=> GoesOn(f, Ids, Stop, val, nxt)
  <2> TAKE f
  <2> DEFINE g == [x \in Ids |-> IF x \in Stop THEN val[x] ELSE f[nxt[x]]]
  <2>1. \A x \in Ids : Body(f)[x] = g[x]
    OBVIOUS
  <2>2. Body(f) = g
    <3> DEFINE value(x) == IF types[x].kind = "reference" THEN f[types[x].parts[1]] ELSE x
    <3>1. \A x \in Ids : value(x) = IF x \in Stop THEN val[x] ELSE f[nxt[x]]
      OBVIOUS
    <3>2. Body(f) = [x \in Ids |-> value(x)]
      OBVIOUS
    <3> HIDE DEF value, Stop, val, nxt, Body
    <3> QED
      BY <3>1, <3>2
  <2> HIDE DEF g, Body
  <2>3. P(f) <=> f = g
    BY <2>2
  <2> QED
    BY <2>3 DEF g, GoesOn
<1>6. Referent(p) = referent[p]
  BY DEF Referent
<1>7. \E f : P(f)
  <2>1. \E f : GoesOn(f, Ids, Stop, val, nxt)
    <3> HIDE DEF Stop, val, nxt, m, n
    <3> QED
      BY <1>1, <1>3, <1>4, RecursionExists
  <2> HIDE DEF P
  <2> QED
    BY <1>5, <2>1
<1>8. GoesOn(referent, Ids, Stop, val, nxt)
  <2> HIDE DEF P, Stop, val, nxt
  <2> QED
    BY <1>5, <1>7
<1> HIDE DEF referent
<1>9. PICK y \in Ids \cap Stop : referent[p] = val[y]
  <2> DEFINE D == Ids
  <2>2. (\A x \in D : m[x] \in 0..n) /\ \A x \in D \ Stop : nxt[x] \in D /\ m[nxt[x]] < m[x]
    BY <1>3, <1>4
  <2>3. GoesOn(referent, D, Stop, val, nxt) /\ n \in Nat
    BY <1>1, <1>8
  <2> HIDE DEF Stop, val, nxt, m, n, D
  <2>4. \A x \in D : \E y \in D \cap Stop : referent[x] = val[y] /\ m[y] <= m[x]
    BY <2>2, <2>3, RecursionEnds
  <2>1. \A x \in Ids : \E y \in Ids \cap Stop : referent[x] = val[y] /\ m[y] <= m[x]
    BY <2>4 DEF D
  <2> QED
    BY <2>1
<1> QED
  BY <1>2, <1>6, <1>9

LEMMA ComposedMayBeAsked ==
  ASSUME IInv, NEW kind \in Kinds \ {"struct", "class", "integer", "float"}, NEW ps \in Seq(Ids),
         NEW r \in Ids \cup {None}, NEW count \in Nat,
         kind \in {"pointer", "reference", "array"} => Len(ps) = 1,
         kind = "pointer" => types[ps[1]].kind # "reference",
         kind = "reference" => types[ps[1]].kind # "pointer",
         kind = "function" => r # None, kind = "union" => Len(ps) # 0,
         NEW t, t = Composed(kind, "none", ps, r, count)
  PROVE  Fitting(t, types)
<1> DEFINE n == Len(types)
<1>1. n \in Nat /\ Ids = 1..n
  BY DEF IInv, WellFormed, Ids
<1>2. ps \in Seq(1..n) /\ r \in 0..n /\ None = 0 /\ "none" \in Variants
  BY <1>1 DEF None, Variants
<1> HIDE DEF n
<1>3. Built(t, n)
  BY <1>1, <1>2, ComposedFits
<1>4. t.base = None /\ Len(t.names) = 0 /\ t.kind = kind /\ t.parts = ps
  BY EmptySeq DEF Composed
<1> QED
  BY <1>2, <1>3, <1>4 DEF Fitting, n

LEMMA OneIsASeq ==
  ASSUME NEW S, NEW x \in S
  PROVE  <<x>> \in Seq(S) /\ Len(<<x>>) = 1 /\ <<x>>[1] = x
  OBVIOUS

LEMMA PointersFit ==
  ASSUME IInv, GetPointerType
  PROVE  \E asked : Fitting(asked, types) /\ Get(asked)
<1>1. PICK p \in Ids : Get([Plain EXCEPT !.kind = "pointer", !.parts = <<Referent(p)>>])
  BY DEF GetPointerType
<1>2. PICK q \in Ids : q = Referent(p) /\ types[q].kind # "reference"
  BY ReferentIs
<1> DEFINE ps == <<q>>
<1>3. PICK asked : asked = [Plain EXCEPT !.kind = "pointer", !.parts = <<q>>]
  OBVIOUS
<1>4. asked = Composed("pointer", "none", ps, None, 0)
  BY <1>3 DEF Plain, Composed
<1>5. Get(asked)
  BY <1>1, <1>2, <1>3
<1>6. ps \in Seq(Ids) /\ Len(ps) = 1 /\ ps[1] = q
  BY OneIsASeq
<1>7. "pointer" \in Kinds
  BY DEF Kinds
<1>8. Fitting(asked, types)
  <2> HIDE DEF ps
  <2> QED
    BY <1>2, <1>4, <1>6, <1>7, ComposedMayBeAsked
<1> QED
  BY <1>5, <1>8

LEMMA ReferencesFit ==
  ASSUME IInv, GetReferenceType
  PROVE  \E asked : Fitting(asked, types) /\ Get(asked)
<1>1. PICK q \in Ids \ OfKind("pointer") :
        Get([Plain EXCEPT !.kind = "reference", !.parts = <<q>>])
  BY DEF GetReferenceType
<1>2. types[q].kind # "pointer"
  BY DEF OfKind
<1> DEFINE ps == <<q>>
<1>3. PICK asked : asked = [Plain EXCEPT !.kind = "reference", !.parts = <<q>>]
  OBVIOUS
<1>4. asked = Composed("reference", "none", ps, None, 0)
  BY <1>3 DEF Plain, Composed
<1>5. Get(asked)
  BY <1>1, <1>3
<1>6. ps \in Seq(Ids) /\ Len(ps) = 1 /\ ps[1] = q
  BY OneIsASeq
<1>7. "reference" \in Kinds
  BY DEF Kinds
<1>8. Fitting(asked, types)
  <2> HIDE DEF ps
  <2> QED
    BY <1>2, <1>4, <1>6, <1>7, ComposedMayBeAsked
<1> QED
  BY <1>5, <1>8

LEMMA ArraysFit ==
  ASSUME IInv, GetArrayType
  PROVE  \E asked : Fitting(asked, types) /\ Get(asked)
<1>1. PICK q \in Ids, n \in offer.counts :
        Get([Plain EXCEPT !.kind = "array", !.parts = <<q>>, !.count = n])
  BY DEF GetArrayType
<1>2. n \in Nat
  BY OffersAssumption DEF IInv, TypeOK
<1> DEFINE ps == <<q>>
<1>3. PICK asked : asked = [Plain EXCEPT !.kind = "array", !.parts = <<q>>, !.count = n]
  OBVIOUS
<1>4. asked = Composed("array", "none", ps, None, n)
  BY <1>3 DEF Plain, Composed
<1>5. Get(asked)
  BY <1>1, <1>3
<1>6. ps \in Seq(Ids) /\ Len(ps) = 1
  BY OneIsASeq
<1>7. "array" \in Kinds
  BY DEF Kinds
<1>8. Fitting(asked, types)
  <2> HIDE DEF ps
  <2> QED
    BY <1>2, <1>4, <1>6, <1>7, ComposedMayBeAsked
<1> QED
  BY <1>5, <1>8

LEMMA ListsAreSeqs ==
  ASSUME IInv, NEW ps \in Lists
  PROVE  ps \in Seq(Ids)
<1>1. PICK n \in offer.arities : ps \in [1..n -> Ids]
  BY DEF Lists
<1>2. n \in Nat
  BY OffersAssumption DEF IInv, TypeOK
<1> QED
  BY <1>1, <1>2, SeqDef

LEMMA TuplesFit ==
  ASSUME IInv, GetTupleType
  PROVE  \E asked : Fitting(asked, types) /\ Get(asked)
<1>1. PICK ps \in Lists : Get([Plain EXCEPT !.kind = "tuple", !.parts = ps])
  BY DEF GetTupleType
<1>2. PICK asked : asked = [Plain EXCEPT !.kind = "tuple", !.parts = ps]
  OBVIOUS
<1>3. asked = Composed("tuple", "none", ps, None, 0)
  BY <1>2 DEF Plain, Composed
<1>4. ps \in Seq(Ids) /\ "tuple" \in Kinds
  BY ListsAreSeqs DEF Kinds
<1>5. Get(asked)
  BY <1>1, <1>2
<1>6. Fitting(asked, types)
  BY <1>3, <1>4, ComposedMayBeAsked
<1> QED
  BY <1>5, <1>6

LEMMA UnionsFit ==
  ASSUME IInv, GetUnionType
  PROVE  \E asked : Fitting(asked, types) /\ Get(asked)
<1>1. PICK ps \in Lists \ {<<>>} : Get([Plain EXCEPT !.kind = "union", !.parts = ps])
  BY DEF GetUnionType
<1>2. PICK asked : asked = [Plain EXCEPT !.kind = "union", !.parts = ps]
  OBVIOUS
<1>3. asked = Composed("union", "none", ps, None, 0)
  BY <1>2 DEF Plain, Composed
<1>4. ps \in Seq(Ids) /\ Len(ps) # 0 /\ "union" \in Kinds
  <2>1. ps \in Seq(Ids) /\ ps # <<>>
    BY ListsAreSeqs
  <2> QED
    BY <2>1, EmptySeq DEF Kinds
<1>5. Get(asked)
  BY <1>1, <1>2
<1>6. Fitting(asked, types)
  BY <1>3, <1>4, ComposedMayBeAsked
<1> QED
  BY <1>5, <1>6

LEMMA FunctionsFit ==
  ASSUME IInv, GetFunctionType
  PROVE  \E asked : Fitting(asked, types) /\ Get(asked)
<1>1. PICK ps \in Lists, r \in Ids :
        Get([Plain EXCEPT !.kind = "function", !.parts = ps, !.ret = r])
  BY DEF GetFunctionType
<1>2. PICK asked : asked = [Plain EXCEPT !.kind = "function", !.parts = ps, !.ret = r]
  OBVIOUS
<1>3. asked = Composed("function", "none", ps, r, 0)
  BY <1>2 DEF Plain, Composed
<1>4. ps \in Seq(Ids) /\ "function" \in Kinds
  BY ListsAreSeqs DEF Kinds
<1>5. r # None
  BY DEF IInv, WellFormed, Ids, None
<1>6. Get(asked)
  BY <1>1, <1>2
<1>7. Fitting(asked, types)
  BY <1>3, <1>4, <1>5, ComposedMayBeAsked
<1> QED
  BY <1>6, <1>7

\* An object with the fields f and the methods ms.
RecordOf(kind, f, ms, name, flags, base) ==
  [kind |-> kind, variant |-> "none", parts |-> f.parts, ret |-> None, count |-> 0,
   name |-> name, names |-> f.names, methods |-> ms, flags |-> flags, base |-> base]

LEMMA RecordsMayBeAsked ==
  ASSUME IInv, NEW kind \in {"struct", "class"}, NEW f \in Fields, NEW ms \in Methods,
         NEW name \in offer.names, NEW flags \in offer.flags,
         NEW base \in OfKind("class") \cup {None}, kind = "struct" => base = None,
         NEW t, t = RecordOf(kind, f, ms, name, flags, base)
  PROVE  Fitting(t, types)
<1> DEFINE n == Len(types)
<1>1. n \in Nat /\ Ids = 1..n
  BY DEF IInv, WellFormed, Ids
<1>2. /\ t.kind = kind /\ t.parts = f.parts /\ t.names = f.names /\ t.methods = ms
      /\ t.ret = None /\ t.base = base
  BY DEF RecordOf
<1>3. /\ name \in STRING /\ flags \in SUBSET STRING /\ offer.fieldLists \subseteq Seq(STRING)
      /\ offer.methods \subseteq STRING
  BY OffersAssumption DEF IInv, TypeOK
<1>4. /\ f.names \in Seq(STRING) /\ f.parts \in Seq(Ids) /\ Len(f.parts) = Len(f.names)
  <2>1. PICK ns \in offer.fieldLists :
          /\ f.names = ns
          /\ f.parts \in [1..Len(ns) -> {p \in Ids : types[p].kind \in offer.fieldKinds}]
    BY DEF Fields
  <2>2. Len(ns) \in Nat
    BY <1>3, <2>1
  <2>3. f.parts \in [1..Len(ns) -> Ids]
    BY <2>1
  <2>4. f.parts \in Seq(Ids)
    BY <2>2, <2>3, SeqDef
  <2>5. Len(f.parts) = Len(ns)
    BY <2>2, <2>3, <2>4, LenProperties
  <2> QED
    BY <1>3, <2>1, <2>4, <2>5
<1>5. /\ ms \in Seq([name : STRING, signature : Ids])
      /\ \A i \in 1..Len(ms) : ms[i].signature \in Ids
  <2>1. CASE ms = <<>>
    BY <2>1, EmptySeq
  <2>2. CASE ms # <<>>
    <3>1. PICK m \in offer.methods, s \in OfKind("function") :
            ms = <<[name |-> m, signature |-> s]>>
      BY <2>2 DEF Methods
    <3>2. PICK x : x = [name |-> m, signature |-> s]
      OBVIOUS
    <3>3. x \in [name : STRING, signature : Ids] /\ x.signature \in Ids
      BY <1>3, <3>2 DEF OfKind
    <3>4. ms = <<x>>
      BY <3>1, <3>2
    <3> QED
      BY <3>3, <3>4
  <2> QED
    BY <2>1, <2>2
<1>6. base \in 0..n /\ (base # None => types[base].kind = "class") /\ None = 0 /\ None \in Nat
  BY <1>1 DEF OfKind, None
<1>7. t \in Object
  <2>1. f.parts \in Seq(Nat)
    BY <1>1, <1>4, SeqMonotonic
  <2>2. ms \in Seq([name : STRING, signature : Nat])
    <3>1. [name : STRING, signature : Ids] \subseteq [name : STRING, signature : Nat]
      BY <1>1
    <3> QED
      BY <1>5, <3>1, SeqMonotonic
  <2>3. kind \in Kinds /\ "none" \in Variants /\ base \in Nat
    BY <1>1, <1>6 DEF Kinds, Variants
  <2> QED
    BY <1>3, <1>4, <1>6, <2>1, <2>2, <2>3 DEF Object, RecordOf
<1>8. \A i \in 1..Len(f.parts) : f.parts[i] \in Ids
  BY <1>4
<1> HIDE DEF n
<1>9. Built(t, n)
  BY <1>1, <1>2, <1>5, <1>6, <1>7, <1>8 DEF Built
<1>10. Len(t.names) = Len(t.parts)
  BY <1>2, <1>4
<1> QED
  BY <1>2, <1>6, <1>9, <1>10 DEF Fitting, n

LEMMA StructsFit ==
  ASSUME IInv, GetStructType
  PROVE  \E asked : Fitting(asked, types) /\ Get(asked)
<1>1. PICK f \in Fields, ms \in Methods, name \in offer.names, flags \in offer.flags :
        Get(Record("struct", f, ms, name, flags))
  BY DEF GetStructType
<1>2. PICK asked : asked = Record("struct", f, ms, name, flags)
  OBVIOUS
<1>3. asked = RecordOf("struct", f, ms, name, flags, None)
  BY <1>2 DEF Record, Plain, RecordOf
<1>4. Get(asked)
  BY <1>1, <1>2
<1>5. Fitting(asked, types)
  BY <1>3, RecordsMayBeAsked
<1> QED
  BY <1>4, <1>5

LEMMA ClassesFit ==
  ASSUME IInv, GetClassType
  PROVE  \E asked : Fitting(asked, types) /\ Get(asked)
<1>1. PICK f \in Fields, ms \in Methods, name \in offer.names, flags \in offer.flags,
           b \in OfKind("class") \cup {None} :
        Get([Record("class", f, ms, name, flags) EXCEPT !.base = b])
  BY DEF GetClassType
<1>2. PICK r : r = Record("class", f, ms, name, flags)
  OBVIOUS
<1>3. r = RecordOf("class", f, ms, name, flags, None)
  BY <1>2 DEF Record, Plain, RecordOf
<1>4. PICK asked : asked = [r EXCEPT !.base = b]
  OBVIOUS
<1>5. asked = RecordOf("class", f, ms, name, flags, b)
  BY <1>3, <1>4 DEF RecordOf
<1>6. Get(asked)
  BY <1>1, <1>2, <1>4
<1>7. Fitting(asked, types)
  BY <1>5, RecordsMayBeAsked
<1> QED
  BY <1>6, <1>7

\* Whatever the registry is asked for may be allocated next.
LEMMA StepsFit ==
  ASSUME IInv, Next
  PROVE  Clear \/ \E asked : Fitting(asked, types) /\ Get(asked)
<1>1. CASE GetPrimitive
  <2>1. PICK p \in offer.primitives : Get(p)
    BY <1>1 DEF GetPrimitive
  <2>2. p \in Primitives
    BY OffersAssumption DEF IInv, TypeOK
  <2> QED
    BY <2>1, <2>2, PrimitivesFit
<1> QED
  BY <1>1, PointersFit, ReferencesFit, ArraysFit, TuplesFit, UnionsFit, FunctionsFit, StructsFit,
     ClassesFit DEF Next

-----------------------------------------------------------------------------
(* The theorems.                                                           *)

LEMMA AppendKeeps ==
  ASSUME NEW ts, WellFormed(ts), NEW t, Fitting(t, ts)
  PROVE  WellFormed(Append(ts, t))
<1> DEFINE us == Append(ts, t)
<1>1. ts \in Seq(Object) /\ t \in Object
  BY DEF WellFormed, Fitting, Built
<1>2. us \in Seq(Object) /\ Len(us) = Len(ts) + 1 /\ Len(ts) \in Nat /\ us[Len(ts) + 1] = t
      /\ \A d \in 1..Len(ts) : us[d] = ts[d]
  BY <1>1
<1>3. ASSUME NEW d \in 1..Len(us) PROVE Built(us[d], d - 1)
  <2>1. CASE d \in 1..Len(ts)
    BY <1>2, <2>1 DEF WellFormed
  <2>2. CASE d = Len(ts) + 1
    <3>1. d - 1 = Len(ts)
      BY <1>2, <2>2
    <3> QED
      BY <1>2, <2>2, <3>1 DEF Fitting
  <2> QED
    BY <1>2, <2>1, <2>2
<1> QED
  BY <1>2, <1>3 DEF WellFormed

\* What TypeOK demands of the objects.
Sound(ts) ==
  \A d \in DOMAIN ts :
    LET t == ts[d]
    IN  /\ Range(t.parts) \subseteq 1..(d - 1)
        /\ t.ret \in 0..(d - 1) /\ t.base \in 0..(d - 1)
        /\ \A m \in Range(t.methods) : m.signature \in 1..(d - 1)
        /\ t.base # None => t.kind = "class" /\ ts[t.base].kind = "class"
        /\ t.kind = "pointer" => ts[t.parts[1]].kind # "reference"
        /\ t.kind = "reference" => ts[t.parts[1]].kind # "pointer"
        /\ Len(t.names) = (IF t.kind \in {"struct", "class"} THEN Len(t.parts) ELSE 0)

LEMMA AppendSound ==
  ASSUME NEW ts, WellFormed(ts), Sound(ts), NEW t, Fitting(t, ts)
  PROVE  Sound(Append(ts, t))
<1> DEFINE us == Append(ts, t)
           n == Len(ts)
<1>1. ts \in Seq(Object) /\ t \in Object
  BY DEF WellFormed, Fitting, Built
<1>2. /\ DOMAIN us = 1..n + 1 /\ n \in Nat /\ us[n + 1] = t /\ DOMAIN ts = 1..n
      /\ \A d \in 1..n : us[d] = ts[d]
  BY <1>1
<1>3. WellFormed(us) /\ Len(us) = n + 1
  BY <1>1, AppendKeeps
<1> HIDE DEF us, n
<1>4. ASSUME NEW d \in 1..n + 1
      PROVE  /\ Range(us[d].parts) \subseteq 1..(d - 1)
             /\ us[d].ret \in 0..(d - 1) /\ us[d].base \in 0..(d - 1)
             /\ \A m \in Range(us[d].methods) : m.signature \in 1..(d - 1)
             /\ us[d].kind \in {"pointer", "reference"} => us[d].parts[1] \in 1..(d - 1)
  <2>1. d \in 1..Len(us) /\ Built(us[d], d - 1)
    BY <1>3 DEF WellFormed
  <2>2. Range(us[d].parts) \subseteq 1..(d - 1)
    BY <1>3, <2>1, PartsRange
  <2>3. us[d].ret \in 0..(d - 1) /\ us[d].base \in 0..(d - 1)
    BY <2>1 DEF Built
  <2>4. \A m \in Range(us[d].methods) : m.signature \in 1..(d - 1)
    BY <1>3, <2>1, PartsAre DEF Range
  <2>5. us[d].kind \in {"pointer", "reference"} => us[d].parts[1] \in 1..(d - 1)
    BY <1>3, <2>1, PartsAre
  <2> QED
    BY <2>2, <2>3, <2>4, <2>5
<1>5. ASSUME NEW d \in 1..n + 1
      PROVE  /\ us[d].base # None => us[d].kind = "class" /\ us[us[d].base].kind = "class"
             /\ us[d].kind = "pointer" => us[us[d].parts[1]].kind # "reference"
             /\ us[d].kind = "reference" => us[us[d].parts[1]].kind # "pointer"
             /\ Len(us[d].names)
                  = (IF us[d].kind \in {"struct", "class"} THEN Len(us[d].parts) ELSE 0)
  <2>1. us[d].base # None => us[d].base \in 1..n
    BY <1>2, <1>4 DEF None
  <2>2. us[d].kind \in {"pointer", "reference"} => us[d].parts[1] \in 1..n
    <3>1. us[d].kind \in {"pointer", "reference"} => us[d].parts[1] \in 1..(d - 1)
      BY <1>4
    <3>2. 1..(d - 1) \subseteq 1..n
      BY <1>2
    <3> QED
      BY <3>1, <3>2
  <2>3. CASE d \in 1..n
    <3>1. us[d] = ts[d]
      BY <1>2, <2>3
    <3>2. /\ ts[d].base # None => ts[d].kind = "class" /\ ts[ts[d].base].kind = "class"
          /\ ts[d].kind = "pointer" => ts[ts[d].parts[1]].kind # "reference"
          /\ ts[d].kind = "reference" => ts[ts[d].parts[1]].kind # "pointer"
          /\ Len(ts[d].names)
               = (IF ts[d].kind \in {"struct", "class"} THEN Len(ts[d].parts) ELSE 0)
      BY <1>2, <2>3 DEF Sound
    <3>3. ts[d].base # None => us[ts[d].base] = ts[ts[d].base]
      BY <1>2, <2>1, <3>1
    <3>4. ts[d].kind \in {"pointer", "reference"} => us[ts[d].parts[1]] = ts[ts[d].parts[1]]
      BY <1>2, <2>2, <3>1
    <3> QED
      BY <3>1, <3>2, <3>3, <3>4
  <2>4. CASE d = n + 1
    BY <1>2, <2>1, <2>2, <2>4 DEF Fitting
  <2> QED
    BY <1>2, <2>3, <2>4
<1> QED
  BY <1>2, <1>4, <1>5 DEF Sound, us

LEMMA GetKeeps ==
  ASSUME IInv, NEW asked, Fitting(asked, types), Get(asked)
  PROVE  IInv'
<1>1. offer' \in Offers
  BY DEF Get, IInv, TypeOK
<1>2. CASE UNCHANGED <<types, registered>>
  BY <1>1, <1>2 DEF IInv, TypeOK, Ids
<1>3. CASE types' = Append(types, asked) /\ registered' = registered \cup {Len(types) + 1}
  <2>1. WellFormed(types) /\ Sound(types) /\ registered \subseteq DOMAIN types
    BY DEF IInv, TypeOK, Sound, Ids
  <2>2. PICK us : us = Append(types, asked)
    OBVIOUS
  <2>3. WellFormed(us) /\ Sound(us)
    <3>1. WellFormed(us)
      BY <2>1, <2>2, AppendKeeps
    <3>2. Sound(us)
      BY <2>1, <2>2, AppendSound
    <3> QED
      BY <3>1, <3>2
  <2>4. registered' \subseteq DOMAIN us
    <3>1. types \in Seq(Object) /\ asked \in Object
      BY <2>1 DEF WellFormed, Fitting, Built
    <3>2. DOMAIN us = 1..Len(types) + 1 /\ DOMAIN types = 1..Len(types) /\ Len(types) \in Nat
      BY <2>2, <3>1
    <3> QED
      BY <1>3, <2>1, <3>2
  <2>5. types' = us
    BY <1>3, <2>2
  <2>6. us \in Seq(Object)
    BY <2>3 DEF WellFormed
  <2> QED
    BY <1>1, <2>3, <2>4, <2>5, <2>6 DEF IInv, TypeOK, Sound, Ids
<1> QED
  BY <1>2, <1>3 DEF Get

LEMMA InitIInv == Init => IInv
<1> SUFFICES ASSUME Init PROVE IInv
  OBVIOUS
<1>1. types \in Seq(Object) /\ Len(types) = 0 /\ DOMAIN types = {}
  BY EmptySeq DEF Init
<1> QED
  BY <1>1 DEF Init, IInv, TypeOK, WellFormed, Ids

LEMMA NextIInv == IInv /\ [Next]_vars => IInv'
<1> SUFFICES ASSUME IInv, [Next]_vars PROVE IInv'
  OBVIOUS
<1>1. CASE Clear
  BY <1>1 DEF Clear, IInv, TypeOK, Ids
<1>2. CASE \E asked : Fitting(asked, types) /\ Get(asked)
  BY <1>2, GetKeeps
<1>3. CASE UNCHANGED vars
  BY <1>3 DEF vars, IInv, TypeOK, Ids
<1> QED
  BY <1>1, <1>2, <1>3, StepsFit

\* Every object is built from older ones, so that what is asked about two types
\* comes down to what is asked about the types they are built from.
THEOREM SpecTypeOK == Spec => []TypeOK
<1>1. IInv => TypeOK
  BY DEF IInv
<1> QED
  BY <1>1, InitIInv, NextIInv, PTL DEF Spec

\* No two objects of R that are of one kind are equal.
Unique(ts, R) == \A d, e \in R : d # e /\ ts[d].kind = ts[e].kind => <<d, e>> \notin Same(ts)

LEMMA UniqueIs ==
  ASSUME NEW ts, NEW R \in SUBSET (1..Len(ts))
  PROVE  Unique(ts, R) <=>
           \A d, e \in R : d # e /\ ts[d].kind = ts[e].kind => ~Relation(ts)[<<"equals", d, e>>]
<1>1. \A d, e \in R : <<d, e>> \in Same(ts) <=> Relation(ts)[<<"equals", d, e>>]
  BY DEF Same
<1> QED
  BY <1>1 DEF Unique

\* An object that none registered equals joins them.
LEMMA AppendUnique ==
  ASSUME NEW ts, WellFormed(ts), NEW R \in SUBSET (1..Len(ts)), Unique(ts, R),
         NEW t, Fitting(t, ts), NEW us, us = Append(ts, t),
         \A r \in R : ts[r].kind = t.kind => <<r, Len(us)>> \notin Same(us)
  PROVE  Unique(us, R \cup {Len(ts) + 1})
<1> DEFINE n == Len(ts)
<1>1. n \in Nat /\ Len(us) = n + 1 /\ us[n + 1] = t /\ \A d \in 1..n : us[d] = ts[d]
  BY DEF WellFormed
<1>2. WellFormed(us)
  BY AppendKeeps
<1>3. \A d \in 1..n, e \in 1..n : <<d, e>> \in Same(us) <=> <<d, e>> \in Same(ts)
  <2>1. n <= Len(us)
    BY <1>1
  <2> QED
    BY <1>1, <1>2, <2>1, SameIsKept
<1>4. \A r \in R : us[r].kind = t.kind => <<r, n + 1>> \notin Same(us)
  BY <1>1
<1>5. \A r \in R : us[r].kind = t.kind => <<n + 1, r>> \notin Same(us)
  <2>1. \A r \in R : r \in 1..Len(us) /\ n + 1 \in 1..Len(us)
    BY <1>1
  <2>2. \A r \in R : <<r, n + 1>> \in Same(us) <=> <<n + 1, r>> \in Same(us)
    BY <1>2, <2>1, SameIsSymmetric
  <2> QED
    BY <1>4, <2>2
<1> SUFFICES ASSUME NEW d \in R \cup {n + 1}, NEW e \in R \cup {n + 1}, d # e,
                    us[d].kind = us[e].kind
             PROVE  <<d, e>> \notin Same(us)
  BY DEF Unique
<1>6. CASE d \in R /\ e \in R
  <2>1. d \in 1..n /\ e \in 1..n
    BY <1>6
  <2>2. <<d, e>> \notin Same(ts)
    BY <1>1, <1>6, <2>1 DEF Unique
  <2> QED
    BY <1>3, <2>1, <2>2
<1>7. CASE d = n + 1 /\ e \in R
  BY <1>1, <1>5, <1>7
<1>8. CASE d \in R /\ e = n + 1
  BY <1>1, <1>4, <1>8
<1> QED
  BY <1>6, <1>7, <1>8

LEMMA GetKeepsUnique ==
  ASSUME IInv, TypesAreUnique, NEW asked, Fitting(asked, types), Get(asked)
  PROVE  TypesAreUnique'
<1>1. WellFormed(types) /\ registered \in SUBSET (1..Len(types))
  BY DEF IInv, TypeOK, WellFormed, Ids
<1>2. CASE UNCHANGED <<types, registered>>
  BY <1>2 DEF TypesAreUnique, Rel
<1>3. CASE /\ Lookup(asked) = {}
           /\ types' = Append(types, asked) /\ registered' = registered \cup {Len(types) + 1}
  <2>1. Unique(types, registered)
    BY <1>1, UniqueIs DEF TypesAreUnique, Rel
  <2>2. PICK us : us = Append(types, asked)
    OBVIOUS
  <2>3. WellFormed(us) /\ Len(us) = Len(types) + 1 /\ Len(types) \in Nat
    <3>1. types \in Seq(Object) /\ asked \in Object
      BY <1>1 DEF WellFormed, Fitting, Built
    <3>2. WellFormed(us)
      BY <1>1, <2>2, AppendKeeps
    <3> QED
      BY <2>2, <3>1, <3>2
  <2>4. ASSUME NEW r \in registered, types[r].kind = asked.kind
        PROVE  <<r, Len(us)>> \notin Same(us)
    <3>1. ~Equals(us, r, Len(us))
      BY <1>3, <2>2, <2>4 DEF Lookup
    <3>2. r \in 1..Len(us) /\ Len(us) \in 1..Len(us)
      BY <1>1, <2>3
    <3> QED
      BY <3>1, <3>2 DEF Equals, Same
  <2> PICK S : S = registered \cup {Len(types) + 1}
    OBVIOUS
  <2>5. Unique(us, S)
    <3> DEFINE ts == types
               R == registered
    <3>1. WellFormed(ts) /\ R \in SUBSET (1..Len(ts)) /\ Unique(ts, R) /\ Fitting(asked, ts)
      BY <1>1, <2>1
    <3>2. us = Append(ts, asked)
      BY <2>2
    <3>3. \A r \in R : ts[r].kind = asked.kind => <<r, Len(us)>> \notin Same(us)
      BY <2>4
    <3>4. S = R \cup {Len(ts) + 1}
      OBVIOUS
    <3> HIDE DEF ts, R
    <3>5. Unique(us, R \cup {Len(ts) + 1})
      BY <3>1, <3>2, <3>3, AppendUnique
    <3> QED
      BY <3>4, <3>5
  <2>6. S \in SUBSET (1..Len(us))
    <3>1. PICK n \in Nat : n = Len(types)
      BY <2>3
    <3>2. 1..n \subseteq 1..n + 1 /\ n + 1 \in 1..n + 1
      OBVIOUS
    <3>3. Len(us) = n + 1 /\ registered \subseteq 1..n /\ S = registered \cup {n + 1}
      BY <1>1, <2>3, <3>1
    <3> QED
      BY <3>2, <3>3
  <2>7. types' = us /\ registered' = S
    BY <1>3, <2>2
  <2> QED
    BY <2>5, <2>6, <2>7, UniqueIs DEF TypesAreUnique, Rel
<1> QED
  BY <1>2, <1>3 DEF Get

\* Every type has one instance, in whatever order the types are asked for, of
\* whatever they are built and whenever the registry was cleared.
THEOREM SpecTypesAreUnique == Spec => []TypesAreUnique
<1>1. Init => IInv /\ TypesAreUnique
  BY InitIInv DEF Init, TypesAreUnique
<1>2. IInv /\ TypesAreUnique /\ [Next]_vars => (IInv /\ TypesAreUnique)'
  <2> SUFFICES ASSUME IInv, TypesAreUnique, [Next]_vars PROVE IInv' /\ TypesAreUnique'
    OBVIOUS
  <2>1. IInv'
    BY NextIInv
  <2>2. TypesAreUnique'
    <3>1. CASE Clear
      BY <3>1 DEF Clear, TypesAreUnique
    <3>2. CASE \E asked : Fitting(asked, types) /\ Get(asked)
      BY <3>2, GetKeepsUnique
    <3>3. CASE UNCHANGED vars
      BY <3>3 DEF vars, TypesAreUnique, Rel
    <3> QED
      BY <3>1, <3>2, <3>3, StepsFit
  <2> QED
    BY <2>1, <2>2
<1> QED
  BY <1>1, <1>2, PTL DEF Spec

-----------------------------------------------------------------------------
(* The bases of a class.                                                    *)

\* A recursion goes from each number to a smaller one until it stops ...
GoesDown(n, V, Stop, val, nxt, step) ==
  /\ \A x \in 1..n : x \in Stop => val[x] \in V
  /\ \A x \in 1..n : x \notin Stop => nxt[x] \in 1..(x - 1) /\ \A w \in V : step[x][w] \in V

\* ... and f is the function that it defines.
Down(f, n, Stop, val, nxt, step) ==
  \A x \in 1..n : f[x] = IF x \in Stop THEN val[x] ELSE step[x][f[nxt[x]]]

LEMMA DownExists ==
  ASSUME NEW n \in Nat, NEW V, NEW Stop, NEW val, NEW nxt, NEW step,
         GoesDown(n, V, Stop, val, nxt, step)
  PROVE  \E f \in [1..n -> V] : Down(f, n, Stop, val, nxt, step)
<1> USE DEF GoesDown, Down
<1> DEFINE Good(f, m) == \A x \in 1..m : f[x] = IF x \in Stop THEN val[x] ELSE step[x][f[nxt[x]]]
           S == {m \in Nat : m <= n => \E f \in [1..m -> V] : Good(f, m)}
<1>1. 0 \in S
  <2>1. [x \in 1..0 |-> val[x]] \in [1..0 -> V]
    OBVIOUS
  <2>2. \A f : Good(f, 0)
    OBVIOUS
  <2> QED
    BY <2>1, <2>2
<1>2. ASSUME NEW m \in Nat, m \in S PROVE m + 1 \in S
  <2> SUFFICES ASSUME m + 1 <= n PROVE \E f \in [1..(m + 1) -> V] : Good(f, m + 1)
    OBVIOUS
  <2>1. PICK f \in [1..m -> V] : Good(f, m)
    BY <1>2
  <2> DEFINE z == m + 1
             v == IF z \in Stop THEN val[z] ELSE step[z][f[nxt[z]]]
             g == [x \in 1..z |-> IF x = z THEN v ELSE f[x]]
  <2>2. z \in 1..n /\ z - 1 = m /\ 1..z = (1..m) \cup {z} /\ z \notin 1..m
    OBVIOUS
  <2>3. z \notin Stop => nxt[z] \in 1..m
    BY <2>2
  <2> HIDE DEF z
  <2>4. v \in V
    BY <2>2, <2>3
  <2>5. g[z] = v /\ \A x \in 1..m : g[x] = f[x]
    BY <2>2
  <2>6. g \in [1..z -> V]
    BY <2>2, <2>4
  <2> HIDE DEF g
  <2>7. ASSUME NEW x \in 1..z
        PROVE  g[x] = IF x \in Stop THEN val[x] ELSE step[x][g[nxt[x]]]
    <3>1. CASE x = z
      BY <2>3, <2>5, <3>1
    <3>2. CASE x \in 1..m
      <4>1. x \in 1..n /\ 1..(x - 1) \subseteq 1..m
        BY <2>2, <3>2
      <4>2. x \notin Stop => nxt[x] \in 1..m
        BY <4>1
      <4>3. f[x] = IF x \in Stop THEN val[x] ELSE step[x][f[nxt[x]]]
        BY <2>1, <3>2
      <4> QED
        BY <2>5, <3>2, <4>2, <4>3
    <3> QED
      BY <2>2, <3>1, <3>2
  <2> QED
    BY <2>6, <2>7 DEF z
<1> HIDE DEF S
<1>3. n \in S
  BY <1>1, <1>2, SimpleInduction
<1> QED
  BY <1>3 DEF S

LEMMA BaseIs ==
  ASSUME NEW ts, WellFormed(ts), NEW x \in 1..Len(ts)
  PROVE  /\ Len(ts) \in Nat /\ DOMAIN ts = 1..Len(ts) /\ x \in Nat
         /\ ts[x].base # None => ts[x].base \in 1..(x - 1) /\ ts[x].base \in 1..Len(ts)
<1>1. Len(ts) \in Nat /\ DOMAIN ts = 1..Len(ts) /\ Built(ts[x], x - 1)
  BY DEF WellFormed
<1>2. ts[x].base \in 0..(x - 1)
  BY <1>1 DEF Built
<1> QED
  BY <1>1, <1>2 DEF None

LEMMA ChainIs ==
  ASSUME NEW ts, WellFormed(ts)
  PROVE  \A x \in 1..Len(ts) :
           Chain(ts, x) = IF ts[x].base = None THEN <<x>> ELSE <<x>> \o Chain(ts, ts[x].base)
<1> DEFINE n == Len(ts)
           D == DOMAIN ts
           Body(f) == [x \in D |-> <<x>> \o (IF ts[x].base = None THEN <<>> ELSE f[ts[x].base])]
           P(f) == f = Body(f)
           c == CHOOSE f : P(f)
<1>1. n \in Nat /\ D = 1..n
  BY DEF WellFormed
<1>2. \A x \in 1..n : ts[x].base # None => ts[x].base \in 1..(x - 1) /\ ts[x].base \in 1..n
  BY BaseIs
<1>3. \A x \in D : Chain(ts, x) = c[x]
  BY DEF Chain
<1>4. \E f : P(f)
  <2> DEFINE V == Seq(Nat)
             Stop == {x \in 1..n : ts[x].base = None}
             val == [x \in 1..n |-> <<x>>]
             nxt == [x \in 1..n |-> ts[x].base]
             step == [x \in 1..n |-> [w \in V |-> <<x>> \o w]]
  <2>1. \A x \in 1..n : x \in Stop => val[x] \in V
    BY <1>1
  <2>2. ASSUME NEW x \in 1..n, x \notin Stop
        PROVE  nxt[x] \in 1..(x - 1) /\ \A w \in V : step[x][w] \in V
    <3>1. nxt[x] \in 1..(x - 1)
      BY <1>2, <2>2
    <3>2. \A w \in V : step[x][w] = <<x>> \o w
      OBVIOUS
    <3>3. <<x>> \in V
      BY <1>1
    <3> QED
      BY <3>1, <3>2, <3>3
  <2>3. /\ \A x \in 1..n : /\ val[x] = <<x>> /\ nxt[x] = ts[x].base
                           /\ x \in Stop <=> ts[x].base = None
        /\ \A x \in 1..n : \A w \in V : step[x][w] = <<x>> \o w
    OBVIOUS
  <2> HIDE DEF Stop, val, nxt, step, V, n
  <2>4. PICK f \in [1..n -> V] :
           \A x \in 1..n : f[x] = IF x \in Stop THEN val[x] ELSE step[x][f[nxt[x]]]
    <3>1. GoesDown(n, V, Stop, val, nxt, step)
      BY <2>1, <2>2 DEF GoesDown
    <3>2. n \in Nat
      BY <1>1
    <3>3. PICK f \in [1..n -> V] : Down(f, n, Stop, val, nxt, step)
      BY <3>1, <3>2, DownExists
    <3> QED
      BY <3>3 DEF Down
  <2>5. ASSUME NEW x \in D PROVE f[x] = <<x>> \o (IF ts[x].base = None THEN <<>> ELSE f[ts[x].base])
    <3>1. x \in 1..n /\ f[x] = IF x \in Stop THEN val[x] ELSE step[x][f[nxt[x]]]
      BY <1>1, <2>4
    <3>2. CASE ts[x].base = None
      <4>1. <<x>> \o <<>> = <<x>>
        <5>1. <<x>> \in Seq({x})
          OBVIOUS
        <5> QED
          BY <5>1
      <4> QED
        BY <2>3, <3>1, <3>2, <4>1
    <3>3. CASE ts[x].base # None
      <4>1. f[nxt[x]] \in V
        <5>1. nxt[x] \in 1..n
          BY <1>2, <2>3, <3>1, <3>3
        <5> QED
          BY <5>1
      <4>2. x \notin Stop /\ nxt[x] = ts[x].base
        BY <2>3, <3>1, <3>3
      <4>3. f[x] = <<x>> \o f[nxt[x]]
        BY <2>3, <3>1, <4>1, <4>2
      <4> QED
        BY <3>3, <4>2, <4>3
    <3> QED
      BY <3>2, <3>3
  <2>6. f = Body(f)
    BY <1>1, <2>4, <2>5
  <2> QED
    BY <2>6
<1>5. P(c)
  <2> HIDE DEF P
  <2> QED
    BY <1>4
<1>6. \A x \in D : c[x] = <<x>> \o (IF ts[x].base = None THEN <<>> ELSE c[ts[x].base])
  <2>1. c = Body(c)
    BY <1>5
  <2> HIDE DEF c
  <2> QED
    BY <2>1
<1> HIDE DEF c, D, n
<1>7. ASSUME NEW x \in 1..n
      PROVE  Chain(ts, x) = IF ts[x].base = None THEN <<x>> ELSE <<x>> \o Chain(ts, ts[x].base)
  <2>1. x \in D /\ (ts[x].base # None => ts[x].base \in D)
    BY <1>1, <1>2, <1>7
  <2>2. Chain(ts, x) = c[x] /\ (ts[x].base # None => Chain(ts, ts[x].base) = c[ts[x].base])
    BY <1>3, <2>1
  <2>3. <<x>> \o <<>> = <<x>>
    <3>1. <<x>> \in Seq({x})
      OBVIOUS
    <3> QED
      BY <3>1
  <2> QED
    BY <1>6, <2>1, <2>2, <2>3
<1> QED
  BY <1>7 DEF n

\* A class comes before all of its bases, and these are what it goes on to.
IsLine(c, base, n) ==
  \A x \in 1..n :
    /\ c[x] \in Seq(1..n) /\ Len(c[x]) \in Nat \ {0} /\ c[x][1] = x
    /\ \A i \in 2..Len(c[x]) : c[x][i] \in 1..(x - 1)
    /\ base[x] = None => Len(c[x]) = 1
    /\ base[x] # None =>
         /\ base[x] \in 1..(x - 1)
         /\ Len(c[x]) = Len(c[base[x]]) + 1
         /\ \A i \in 1..Len(c[base[x]]) : c[x][i + 1] = c[base[x]][i]

LEMMA LinesAre ==
  ASSUME NEW ts, WellFormed(ts)
  PROVE  IsLine([x \in 1..Len(ts) |-> Chain(ts, x)], [x \in 1..Len(ts) |-> ts[x].base], Len(ts))
<1> DEFINE n == Len(ts)
           c == [x \in 1..n |-> Chain(ts, x)]
           base == [x \in 1..n |-> ts[x].base]
<1>1. n \in Nat
  BY DEF WellFormed
<1>2. \A x \in 1..n : base[x] # None => base[x] \in 1..(x - 1) /\ base[x] \in 1..n
  BY BaseIs
<1>3. ASSUME NEW x \in 1..n
      PROVE  c[x] = IF base[x] = None THEN <<x>> ELSE <<x>> \o c[base[x]]
  BY <1>2, ChainIs
<1> HIDE DEF c, base, n
<1> DEFINE Line(x) == /\ c[x] \in Seq(1..n) /\ Len(c[x]) \in Nat \ {0} /\ c[x][1] = x
                      /\ \A i \in 2..Len(c[x]) : c[x][i] \in 1..(x - 1)
                      /\ base[x] = None => Len(c[x]) = 1
                      /\ base[x] # None =>
                           /\ base[x] \in 1..(x - 1)
                           /\ Len(c[x]) = Len(c[base[x]]) + 1
                           /\ \A i \in 1..Len(c[base[x]]) : c[x][i + 1] = c[base[x]][i]
           S == {x \in Nat : x \in 1..n => Line(x)}
<1>4. ASSUME NEW x \in Nat, \A y \in 0..(x - 1) : y \in S
      PROVE  x \in S
  <2> SUFFICES ASSUME x \in 1..n PROVE Line(x)
    OBVIOUS
  <2>1. CASE base[x] = None
    <3>1. c[x] = <<x>>
      BY <1>3, <2>1
    <3>2. <<x>> \in Seq(1..n) /\ Len(<<x>>) = 1 /\ <<x>>[1] = x
      OBVIOUS
    <3> QED
      BY <2>1, <3>1, <3>2
  <2>2. CASE base[x] # None
    <3> DEFINE b == base[x]
               d == c[b]
    <3>1. b \in 1..(x - 1) /\ b \in 1..n /\ b \in Nat /\ b < x
      BY <1>1, <1>2, <2>2
    <3>2. Line(b)
      <4>1. b \in S
        <5> HIDE DEF S, b
        <5> QED
          BY <1>4, <3>1
      <4> HIDE DEF Line
      <4> QED
        BY <3>1, <4>1
    <3>3. c[x] = <<x>> \o d
      BY <1>3, <2>2
    <3>4. /\ d \in Seq(1..n) /\ Len(d) \in Nat \ {0} /\ d[1] = b
          /\ \A i \in 2..Len(d) : d[i] \in 1..(b - 1)
      BY <3>2
    <3> HIDE DEF d, b, Line
    <3>5. <<x>> \in Seq(1..n) /\ Len(<<x>>) = 1 /\ <<x>>[1] = x
      OBVIOUS
    <3>6. /\ c[x] \in Seq(1..n) /\ Len(c[x]) = Len(d) + 1 /\ c[x][1] = x
          /\ \A i \in 1..Len(d) : c[x][i + 1] = d[i]
      BY <3>3, <3>4, <3>5
    <3>7. ASSUME NEW i \in 2..Len(c[x]) PROVE c[x][i] \in 1..(x - 1)
      <4>1. i - 1 \in 1..Len(d) /\ i = (i - 1) + 1
        BY <3>4, <3>6
      <4>2. c[x][i] = d[i - 1]
        BY <3>6, <4>1
      <4>3. d[i - 1] \in 1..b
        <5>1. CASE i - 1 = 1
          BY <3>1, <3>4, <5>1
        <5>2. CASE i - 1 # 1
          <6>1. i - 1 \in 2..Len(d)
            BY <3>4, <4>1, <5>2
          <6> QED
            BY <3>1, <3>4, <6>1
        <5> QED
          BY <5>1, <5>2
      <4> QED
        BY <3>1, <4>2, <4>3
    <3> QED
      BY <2>2, <3>1, <3>4, <3>6, <3>7 DEF Line, b, d
  <2> QED
    BY <2>1, <2>2
<1> HIDE DEF S
<1>5. Nat \subseteq S
  BY <1>4, StrongInduction
<1>6. \A x \in 1..n : Line(x)
  BY <1>5 DEF S
<1> QED
  BY <1>6 DEF IsLine, c, base, n

\* The bases of x.
Above(c, x) == {c[x][i] : i \in 2..Len(c[x])}

\* What comes later on a chain is a base of what comes before.
LEMMA LaterIsAbove ==
  ASSUME NEW n \in Nat, NEW c, NEW base, IsLine(c, base, n)
  PROVE  \A x \in 1..n : \A i, j \in 1..Len(c[x]) : i < j => c[x][j] \in Above(c, c[x][i])
<1> DEFINE Later(x) == \A i, j \in 1..Len(c[x]) : i < j => c[x][j] \in Above(c, c[x][i])
           S == {x \in Nat : x \in 1..n => Later(x)}
<1>1. ASSUME NEW x \in Nat, \A y \in 0..(x - 1) : y \in S
      PROVE  x \in S
  <2> SUFFICES ASSUME x \in 1..n, NEW i \in 1..Len(c[x]), NEW j \in 1..Len(c[x]), i < j
               PROVE  c[x][j] \in Above(c, c[x][i])
    OBVIOUS
  <2>1. /\ Len(c[x]) \in Nat \ {0} /\ c[x][1] = x
        /\ base[x] = None => Len(c[x]) = 1
        /\ base[x] # None =>
             /\ base[x] \in 1..(x - 1)
             /\ Len(c[x]) = Len(c[base[x]]) + 1
             /\ \A k \in 1..Len(c[base[x]]) : c[x][k + 1] = c[base[x]][k]
    BY DEF IsLine
  <2>2. CASE i = 1
    BY <2>1, <2>2 DEF Above
  <2>3. CASE i # 1
    <3>1. base[x] # None
      <4> SUFFICES ASSUME base[x] = None PROVE FALSE
        OBVIOUS
      <4>1. Len(c[x]) = 1
        BY <2>1
      <4>2. i \in 1..1
        BY <4>1
      <4> QED
        BY <2>3, <4>2
    <3> DEFINE b == base[x]
    <3>2. b \in 1..(x - 1) /\ b \in 1..n /\ b \in 0..(x - 1) /\ Len(c[b]) \in Nat
      <4>1. b \in 1..(x - 1)
        BY <2>1, <3>1
      <4>2. b \in 1..n /\ b \in 0..(x - 1)
        BY <4>1
      <4> QED
        BY <4>1, <4>2 DEF IsLine
    <3>3. Later(b)
      BY <1>1, <3>2
    <3>4. i - 1 \in 1..Len(c[b]) /\ j - 1 \in 1..Len(c[b]) /\ i - 1 < j - 1
          /\ (i - 1) + 1 = i /\ (j - 1) + 1 = j
      BY <2>1, <2>3, <3>1, <3>2
    <3>5. c[x][i] = c[b][i - 1] /\ c[x][j] = c[b][j - 1]
      BY <2>1, <3>1, <3>4
    <3> QED
      BY <3>3, <3>4, <3>5
  <2> QED
    BY <2>2, <2>3
<1> HIDE DEF S
<1>2. Nat \subseteq S
  BY <1>1, StrongInduction
<1> QED
  BY <1>2 DEF S

LEMMA LeastIs ==
  ASSUME NEW S \in SUBSET Nat, S # {}
  PROVE  Min(S) \in S /\ \A y \in S : Min(S) <= y
<1>1. \E x \in S : \A y \in S : x <= y
  BY LeastNatural
<1> QED
  BY <1>1 DEF Min

LEMMA BasesAre ==
  ASSUME NEW ts, WellFormed(ts), NEW line, line = [x \in 1..Len(ts) |-> Chain(ts, x)],
         NEW x \in 1..Len(ts)
  PROVE  /\ Chain(ts, x) = line[x]
         /\ Range(Chain(ts, x)) = {line[x][i] : i \in 1..Len(line[x])}
         /\ Range(Chain(ts, x)) = {x} \cup Above(line, x)
         /\ \A b : IsBaseOf(ts, b, x) <=> b \in Above(line, x)
<1> DEFINE n == Len(ts)
           s == line[x]
<1>1. Chain(ts, x) = s
  OBVIOUS
<1>2. s \in Seq(1..n) /\ Len(s) \in Nat \ {0} /\ s[1] = x
  BY LinesAre DEF IsLine
<1>3. Range(s) = {s[i] : i \in 1..Len(s)}
  BY <1>2 DEF Range
<1>4. {s[i] : i \in 1..Len(s)} = {x} \cup {s[i] : i \in 2..Len(s)}
  <2>1. 1..Len(s) = {1} \cup 2..Len(s)
    BY <1>2
  <2> HIDE DEF s
  <2> QED
    BY <1>2, <2>1
<1>5. \A b : b \in Range(Tail(s)) <=> \E i \in 2..Len(s) : b = s[i]
  <2> HIDE DEF s, n
  <2>1. /\ DOMAIN Tail(s) = 1..(Len(s) - 1)
        /\ \A i \in 1..(Len(s) - 1) : Tail(s)[i] = s[i + 1]
    BY <1>2
  <2>2. \A i \in 2..Len(s) : i - 1 \in 1..(Len(s) - 1) /\ (i - 1) + 1 = i
    BY <1>2
  <2>3. \A i \in 1..(Len(s) - 1) : i + 1 \in 2..Len(s)
    BY <1>2
  <2>4. \A i \in 2..Len(s) : Tail(s)[i - 1] = s[i]
    BY <2>1, <2>2
  <2>5. Range(Tail(s)) = {Tail(s)[i] : i \in 1..(Len(s) - 1)}
    BY <2>1 DEF Range
  <2>6. ASSUME NEW b, b \in Range(Tail(s)) PROVE \E i \in 2..Len(s) : b = s[i]
    <3>1. PICK i \in 1..(Len(s) - 1) : b = Tail(s)[i]
      BY <2>5, <2>6
    <3> QED
      BY <2>1, <2>3, <3>1
  <2>7. ASSUME NEW b, NEW i \in 2..Len(s), b = s[i] PROVE b \in Range(Tail(s))
    <3>1. i - 1 \in 1..(Len(s) - 1) /\ Tail(s)[i - 1] = b
      BY <2>2, <2>4, <2>7
    <3> QED
      BY <2>5, <3>1
  <2> QED
    BY <2>6, <2>7
<1>6. \A b : IsBaseOf(ts, b, x) <=> b \in Range(Tail(s))
  BY <1>1 DEF IsBaseOf
<1>7. Above(line, x) = {s[i] : i \in 2..Len(s)}
  BY DEF Above
<1>8. Range(Chain(ts, x)) = {line[x][i] : i \in 1..Len(line[x])}
  BY <1>1, <1>3
<1>9. Range(Chain(ts, x)) = {x} \cup Above(line, x)
  BY <1>1, <1>3, <1>4, <1>7
<1>10. \A b : IsBaseOf(ts, b, x) <=> b \in Above(line, x)
  BY <1>5, <1>6, <1>7
<1> QED
  BY <1>1, <1>8, <1>9, <1>10

\* Where on the chain of x there are bases of y
BasesOn(ts, x, y) == {i \in 1..Len(Chain(ts, x)) : IsBaseOf(ts, Chain(ts, x)[i], y)}

\* What findCommonBase finds, by the places on the two chains.
LEMMA FoundIs ==
  ASSUME NEW ts, NEW c, NEW o, NEW A, A = BasesOn(ts, c, o), NEW B, B = BasesOn(ts, o, c)
  PROVE  /\ c = o => FindCommonBase(ts, c, o) = c
         /\ c # o /\ A # {} => FindCommonBase(ts, c, o) = Chain(ts, c)[Min(A)]
         /\ c # o /\ A = {} /\ B # {} => FindCommonBase(ts, c, o) = Chain(ts, o)[Min(B)]
         /\ c # o /\ A = {} /\ B = {} => FindCommonBase(ts, c, o) = None
<1> DEFINE a == IF A # {} THEN Min(A) ELSE 0
           b == IF B # {} THEN Min(B) ELSE 0
<1>1. FindCommonBase(ts, c, o) = IF c = o THEN c
                                 ELSE IF a > 0 THEN Chain(ts, c)[a]
                                 ELSE IF b > 0 THEN Chain(ts, o)[b]
                                 ELSE None
  BY DEF FindCommonBase, SelectInSeq, BasesOn
<1>2. A \in SUBSET Nat /\ B \in SUBSET Nat /\ 0 \notin A /\ 0 \notin B
  BY DEF BasesOn
<1>3. A # {} => a = Min(A) /\ a \in Nat /\ a > 0
  <2> SUFFICES ASSUME A # {} PROVE a = Min(A) /\ a \in Nat /\ a > 0
    OBVIOUS
  <2>1. Min(A) \in A
    BY <1>2, LeastIs
  <2> QED
    BY <1>2, <2>1
<1>4. B # {} => b = Min(B) /\ b \in Nat /\ b > 0
  <2> SUFFICES ASSUME B # {} PROVE b = Min(B) /\ b \in Nat /\ b > 0
    OBVIOUS
  <2>1. Min(B) \in B
    BY <1>2, LeastIs
  <2> QED
    BY <1>2, <2>1
<1>5. (A = {} => a = 0) /\ (B = {} => b = 0)
  OBVIOUS
<1> HIDE DEF a, b
<1> QED
  BY <1>1, <1>3, <1>4, <1>5

\* The classes that both are or derive from, and what found is among them
Common(ts, c, o) == {a \in Range(Chain(ts, c)) : a \in Range(Chain(ts, o))}

IsNearest(ts, c, o, found, common) ==
  /\ found = None <=> common = {}
  /\ found # None => /\ found \in common
                     /\ \A a \in common : \/ a = found \/ IsBaseOf(ts, a, found)
                                          \/ a = o /\ IsBaseOf(ts, o, c)

LEMMA CommonBase ==
  ASSUME NEW ts, WellFormed(ts), NEW c \in 1..Len(ts), NEW o \in 1..Len(ts)
  PROVE  IsNearest(ts, c, o, FindCommonBase(ts, c, o), Common(ts, c, o))
<1> SUFFICES ASSUME NEW found, found = FindCommonBase(ts, c, o),
                    NEW common,
                    common = {a \in Range(Chain(ts, c)) : a \in Range(Chain(ts, o))}
             PROVE  /\ found = None <=> common = {}
                    /\ found # None =>
                         /\ found \in common
                         /\ \A a \in common : \/ a = found \/ IsBaseOf(ts, a, found)
                                              \/ a = o /\ IsBaseOf(ts, o, c)
  BY Zenon DEF IsNearest, Common
<1> DEFINE n == Len(ts)
           line == [x \in 1..n |-> Chain(ts, x)]
           base == [x \in 1..n |-> ts[x].base]
           Tails(x) == Above(line, x)
           All(x) == {line[x][i] : i \in 1..Len(line[x])}
           A == {i \in 1..Len(line[c]) : line[c][i] \in Tails(o)}
           B == {i \in 1..Len(line[o]) : line[o][i] \in Tails(c)}
<1>1. n \in Nat
  BY DEF WellFormed
<1>2. IsLine(line, base, n)
  BY LinesAre
<1> HIDE DEF line, base
<1>3. \A x \in 1..n : /\ Chain(ts, x) = line[x] /\ Range(Chain(ts, x)) = All(x)
                      /\ All(x) = {x} \cup Tails(x)
                      /\ \A b : IsBaseOf(ts, b, x) <=> b \in Tails(x)
  <2>1. line = [x \in 1..Len(ts) |-> Chain(ts, x)]
    BY DEF line
  <2> SUFFICES ASSUME NEW x \in 1..n
               PROVE  /\ Chain(ts, x) = line[x] /\ Range(Chain(ts, x)) = All(x)
                      /\ All(x) = {x} \cup Tails(x)
                      /\ \A b : IsBaseOf(ts, b, x) <=> b \in Tails(x)
    OBVIOUS
  <2>2. /\ Chain(ts, x) = line[x]
        /\ Range(Chain(ts, x)) = {line[x][i] : i \in 1..Len(line[x])}
        /\ Range(Chain(ts, x)) = {x} \cup Above(line, x)
        /\ \A b : IsBaseOf(ts, b, x) <=> b \in Above(line, x)
    BY <2>1, BasesAre
  <2> QED
    BY <2>2
<1>4. \A x \in 1..n : \A i, j \in 1..Len(line[x]) : i < j => line[x][j] \in Tails(line[x][i])
  BY <1>1, <1>2, LaterIsAbove
<1>5. \A x \in 1..n : /\ Len(line[x]) \in Nat /\ \A i \in 1..Len(line[x]) : line[x][i] \in 1..n
                      /\ \A b \in Tails(x) : b \in 1..n /\ b # x
  <2> SUFFICES ASSUME NEW x \in 1..n
               PROVE  /\ Len(line[x]) \in Nat
                      /\ \A i \in 1..Len(line[x]) : line[x][i] \in 1..n
                      /\ \A b \in Tails(x) : b \in 1..n /\ b # x
    OBVIOUS
  <2>1. /\ line[x] \in Seq(1..n) /\ Len(line[x]) \in Nat
        /\ \A i \in 2..Len(line[x]) : line[x][i] \in 1..(x - 1)
    BY <1>2 DEF IsLine
  <2>2. \A i \in 1..Len(line[x]) : line[x][i] \in 1..n
    BY <2>1
  <2>3. \A b \in 1..(x - 1) : b \in 1..n /\ b # x
    BY <1>1
  <2> QED
    BY <2>1, <2>2, <2>3 DEF Above
<1>6. /\ c = o => found = c
      /\ c # o /\ A # {} => found = line[c][Min(A)]
      /\ c # o /\ A = {} /\ B # {} => found = line[o][Min(B)]
      /\ c # o /\ A = {} /\ B = {} => found = None
  <2>1. A = BasesOn(ts, c, o)
    BY <1>3 DEF BasesOn
  <2>2. B = BasesOn(ts, o, c)
    BY <1>3 DEF BasesOn
  <2>3. Chain(ts, c) = line[c] /\ Chain(ts, o) = line[o]
    BY <1>3
  <2> HIDE DEF A, B
  <2> QED
    BY <2>1, <2>2, <2>3, FoundIs
<1>7. common = {a \in All(c) : a \in All(o)}
  BY <1>3
<1>8. A \in SUBSET Nat /\ B \in SUBSET Nat
  BY <1>5
<1>9. /\ All(c) = {c} \cup Tails(c) /\ All(o) = {o} \cup Tails(o)
      /\ \A b : IsBaseOf(ts, b, c) <=> b \in Tails(c)
      /\ \A b : IsBaseOf(ts, b, o) <=> b \in Tails(o)
  BY <1>3
<1>10. CASE c = o
  <2>1. found = c /\ common = All(c) /\ found # None
    BY <1>6, <1>7, <1>10 DEF None
  <2> QED
    BY <1>9, <2>1
<1>11. CASE c # o /\ A # {}
  <2> PICK m : m = Min(A)
    OBVIOUS
  <2>1. m \in A /\ \A i \in A : m <= i
    BY <1>8, <1>11, LeastIs
  <2>2. found = line[c][m] /\ m \in 1..Len(line[c]) /\ line[c][m] \in Tails(o)
    BY <1>6, <1>11, <2>1
  <2>3. found \in 1..n /\ found # None
    BY <1>5, <2>2 DEF None
  <2>4. found \in common
    BY <1>7, <1>9, <2>2
  <2>5. ASSUME NEW a \in common, ~(a = o /\ o \in Tails(c))
        PROVE  a = found \/ a \in Tails(found)
    <3>1. a # o
      BY <1>7, <1>9, <1>11, <2>5
    <3>2. PICK i \in 1..Len(line[c]) : a = line[c][i]
      BY <1>7
    <3>3. i \in A
      BY <1>7, <1>9, <3>1, <3>2
    <3>4. m <= i /\ Len(line[c]) \in Nat
      BY <1>5, <2>1, <3>3
    <3>5. CASE m = i
      BY <2>2, <3>2, <3>5
    <3>6. CASE m # i
      <4>1. m < i
        BY <2>2, <3>2, <3>4, <3>6
      <4> QED
        BY <1>4, <2>2, <3>2, <4>1
    <3> QED
      BY <3>5, <3>6
  <2>6. \A a : IsBaseOf(ts, a, found) <=> a \in Tails(found)
    BY <1>3, <2>3
  <2> HIDE DEF Tails, All
  <2> QED
    BY <1>9, <2>3, <2>4, <2>5, <2>6
<1>12. CASE c # o /\ A = {} /\ B # {}
  <2> PICK m : m = Min(B)
    OBVIOUS
  <2>1. m \in B
    BY <1>8, <1>12, LeastIs
  <2>2. found = line[o][m] /\ m \in 1..Len(line[o]) /\ line[o][m] \in Tails(c)
    BY <1>6, <1>12, <2>1
  <2>3. found \in 1..n /\ found # None
    BY <1>5, <2>2 DEF None
  <2>4. found \in common
    BY <1>7, <1>9, <2>2
  <2>5. \A a \in All(c) : a \notin Tails(o)
    BY <1>12
  <2>6. \A a \in common : a = o
    BY <1>7, <1>9, <2>5
  <2> QED
    BY <2>3, <2>4, <2>6
<1>13. CASE c # o /\ A = {} /\ B = {}
  <2>1. (\A a \in All(c) : a \notin Tails(o)) /\ (\A a \in All(o) : a \notin Tails(c))
    BY <1>13
  <2>2. common = {}
    BY <1>7, <1>9, <1>13, <2>1
  <2> QED
    BY <1>6, <1>13, <2>2
<1> QED
  BY <1>10, <1>11, <1>12, <1>13

LEMMA AbstractIs ==
  ASSUME NEW ts, WellFormed(ts)
  PROVE  \A x \in 1..Len(ts) :
           IsAbstract(ts, x) <=>
             \/ "abstract" \in ts[x].flags
             \/ /\ ts[x].base # None /\ IsAbstract(ts, ts[x].base)
                /\ "abstract" \in ts[ts[x].base].flags
                /\ \E m \in Range(ts[ts[x].base].methods) :
                     MethodIndex(ts, x, m) = 0 \/ "override" \notin ts[x].flags
<1> DEFINE n == Len(ts)
           D == DOMAIN ts
           Own(x) == "abstract" \in ts[x].flags
           Left(x) == /\ "abstract" \in ts[ts[x].base].flags
                      /\ \E m \in Range(ts[ts[x].base].methods) :
                           MethodIndex(ts, x, m) = 0 \/ "override" \notin ts[x].flags
           Body(f) == [x \in D |-> \/ "abstract" \in ts[x].flags
                                   \/ LET b == ts[x].base
                                      IN  /\ b # None /\ f[b] /\ "abstract" \in ts[b].flags
                                          /\ \E m \in Range(ts[b].methods) :
                                               \/ MethodIndex(ts, x, m) = 0
                                               \/ "override" \notin ts[x].flags]
           P(f) == f = Body(f)
           h == CHOOSE f : P(f)
<1>1. n \in Nat /\ D = 1..n
  BY DEF WellFormed
<1>2. \A x \in 1..n : ts[x].base # None => ts[x].base \in 1..(x - 1) /\ ts[x].base \in 1..n
  BY BaseIs
<1>3. \A x \in D : IsAbstract(ts, x) = h[x]
  BY DEF IsAbstract
<1>4. \A f : \A x \in D : Body(f)[x] = (Own(x) \/ (ts[x].base # None /\ f[ts[x].base] /\ Left(x)))
  OBVIOUS
<1>5. \E f : P(f)
  <2> DEFINE V == BOOLEAN
             Stop == {x \in 1..n : ts[x].base = None}
             val == [x \in 1..n |-> Own(x)]
             nxt == [x \in 1..n |-> ts[x].base]
             step == [x \in 1..n |-> [w \in V |-> Own(x) \/ (w /\ Left(x))]]
  <2>1. /\ \A x \in 1..n : /\ val[x] = Own(x) /\ nxt[x] = ts[x].base
                           /\ x \in Stop <=> ts[x].base = None
        /\ \A x \in 1..n : \A w \in V : step[x][w] = (Own(x) \/ (w /\ Left(x)))
    OBVIOUS
  <2> HIDE DEF Stop, val, nxt, step, Left, Own, n, D, Body, P, h
  <2>2. GoesDown(n, V, Stop, val, nxt, step)
    <3>1. \A x \in 1..n : Own(x) \in BOOLEAN /\ Left(x) \in BOOLEAN
      BY DEF Own, Left
    <3> QED
      BY <1>1, <1>2, <2>1, <3>1 DEF GoesDown
  <2>3. PICK f \in [1..n -> V] : Down(f, n, Stop, val, nxt, step)
    BY <1>1, <2>2, DownExists
  <2>4. ASSUME NEW x \in D
        PROVE  f[x] = (Own(x) \/ (ts[x].base # None /\ f[ts[x].base] /\ Left(x)))
    <3>1. x \in 1..n /\ f[x] = IF x \in Stop THEN val[x] ELSE step[x][f[nxt[x]]]
      BY <1>1, <2>3 DEF Down
    <3>2. CASE ts[x].base = None
      <4>1. f[x] = Own(x)
        BY <2>1, <3>1, <3>2
      <4>2. Own(x) = (Own(x) \/ (ts[x].base # None /\ f[ts[x].base] /\ Left(x)))
        BY <3>2 DEF Own
      <4> QED
        BY <4>1, <4>2
    <3>3. CASE ts[x].base # None
      <4>1. f[ts[x].base] \in V /\ nxt[x] = ts[x].base
        BY <1>2, <2>1, <3>1, <3>3
      <4>2. f[x] = (Own(x) \/ (f[ts[x].base] /\ Left(x)))
        BY <2>1, <3>1, <3>3, <4>1
      <4> QED
        BY <3>3, <4>2
    <3> QED
      BY <3>2, <3>3
  <2>5. f = Body(f)
    <3>1. \A x \in D : f[x] = Body(f)[x]
      BY <1>4, <2>4
    <3>2. Body(f) = [x \in D |-> Body(f)[x]]
      BY DEF Body
    <3> QED
      BY <1>1, <3>1, <3>2
  <2> QED
    BY <2>5 DEF P
<1>6. P(h)
  <2> HIDE DEF P
  <2> QED
    BY <1>5
<1>7. h = Body(h)
  BY <1>6
<1> HIDE DEF h, Body, D, n
<1>8. \A x \in D : h[x] = (Own(x) \/ (ts[x].base # None /\ h[ts[x].base] /\ Left(x)))
  BY <1>4, <1>7
<1>9. ASSUME NEW x \in 1..n
      PROVE  IsAbstract(ts, x) <=>
               (Own(x) \/ (ts[x].base # None /\ IsAbstract(ts, ts[x].base) /\ Left(x)))
  <2>1. x \in D /\ (ts[x].base # None => ts[x].base \in D)
    BY <1>1, <1>2, <1>9
  <2> HIDE DEF Own, Left
  <2>2. IsAbstract(ts, x) = h[x]
    BY <1>3, <2>1
  <2>3. ts[x].base # None => IsAbstract(ts, ts[x].base) = h[ts[x].base]
    BY <1>3, <2>1
  <2> QED
    BY <1>8, <2>1, <2>2, <2>3
<1> QED
  BY <1>9 DEF n

LEMMA Overridden ==
  ASSUME NEW ts, WellFormed(ts), NEW c \in 1..Len(ts), NEW b, b = ts[c].base, b # None,
         "abstract" \in ts[b].flags, ~IsAbstract(ts, c), NEW m \in Range(ts[b].methods)
  PROVE  ResolveVirtualMethod(ts, c, m) = c
<1>1. b \in 1..Len(ts)
  BY BaseIs
<1>2. IsAbstract(ts, b)
  BY <1>1, AbstractIs
<1>3. MethodIndex(ts, c, m) # 0
  BY <1>2, AbstractIs
<1>4. MethodIndex(ts, c, m) > 0
  <2> DEFINE I == {i \in 1..Len(ts[c].methods) :
                     /\ ts[c].methods[i].name = m.name
                     /\ Equals(ts, ts[c].methods[i].signature, m.signature)}
  <2>1. MethodIndex(ts, c, m) = IF I # {} THEN Min(I) ELSE 0
    BY DEF MethodIndex, SelectInSeq
  <2>2. I \in SUBSET Nat
    OBVIOUS
  <2> HIDE DEF I
  <2>3. I # {}
    BY <1>3, <2>1
  <2>4. Min(I) \in Nat
    BY <2>2, <2>3, LeastIs
  <2> QED
    BY <1>3, <2>1, <2>3, <2>4
<1> PICK s : s = Chain(ts, c)
  OBVIOUS
<1>5. Len(s) \in Nat \ {0} /\ s[1] = c
  BY LinesAre DEF IsLine
<1> DEFINE J == {i \in 1..Len(s) : MethodIndex(ts, s[i], m) > 0}
           at == IF J # {} THEN Min(J) ELSE 0
<1>6. ResolveVirtualMethod(ts, c, m) = IF at = 0 THEN None ELSE s[at]
  BY DEF ResolveVirtualMethod, SelectInSeq
<1>7. 1 \in J /\ J \in SUBSET Nat /\ \A i \in J : 1 <= i
  <2>1. 1 \in 1..Len(s)
    BY <1>5
  <2> QED
    BY <1>4, <1>5, <2>1
<1> HIDE DEF J
<1>8. Min(J) \in J /\ Min(J) <= 1
  BY <1>7, LeastIs
<1>9. at = 1
  <2> PICK k : k = Min(J)
    OBVIOUS
  <2>1. k \in Nat /\ 1 <= k /\ k <= 1
    BY <1>7, <1>8
  <2>2. k = 1
    BY <2>1
  <2> QED
    BY <1>7, <2>2
<1> HIDE DEF at
<1> QED
  BY <1>5, <1>6, <1>9

\* The nearest common base of two classes is found, but for the one that the class
\* that is asked derives from the other and passes over it, and a class that is not
\* abstract answers for the methods of its abstract base, in chains of any length.
THEOREM SpecHierarchyAnswers == Spec => []HierarchyAnswers
<1>1. IInv => HierarchyAnswers
  <2> SUFFICES ASSUME IInv PROVE HierarchyAnswers
    OBVIOUS
  <2>1. WellFormed(types) /\ DOMAIN types = 1..Len(types)
    BY DEF IInv, WellFormed
  <2>2. CommonBaseFound
    <3> SUFFICES ASSUME NEW c \in OfKind("class"), NEW o \in OfKind("class")
                 PROVE  LET found == FindCommonBase(types, c, o)
                            common == {a \in Range(Chain(types, c)) : a \in Range(Chain(types, o))}
                        IN  /\ found = None <=> common = {}
                            /\ found # None =>
                                 /\ found \in common
                                 /\ \A a \in common : \/ a = found \/ IsBaseOf(types, a, found)
                                                      \/ a = o /\ IsBaseOf(types, o, c)
      BY DEF CommonBaseFound
    <3>1. c \in 1..Len(types) /\ o \in 1..Len(types)
      BY <2>1 DEF OfKind, Ids
    <3>2. IsNearest(types, c, o, FindCommonBase(types, c, o), Common(types, c, o))
      BY <2>1, <3>1, CommonBase
    <3> QED
      BY Zenon, <3>2 DEF IsNearest, Common
  <2>3. ConcreteOverridesItsBase
    <3> SUFFICES ASSUME NEW c \in OfKind("class"), types[c].base # None,
                        "abstract" \in types[types[c].base].flags, ~IsAbstract(types, c),
                        NEW m \in Range(types[types[c].base].methods)
                 PROVE  ResolveVirtualMethod(types, c, m) = c
      BY DEF ConcreteOverridesItsBase
    <3>1. c \in 1..Len(types)
      BY <2>1 DEF OfKind, Ids
    <3> QED
      BY <2>1, <3>1, Overridden
  <2> QED
    BY <2>2, <2>3 DEF HierarchyAnswers
<1> QED
  BY <1>1, InitIInv, NextIInv, PTL DEF Spec

-----------------------------------------------------------------------------
(* Folds.                                                                   *)

LEMMA GreatestIs ==
  ASSUME NEW n \in Nat, NEW S \in SUBSET (1..n), S # {}
  PROVE  Max(S) \in S /\ \A x \in S : x <= Max(S)
<1> DEFINE T == {n - x : x \in S}
<1>1. T \in SUBSET Nat /\ T # {}
  <2>1. \A x \in S : n - x \in Nat /\ n - x \in T
    OBVIOUS
  <2> QED
    BY <2>1
<1>2. PICK l \in T : \A m \in T : l <= m
  BY <1>1, LeastNatural
<1>3. PICK x \in S : l = n - x
  BY <1>2
<1>4. ASSUME NEW y \in S PROVE x >= y
  <2>1. n - y \in T
    OBVIOUS
  <2> QED
    BY <1>2, <1>3, <2>1
<1>5. \E z \in S : \A y \in S : z >= y
  BY <1>4
<1> QED
  BY <1>5 DEF Max

\* What a fold finds for a set of places is made from what it finds for those
\* before the last one.
Folds(f, n, base, step) ==
  \A s \in SUBSET (1..n) : f[s] = IF s = {} THEN base ELSE step[Max(s)][f[s \ {Max(s)}]]

FoldsOf(n, V, base, step) == {f \in [SUBSET (1..n) -> V] : Folds(f, n, base, step)}

Steps(step, n, V) == \A i \in 1..n : \A w \in V : step[i][w] \in V

LEMMA FoldExists ==
  ASSUME NEW n \in Nat, NEW V, NEW base \in V, NEW step, Steps(step, n, V)
  PROVE  FoldsOf(n, V, base, step) # {}
<1> DEFINE S == {m \in Nat : m <= n => FoldsOf(m, V, base, step) # {}}
<1>1. 0 \in S
  <2> DEFINE f == [s \in SUBSET (1..0) |-> base]
  <2>1. f \in [SUBSET (1..0) -> V]
    OBVIOUS
  <2>2. \A s \in SUBSET (1..0) : s = {} /\ f[s] = base
    OBVIOUS
  <2> HIDE DEF f
  <2>3. Folds(f, 0, base, step)
    BY <2>2 DEF Folds
  <2> QED
    BY <2>1, <2>3 DEF FoldsOf
<1>2. ASSUME NEW m \in Nat, m \in S PROVE m + 1 \in S
  <2> SUFFICES ASSUME m + 1 <= n
               PROVE  FoldsOf(m + 1, V, base, step) # {}
    OBVIOUS
  <2>1. PICK f \in [SUBSET (1..m) -> V] : Folds(f, m, base, step)
    <3>1. FoldsOf(m, V, base, step) # {}
      BY <1>2
    <3> QED
      BY <3>1 DEF FoldsOf
  <2> PICK z : z = m + 1
    OBVIOUS
  <2> DEFINE g == [s \in SUBSET (1..z) |-> IF z \in s THEN step[z][f[s \ {z}]] ELSE f[s]]
  <2>2. z \in 1..n /\ 1..z = (1..m) \cup {z} /\ z \notin 1..m /\ z \in Nat
    OBVIOUS
  <2>3. \A s \in SUBSET (1..z) : /\ s \ {z} \in SUBSET (1..m)
                                 /\ z \notin s => s \in SUBSET (1..m)
    BY <2>2
  <2>4. g \in [SUBSET (1..z) -> V]
    BY <2>2, <2>3 DEF Steps
  <2>5. \A s \in SUBSET (1..m) : g[s] = f[s]
    BY <2>2
  <2>6. \A s \in SUBSET (1..z) : z \in s => g[s] = step[z][f[s \ {z}]]
    OBVIOUS
  <2> HIDE DEF g
  <2>7. ASSUME NEW s \in SUBSET (1..z)
        PROVE  g[s] = IF s = {} THEN base ELSE step[Max(s)][g[s \ {Max(s)}]]
    <3>1. CASE z \in s
      <4>1. Max(s) \in s /\ \A x \in s : x <= Max(s)
        BY <2>2, <3>1, GreatestIs
      <4>2. Max(s) = z
        <5> PICK k : k = Max(s)
          OBVIOUS
        <5>1. k \in 1..z /\ z <= k
          BY <3>1, <4>1
        <5>2. k = z
          BY <2>2, <5>1
        <5> QED
          BY <5>2
      <4> QED
        BY <2>3, <2>5, <2>6, <3>1, <4>2
    <3>2. CASE z \notin s
      <4>1. s \in SUBSET (1..m) /\ s \ {Max(s)} \in SUBSET (1..m)
        BY <2>3, <3>2
      <4>2. f[s] = IF s = {} THEN base ELSE step[Max(s)][f[s \ {Max(s)}]]
        BY <2>1, <4>1 DEF Folds
      <4> QED
        BY <2>5, <4>1, <4>2
    <3> QED
      BY <3>1, <3>2
  <2>8. Folds(g, z, base, step)
    BY <2>7 DEF Folds
  <2> QED
    BY <2>4, <2>8 DEF FoldsOf
<1> HIDE DEF S
<1>3. n \in S
  BY <1>1, <1>2, SimpleInduction
<1> QED
  BY <1>3 DEF S

\* What finds f for a set of places, where it finds a value for those before the last
FoldsIn(f, n, V, base, step) ==
  \A s \in SUBSET (1..n) :
    /\ s = {} => f[s] = base
    /\ s # {} /\ f[s \ {Max(s)}] \in V => f[s] = step[Max(s)][f[s \ {Max(s)}]]

\* goes on from one place to the next.
Follow(e, n, base, step) == e[0] = base /\ \A i \in 1..n : e[i] = step[i][e[i - 1]]

Following(n, V, base, step, end) == {e \in [0..n -> V] : Follow(e, n, base, step) /\ end = e[n]}

LEMMA FoldFollows ==
  ASSUME NEW n \in Nat, NEW V, NEW base \in V, NEW step, Steps(step, n, V),
         NEW f, FoldsIn(f, n, V, base, step)
  PROVE  Following(n, V, base, step, f[1..n]) # {}
<1> DEFINE e == [i \in 0..n |-> f[1..i]]
           S == {i \in Nat : i <= n => e[i] \in V}
<1>1. e[0] = base
  <2>1. 1..0 \in SUBSET (1..n) /\ 1..0 = {}
    OBVIOUS
  <2>2. f[1..0] = base
    BY <2>1 DEF FoldsIn
  <2> QED
    BY <2>2
<1>2. ASSUME NEW i \in 1..n, e[i - 1] \in V PROVE e[i] = step[i][e[i - 1]]
  <2>1. 1..i \in SUBSET (1..n) /\ 1..i # {} /\ i \in 1..i /\ i \in Nat
    OBVIOUS
  <2>2. Max(1..i) \in 1..i /\ \A x \in 1..i : x <= Max(1..i)
    BY <2>1, GreatestIs
  <2>3. Max(1..i) = i
    <3> PICK k : k = Max(1..i)
      OBVIOUS
    <3>1. k \in 1..i /\ i <= k
      BY <2>1, <2>2
    <3>2. k = i
      BY <2>1, <3>1
    <3> QED
      BY <3>2
  <2>4. (1..i) \ {i} = 1..(i - 1)
    BY <2>1
  <2>5. e[i] = f[1..i] /\ e[i - 1] = f[1..(i - 1)]
    OBVIOUS
  <2> HIDE DEF e
  <2>6. f[(1..i) \ {Max(1..i)}] \in V
    BY <1>2, <2>3, <2>4, <2>5
  <2>7. f[1..i] = step[Max(1..i)][f[(1..i) \ {Max(1..i)}]]
    BY <2>1, <2>6 DEF FoldsIn
  <2> QED
    BY <2>3, <2>4, <2>5, <2>7
<1>3. f[1..n] = e[n] /\ e = [i \in 0..n |-> e[i]]
  OBVIOUS
<1> HIDE DEF e
<1>4. 0 \in S
  BY <1>1
<1>5. ASSUME NEW i \in Nat, i \in S PROVE i + 1 \in S
  <2> SUFFICES ASSUME i + 1 <= n PROVE e[i + 1] \in V
    OBVIOUS
  <2>1. i + 1 \in 1..n /\ (i + 1) - 1 = i /\ e[i] \in V
    BY <1>5
  <2> PICK k : k = i + 1
    OBVIOUS
  <2>2. k \in 1..n /\ e[k - 1] \in V
    BY <2>1
  <2>3. e[k] = step[k][e[k - 1]]
    BY <1>2, <2>2
  <2> QED
    BY <2>2, <2>3 DEF Steps
<1>6. Nat \subseteq S
  <2> HIDE DEF S
  <2> QED
    BY <1>4, <1>5, SimpleInduction
<1>7. \A i \in 0..n : e[i] \in V
  BY <1>6
<1>8. \A i \in 1..n : e[i] = step[i][e[i - 1]]
  <2>1. \A i \in 1..n : i - 1 \in 0..n
    OBVIOUS
  <2> QED
    BY <1>2, <1>7, <2>1
<1>9. Follow(e, n, base, step) /\ e \in [0..n -> V]
  BY <1>1, <1>3, <1>7, <1>8 DEF Follow
<1> QED
  BY <1>3, <1>9 DEF Following

\* Two that follow the same steps find the same.
LEMMA FollowOnce ==
  ASSUME NEW n \in Nat, NEW m \in Nat, NEW base, NEW step, NEW e, NEW f,
         Follow(e, n, base, step), Follow(f, m, base, step)
  PROVE  \A i \in 0..n : i <= m => e[i] = f[i]
<1> DEFINE S == {i \in Nat : i <= n /\ i <= m => e[i] = f[i]}
<1>1. 0 \in S
  BY DEF Follow
<1>2. ASSUME NEW i \in Nat, i \in S PROVE i + 1 \in S
  <2> SUFFICES ASSUME i + 1 <= n, i + 1 <= m PROVE e[i + 1] = f[i + 1]
    OBVIOUS
  <2>1. e[i] = f[i]
    BY <1>2
  <2> PICK k : k = i + 1
    OBVIOUS
  <2>2. k \in 1..n /\ k \in 1..m /\ k - 1 = i
    OBVIOUS
  <2>3. e[k] = step[k][e[k - 1]] /\ f[k] = step[k][f[k - 1]]
    BY <2>2 DEF Follow
  <2> QED
    BY <2>1, <2>2, <2>3
<1>3. Nat \subseteq S
  <2> HIDE DEF S
  <2> QED
    BY <1>1, <1>2, SimpleInduction
<1> QED
  BY <1>3

\* Where the parts of a tuple or record end, one after the other
Ends(e, n, size, align, ps) ==
  /\ e[0] = 0
  /\ \A i \in 1..n : e[i] = AlignUp(e[i - 1], align[ps[i]]) + size[ps[i]]

\* A fold that adds g of each place
Adds(f, n, g) ==
  \A s \in SUBSET (1..n) : f[s] = IF s = {} THEN 0 ELSE f[s \ {Max(s)}] + g[Max(s)]

Numbers(g, n) == \A i \in 1..n : g[i] \in Nat

AddersOf(n, g) == {f \in [SUBSET (1..n) -> Nat] : Adds(f, n, g)}

LEMMA AdderExists ==
  ASSUME NEW n \in Nat, NEW g, Numbers(g, n)
  PROVE  AddersOf(n, g) # {}
<1> DEFINE step == [i \in 1..n |-> [w \in Nat |-> w + g[i]]]
<1>1. \A i \in 1..n : \A w \in Nat : step[i][w] = w + g[i] /\ step[i][w] \in Nat
  BY DEF Numbers
<1> HIDE DEF step
<1>2. PICK f \in [SUBSET (1..n) -> Nat] : Folds(f, n, 0, step)
  <2>1. Steps(step, n, Nat)
    BY <1>1 DEF Steps
  <2>2. FoldsOf(n, Nat, 0, step) # {}
    BY <2>1, FoldExists
  <2> QED
    BY <2>2 DEF FoldsOf
<1>3. ASSUME NEW s \in SUBSET (1..n), s # {}
      PROVE  f[s] = f[s \ {Max(s)}] + g[Max(s)]
  <2>1. Max(s) \in 1..n /\ s \ {Max(s)} \in SUBSET (1..n)
    BY <1>3, GreatestIs
  <2>2. f[s] = step[Max(s)][f[s \ {Max(s)}]] /\ f[s \ {Max(s)}] \in Nat
    BY <1>2, <1>3, <2>1 DEF Folds
  <2> QED
    BY <1>1, <2>1, <2>2
<1>4. Adds(f, n, g)
  BY <1>2, <1>3 DEF Adds, Folds
<1> QED
  BY <1>4 DEF AddersOf

LEMMA AddsTotal ==
  ASSUME NEW n \in Nat, NEW g, Numbers(g, n), NEW f, Adds(f, n, g)
  PROVE  f[1..n] = Total(g, n)
<1> DEFINE S == {k \in Nat : k <= n => f[1..k] = Total(g, k)}
<1>1. 0 \in S
  <2>1. 1..0 = {} /\ 1..0 \in SUBSET (1..n)
    OBVIOUS
  <2>2. f[1..0] = 0
    BY <2>1 DEF Adds
  <2>3. Total(g, 0) = 0
    BY TotalStep
  <2> QED
    BY <2>2, <2>3
<1>2. ASSUME NEW k \in Nat, k \in S PROVE k + 1 \in S
  <2> SUFFICES ASSUME k + 1 <= n PROVE f[1..(k + 1)] = Total(g, k + 1)
    OBVIOUS
  <2>1. f[1..k] = Total(g, k)
    BY <1>2
  <2>2. Total(g, k + 1) = Total(g, k) + g[k + 1]
    BY TotalStep
  <2> PICK i : i = k + 1
    OBVIOUS
  <2>3. 1..i \in SUBSET (1..n) /\ 1..i # {} /\ i \in 1..i /\ i \in Nat
    OBVIOUS
  <2>4. Max(1..i) \in 1..i /\ \A x \in 1..i : x <= Max(1..i)
    BY <2>3, GreatestIs
  <2>5. Max(1..i) = i
    <3> PICK m : m = Max(1..i)
      OBVIOUS
    <3>1. m \in 1..i /\ i <= m
      BY <2>3, <2>4
    <3>2. m = i
      BY <2>3, <3>1
    <3> QED
      BY <3>2
  <2>6. (1..i) \ {i} = 1..k
    OBVIOUS
  <2>7. f[1..i] = f[(1..i) \ {Max(1..i)}] + g[Max(1..i)]
    BY <2>3 DEF Adds
  <2> QED
    BY <2>1, <2>2, <2>5, <2>6, <2>7
<1>3. Nat \subseteq S
  <2> HIDE DEF S
  <2> QED
    BY <1>1, <1>2, SimpleInduction
<1> QED
  BY <1>3

Alignments == {1, 2, 4, 8, 16}

LEMMA AlignUpIs ==
  ASSUME NEW w \in Nat, NEW a \in Alignments
  PROVE  /\ AlignUp(w, a) \in Nat /\ w <= AlignUp(w, a)
         /\ AlignUp(w, a) % a = 0
  BY DEF AlignUp, Alignments

\* The n parts ps have sizes and alignments.
Laid(size, align, ps, n) ==
  DOMAIN ps = 1..n /\ \A i \in 1..n : size[ps[i]] \in Nat /\ align[ps[i]] \in Alignments

EndsOf(size, align, ps, n) == {e \in [0..n -> Nat] : /\ Ends(e, n, size, align, ps)
                                                     /\ NaturalEnd(size, align, ps) = e[n]}

LEMMA EndIs ==
  ASSUME NEW size, NEW align, NEW ps, NEW n \in Nat, Laid(size, align, ps, n)
  PROVE  EndsOf(size, align, ps, n) # {}
<1> DEFINE step == [i \in 1..n |-> [w \in Nat |-> AlignUp(w, align[ps[i]]) + size[ps[i]]]]
           D == SUBSET DOMAIN ps
           Body(f) == [s \in D |-> IF s = {} THEN 0
                                   ELSE AlignUp(f[s \ {Max(s)}], align[ps[Max(s)]])
                                          + size[ps[Max(s)]]]
           P(f) == f = Body(f)
           h == CHOOSE f : P(f)
<1>1. NaturalEnd(size, align, ps) = h[DOMAIN ps]
  BY DEF NaturalEnd, FoldLeft, MapThenFoldSet
<1>2. \A i \in 1..n : \A w \in Nat : AlignUp(w, align[ps[i]]) + size[ps[i]] \in Nat
  <2> SUFFICES ASSUME NEW i \in 1..n, NEW w \in Nat
               PROVE  AlignUp(w, align[ps[i]]) + size[ps[i]] \in Nat
    OBVIOUS
  <2>1. AlignUp(w, align[ps[i]]) \in Nat
    BY AlignUpIs DEF Laid
  <2> QED
    BY <2>1 DEF Laid
<1>3. \A i \in 1..n : \A w \in Nat : step[i][w] = AlignUp(w, align[ps[i]]) + size[ps[i]]
  OBVIOUS
<1> HIDE DEF step
<1>4. PICK f \in [SUBSET (1..n) -> Nat] : Folds(f, n, 0, step)
  <2>1. Steps(step, n, Nat)
    BY <1>2, <1>3 DEF Steps
  <2>2. FoldsOf(n, Nat, 0, step) # {}
    BY <2>1, FoldExists
  <2> QED
    BY <2>2 DEF FoldsOf
<1>5. P(f)
  <2>1. D = SUBSET (1..n)
    BY DEF Laid
  <2>2. ASSUME NEW s \in D
        PROVE  f[s] = IF s = {} THEN 0
                      ELSE AlignUp(f[s \ {Max(s)}], align[ps[Max(s)]]) + size[ps[Max(s)]]
    <3>1. CASE s = {}
      BY <1>4, <3>1 DEF Folds
    <3>2. CASE s # {}
      <4>1. Max(s) \in 1..n /\ s \ {Max(s)} \in SUBSET (1..n)
        BY <2>1, <3>2, GreatestIs
      <4>2. f[s] = step[Max(s)][f[s \ {Max(s)}]] /\ f[s \ {Max(s)}] \in Nat
        BY <1>4, <2>1, <3>2, <4>1 DEF Folds
      <4> QED
        BY <1>3, <3>2, <4>1, <4>2
    <3> QED
      BY <3>1, <3>2
  <2> HIDE DEF D
  <2> QED
    BY <2>1, <2>2
<1>6. P(h)
  <2> HIDE DEF P
  <2> QED
    BY <1>5
<1>7. h = Body(h)
  BY <1>6
<1> HIDE DEF h, P, Body
<1>8. FoldsIn(h, n, Nat, 0, step)
  <2>1. D = SUBSET (1..n)
    BY DEF Laid
  <2>2. ASSUME NEW s \in SUBSET (1..n)
        PROVE  h[s] = IF s = {} THEN 0
                      ELSE AlignUp(h[s \ {Max(s)}], align[ps[Max(s)]]) + size[ps[Max(s)]]
    <3>1. \A u : \A t \in D :
            Body(u)[t] = IF t = {} THEN 0
                         ELSE AlignUp(u[t \ {Max(t)}], align[ps[Max(t)]]) + size[ps[Max(t)]]
      BY DEF Body
    <3> QED
      BY <1>7, <2>1, <3>1
  <2>3. ASSUME NEW s \in SUBSET (1..n), s # {}, h[s \ {Max(s)}] \in Nat
        PROVE  h[s] = step[Max(s)][h[s \ {Max(s)}]]
    <3>1. Max(s) \in 1..n
      BY <2>3, GreatestIs
    <3> QED
      BY <1>3, <2>2, <2>3, <3>1
  <2> QED
    BY <2>2, <2>3 DEF FoldsIn
<1>9. Steps(step, n, Nat)
  BY <1>2, <1>3 DEF Steps
<1>10. PICK e \in [0..n -> Nat] : Follow(e, n, 0, step) /\ h[1..n] = e[n]
  <2>1. Following(n, Nat, 0, step, h[1..n]) # {}
    BY <1>8, <1>9, FoldFollows
  <2> QED
    BY <2>1 DEF Following
<1>11. Ends(e, n, size, align, ps)
  <2>1. e[0] = 0 /\ \A i \in 1..n : e[i] = step[i][e[i - 1]]
    BY <1>10 DEF Follow
  <2>2. \A i \in 1..n : e[i - 1] \in Nat
    OBVIOUS
  <2> QED
    BY <1>3, <2>1, <2>2 DEF Ends
<1> QED
  <2>1. NaturalEnd(size, align, ps) = e[n]
    BY <1>1, <1>10 DEF Laid
  <2> QED
    BY <1>11, <2>1 DEF EndsOf

Tally(size, ps, size2, qs, n) == \A i \in 1..n : size[ps[i]] = size2[qs[i]]

\* Where they end is determined by the sizes and alignments.
LEMMA EndsAgree ==
  ASSUME NEW n \in Nat, NEW e, NEW f, NEW size, NEW align, NEW ps, NEW size2, NEW align2, NEW qs,
         Ends(e, n, size, align, ps), Ends(f, n, size2, align2, qs),
         Tally(size, ps, size2, qs, n), Tally(align, ps, align2, qs, n)
  PROVE  \A i \in 0..n : e[i] = f[i]
<1> DEFINE S == {i \in Nat : i <= n => e[i] = f[i]}
<1>1. 0 \in S
  BY DEF Ends
<1>2. ASSUME NEW i \in Nat, i \in S PROVE i + 1 \in S
  <2> SUFFICES ASSUME i + 1 <= n PROVE e[i + 1] = f[i + 1]
    OBVIOUS
  <2>1. e[i] = f[i]
    BY <1>2
  <2> PICK k : k = i + 1
    OBVIOUS
  <2>2. k \in 1..n /\ k - 1 = i
    OBVIOUS
  <2>3. /\ e[k] = AlignUp(e[k - 1], align[ps[k]]) + size[ps[k]]
        /\ f[k] = AlignUp(f[k - 1], align2[qs[k]]) + size2[qs[k]]
    BY <2>2 DEF Ends
  <2> QED
    BY <2>1, <2>2, <2>3 DEF Tally
<1>3. Nat \subseteq S
  <2> HIDE DEF S
  <2> QED
    BY <1>1, <1>2, SimpleInduction
<1> QED
  BY <1>3

\* The sizes and alignments of the parts ps are those that size2 and align2 give to qs.
SameSizes(size, ps, size2, qs) ==
  /\ DOMAIN ps = 1..Len(ps) /\ DOMAIN qs = 1..Len(ps) /\ Len(qs) = Len(ps) /\ Len(ps) \in Nat
  /\ Tally(size, ps, size2, qs, Len(ps))

LEMMA SameEnd ==
  ASSUME NEW ps, NEW qs, NEW size, NEW align, NEW size2, NEW align2,
         SameSizes(size, ps, size2, qs), SameSizes(align, ps, align2, qs),
         Laid(size, align, ps, Len(ps))
  PROVE  /\ NaturalEnd(size, align, ps) = NaturalEnd(size2, align2, qs)
         /\ NaturalEnd(size, align, ps) \in Nat
<1> PICK n : n = Len(ps)
  OBVIOUS
<1>1. /\ n \in Nat /\ DOMAIN ps = 1..n /\ DOMAIN qs = 1..n
      /\ Tally(size, ps, size2, qs, n) /\ Tally(align, ps, align2, qs, n)
  BY DEF SameSizes
<1>2. Laid(size, align, ps, n) /\ Laid(size2, align2, qs, n)
  BY <1>1 DEF Laid, Tally
<1>3. PICK e \in [0..n -> Nat] : /\ Ends(e, n, size, align, ps)
                                 /\ NaturalEnd(size, align, ps) = e[n]
  <2>1. EndsOf(size, align, ps, n) # {}
    BY <1>1, <1>2, EndIs
  <2> QED
    BY <2>1 DEF EndsOf
<1>4. PICK f \in [0..n -> Nat] : /\ Ends(f, n, size2, align2, qs)
                                 /\ NaturalEnd(size2, align2, qs) = f[n]
  <2>1. EndsOf(size2, align2, qs, n) # {}
    BY <1>1, <1>2, EndIs
  <2> QED
    BY <2>1 DEF EndsOf
<1>5. e[n] = f[n] /\ e[n] \in Nat
  <2>1. \A i \in 0..n : e[i] = f[i]
    BY <1>1, <1>3, <1>4, EndsAgree
  <2> QED
    BY <1>1, <2>1
<1> QED
  BY <1>3, <1>4, <1>5

LEMMA SameRange ==
  ASSUME NEW ps, NEW qs, NEW size, NEW size2, SameSizes(size, ps, size2, qs)
  PROVE  {size[p] : p \in Range(ps)} = {size2[q] : q \in Range(qs)}
<1>1. ASSUME NEW x \in {size[p] : p \in Range(ps)} PROVE x \in {size2[q] : q \in Range(qs)}
  <2>1. PICK p \in Range(ps) : x = size[p]
    BY <1>1
  <2>2. PICK i \in 1..Len(ps) : p = ps[i]
    BY <2>1 DEF SameSizes, Tally, Range
  <2>3. qs[i] \in Range(qs) /\ x = size2[qs[i]]
    BY <2>1, <2>2 DEF SameSizes, Tally, Range
  <2> QED
    BY <2>3
<1>2. ASSUME NEW x \in {size2[q] : q \in Range(qs)} PROVE x \in {size[p] : p \in Range(ps)}
  <2>1. PICK q \in Range(qs) : x = size2[q]
    BY <1>2
  <2>2. PICK i \in 1..Len(ps) : q = qs[i]
    BY <2>1 DEF SameSizes, Tally, Range
  <2>3. ps[i] \in Range(ps) /\ x = size[ps[i]]
    BY <2>1, <2>2 DEF SameSizes, Tally, Range
  <2> QED
    BY <2>3
<1> QED
  BY <1>1, <1>2

LEMMA SameAlignment ==
  ASSUME NEW ps, NEW qs, NEW align, NEW align2, SameSizes(align, ps, align2, qs)
  PROVE  MaxAlignment(align, ps) = MaxAlignment(align2, qs)
<1>1. {align[p] : p \in Range(ps)} = {align2[q] : q \in Range(qs)}
  BY ONLY SameSizes(align, ps, align2, qs), SameRange, SMTT(60)
<1> QED
  BY <1>1 DEF MaxAlignment

LEMMA SameUnion ==
  ASSUME NEW ps, NEW qs, NEW size, NEW size2, SameSizes(size, ps, size2, qs)
  PROVE  UnionSize(size, ps) = UnionSize(size2, qs)
<1>1. {size[p] : p \in Range(ps)} = {size2[q] : q \in Range(qs)}
  BY ONLY SameSizes(size, ps, size2, qs), SameRange, SMTT(60)
<1> QED
  BY <1>1 DEF UnionSize

LEMMA AlignmentFits ==
  ASSUME NEW align, NEW ps, \A p \in Range(ps) : align[p] \in Alignments
  PROVE  /\ MaxAlignment(align, ps) \in Alignments
         /\ \A p \in Range(ps) : align[p] <= MaxAlignment(align, ps)
<1> DEFINE A == {1} \cup {align[p] : p \in Range(ps)}
<1>1. A \in SUBSET Alignments /\ A \in SUBSET (1..16) /\ A # {} /\ 16 \in Nat
  BY DEF Alignments
<1>2. \A p \in Range(ps) : align[p] \in A
  OBVIOUS
<1>3. MaxAlignment(align, ps) = Max(A)
  BY DEF MaxAlignment
<1> HIDE DEF A
<1>4. Max(A) \in A /\ \A x \in A : x <= Max(A)
  BY <1>1, GreatestIs
<1> QED
  BY <1>1, <1>2, <1>3, <1>4

LEMMA UnionFits ==
  ASSUME NEW size, NEW ps, NEW n \in Nat \ {0}, DOMAIN ps = 1..n,
         \A i \in 1..n : size[ps[i]] \in Nat
  PROVE  /\ UnionSize(size, ps) \in Nat
         /\ \A i \in 1..n : size[ps[i]] <= UnionSize(size, ps)
<1> DEFINE Best(k) == \E i \in 1..k : \A j \in 1..k : size[ps[j]] <= size[ps[i]]
           S == {k \in Nat : k + 1 <= n => Best(k + 1)}
           A == {size[p] : p \in Range(ps)}
<1>1. 0 \in S
  <2>1. 1..(0 + 1) = {1} /\ 1 \in 1..n
    OBVIOUS
  <2> QED
    BY <2>1
<1>2. ASSUME NEW k \in Nat, k \in S PROVE k + 1 \in S
  <2> SUFFICES ASSUME k + 1 + 1 <= n PROVE Best(k + 1 + 1)
    OBVIOUS
  <2> PICK z : z = k + 1 + 1
    OBVIOUS
  <2>1. PICK i \in 1..(k + 1) : \A j \in 1..(k + 1) : size[ps[j]] <= size[ps[i]]
    BY <1>2
  <2>2. 1..z = (1..(k + 1)) \cup {z} /\ z \in 1..n /\ i \in 1..n /\ \A j \in 1..(k + 1) : j \in 1..n
    OBVIOUS
  <2>3. CASE size[ps[i]] <= size[ps[z]]
    <3>1. \A j \in 1..z : size[ps[j]] <= size[ps[z]]
      BY SMTT(30), <2>1, <2>2, <2>3
    <3> QED
      BY <2>2, <3>1
  <2>4. CASE ~(size[ps[i]] <= size[ps[z]])
    <3>1. \A j \in 1..z : size[ps[j]] <= size[ps[i]]
      BY <2>1, <2>2, <2>4
    <3> QED
      BY <2>2, <3>1
  <2> QED
    BY <2>3, <2>4
<1>3. n - 1 \in S
  <2> HIDE DEF S
  <2> QED
    BY <1>1, <1>2, SimpleInduction
<1>4. PICK i \in 1..n : \A j \in 1..n : size[ps[j]] <= size[ps[i]]
  <2>1. (n - 1) + 1 = n
    OBVIOUS
  <2> QED
    BY <1>3, <2>1
<1>5. \A x \in A : \E j \in 1..n : x = size[ps[j]]
  BY DEF Range
<1>6. \A j \in 1..n : size[ps[j]] \in A
  BY DEF Range
<1>7. UnionSize(size, ps) = Max(A)
  BY DEF UnionSize
<1> HIDE DEF A
<1>8. \E x \in A : \A y \in A : x >= y
  BY <1>4, <1>5, <1>6
<1>9. Max(A) \in A /\ \A y \in A : Max(A) >= y
  BY <1>8 DEF Max
<1> QED
  BY <1>5, <1>6, <1>7, <1>9

LEMMA PackedIs ==
  ASSUME NEW size, NEW ps, NEW n \in Nat, DOMAIN ps = 1..n, n # 0,
         NEW g, g = [i \in 1..n |-> size[ps[i]]], Numbers(g, n), Len(ps) = n
  PROVE  PackedSize(size, ps) = Total(g, n) /\ Total(g, n) \in Nat
<1> DEFINE D == SUBSET DOMAIN ps
           Body(f) == [s \in D |-> IF s = {} THEN 0 ELSE f[s \ {Max(s)}] + size[ps[Max(s)]]]
           P(f) == f = Body(f)
           h == CHOOSE f : P(f)
<1>1. ps # <<>>
  BY EmptySeq
<1>2. PackedSize(size, ps) = h[DOMAIN ps]
  BY <1>1 DEF PackedSize, FoldLeft, MapThenFoldSet
<1>3. PICK f \in [SUBSET (1..n) -> Nat] : Adds(f, n, g)
  BY AdderExists DEF AddersOf
<1>4. D = SUBSET (1..n) /\ \A s \in D : s # {} => Max(s) \in 1..n
  BY GreatestIs
<1>5. \A u : \A s \in D : Body(u)[s] = IF s = {} THEN 0 ELSE u[s \ {Max(s)}] + g[Max(s)]
  <2> SUFFICES ASSUME NEW u, NEW s \in D
               PROVE  Body(u)[s] = IF s = {} THEN 0 ELSE u[s \ {Max(s)}] + g[Max(s)]
    OBVIOUS
  <2>1. s # {} => g[Max(s)] = size[ps[Max(s)]]
    BY <1>4
  <2> QED
    BY <2>1
<1>6. P(f)
  <2>1. \A s \in D : f[s] = Body(f)[s]
    BY <1>3, <1>4, <1>5 DEF Adds
  <2>2. Body(f) = [s \in D |-> Body(f)[s]]
    OBVIOUS
  <2> HIDE DEF Body, D
  <2> QED
    BY <1>4, <2>1, <2>2
<1>7. P(h)
  <2> HIDE DEF P
  <2> QED
    BY <1>6
<1>8. h = Body(h)
  BY <1>7
<1> HIDE DEF h, Body, D
<1>9. Adds(h, n, g)
  <2> SUFFICES ASSUME NEW s \in SUBSET (1..n)
               PROVE  h[s] = IF s = {} THEN 0 ELSE h[s \ {Max(s)}] + g[Max(s)]
    BY DEF Adds
  <2>1. Body(h)[s] = IF s = {} THEN 0 ELSE h[s \ {Max(s)}] + g[Max(s)]
    BY <1>4, <1>5
  <2> QED
    BY <1>8, <2>1
<1>10. h[1..n] = Total(g, n)
  BY <1>9, AddsTotal
<1>11. Total(g, n) \in Nat
  BY TotalNat DEF Numbers
<1> QED
  BY <1>2, <1>10, <1>11

LEMMA SamePacked ==
  ASSUME NEW ps, NEW qs, NEW size, NEW size2, SameSizes(size, ps, size2, qs),
         \A i \in 1..Len(ps) : size[ps[i]] \in Nat
  PROVE  /\ PackedSize(size, ps) = PackedSize(size2, qs)
         /\ PackedSize(size, ps) \in Nat
<1> PICK n : n = Len(ps)
  OBVIOUS
<1> DEFINE g == [i \in 1..n |-> size[ps[i]]]
           k == [i \in 1..n |-> size2[qs[i]]]
<1>1. /\ n \in Nat /\ DOMAIN ps = 1..n /\ DOMAIN qs = 1..n /\ Len(qs) = n
      /\ \A i \in 1..n : size[ps[i]] = size2[qs[i]] /\ size[ps[i]] \in Nat
  BY DEF SameSizes, Tally
<1>2. CASE n = 0
  <2>1. ps = <<>> /\ qs = <<>>
    BY <1>1, <1>2
  <2> QED
    BY <2>1 DEF PackedSize
<1>3. CASE n # 0
  <2>1. g = k /\ Numbers(g, n)
    BY <1>1 DEF Numbers
  <2> PICK r : r = g
    OBVIOUS
  <2>2. r = g /\ r = k /\ Numbers(r, n)
    BY <2>1
  <2>3. PackedSize(size, ps) = Total(r, n) /\ Total(r, n) \in Nat
    BY SMTT(30), <1>1, <1>3, <2>2, PackedIs
  <2>4. PackedSize(size2, qs) = Total(r, n)
    BY <1>1, <1>3, <2>2, PackedIs
  <2> QED
    BY <2>3, <2>4
<1> QED
  BY <1>2, <1>3

-----------------------------------------------------------------------------
(* The layout of a type follows from that of the types it is built from.   *)

\* A recursion in which what is found at x depends on what is found below x
Local(F, n, V) ==
  \A x \in 1..n : \A f, g \in [1..n -> V] :
    (\A y \in 1..(x - 1) : f[y] = g[y]) => F[x][f] = F[x][g]

Into(F, n, V) == \A x \in 1..n : \A f \in [1..n -> V] : F[x][f] \in V

CoursesOf(n, V, F) == {f \in [1..n -> V] : \A x \in 1..n : f[x] = F[x][f]}

LEMMA CourseExists ==
  ASSUME NEW n \in Nat, NEW V, NEW v \in V, NEW F, Local(F, n, V), Into(F, n, V)
  PROVE  CoursesOf(n, V, F) # {}
<1> DEFINE Good(f, m) == \A x \in 1..m : f[x] = F[x][f]
           Upto(m) == {f \in [1..n -> V] : Good(f, m)}
           S == {m \in Nat : m <= n => Upto(m) # {}}
<1>1. 0 \in S
  <2>1. [x \in 1..n |-> v] \in [1..n -> V]
    OBVIOUS
  <2>2. \A f : Good(f, 0)
    OBVIOUS
  <2>3. Upto(0) # {}
    BY <2>1, <2>2
  <2> HIDE DEF Upto
  <2> QED
    BY <2>3
<1>2. ASSUME NEW m \in Nat, m \in S PROVE m + 1 \in S
  <2> HIDE DEF Upto
  <2> SUFFICES ASSUME m + 1 <= n PROVE Upto(m + 1) # {}
    OBVIOUS
  <2> USE DEF Upto
  <2>1. PICK f \in [1..n -> V] : Good(f, m)
    <3>1. Upto(m) # {}
      <4> HIDE DEF Upto
      <4> QED
        BY <1>2
    <3> QED
      BY <3>1
  <2> PICK z : z = m + 1
    OBVIOUS
  <2>2. z \in 1..n /\ 1..z = (1..m) \cup {z} /\ z \notin 1..m /\ z - 1 = m
    OBVIOUS
  <2> DEFINE g == [f EXCEPT ![z] = F[z][f]]
  <2>3. g \in [1..n -> V]
    BY <2>2 DEF Into
  <2>4. g[z] = F[z][f] /\ \A y \in 1..m : g[y] = f[y]
    BY <2>2
  <2> HIDE DEF g
  <2>5. ASSUME NEW x \in 1..z PROVE F[x][g] = F[x][f]
    <3>1. x \in 1..n /\ \A y \in 1..(x - 1) : g[y] = f[y]
      BY <2>2, <2>4
    <3> QED
      BY <2>3, <3>1 DEF Local
  <2>6. Good(g, z)
    BY <2>1, <2>2, <2>4, <2>5
  <2> HIDE DEF Good
  <2> QED
    BY <2>3, <2>6
<1>3. n \in S
  <2> HIDE DEF S
  <2> QED
    BY <1>1, <1>2, SimpleInduction
<1> QED
  BY <1>3 DEF CoursesOf

\* d and e agree in all that the layout depends on, where f measures the parts of
\* d and g those of e.
LayoutAlike(ts, d, e, f, g) ==
  /\ ts[d].kind = ts[e].kind
  /\ ts[d].kind \in {"integer", "float"} => ts[d].variant = ts[e].variant
  /\ ts[d].kind = "array" => /\ ts[d].count = ts[e].count
                             /\ f[ts[d].parts[1]] = g[ts[e].parts[1]]
  /\ ts[d].kind \in {"tuple", "union", "struct"} =>
       SameSizes(f, ts[d].parts, g, ts[e].parts)
  /\ ts[d].kind = "struct" => ts[d].flags = ts[e].flags

LEMMA BytesAre ==
  /\ \A v \in DOMAIN IntegerBytes : IntegerBytes[v] \in Alignments
  /\ \A v \in DOMAIN FloatBytes : FloatBytes[v] \in Alignments
  BY DEF IntegerBytes, FloatBytes, Alignments

LEMMA AlignmentsAlike ==
  ASSUME NEW ts, NEW d, NEW e, ts[d].kind \in Kinds, NEW f, NEW g, LayoutAlike(ts, d, e, f, g)
  PROVE  AlignAt(ts, f, d) = AlignAt(ts, g, e)
<1> DEFINE t == ts[d]
           u == ts[e]
<1>1. t.kind = u.kind
  BY DEF LayoutAlike
<1>2. CASE t.kind \in {"integer", "float", "bool", "void", "auto", "char", "pointer", "reference",
                       "function", "class"}
  BY <1>1, <1>2 DEF AlignAt, LayoutAlike
<1>3. CASE t.kind = "array"
  BY <1>1, <1>3 DEF AlignAt, LayoutAlike
<1>4. ASSUME t.kind \in {"tuple", "union", "struct"}
      PROVE  MaxAlignment(f, t.parts) = MaxAlignment(g, u.parts)
  <2>1. SameSizes(f, t.parts, g, u.parts)
    BY <1>4 DEF LayoutAlike
  <2> QED
    BY <2>1, SameAlignment
<1>5. CASE t.kind \in {"tuple", "union"}
  BY <1>1, <1>4, <1>5 DEF AlignAt
<1>6. CASE t.kind = "struct"
  <2>1. t.flags = u.flags
    BY <1>6 DEF LayoutAlike
  <2> QED
    BY <1>1, <1>4, <1>6, <2>1 DEF AlignAt
<1> QED
  BY <1>2, <1>3, <1>5, <1>6 DEF Kinds

LEMMA AlignAtFits ==
  ASSUME NEW ts, WellFormed(ts), NEW d \in 1..Len(ts), NEW align,
         \A p \in 1..(d - 1) : align[p] \in Alignments
  PROVE  AlignAt(ts, align, d) \in Alignments
<1> DEFINE t == ts[d]
<1>1. t.kind \in Kinds /\ PointerSize \in Alignments /\ 1 \in Alignments /\ 4 \in Alignments
  BY PartsAre DEF PointerSize, Alignments
<1>2. Built(t, d - 1)
  BY DEF WellFormed
<1>3. CASE t.kind = "integer"
  <2>1. t.variant \in DOMAIN IntegerBytes
    BY <1>2, <1>3 DEF Built
  <2>2. IntegerBytes[t.variant] \in Alignments
    BY <2>1, BytesAre
  <2> QED
    BY <1>3, <2>2 DEF AlignAt
<1>4. CASE t.kind = "float"
  <2>1. t.variant \in DOMAIN FloatBytes
    BY <1>2, <1>4 DEF Built
  <2>2. FloatBytes[t.variant] \in Alignments
    BY <2>1, BytesAre
  <2> QED
    BY <1>4, <2>2 DEF AlignAt
<1>5. CASE t.kind \in {"bool", "void", "auto", "char", "pointer", "reference", "function", "class"}
  BY <1>1, <1>5 DEF AlignAt
<1>6. CASE t.kind = "array"
  <2>1. align[t.parts[1]] \in Alignments
    BY <1>6, PartsAre
  <2> QED
    BY <1>1, <1>6, <2>1 DEF AlignAt
<1>7. MaxAlignment(align, t.parts) \in Alignments
  <2>1. \A p \in Range(t.parts) : p \in 1..(d - 1)
    BY PartsRange
  <2>2. \A p \in Range(t.parts) : align[p] \in Alignments
    BY <2>1
  <2> QED
    BY <2>2, AlignmentFits
<1>8. CASE t.kind \in {"tuple", "union", "struct"}
  BY <1>1, <1>7, <1>8 DEF AlignAt
<1> QED
  BY <1>1, <1>3, <1>4, <1>5, <1>6, <1>8 DEF Kinds

-----------------------------------------------------------------------------
(* Equal types are interchangeable.                                         *)

\* Whatever the types xs are asked about, ps and qs answer alike.
LEMMA ElementwiseLeft ==
  ASSUME NEW rel, NEW k, NEW ps, NEW qs, NEW xs, Len(ps) = Len(qs),
         \A i \in 1..Len(ps), j \in 1..Len(xs) : rel[<<k, ps[i], xs[j]>>] = rel[<<k, qs[i], xs[j]>>]
  PROVE  Elementwise(rel, k, ps, xs) = Elementwise(rel, k, qs, xs)
<1>1. CASE Len(ps) = Len(xs)
  <2>1. \A i \in 1..Len(ps) : rel[<<k, ps[i], xs[i]>>] = rel[<<k, qs[i], xs[i]>>]
    BY <1>1
  <2> QED
    BY <1>1, <2>1 DEF Elementwise
<1>2. CASE Len(ps) # Len(xs)
  BY <1>2 DEF Elementwise
<1> QED
  BY <1>1, <1>2

LEMMA ElementwiseRight ==
  ASSUME NEW rel, NEW k, NEW ps, NEW qs, NEW xs, Len(ps) = Len(qs),
         \A i \in 1..Len(ps), j \in 1..Len(xs) : rel[<<k, xs[j], ps[i]>>] = rel[<<k, xs[j], qs[i]>>]
  PROVE  Elementwise(rel, k, xs, ps) = Elementwise(rel, k, xs, qs)
<1>1. CASE Len(ps) = Len(xs)
  <2>1. \A i \in 1..Len(ps) : rel[<<k, xs[i], ps[i]>>] = rel[<<k, xs[i], qs[i]>>]
    BY <1>1
  <2> QED
    BY <1>1, <2>1 DEF Elementwise
<1>2. CASE Len(ps) # Len(xs)
  BY <1>2 DEF Elementwise
<1> QED
  BY <1>1, <1>2

NoClasses(ts) == \A d \in 1..Len(ts) : ts[d].kind # "class"

\* What equals compares with the parts of one kind
LEMMA AlikeParts ==
  ASSUME NEW ts, WellFormed(ts), NoClasses(ts), NEW d \in 1..Len(ts), NEW e \in 1..Len(ts),
         NEW E, Alike(E, ts[d], ts[e])
  PROVE  /\ ts[e].kind = ts[d].kind
         /\ ts[d].kind \in {"integer", "float"} => ts[d].variant = ts[e].variant
         /\ ts[d].kind \in {"pointer", "reference", "array"} =>
              /\ <<ts[d].parts[1], ts[e].parts[1]>> \in E
              /\ ts[d].parts[1] \in 1..(d - 1) /\ ts[e].parts[1] \in 1..(e - 1)
         /\ ts[d].kind = "array" => ts[d].count = ts[e].count
         /\ ts[d].kind \in {"tuple", "union", "function", "struct"} =>
              /\ Len(ts[d].parts) = Len(ts[e].parts)
              /\ \A i \in 1..Len(ts[d].parts) :
                   /\ <<ts[d].parts[i], ts[e].parts[i]>> \in E
                   /\ ts[d].parts[i] \in 1..(d - 1) /\ ts[e].parts[i] \in 1..(e - 1)
         /\ ts[d].kind = "function" =>
              /\ <<ts[d].ret, ts[e].ret>> \in E
              /\ ts[d].ret \in 1..(d - 1) /\ ts[e].ret \in 1..(e - 1)
<1> DEFINE t == ts[d]
           u == ts[e]
<1>1. t.kind # "class" /\ u.kind # "class"
  BY DEF NoClasses
<1>2. u.kind = t.kind
  BY <1>1 DEF Alike
<1>3. PartsIn(E, t.parts, u.parts) =>
        /\ Len(t.parts) = Len(u.parts)
        /\ \A i \in 1..Len(t.parts) : /\ <<t.parts[i], u.parts[i]>> \in E
                                      /\ t.parts[i] \in 1..(d - 1) /\ u.parts[i] \in 1..(e - 1)
  BY PartsAre DEF PartsIn
<1>5. t.kind \in {"pointer", "reference", "array"} =>
        /\ <<t.parts[1], u.parts[1]>> \in E
        /\ t.parts[1] \in 1..(d - 1) /\ u.parts[1] \in 1..(e - 1)
  BY <1>2, PartsAre DEF Alike
<1>6. t.kind = "function" =>
        <<t.ret, u.ret>> \in E /\ t.ret \in 1..(d - 1) /\ u.ret \in 1..(e - 1)
  BY <1>2, PartsAre DEF Alike
<1>7. t.kind \in {"tuple", "union", "function", "struct"} => PartsIn(E, t.parts, u.parts)
  BY <1>1 DEF Alike
<1> QED
  BY <1>2, <1>3, <1>5, <1>6, <1>7 DEF Alike

LEMMA AlikeStructs ==
  ASSUME NEW ts, WellFormed(ts), NoClasses(ts), NEW d \in 1..Len(ts), NEW e \in 1..Len(ts),
         NEW E, Alike(E, ts[d], ts[e]), ts[d].kind = "struct"
  PROVE  /\ ts[d].name = ts[e].name /\ ts[d].flags = ts[e].flags /\ ts[d].names = ts[e].names
         /\ Len(ts[d].methods) = Len(ts[e].methods)
         /\ DOMAIN ts[d].methods = 1..Len(ts[d].methods)
         /\ DOMAIN ts[e].methods = 1..Len(ts[d].methods)
         /\ \A i \in 1..Len(ts[d].methods) :
              /\ ts[d].methods[i].name = ts[e].methods[i].name
              /\ <<ts[d].methods[i].signature, ts[e].methods[i].signature>> \in E
              /\ ts[d].methods[i].signature \in 1..(d - 1)
              /\ ts[e].methods[i].signature \in 1..(e - 1)
<1> DEFINE t == ts[d]
           u == ts[e]
<1>1. /\ t.name = u.name /\ t.flags = u.flags /\ t.names = u.names
      /\ MethodsIn(E, t.methods, u.methods)
  BY DEF Alike
<1>2. Len(t.methods) = Len(u.methods)
  BY <1>1 DEF MethodsIn
<1>3. DOMAIN t.methods = 1..Len(t.methods) /\ DOMAIN u.methods = 1..Len(t.methods)
  BY <1>2, PartsAre
<1>4. ASSUME NEW i \in 1..Len(t.methods)
      PROVE  /\ t.methods[i].name = u.methods[i].name
             /\ <<t.methods[i].signature, u.methods[i].signature>> \in E
             /\ t.methods[i].signature \in 1..(d - 1) /\ u.methods[i].signature \in 1..(e - 1)
  <2>1. t.methods[i].signature \in 1..(d - 1)
    BY PartsAre
  <2>2. u.methods[i].signature \in 1..(e - 1)
    BY <1>2, PartsAre
  <2> QED
    BY <1>1, <2>1, <2>2 DEF MethodsIn
<1> QED
  BY <1>1, <1>2, <1>3, <1>4

\* Answers are the same of the types a below m and of those that E pairs them with ...
LeftAlike(rel, E, m, n) ==
  \A a \in 1..m, b \in 1..n : <<a, b>> \in E =>
    \A k \in Questions, y \in 1..n : rel[<<k, a, y>>] = rel[<<k, b, y>>]

\* ... and those of the types below m are the same about what E pairs.
RightAlike(rel, E, m, n) ==
  \A y \in 1..m, a \in 1..n, b \in 1..n :
    <<a, b>> \in E => \A k \in Questions : rel[<<k, y, a>>] = rel[<<k, y, b>>]

\* Of two types alike, each answers as the other ...
LEMMA AlikeAsked ==
  ASSUME NEW ts, WellFormed(ts), NoClasses(ts), NEW d \in 1..Len(ts), NEW e \in 1..Len(ts),
         NEW E, Alike(E, ts[d], ts[e]), NEW rel, LeftAlike(rel, E, d - 1, Len(ts)),
         NEW k \in Questions, NEW x \in 1..Len(ts)
  PROVE  Asked(ts, rel, k, d, x) = Asked(ts, rel, k, e, x)
<1> DEFINE t == ts[d]
           u == ts[e]
           o == ts[x]
           n == Len(ts)
           ps == t.parts
           qs == u.parts
           xs == o.parts
<1>1. n \in Nat /\ 1..(e - 1) \subseteq 1..n /\ "equals" \in Questions
  BY PartsAre DEF Questions
<1>2. u.kind = t.kind /\ t.kind \in Kinds /\ t.kind # "class"
  BY AlikeParts, PartsAre DEF NoClasses
<1>3. \A a \in 1..(d - 1), b \in 1..(e - 1) : <<a, b>> \in E =>
        \A l \in Questions, y \in 1..n : rel[<<l, a, y>>] = rel[<<l, b, y>>]
  BY <1>1 DEF LeftAlike
<1>4. ASSUME t.kind \in {"pointer", "reference", "array"}, o.kind = t.kind
      PROVE  \A l \in Questions : rel[<<l, ps[1], xs[1]>>] = rel[<<l, qs[1], xs[1]>>]
  <2>1. xs[1] \in 1..n
    BY <1>4, PartsAre
  <2>2. <<ps[1], qs[1]>> \in E /\ ps[1] \in 1..(d - 1) /\ qs[1] \in 1..(e - 1)
    BY <1>4, AlikeParts
  <2> QED
    BY <1>3, <2>1, <2>2
<1>5. ASSUME t.kind \in {"tuple", "union", "function", "struct"}
      PROVE  /\ Len(ps) = Len(qs)
             /\ \A i \in 1..Len(ps), l \in Questions, y \in 1..n :
                  rel[<<l, ps[i], y>>] = rel[<<l, qs[i], y>>]
             /\ \A l \in Questions : Elementwise(rel, l, ps, xs) = Elementwise(rel, l, qs, xs)
  <2>1. Len(ps) = Len(qs) /\ \A i \in 1..Len(ps) :
          <<ps[i], qs[i]>> \in E /\ ps[i] \in 1..(d - 1) /\ qs[i] \in 1..(e - 1)
    BY <1>5, AlikeParts
  <2>2. \A i \in 1..Len(ps), l \in Questions, y \in 1..n :
          rel[<<l, ps[i], y>>] = rel[<<l, qs[i], y>>]
    BY <1>3, <2>1
  <2>3. \A j \in 1..Len(xs) : xs[j] \in 1..n
    BY PartsAre
  <2> HIDE DEF ps, qs, xs, n
  <2>4. ASSUME NEW l \in Questions PROVE Elementwise(rel, l, ps, xs) = Elementwise(rel, l, qs, xs)
    BY <2>1, <2>2, <2>3, ElementwiseLeft
  <2> QED
    BY <2>1, <2>2, <2>4
<1> SUFFICES ASSUME TRUE PROVE Asked(ts, rel, k, d, x) = Asked(ts, rel, k, e, x)
  OBVIOUS
<1>6. CASE t.kind \in {"integer", "float"}
  <2>1. t.variant = u.variant
    BY <1>6, AlikeParts
  <2>2. IntegerRelation(ts, k, d, x) = IntegerRelation(ts, k, e, x)
    BY <2>1 DEF IntegerRelation
  <2>3. FloatRelation(ts, k, d, x) = FloatRelation(ts, k, e, x)
    BY <2>1 DEF FloatRelation
  <2>4. CASE t.kind = "integer"
    BY <1>2, <2>2, <2>4 DEF Asked
  <2>5. CASE t.kind = "float"
    BY <1>2, <2>3, <2>5 DEF Asked
  <2> QED
    BY <1>6, <2>4, <2>5
<1>7. CASE t.kind \in {"bool", "char", "void", "auto"}
  BY <1>2, <1>7 DEF Asked
<1>8. CASE t.kind = "pointer"
  <2>1. PointerRelation(ts, rel, k, d, x) = PointerRelation(ts, rel, k, e, x)
    <3>1. CASE o.kind = "pointer"
      BY <1>1, <1>4, <1>8, <3>1 DEF PointerRelation
    <3>2. CASE o.kind # "pointer"
      BY <3>2 DEF PointerRelation
    <3> QED
      BY <3>1, <3>2
  <2> QED
    BY <1>2, <1>8, <2>1 DEF Asked
<1>9. CASE t.kind = "reference"
  <2>1. ReferenceRelation(ts, rel, k, d, x) = ReferenceRelation(ts, rel, k, e, x)
    <3>1. CASE o.kind = "reference"
      BY <1>1, <1>4, <1>9, <3>1 DEF ReferenceRelation
    <3>2. CASE o.kind # "reference"
      BY <3>2 DEF ReferenceRelation
    <3> QED
      BY <3>1, <3>2
  <2> QED
    BY <1>2, <1>9, <2>1 DEF Asked
<1>10. CASE t.kind = "array"
  <2>1. ArrayRelation(ts, rel, k, d, x) = ArrayRelation(ts, rel, k, e, x)
    <3>1. CASE o.kind = "array"
      <4>1. t.count = u.count
        BY <1>10, AlikeParts
      <4> QED
        BY <1>1, <1>4, <1>10, <3>1, <4>1 DEF ArrayRelation
    <3>2. CASE o.kind # "array"
      BY <3>2 DEF ArrayRelation
    <3> QED
      BY <3>1, <3>2
  <2> QED
    BY <1>2, <1>10, <2>1 DEF Asked
<1>11. CASE t.kind = "tuple"
  <2>1. TupleRelation(ts, rel, k, d, x) = TupleRelation(ts, rel, k, e, x)
    BY <1>5, <1>11 DEF TupleRelation
  <2> QED
    BY <1>2, <1>11, <2>1 DEF Asked
<1>12. CASE t.kind = "union"
  <2>1. UnionRelation(ts, rel, k, d, x) = UnionRelation(ts, rel, k, e, x)
    <3>1. \A i \in 1..Len(ps), y \in 1..n : rel[<<k, ps[i], y>>] = rel[<<k, qs[i], y>>]
      BY <1>5, <1>12
    <3>2. DOMAIN ps = 1..Len(ps) /\ DOMAIN qs = 1..Len(ps) /\ Range(xs) \subseteq 1..n
      <4>1. Range(xs) \subseteq 1..n
        BY PartsRange
      <4>2. DOMAIN ps = 1..Len(ps) /\ DOMAIN qs = 1..Len(ps)
        BY <1>5, <1>12, PartsAre
      <4> QED
        BY <4>1, <4>2
    <3>3. \A v \in Range(ps) : \E w \in Range(qs) :
             \A y \in 1..n : rel[<<k, v, y>>] = rel[<<k, w, y>>]
      <4> SUFFICES ASSUME NEW v \in Range(ps)
                   PROVE  \E w \in Range(qs) : \A y \in 1..n : rel[<<k, v, y>>] = rel[<<k, w, y>>]
        OBVIOUS
      <4>1. PICK i \in 1..Len(ps) : v = ps[i]
        BY <3>2 DEF Range
      <4>2. qs[i] \in Range(qs) /\ \A y \in 1..n : rel[<<k, v, y>>] = rel[<<k, qs[i], y>>]
        BY <3>1, <3>2, <4>1 DEF Range
      <4> QED
        BY <4>2
    <3>4. \A w \in Range(qs) : \E v \in Range(ps) :
             \A y \in 1..n : rel[<<k, v, y>>] = rel[<<k, w, y>>]
      <4> SUFFICES ASSUME NEW w \in Range(qs)
                   PROVE  \E v \in Range(ps) : \A y \in 1..n : rel[<<k, v, y>>] = rel[<<k, w, y>>]
        OBVIOUS
      <4>1. PICK i \in 1..Len(ps) : w = qs[i]
        BY <3>2 DEF Range
      <4>2. ps[i] \in Range(ps) /\ \A y \in 1..n : rel[<<k, ps[i], y>>] = rel[<<k, w, y>>]
        BY <3>1, <3>2, <4>1 DEF Range
      <4> QED
        BY <4>2
    <3>5. \A y \in 1..n :
             (\E v \in Range(ps) : rel[<<k, v, y>>]) <=> \E v \in Range(qs) : rel[<<k, v, y>>]
      BY <3>3, <3>4
    <3>6. Elementwise(rel, k, ps, xs) = Elementwise(rel, k, qs, xs)
      BY <1>5, <1>12
    <3>7. (\A w \in Range(xs) : \E v \in Range(ps) : rel[<<k, v, w>>])
          <=> \A w \in Range(xs) : \E v \in Range(qs) : rel[<<k, v, w>>]
      BY <3>2, <3>5
    <3>8. (\E v \in Range(ps) : rel[<<k, v, x>>]) <=> \E v \in Range(qs) : rel[<<k, v, x>>]
      BY <3>5
    <3>9. (\A v \in Range(ps) : \E w \in Range(xs) : rel[<<k, v, w>>])
          <=> \A v \in Range(qs) : \E w \in Range(xs) : rel[<<k, v, w>>]
      <4>1. ASSUME \A v \in Range(ps) : \E w \in Range(xs) : rel[<<k, v, w>>], NEW v \in Range(qs)
            PROVE  \E w \in Range(xs) : rel[<<k, v, w>>]
        BY <3>2, <3>4, <4>1
      <4>2. ASSUME \A v \in Range(qs) : \E w \in Range(xs) : rel[<<k, v, w>>], NEW v \in Range(ps)
            PROVE  \E w \in Range(xs) : rel[<<k, v, w>>]
        BY <3>2, <3>3, <4>2
      <4> QED
        BY <4>1, <4>2
    <3>10. (\E v \in Range(ps), w \in Range(xs) : rel[<<k, v, w>>])
           <=> \E v \in Range(qs), w \in Range(xs) : rel[<<k, v, w>>]
      BY <3>2, <3>5
    <3> QED
      BY <3>6, <3>7, <3>8, <3>9, <3>10 DEF UnionRelation
  <2> QED
    BY <1>2, <1>12, <2>1 DEF Asked
<1>13. CASE t.kind = "function"
  <2>1. FunctionRelation(ts, rel, d, x) = FunctionRelation(ts, rel, e, x)
    <3>1. CASE o.kind = "function"
      <4>1. rel[<<"equals", t.ret, o.ret>>] = rel[<<"equals", u.ret, o.ret>>]
        <5>1. o.ret \in 1..n
          BY <3>1, PartsAre
        <5>2. <<t.ret, u.ret>> \in E /\ t.ret \in 1..(d - 1) /\ u.ret \in 1..(e - 1)
          BY <1>13, AlikeParts
        <5> QED
          BY <1>1, <1>3, <5>1, <5>2
      <4> QED
        BY <1>1, <1>5, <1>13, <4>1 DEF FunctionRelation
    <3>2. CASE o.kind # "function"
      BY <3>2 DEF FunctionRelation
    <3> QED
      BY <3>1, <3>2
  <2> QED
    BY <1>2, <1>13, <2>1 DEF Asked
<1>14. CASE t.kind = "struct"
  <2>1. RecordEquals(ts, rel, d, x) = RecordEquals(ts, rel, e, x)
    <3> DEFINE ms == t.methods
               ns == u.methods
               os == o.methods
    <3>1. /\ t.name = u.name /\ t.flags = u.flags /\ t.names = u.names
          /\ Len(ms) = Len(ns)
      BY <1>14, AlikeStructs
    <3>6. DOMAIN ms = 1..Len(ms) /\ DOMAIN ns = 1..Len(ms)
      BY <3>1, PartsAre
    <3>5. \A i \in 1..Len(ms) :
            /\ ms[i].name = ns[i].name
            /\ <<ms[i].signature, ns[i].signature>> \in E
            /\ ms[i].signature \in 1..(d - 1) /\ ns[i].signature \in 1..(e - 1)
      <4> SUFFICES ASSUME NEW i \in 1..Len(ms)
                   PROVE  /\ ms[i].name = ns[i].name
                          /\ <<ms[i].signature, ns[i].signature>> \in E
                          /\ ms[i].signature \in 1..(d - 1) /\ ns[i].signature \in 1..(e - 1)
        OBVIOUS
      <4> QED
        BY <1>14, AlikeStructs
    <3>2. Elementwise(rel, "equals", ps, xs) = Elementwise(rel, "equals", qs, xs)
      BY <1>1, <1>5, <1>14
    <3>3. CASE Len(ms) = Len(os)
      <4>1. \A i \in 1..Len(ms) : os[i].signature \in 1..n
        BY <3>3, PartsAre
      <4>2. \A i \in 1..Len(ms) : rel[<<"equals", ms[i].signature, os[i].signature>>]
                                  = rel[<<"equals", ns[i].signature, os[i].signature>>]
        BY <1>1, <1>3, <3>5, <4>1
      <4> QED
        BY <3>1, <3>2, <3>3, <3>5, <3>6, <4>2 DEF RecordEquals
    <3>4. CASE Len(ms) # Len(os)
      BY <3>1, <3>4 DEF RecordEquals
    <3> QED
      BY <3>3, <3>4
  <2> QED
    BY <1>2, <1>14, <2>1 DEF Asked, StructRelation
<1> QED
  BY <1>2, <1>6, <1>7, <1>8, <1>9, <1>10, <1>11, <1>12, <1>13, <1>14 DEF Kinds

\* y answers about a as about b.
AnswersSame(rel, y, a, b) == \A k \in Questions : rel[<<k, y, a>>] = rel[<<k, y, b>>]

LEMMA RightAnswers ==
  ASSUME NEW rel, NEW E, NEW m, NEW n, RightAlike(rel, E, m, n),
         NEW y \in 1..m, NEW a \in 1..n, NEW b \in 1..n, <<a, b>> \in E
  PROVE  AnswersSame(rel, y, a, b)
  BY DEF RightAlike, AnswersSame

\* ... and is answered about as the other.
LEMMA AskedAlike ==
  ASSUME NEW ts, WellFormed(ts), NoClasses(ts), NEW d \in 1..Len(ts), NEW e \in 1..Len(ts),
         NEW E, Alike(E, ts[d], ts[e]), NEW rel, NEW x \in 1..Len(ts),
         RightAlike(rel, E, x - 1, Len(ts)),
         <<d, e>> \in E, NEW k \in Questions
  PROVE  Asked(ts, rel, k, x, d) = Asked(ts, rel, k, x, e)
<1> DEFINE t == ts[d]
           u == ts[e]
           o == ts[x]
           n == Len(ts)
           ps == t.parts
           qs == u.parts
           xs == o.parts
<1>1. n \in Nat /\ 1..(d - 1) \subseteq 1..n /\ 1..(e - 1) \subseteq 1..n /\ "equals" \in Questions
  BY PartsAre DEF Questions
<1>2. u.kind = t.kind /\ o.kind \in Kinds /\ o.kind # "class"
  BY AlikeParts, PartsAre DEF NoClasses
<1>3. \A y \in 1..(x - 1), a \in 1..n, b \in 1..n :
        <<a, b>> \in E => \A l \in Questions : rel[<<l, y, a>>] = rel[<<l, y, b>>]
  BY DEF RightAlike
<1>4. ASSUME t.kind \in {"pointer", "reference", "array"}, o.kind = t.kind
      PROVE  \A l \in Questions : rel[<<l, xs[1], ps[1]>>] = rel[<<l, xs[1], qs[1]>>]
  <2>1. xs[1] \in 1..(x - 1)
    BY <1>4, PartsAre
  <2>2. <<ps[1], qs[1]>> \in E /\ ps[1] \in 1..n /\ qs[1] \in 1..n
    BY <1>1, <1>4, AlikeParts
  <2> QED
    BY <1>3, <2>1, <2>2
<1>5. ASSUME t.kind \in {"tuple", "union", "function", "struct"}
      PROVE  /\ Len(ps) = Len(qs)
             /\ \A i \in 1..Len(ps), l \in Questions, y \in 1..(x - 1) :
                  rel[<<l, y, ps[i]>>] = rel[<<l, y, qs[i]>>]
             /\ \A l \in Questions : Elementwise(rel, l, xs, ps) = Elementwise(rel, l, xs, qs)
  <2>1. Len(ps) = Len(qs) /\ \A i \in 1..Len(ps) :
          <<ps[i], qs[i]>> \in E /\ ps[i] \in 1..n /\ qs[i] \in 1..n
    BY <1>1, <1>5, AlikeParts
  <2>2. \A i \in 1..Len(ps), l \in Questions, y \in 1..(x - 1) :
          rel[<<l, y, ps[i]>>] = rel[<<l, y, qs[i]>>]
    <3> SUFFICES ASSUME NEW i \in 1..Len(ps), NEW l \in Questions, NEW y \in 1..(x - 1)
                 PROVE  rel[<<l, y, ps[i]>>] = rel[<<l, y, qs[i]>>]
      OBVIOUS
    <3>1. <<ps[i], qs[i]>> \in E /\ ps[i] \in 1..n /\ qs[i] \in 1..n
      BY <2>1
    <3> PICK a, b : a = ps[i] /\ b = qs[i]
      OBVIOUS
    <3>3. a \in 1..n /\ b \in 1..n /\ <<a, b>> \in E
      BY <3>1
    <3>2. AnswersSame(rel, y, a, b)
      BY <3>3, RightAnswers
    <3> QED
      BY <3>2 DEF AnswersSame
  <2>3. \A j \in 1..Len(xs) : xs[j] \in 1..(x - 1)
    BY PartsAre
  <2> HIDE DEF ps, qs, xs, n
  <2>4. ASSUME NEW l \in Questions PROVE Elementwise(rel, l, xs, ps) = Elementwise(rel, l, xs, qs)
    <3>1. \A i \in 1..Len(ps), j \in 1..Len(xs) :
            rel[<<l, xs[j], ps[i]>>] = rel[<<l, xs[j], qs[i]>>]
      BY <2>2, <2>3
    <3> QED
      BY SMTT(30), <2>1, <3>1, ElementwiseRight
  <2> QED
    BY <2>1, <2>2, <2>4
<1>6. CASE o.kind \in {"integer", "float", "bool", "char", "void", "auto"}
  <2>1. t.kind \in {"integer", "float"} => t.variant = u.variant
    BY AlikeParts
  <2>2. CASE o.kind = "integer"
    <3>1. IntegerRelation(ts, k, x, d) = IntegerRelation(ts, k, x, e)
      <4>1. CASE t.kind = "integer"
        BY <1>2, <2>1, <4>1 DEF IntegerRelation
      <4>2. CASE t.kind # "integer"
        BY <1>2, <4>2 DEF IntegerRelation
      <4> QED
        BY <4>1, <4>2
    <3> QED
      BY <2>2, <3>1 DEF Asked
  <2>3. CASE o.kind = "float"
    <3>1. FloatRelation(ts, k, x, d) = FloatRelation(ts, k, x, e)
      BY <1>2, <2>1 DEF FloatRelation
    <3> QED
      BY <2>3, <3>1 DEF Asked
  <2>4. CASE o.kind = "bool"
    BY <1>2, <2>4 DEF Asked, BoolRelation
  <2>5. CASE o.kind = "char"
    BY <1>2, <2>5 DEF Asked, CharRelation
  <2>6. CASE o.kind = "void"
    BY <1>2, <2>6 DEF Asked, VoidRelation
  <2>7. CASE o.kind = "auto"
    BY <1>2, <2>7 DEF Asked, AutoRelation
  <2> QED
    BY <1>6, <2>2, <2>3, <2>4, <2>5, <2>6, <2>7
<1>8. CASE o.kind = "pointer"
  <2>1. PointerRelation(ts, rel, k, x, d) = PointerRelation(ts, rel, k, x, e)
    <3>1. CASE t.kind = "pointer"
      BY <1>1, <1>2, <1>4, <1>8, <3>1 DEF PointerRelation
    <3>2. CASE t.kind # "pointer"
      BY <1>2, <3>2 DEF PointerRelation
    <3> QED
      BY <3>1, <3>2
  <2> QED
    BY <1>8, <2>1 DEF Asked
<1>9. CASE o.kind = "reference"
  <2>1. ReferenceRelation(ts, rel, k, x, d) = ReferenceRelation(ts, rel, k, x, e)
    <3>1. CASE t.kind = "reference"
      BY <1>1, <1>2, <1>4, <1>9, <3>1 DEF ReferenceRelation
    <3>2. CASE t.kind # "reference"
      BY <1>2, <3>2 DEF ReferenceRelation
    <3> QED
      BY <3>1, <3>2
  <2> QED
    BY <1>9, <2>1 DEF Asked
<1>10. CASE o.kind = "array"
  <2>1. ArrayRelation(ts, rel, k, x, d) = ArrayRelation(ts, rel, k, x, e)
    <3>1. CASE t.kind = "array"
      <4>1. t.count = u.count
        BY <3>1, AlikeParts
      <4> QED
        BY <1>1, <1>2, <1>4, <1>10, <3>1, <4>1 DEF ArrayRelation
    <3>2. CASE t.kind # "array"
      BY <1>2, <3>2 DEF ArrayRelation
    <3> QED
      BY <3>1, <3>2
  <2> QED
    BY <1>10, <2>1 DEF Asked
<1>11. CASE o.kind = "tuple"
  <2>1. TupleRelation(ts, rel, k, x, d) = TupleRelation(ts, rel, k, x, e)
    <3>1. CASE t.kind = "tuple"
      BY <1>2, <1>5, <3>1 DEF TupleRelation
    <3>2. CASE t.kind # "tuple"
      BY <1>2, <3>2 DEF TupleRelation
    <3> QED
      BY <3>1, <3>2
  <2> QED
    BY <1>11, <2>1 DEF Asked
<1>12. CASE o.kind = "union"
  <2>1. \A v \in Range(xs) : rel[<<k, v, d>>] = rel[<<k, v, e>>]
    <3>1. Range(xs) \subseteq 1..(x - 1)
      BY PartsRange
    <3> QED
      BY <1>3, <3>1
  <2>2. UnionRelation(ts, rel, k, x, d) = UnionRelation(ts, rel, k, x, e)
    <3>1. CASE t.kind = "union"
      <4>1. DOMAIN ps = 1..Len(ps) /\ DOMAIN qs = 1..Len(ps) /\ Range(xs) \subseteq 1..(x - 1)
        <5>1. DOMAIN ps = 1..Len(ps) /\ DOMAIN qs = 1..Len(ps)
          BY <1>5, <3>1, PartsAre
        <5>2. \A v \in Range(xs) : v \in 1..(x - 1)
          BY PartsRange
        <5> QED
          BY <5>1, <5>2
      <4>2. \A i \in 1..Len(ps), y \in 1..(x - 1) : rel[<<k, y, ps[i]>>] = rel[<<k, y, qs[i]>>]
        BY <1>5, <3>1
      <4>3. \A v \in Range(ps) : \E w \in Range(qs) :
              \A y \in 1..(x - 1) : rel[<<k, y, v>>] = rel[<<k, y, w>>]
        <5> SUFFICES ASSUME NEW v \in Range(ps)
                     PROVE  \E w \in Range(qs) :
                              \A y \in 1..(x - 1) : rel[<<k, y, v>>] = rel[<<k, y, w>>]
          OBVIOUS
        <5>1. PICK i \in 1..Len(ps) : v = ps[i]
          BY <4>1 DEF Range
        <5>2. qs[i] \in Range(qs) /\ \A y \in 1..(x - 1) : rel[<<k, y, v>>] = rel[<<k, y, qs[i]>>]
          BY <4>1, <4>2, <5>1 DEF Range
        <5> QED
          BY <5>2
      <4>9. \A w \in Range(qs) : \E v \in Range(ps) :
              \A y \in 1..(x - 1) : rel[<<k, y, v>>] = rel[<<k, y, w>>]
        <5> SUFFICES ASSUME NEW w \in Range(qs)
                     PROVE  \E v \in Range(ps) :
                              \A y \in 1..(x - 1) : rel[<<k, y, v>>] = rel[<<k, y, w>>]
          OBVIOUS
        <5>1. PICK i \in 1..Len(ps) : w = qs[i]
          BY <4>1 DEF Range
        <5>2. ps[i] \in Range(ps) /\ \A y \in 1..(x - 1) : rel[<<k, y, ps[i]>>] = rel[<<k, y, w>>]
          BY <4>1, <4>2, <5>1 DEF Range
        <5> QED
          BY <5>2
      <4>10. \A y \in 1..(x - 1) :
              (\E w \in Range(ps) : rel[<<k, y, w>>]) <=> \E w \in Range(qs) : rel[<<k, y, w>>]
        BY <4>3, <4>9
      <4>4. (\A w \in Range(ps) : \E v \in Range(xs) : rel[<<k, v, w>>])
            <=> \A w \in Range(qs) : \E v \in Range(xs) : rel[<<k, v, w>>]
        <5>1. ASSUME \A w \in Range(ps) : \E v \in Range(xs) : rel[<<k, v, w>>], NEW w \in Range(qs)
              PROVE  \E v \in Range(xs) : rel[<<k, v, w>>]
          BY <4>1, <4>9, <5>1
        <5>2. ASSUME \A w \in Range(qs) : \E v \in Range(xs) : rel[<<k, v, w>>], NEW w \in Range(ps)
              PROVE  \E v \in Range(xs) : rel[<<k, v, w>>]
          BY <4>1, <4>3, <5>2
        <5> QED
          BY <5>1, <5>2
      <4>5. (\A v \in Range(xs) : \E w \in Range(ps) : rel[<<k, v, w>>])
            <=> \A v \in Range(xs) : \E w \in Range(qs) : rel[<<k, v, w>>]
        BY <4>1, <4>10
      <4>6. (\E v \in Range(xs), w \in Range(ps) : rel[<<k, v, w>>])
            <=> \E v \in Range(xs), w \in Range(qs) : rel[<<k, v, w>>]
        BY <4>1, <4>10
      <4>7. Elementwise(rel, k, xs, ps) = Elementwise(rel, k, xs, qs)
        BY <1>5, <3>1
      <4>8. (\E v \in Range(xs) : rel[<<k, v, d>>]) <=> \E v \in Range(xs) : rel[<<k, v, e>>]
        BY <2>1
      <4> QED
        BY <1>2, <3>1, <4>4, <4>5, <4>6, <4>7, <4>8 DEF UnionRelation
    <3>2. CASE t.kind # "union"
      <4>1. (\E v \in Range(xs) : rel[<<k, v, d>>]) <=> \E v \in Range(xs) : rel[<<k, v, e>>]
        BY <2>1
      <4> QED
        BY <1>2, <3>2, <4>1 DEF UnionRelation
    <3> QED
      BY <3>1, <3>2
  <2> QED
    BY <1>12, <2>2 DEF Asked
<1>13. CASE o.kind = "function"
  <2>1. FunctionRelation(ts, rel, x, d) = FunctionRelation(ts, rel, x, e)
    <3>1. CASE t.kind = "function"
      <4>1. rel[<<"equals", o.ret, t.ret>>] = rel[<<"equals", o.ret, u.ret>>]
        <5>1. o.ret \in 1..(x - 1)
          BY <1>13, PartsAre
        <5>2. <<t.ret, u.ret>> \in E /\ t.ret \in 1..n /\ u.ret \in 1..n
          BY <1>1, <3>1, AlikeParts
        <5> PICK y, a, b : y = o.ret /\ a = t.ret /\ b = u.ret
          OBVIOUS
        <5>3. AnswersSame(rel, y, a, b)
          BY <5>1, <5>2, RightAnswers
        <5> QED
          BY <1>1, <5>3 DEF AnswersSame
      <4> QED
        BY <1>1, <1>2, <1>5, <3>1, <4>1 DEF FunctionRelation
    <3>2. CASE t.kind # "function"
      BY <1>2, <3>2 DEF FunctionRelation
    <3> QED
      BY <3>1, <3>2
  <2> QED
    BY <1>13, <2>1 DEF Asked
<1>14. CASE o.kind = "struct"
  <2>1. RecordEquals(ts, rel, x, d) = RecordEquals(ts, rel, x, e)
    <3> DEFINE ms == t.methods
               ns == u.methods
               os == o.methods
    <3>0. CASE t.kind # "struct"
      <4>1. t.kind # "class"
        BY DEF NoClasses
      <4> QED
        BY <1>2, <3>0, <4>1 DEF RecordEquals
    <3> SUFFICES ASSUME t.kind = "struct"
                 PROVE  RecordEquals(ts, rel, x, d) = RecordEquals(ts, rel, x, e)
      BY <3>0
    <3>1. /\ t.name = u.name /\ t.flags = u.flags /\ t.names = u.names
          /\ Len(ms) = Len(ns)
      BY AlikeStructs
    <3>5. \A i \in 1..Len(ms) :
            /\ ms[i].name = ns[i].name
            /\ <<ms[i].signature, ns[i].signature>> \in E
            /\ ms[i].signature \in 1..n /\ ns[i].signature \in 1..n
      <4> SUFFICES ASSUME NEW i \in 1..Len(ms)
                   PROVE  /\ ms[i].name = ns[i].name
                          /\ <<ms[i].signature, ns[i].signature>> \in E
                          /\ ms[i].signature \in 1..n /\ ns[i].signature \in 1..n
        OBVIOUS
      <4>1. /\ ms[i].name = ns[i].name
            /\ <<ms[i].signature, ns[i].signature>> \in E
            /\ ms[i].signature \in 1..(d - 1) /\ ns[i].signature \in 1..(e - 1)
        BY AlikeStructs
      <4> QED
        BY <1>1, <4>1
    <3>2. Elementwise(rel, "equals", xs, ps) = Elementwise(rel, "equals", xs, qs)
      BY <1>1, <1>5
    <3>3. CASE Len(ms) = Len(os)
      <4>1. DOMAIN os = 1..Len(ms) /\ \A i \in 1..Len(ms) : os[i].signature \in 1..(x - 1)
        BY <3>3, PartsAre
      <4>2. \A i \in 1..Len(ms) : rel[<<"equals", os[i].signature, ms[i].signature>>]
                                  = rel[<<"equals", os[i].signature, ns[i].signature>>]
        <5> SUFFICES ASSUME NEW i \in 1..Len(ms)
                     PROVE  rel[<<"equals", os[i].signature, ms[i].signature>>]
                            = rel[<<"equals", os[i].signature, ns[i].signature>>]
          OBVIOUS
        <5> PICK y, a, b : y = os[i].signature /\ a = ms[i].signature /\ b = ns[i].signature
          OBVIOUS
        <5>1. y \in 1..(x - 1)
          BY <4>1
        <5>3. a \in 1..n /\ b \in 1..n /\ <<a, b>> \in E
          BY <3>5
        <5>2. AnswersSame(rel, y, a, b)
          BY <5>1, <5>3, RightAnswers
        <5> QED
          BY <1>1, <5>2 DEF AnswersSame
      <4> QED
        BY <1>2, <3>1, <3>2, <3>3, <3>5, <4>1, <4>2 DEF RecordEquals
    <3>4. CASE Len(ms) # Len(os)
      BY <3>1, <3>4 DEF RecordEquals
    <3> QED
      BY <3>3, <3>4
  <2> QED
    BY <1>14, <2>1 DEF Asked, StructRelation
<1> QED
  BY <1>2, <1>6, <1>8, <1>9, <1>10, <1>11, <1>12, <1>13, <1>14 DEF Kinds

\* So equal types answer every question alike, and are answered about alike.
LEMMA SameAsked ==
  ASSUME NEW ts, WellFormed(ts), NoClasses(ts), NEW rel, rel = Relation(ts)
  PROVE  \A d \in 1..Len(ts), e \in 1..Len(ts) : <<d, e>> \in Same(ts) =>
           \A k \in Questions, x \in 1..Len(ts) :
             rel[<<k, d, x>>] = rel[<<k, e, x>>] /\ rel[<<k, x, d>>] = rel[<<k, x, e>>]
<1> DEFINE n == Len(ts)
           E == Same(ts)
           Left == {d \in Nat : d \in 1..n => \A e \in 1..n : <<d, e>> \in E =>
                      \A k \in Questions, x \in 1..n : rel[<<k, d, x>>] = rel[<<k, e, x>>]}
           Right == {x \in Nat : x \in 1..n => \A d \in 1..n, e \in 1..n : <<d, e>> \in E =>
                       \A k \in Questions : rel[<<k, x, d>>] = rel[<<k, x, e>>]}
<1>1. n \in Nat
  BY DEF WellFormed
<1>2. \A k \in Questions, d \in 1..n, e \in 1..n : rel[<<k, d, e>>] = Asked(ts, rel, k, d, e)
  BY RelationIs
<1>3. \A d \in 1..n, e \in 1..n : <<d, e>> \in E => Alike(E, ts[d], ts[e])
  BY SameIs
<1> HIDE DEF E
<1>4. ASSUME NEW d \in Nat, \A a \in 0..(d - 1) : a \in Left
      PROVE  d \in Left
  <2> SUFFICES ASSUME d \in 1..n, NEW e \in 1..n, <<d, e>> \in E,
                      NEW k \in Questions, NEW x \in 1..n
               PROVE  rel[<<k, d, x>>] = rel[<<k, e, x>>]
    OBVIOUS
  <2>1. ASSUME NEW a \in 1..(d - 1), NEW b \in 1..n, <<a, b>> \in E,
               NEW l \in Questions, NEW y \in 1..n
        PROVE  rel[<<l, a, y>>] = rel[<<l, b, y>>]
    <3>1. a \in 0..(d - 1) /\ a \in 1..n
      BY <1>1
    <3> QED
      BY <1>4, <2>1, <3>1
  <2>2. Alike(E, ts[d], ts[e])
    BY <1>3
  <2>3. Asked(ts, rel, k, d, x) = Asked(ts, rel, k, e, x)
    <3> HIDE DEF Left
    <3>1. LeftAlike(rel, E, d - 1, n)
      BY <2>1 DEF LeftAlike
    <3> QED
      BY <2>2, <3>1, AlikeAsked
  <2> QED
    BY <1>2, <2>3
<1>5. ASSUME NEW x \in Nat, \A y \in 0..(x - 1) : y \in Right
      PROVE  x \in Right
  <2> SUFFICES ASSUME x \in 1..n, NEW d \in 1..n, NEW e \in 1..n, <<d, e>> \in E,
                      NEW k \in Questions
               PROVE  rel[<<k, x, d>>] = rel[<<k, x, e>>]
    OBVIOUS
  <2>1. ASSUME NEW y \in 1..(x - 1), NEW a \in 1..n, NEW b \in 1..n, <<a, b>> \in E,
               NEW l \in Questions
        PROVE  rel[<<l, y, a>>] = rel[<<l, y, b>>]
    <3>1. y \in 0..(x - 1) /\ y \in 1..n
      BY <1>1
    <3> QED
      BY <1>5, <2>1, <3>1
  <2>2. Alike(E, ts[d], ts[e])
    BY <1>3
  <2>3. Asked(ts, rel, k, x, d) = Asked(ts, rel, k, x, e)
    <3> HIDE DEF Right
    <3>1. RightAlike(rel, E, x - 1, n)
      BY <2>1 DEF RightAlike
    <3> QED
      BY <2>2, <3>1, AskedAlike
  <2> QED
    BY <1>2, <2>3
<1>6. Nat \subseteq Left /\ Nat \subseteq Right
  <2> HIDE DEF Left, Right
  <2>1. Nat \subseteq Left
    BY <1>4, StrongInduction
  <2>2. Nat \subseteq Right
    BY <1>5, StrongInduction
  <2> QED
    BY <2>1, <2>2
<1> SUFFICES ASSUME NEW d \in 1..n, NEW e \in 1..n, <<d, e>> \in E,
                    NEW k \in Questions, NEW x \in 1..n
             PROVE  rel[<<k, d, x>>] = rel[<<k, e, x>>] /\ rel[<<k, x, d>>] = rel[<<k, x, e>>]
  BY DEF E
<1>7. d \in Left /\ x \in Right
  <2> HIDE DEF Left, Right
  <2> QED
    BY <1>1, <1>6
<1> QED
  BY <1>7

\* Of the parts of a type it is asked what they measure.
Measured(align, size, d) == \A p \in 1..(d - 1) : align[p] \in Alignments /\ size[p] \in Nat

LEMMA PartsLaid ==
  ASSUME NEW ts, WellFormed(ts), NEW d \in 1..Len(ts), NEW align, NEW size, Measured(align, size, d)
  PROVE  /\ Laid(size, align, ts[d].parts, Len(ts[d].parts))
         /\ \A i \in 1..Len(ts[d].parts) : size[ts[d].parts[i]] \in Nat
         /\ MaxAlignment(align, ts[d].parts) \in Alignments
<1> DEFINE ps == ts[d].parts
<1>1. DOMAIN ps = 1..Len(ps) /\ \A i \in 1..Len(ps) : ps[i] \in 1..(d - 1)
  BY PartsAre
<1>2. \A i \in 1..Len(ps) : size[ps[i]] \in Nat /\ align[ps[i]] \in Alignments
  BY <1>1 DEF Measured
<1>3. Laid(size, align, ps, Len(ps))
  BY <1>1, <1>2 DEF Laid
<1>4. \A p \in Range(ps) : align[p] \in Alignments
  <2> SUFFICES ASSUME NEW p \in Range(ps) PROVE align[p] \in Alignments
    OBVIOUS
  <2>1. PICK i \in 1..Len(ps) : p = ps[i]
    BY <1>1 DEF Range
  <2> QED
    BY <1>2, <2>1
<1>5. MaxAlignment(align, ps) \in Alignments
  BY <1>4, AlignmentFits
<1> QED
  BY <1>2, <1>3, <1>5

LEMMA EmptyParts ==
  ASSUME NEW ts, WellFormed(ts), NEW d \in 1..Len(ts)
  PROVE  ts[d].parts = <<>> <=> Len(ts[d].parts) = 0
<1>1. ts[d].parts \in Seq(Nat)
  BY DEF WellFormed, Built, Object
<1> QED
  BY <1>1, EmptySeq

\* Types that agree in all that the layout depends on take the same room.
LEMMA SizesAlike ==
  ASSUME NEW ts, WellFormed(ts), NEW d \in 1..Len(ts), NEW e \in 1..Len(ts),
         NEW align, NEW align2, LayoutAlike(ts, d, e, align, align2),
         NEW size, NEW size2, LayoutAlike(ts, d, e, size, size2), Measured(align, size, d)
  PROVE  SizeAt(ts, align, size, d) = SizeAt(ts, align2, size2, e)
<1> DEFINE t == ts[d]
           u == ts[e]
           ps == t.parts
           qs == u.parts
<1>1. t.kind = u.kind /\ t.kind \in Kinds
  BY PartsAre DEF LayoutAlike
<1>2. CASE t.kind \in {"integer", "float", "bool", "void", "auto", "char", "pointer", "reference",
                       "function", "class"}
  BY <1>1, <1>2 DEF SizeAt, LayoutAlike
<1>3. CASE t.kind = "array"
  BY <1>1, <1>3 DEF SizeAt, LayoutAlike
<1>4. ASSUME t.kind \in {"tuple", "union", "struct"}
      PROVE  /\ NaturalEnd(size, align, ps) = NaturalEnd(size2, align2, qs)
             /\ MaxAlignment(align, ps) = MaxAlignment(align2, qs)
             /\ UnionSize(size, ps) = UnionSize(size2, qs)
             /\ PackedSize(size, ps) = PackedSize(size2, qs)
             /\ ps = <<>> <=> qs = <<>>
  <2>1. SameSizes(align, ps, align2, qs) /\ SameSizes(size, ps, size2, qs)
    BY <1>4 DEF LayoutAlike
  <2>2. /\ Laid(size, align, ps, Len(ps))
        /\ \A i \in 1..Len(ps) : size[ps[i]] \in Nat
    <3>1. d \in 1..Len(ts) /\ Measured(align, size, d)
      OBVIOUS
    <3> QED
      BY <3>1, PartsLaid
  <2>3. UnionSize(size, ps) = UnionSize(size2, qs)
    BY <2>1, SameUnion
  <2>4. Len(ps) = Len(qs)
    BY <2>1 DEF SameSizes
  <2>5. ps = <<>> <=> qs = <<>>
    BY <2>4, EmptyParts
  <2>6. MaxAlignment(align, ps) = MaxAlignment(align2, qs)
    BY <2>1, SameAlignment
  <2>7. NaturalEnd(size, align, ps) = NaturalEnd(size2, align2, qs)
    BY <2>1, <2>2, SameEnd
  <2>8. PackedSize(size, ps) = PackedSize(size2, qs)
    BY <2>1, <2>2, SamePacked
  <2> QED
    BY <2>3, <2>5, <2>6, <2>7, <2>8
<1>5. CASE t.kind = "tuple"
  BY <1>1, <1>4, <1>5 DEF SizeAt, TupleSize
<1>6. CASE t.kind = "union"
  BY <1>1, <1>4, <1>6 DEF SizeAt
<1>7. CASE t.kind = "struct"
  <2>1. t.flags = u.flags
    BY <1>7 DEF LayoutAlike
  <2>2. NaturalSize(size, align, ps) = NaturalSize(size2, align2, qs)
    BY <1>4, <1>7 DEF NaturalSize
  <2> QED
    BY <1>1, <1>4, <1>7, <2>1, <2>2 DEF SizeAt
<1> QED
  BY <1>1, <1>2, <1>3, <1>5, <1>6, <1>7 DEF Kinds

LEMMA NaturalEndFits ==
  ASSUME NEW size, NEW align, NEW ps, NEW n \in Nat, Laid(size, align, ps, n)
  PROVE  NaturalEnd(size, align, ps) \in Nat
<1>1. PICK e \in EndsOf(size, align, ps, n) : TRUE
  BY EndIs
<1>2. e \in [0..n -> Nat] /\ NaturalEnd(size, align, ps) = e[n]
  BY <1>1 DEF EndsOf
<1> QED
  BY <1>2

LEMMA PackedFits ==
  ASSUME NEW ts, WellFormed(ts), NEW d \in 1..Len(ts), NEW size,
         \A i \in 1..Len(ts[d].parts) : size[ts[d].parts[i]] \in Nat
  PROVE  PackedSize(size, ts[d].parts) \in Nat
<1> DEFINE ps == ts[d].parts
<1> PICK n : n = Len(ps)
  OBVIOUS
<1> DEFINE g == [i \in 1..n |-> size[ps[i]]]
<1>1. n \in Nat /\ DOMAIN ps = 1..n
  BY PartsAre
<1>2. CASE n = 0
  <2>1. ps = <<>>
    BY <1>2, EmptyParts
  <2> QED
    BY <2>1 DEF PackedSize
<1>3. CASE n # 0
  <2>1. Numbers(g, n)
    BY DEF Numbers
  <2> HIDE DEF ps, g
  <2>2. PackedSize(size, ps) = Total(g, n) /\ Total(g, n) \in Nat
    BY <1>1, <1>3, <2>1, PackedIs DEF g
  <2> QED
    BY <2>2 DEF ps
<1> QED
  BY <1>2, <1>3

LEMMA SizeAtFits ==
  ASSUME NEW ts, WellFormed(ts), NEW d \in 1..Len(ts), NEW align, NEW size, Measured(align, size, d)
  PROVE  SizeAt(ts, align, size, d) \in Nat
<1> DEFINE t == ts[d]
           ps == t.parts
<1>1. t.kind \in Kinds /\ PointerSize \in Nat /\ Alignments \subseteq Nat
  BY PartsAre DEF PointerSize, Alignments
<1>2. Built(t, d - 1)
  BY DEF WellFormed
<1>3. CASE t.kind = "integer"
  <2>1. t.variant \in DOMAIN IntegerBytes
    BY <1>2, <1>3 DEF Built
  <2>2. IntegerBytes[t.variant] \in Nat
    BY <1>1, <2>1, BytesAre
  <2> QED
    BY <1>3, <2>2 DEF SizeAt
<1>4. CASE t.kind = "float"
  <2>1. t.variant \in DOMAIN FloatBytes
    BY <1>2, <1>4 DEF Built
  <2>2. FloatBytes[t.variant] \in Nat
    BY <1>1, <2>1, BytesAre
  <2> QED
    BY <1>4, <2>2 DEF SizeAt
<1>5. CASE t.kind \in {"bool", "void", "auto", "char", "pointer", "reference", "function", "class"}
  BY <1>1, <1>5 DEF SizeAt
<1>6. CASE t.kind = "array"
  <2>1. size[ps[1]] \in Nat
    BY <1>6, PartsAre DEF Measured
  <2>2. t.count \in Nat
    BY <1>2 DEF Built, Object
  <2>3. size[ps[1]] * t.count \in Nat
    BY <2>1, <2>2
  <2> HIDE DEF t, ps
  <2>4. SizeAt(ts, align, size, d) = IF t.count = 0 THEN PointerSize ELSE size[ps[1]] * t.count
    BY <1>6 DEF SizeAt, t, ps
  <2> QED
    BY <1>1, <2>3, <2>4
<1>7. /\ Laid(size, align, ps, Len(ps)) /\ MaxAlignment(align, ps) \in Alignments
      /\ \A i \in 1..Len(ps) : size[ps[i]] \in Nat
      /\ Len(ps) \in Nat /\ DOMAIN ps = 1..Len(ps)
  BY PartsLaid, PartsAre
<1>8. AlignUp(NaturalEnd(size, align, ps), MaxAlignment(align, ps)) \in Nat
  <2>1. NaturalEnd(size, align, ps) \in Nat
    BY <1>7, NaturalEndFits
  <2> QED
    BY <1>7, <2>1, AlignUpIs
<1>9. CASE t.kind = "tuple"
  BY <1>8, <1>9 DEF SizeAt, TupleSize
<1>10. CASE t.kind = "union"
  <2>1. Len(ps) \in Nat \ {0}
    BY <1>2, <1>7, <1>10 DEF Built
  <2>2. UnionSize(size, ps) \in Nat
    BY <1>7, <2>1, UnionFits
  <2> QED
    BY <1>10, <2>2 DEF SizeAt
<1>11. CASE t.kind = "struct"
  <2>1. NaturalSize(size, align, ps) \in Nat
    BY <1>8 DEF NaturalSize
  <2>2. PackedSize(size, ps) \in Nat
    BY <1>7, PackedFits
  <2> QED
    BY <1>11, <2>1, <2>2 DEF SizeAt
<1> QED
  BY <1>1, <1>3, <1>4, <1>5, <1>6, <1>9, <1>10, <1>11 DEF Kinds

LEMMA LikeItself ==
  ASSUME NEW ts, WellFormed(ts), NEW d \in 1..Len(ts), NEW f, NEW g,
         \A p \in 1..(d - 1) : f[p] = g[p]
  PROVE  LayoutAlike(ts, d, d, f, g)
<1> DEFINE ps == ts[d].parts
<1>1. DOMAIN ps = 1..Len(ps) /\ Len(ps) \in Nat /\ \A i \in 1..Len(ps) : ps[i] \in 1..(d - 1)
  BY PartsAre
<1>2. SameSizes(f, ps, g, ps)
  BY <1>1 DEF SameSizes, Tally
<1>3. ts[d].kind = "array" => f[ps[1]] = g[ps[1]]
  BY PartsAre
<1> QED
  BY <1>2, <1>3 DEF LayoutAlike

\* The alignments of all types
LEMMA AlignmentIs ==
  ASSUME NEW ts, WellFormed(ts), NEW align, align = Alignment(ts)
  PROVE  \A d \in 1..Len(ts) : align[d] = AlignAt(ts, align, d) /\ align[d] \in Alignments
<1> DEFINE D == DOMAIN ts
           Body(f) == [d \in DOMAIN ts |-> AlignAt(ts, f, d)]
           P(f) == f = Body(f)
           h == CHOOSE f : P(f)
           n == Len(ts)
           F == [x \in 1..n |-> [f \in [1..n -> Alignments] |-> AlignAt(ts, f, x)]]
<1>1. n \in Nat /\ D = 1..n
  BY DEF WellFormed
<1>2. align = h
  BY DEF Alignment
<1>3. \A f : \A x \in D : Body(f)[x] = AlignAt(ts, f, x)
  OBVIOUS
<1>4. \A f : Body(f) = [x \in D |-> Body(f)[x]]
  OBVIOUS
<1>5. \A x \in 1..n : \A f \in [1..n -> Alignments] : F[x][f] = AlignAt(ts, f, x)
  OBVIOUS
<1> HIDE DEF F, Body, D, P, h
<1>6. Local(F, n, Alignments)
  <2> SUFFICES ASSUME NEW x \in 1..n, NEW f \in [1..n -> Alignments],
                      NEW g \in [1..n -> Alignments],
                      \A y \in 1..(x - 1) : f[y] = g[y]
               PROVE  F[x][f] = F[x][g]
    BY DEF Local
  <2>1. LayoutAlike(ts, x, x, f, g)
    BY LikeItself
  <2>2. ts[x].kind \in Kinds
    BY PartsAre
  <2>3. AlignAt(ts, f, x) = AlignAt(ts, g, x)
    BY <2>1, <2>2, AlignmentsAlike
  <2> QED
    BY <1>5, <2>3
<1>7. Into(F, n, Alignments)
  <2> SUFFICES ASSUME NEW x \in 1..n, NEW f \in [1..n -> Alignments]
               PROVE  F[x][f] \in Alignments
    BY DEF Into
  <2>1. \A y \in 1..(x - 1) : f[y] \in Alignments
    BY <1>1
  <2>2. AlignAt(ts, f, x) \in Alignments
    BY <2>1, AlignAtFits
  <2> QED
    BY <1>5, <2>2
<1>8. PICK f \in CoursesOf(n, Alignments, F) : TRUE
  <2>1. 1 \in Alignments
    BY DEF Alignments
  <2> HIDE DEF n
  <2> QED
    BY <1>1, <1>6, <1>7, <2>1, CourseExists
<1>9. f \in [1..n -> Alignments] /\ \A x \in 1..n : f[x] = F[x][f]
  BY <1>8 DEF CoursesOf
<1>10. P(f)
  <2>1. \A x \in D : f[x] = Body(f)[x]
    BY <1>1, <1>3, <1>5, <1>9
  <2>2. f = [x \in D |-> f[x]]
    BY <1>1, <1>9
  <2> QED
    BY <1>4, <2>1, <2>2 DEF P
<1>11. P(h)
  BY <1>10 DEF h
<1>12. \A x \in 1..n : align[x] = AlignAt(ts, align, x)
  <2>1. h = Body(h)
    BY <1>11 DEF P
  <2> QED
    BY <1>1, <1>2, <1>3, <2>1
<1> DEFINE S == {x \in Nat : x \in 1..n => align[x] \in Alignments}
<1>13. ASSUME NEW x \in Nat, \A y \in 0..(x - 1) : y \in S
       PROVE  x \in S
  <2> SUFFICES ASSUME x \in 1..n PROVE align[x] \in Alignments
    OBVIOUS
  <2>1. \A y \in 1..(x - 1) : align[y] \in Alignments
    <3> SUFFICES ASSUME NEW y \in 1..(x - 1) PROVE align[y] \in Alignments
      OBVIOUS
    <3>1. y \in 0..(x - 1) /\ y \in 1..n
      BY <1>1
    <3> QED
      BY <1>13, <3>1
  <2>2. AlignAt(ts, align, x) \in Alignments
    <3> HIDE DEF S
    <3> QED
      BY <2>1, AlignAtFits
  <2> QED
    BY <1>12, <2>2
<1>14. Nat \subseteq S
  <2> HIDE DEF S
  <2> QED
    BY <1>13, StrongInduction
<1> QED
  BY <1>1, <1>12, <1>14

\* The sizes of all types
LEMMA SizeIs ==
  ASSUME NEW ts, WellFormed(ts), NEW align, align = Alignment(ts), NEW size, size = StaticSize(ts)
  PROVE  \A d \in 1..Len(ts) : size[d] = SizeAt(ts, align, size, d) /\ size[d] \in Nat
<1> DEFINE D == DOMAIN ts
           Body(f) == [d \in DOMAIN ts |-> SizeAt(ts, Alignment(ts), f, d)]
           P(f) == f = Body(f)
           h == CHOOSE f : P(f)
           n == Len(ts)
           F == [x \in 1..n |-> [f \in [1..n -> Nat] |-> SizeAt(ts, align, f, x)]]
<1>1. n \in Nat /\ D = 1..n
  BY DEF WellFormed
<1>2. size = h
  BY DEF StaticSize
<1>3. \A f : \A x \in D : Body(f)[x] = SizeAt(ts, align, f, x)
  OBVIOUS
<1>4. \A f : Body(f) = [x \in D |-> Body(f)[x]]
  OBVIOUS
<1>5. \A x \in 1..n : \A f \in [1..n -> Nat] : F[x][f] = SizeAt(ts, align, f, x)
  OBVIOUS
<1>0. \A x \in 1..n : align[x] \in Alignments
  BY AlignmentIs
<1> HIDE DEF F, Body, D, P, h
<1>6. Local(F, n, Nat)
  <2> SUFFICES ASSUME NEW x \in 1..n, NEW f \in [1..n -> Nat], NEW g \in [1..n -> Nat],
                      \A y \in 1..(x - 1) : f[y] = g[y]
               PROVE  F[x][f] = F[x][g]
    BY DEF Local
  <2>1. LayoutAlike(ts, x, x, f, g)
    BY LikeItself
  <2>2. LayoutAlike(ts, x, x, align, align)
    BY LikeItself
  <2>3. Measured(align, f, x)
    BY <1>0, <1>1 DEF Measured
  <2>4. SizeAt(ts, align, f, x) = SizeAt(ts, align, g, x)
    BY <2>1, <2>2, <2>3, SizesAlike
  <2> QED
    BY <1>5, <2>4
<1>7. Into(F, n, Nat)
  <2> SUFFICES ASSUME NEW x \in 1..n, NEW f \in [1..n -> Nat]
               PROVE  F[x][f] \in Nat
    BY DEF Into
  <2>1. Measured(align, f, x)
    BY <1>0, <1>1 DEF Measured
  <2>2. SizeAt(ts, align, f, x) \in Nat
    BY <2>1, SizeAtFits
  <2> QED
    BY <1>5, <2>2
<1>8. PICK f \in CoursesOf(n, Nat, F) : TRUE
  <2> HIDE DEF n
  <2>1. CoursesOf(n, Nat, F) # {}
    BY <1>1, <1>6, <1>7, CourseExists, 0 \in Nat
  <2> QED
    BY <2>1
<1>9. f \in [1..n -> Nat] /\ \A x \in 1..n : f[x] = F[x][f]
  BY <1>8 DEF CoursesOf
<1>10. P(f)
  <2>1. \A x \in D : f[x] = Body(f)[x]
    BY <1>1, <1>3, <1>5, <1>9
  <2>2. f = [x \in D |-> f[x]]
    BY <1>1, <1>9
  <2> QED
    BY <1>4, <2>1, <2>2 DEF P
<1>11. P(h)
  BY <1>10 DEF h
<1>12. \A x \in 1..n : size[x] = SizeAt(ts, align, size, x)
  <2>1. h = Body(h)
    BY <1>11 DEF P
  <2> QED
    BY <1>1, <1>2, <1>3, <2>1
<1> DEFINE S == {x \in Nat : x \in 1..n => size[x] \in Nat}
<1>13. ASSUME NEW x \in Nat, \A y \in 0..(x - 1) : y \in S
       PROVE  x \in S
  <2> SUFFICES ASSUME x \in 1..n PROVE size[x] \in Nat
    OBVIOUS
  <2>1. \A y \in 1..(x - 1) : size[y] \in Nat
    <3> SUFFICES ASSUME NEW y \in 1..(x - 1) PROVE size[y] \in Nat
      OBVIOUS
    <3>1. y \in 0..(x - 1) /\ y \in 1..n
      BY <1>1
    <3> QED
      BY <1>13, <3>1
  <2>2. SizeAt(ts, align, size, x) \in Nat
    <3> HIDE DEF S
    <3>1. Measured(align, size, x)
      BY <1>0, <1>1, <2>1 DEF Measured
    <3> QED
      BY <3>1, SizeAtFits
  <2> QED
    BY <1>12, <2>2
<1>14. Nat \subseteq S
  <2> HIDE DEF S
  <2> QED
    BY <1>13, StrongInduction
<1> QED
  BY <1>1, <1>12, <1>14

\* Equal types have one layout.
LEMMA SameLayout ==
  ASSUME NEW ts, WellFormed(ts), NoClasses(ts), NEW align, align = Alignment(ts),
         NEW size, size = StaticSize(ts)
  PROVE  \A d \in 1..Len(ts), e \in 1..Len(ts) :
           <<d, e>> \in Same(ts) => align[d] = align[e] /\ size[d] = size[e]
<1> DEFINE n == Len(ts)
           E == Same(ts)
           S == {d \in Nat : d \in 1..n => \A e \in 1..n :
                   <<d, e>> \in E => align[d] = align[e] /\ size[d] = size[e]}
<1>1. n \in Nat
  BY DEF WellFormed
<1>2. ASSUME NEW d \in Nat, \A a \in 0..(d - 1) : a \in S
      PROVE  d \in S
  <2> SUFFICES ASSUME d \in 1..n, NEW e \in 1..n, <<d, e>> \in E
               PROVE  align[d] = align[e] /\ size[d] = size[e]
    OBVIOUS
  <2> DEFINE ps == ts[d].parts
             qs == ts[e].parts
  <2>1. Alike(E, ts[d], ts[e])
    BY SameIs
  <2>2. ASSUME NEW a \in 1..(d - 1), NEW b \in 1..(e - 1), <<a, b>> \in E
        PROVE  align[a] = align[b] /\ size[a] = size[b]
    <3>1. a \in 0..(d - 1) /\ a \in 1..n /\ b \in 1..n
      BY <1>1
    <3> QED
      BY <1>2, <2>2, <3>1
  <2> HIDE DEF S, E
  <2>3. /\ ts[e].kind = ts[d].kind
        /\ ts[d].kind \in {"integer", "float"} => ts[d].variant = ts[e].variant
        /\ ts[d].kind = "array" => ts[d].count = ts[e].count
    BY <2>1, AlikeParts
  <2>4. ts[d].kind = "array" => align[ps[1]] = align[qs[1]] /\ size[ps[1]] = size[qs[1]]
    <3>1. ts[d].kind = "array" => /\ <<ps[1], qs[1]>> \in E
                                  /\ ps[1] \in 1..(d - 1) /\ qs[1] \in 1..(e - 1)
      BY <2>1, AlikeParts
    <3> QED
      BY <2>2, <3>1
  <2>5. ASSUME ts[d].kind \in {"tuple", "union", "struct"}
        PROVE  SameSizes(align, ps, align, qs) /\ SameSizes(size, ps, size, qs)
    <3>1. /\ Len(ps) = Len(qs)
          /\ \A i \in 1..Len(ps) :
               <<ps[i], qs[i]>> \in E /\ ps[i] \in 1..(d - 1) /\ qs[i] \in 1..(e - 1)
      BY <2>1, <2>5, AlikeParts
    <3>2. DOMAIN ps = 1..Len(ps) /\ DOMAIN qs = 1..Len(qs) /\ Len(ps) \in Nat
      BY PartsAre
    <3>3. \A i \in 1..Len(ps) : align[ps[i]] = align[qs[i]] /\ size[ps[i]] = size[qs[i]]
      BY <2>2, <3>1
    <3> QED
      BY <3>1, <3>2, <3>3 DEF SameSizes, Tally
  <2>6. ts[d].kind = "struct" => ts[d].flags = ts[e].flags
    BY <2>1, AlikeStructs
  <2>7. LayoutAlike(ts, d, e, align, align) /\ LayoutAlike(ts, d, e, size, size)
    BY <2>3, <2>4, <2>5, <2>6 DEF LayoutAlike
  <2>8. align[d] = align[e]
    <3>1. AlignAt(ts, align, d) = AlignAt(ts, align, e)
      BY <2>7, AlignmentsAlike, PartsAre
    <3> QED
      BY <3>1, AlignmentIs
  <2>9. size[d] = size[e]
    <3>1. Measured(align, size, d)
      <4>1. \A p \in 1..n : align[p] \in Alignments /\ size[p] \in Nat
        BY AlignmentIs, SizeIs
      <4> QED
        BY <1>1, <4>1 DEF Measured
    <3>2. SizeAt(ts, align, size, d) = SizeAt(ts, align, size, e)
      BY <2>7, <3>1, SizesAlike
    <3> QED
      BY <3>2, SizeIs
  <2> QED
    BY <2>8, <2>9
<1>3. Nat \subseteq S
  <2> HIDE DEF S
  <2> QED
    BY <1>2, StrongInduction
<1> QED
  BY <1>1, <1>3

LEMMA EqualsIs ==
  ASSUME NEW ts, NEW rel, rel = Relation(ts)
  PROVE  \A d \in 1..Len(ts), e \in 1..Len(ts) : rel[<<"equals", d, e>>] <=> <<d, e>> \in Same(ts)
  BY DEF Same

LEMMA Interchangeable ==
  ASSUME IInv
  PROVE  EqualTypesInterchangeable
<1> PICK ts : ts = types
  OBVIOUS
<1>1. WellFormed(ts) /\ Ids = 1..Len(ts)
  BY DEF IInv, WellFormed, Ids
<1> SUFFICES ASSUME OfKind("class") = {}, NEW d \in 1..Len(ts), NEW e \in 1..Len(ts),
                    Rel[<<"equals", d, e>>]
             PROVE  /\ Rel[<<"equals", e, d>>]
                    /\ Size[d] = Size[e] /\ Align[d] = Align[e]
                    /\ \A k \in Questions, x \in 1..Len(ts) :
                         Rel[<<k, d, x>>] = Rel[<<k, e, x>>] /\ Rel[<<k, x, d>>] = Rel[<<k, x, e>>]
  BY <1>1 DEF EqualTypesInterchangeable
<1>2. NoClasses(ts)
  BY <1>1 DEF OfKind, NoClasses
<1>3. Rel = Relation(ts) /\ Size = StaticSize(ts) /\ Align = Alignment(ts)
  BY DEF Rel, Size, Align
<1>4. <<d, e>> \in Same(ts)
  BY <1>3, EqualsIs
<1>5. Rel[<<"equals", e, d>>]
  BY <1>1, <1>3, <1>4, EqualsIs, SameIsSymmetric
<1>6. Size[d] = Size[e] /\ Align[d] = Align[e]
  BY <1>1, <1>2, <1>3, <1>4, SameLayout
<1>7. \A k \in Questions, x \in 1..Len(ts) :
        Rel[<<k, d, x>>] = Rel[<<k, e, x>>] /\ Rel[<<k, x, d>>] = Rel[<<k, x, e>>]
  BY <1>1, <1>2, <1>3, <1>4, SameAsked
<1> QED
  BY <1>5, <1>6, <1>7

-----------------------------------------------------------------------------
(* Conversions and calls.                                                   *)

NoUnions(ts) == \A d \in 1..Len(ts) : ts[d].kind # "union"

LEMMA BasesComeFirst ==
  ASSUME NEW ts, WellFormed(ts), NEW x \in 1..Len(ts), NEW b, IsBaseOf(ts, b, x)
  PROVE  b \in 1..(x - 1)
<1> PICK line : line = [y \in 1..Len(ts) |-> Chain(ts, y)]
  OBVIOUS
<1>1. b \in Above(line, x)
  BY BasesAre
<1>2. PICK i \in 2..Len(line[x]) : b = line[x][i]
  BY <1>1 DEF Above
<1>3. IsLine(line, [y \in 1..Len(ts) |-> ts[y].base], Len(ts))
  BY LinesAre
<1>4. \A j \in 2..Len(line[x]) : line[x][j] \in 1..(x - 1)
  BY <1>3 DEF IsLine
<1> QED
  BY <1>2, <1>4

\* Two types of which each converts to the other implicitly: each kind of type
LEMMA OneWayAsked ==
  ASSUME NEW ts, WellFormed(ts), NoUnions(ts), NEW rel, rel = Relation(ts), NEW E, E = Same(ts),
         NEW d \in 1..Len(ts), NEW e \in 1..Len(ts),
         \A p \in 1..(d - 1), q \in 1..Len(ts) :
           rel[<<"implicit", p, q>>] /\ rel[<<"implicit", q, p>>] => <<p, q>> \in E,
         Asked(ts, rel, "implicit", d, e), Asked(ts, rel, "implicit", e, d)
  PROVE  <<d, e>> \in E
<1> DEFINE t == ts[d]
           u == ts[e]
           ps == t.parts
           qs == u.parts
           n == Len(ts)
<1>1. n \in Nat /\ t.kind \in Kinds /\ u.kind \in Kinds /\ t.kind # "union" /\ u.kind # "union"
  BY PartsAre DEF NoUnions
<1>2. /\ \A x \in 1..n, y \in 1..n : rel[<<"equals", x, y>>] <=> <<x, y>> \in E
      /\ \A x \in 1..n, y \in 1..n : <<x, y>> \in E <=> <<y, x>> \in E
  BY EqualsIs, SameIsSymmetric
<1>3. \A p \in 1..(d - 1), q \in 1..n :
        /\ rel[<<"equals", p, q>>] \/ rel[<<"implicit", p, q>>]
        /\ rel[<<"equals", q, p>>] \/ rel[<<"implicit", q, p>>]
        => <<p, q>> \in E
  <2>1. 1..(d - 1) \subseteq 1..n
    BY <1>1
  <2> QED
    BY <1>2, <2>1
<1>4. Alike(E, t, u) => <<d, e>> \in E
  BY SameIs
<1>5. CASE t.kind = "integer"
  <2>1. IntegerRelation(ts, "implicit", d, e)
    BY <1>5 DEF Asked
  <2>2. u.kind # "float"
    <3>1. CASE u.kind = "float"
      BY <1>5, <3>1 DEF Asked, FloatRelation
    <3> QED
      BY <3>1
  <2>3. u.kind = "integer" /\ IntegerBytes[t.variant] < IntegerBytes[u.variant]
    BY <2>1, <2>2 DEF IntegerRelation
  <2>4. IntegerBytes[u.variant] < IntegerBytes[t.variant]
    BY <1>5, <2>3 DEF Asked, IntegerRelation
  <2>5. IntegerBytes[t.variant] \in Nat /\ IntegerBytes[u.variant] \in Nat
    <3>1. t.variant \in DOMAIN IntegerBytes /\ u.variant \in DOMAIN IntegerBytes
      BY <1>5, <2>3 DEF WellFormed, Built
    <3> QED
      BY <3>1, BytesAre DEF Alignments
  <2> QED
    BY <2>3, <2>4, <2>5
<1>6. CASE t.kind = "float"
  <2>1. u.kind = "float" /\ u.variant = "f64"
    BY <1>6 DEF Asked, FloatRelation
  <2>2. u.variant = "f32"
    BY <1>6, <2>1 DEF Asked, FloatRelation
  <2> QED
    BY <2>1, <2>2
<1>7. CASE t.kind \in {"bool", "void", "auto"}
  BY <1>7 DEF Asked, BoolRelation, VoidRelation, AutoRelation
<1>8. CASE t.kind = "char"
  <2>1. u.kind = "integer"
    BY <1>8 DEF Asked, CharRelation
  <2> QED
    BY <1>8, <2>1 DEF Asked, IntegerRelation
<1>9. CASE t.kind = "pointer"
  <2>1. u.kind = "pointer"
    BY <1>9 DEF Asked, PointerRelation
  <2>2. ps[1] \in 1..(d - 1) /\ qs[1] \in 1..n
    BY <1>9, <2>1, PartsAre
  <2>3. rel[<<"equals", ps[1], qs[1]>>] \/ rel[<<"implicit", ps[1], qs[1]>>]
    BY <1>9 DEF Asked, PointerRelation
  <2>4. rel[<<"equals", qs[1], ps[1]>>] \/ rel[<<"implicit", qs[1], ps[1]>>]
    BY <2>1 DEF Asked, PointerRelation
  <2>5. <<ps[1], qs[1]>> \in E
    BY <1>3, <2>2, <2>3, <2>4
  <2> QED
    BY <1>4, <1>9, <2>1, <2>5 DEF Alike
<1>10. CASE t.kind = "reference"
  <2>1. u.kind = "reference"
    BY <1>10 DEF Asked, ReferenceRelation
  <2>2. ps[1] \in 1..(d - 1) /\ qs[1] \in 1..n
    BY <1>10, <2>1, PartsAre
  <2>3. rel[<<"equals", ps[1], qs[1]>>] \/ rel[<<"implicit", ps[1], qs[1]>>]
    BY <1>10 DEF Asked, ReferenceRelation
  <2>4. rel[<<"equals", qs[1], ps[1]>>] \/ rel[<<"implicit", qs[1], ps[1]>>]
    BY <2>1 DEF Asked, ReferenceRelation
  <2>5. <<ps[1], qs[1]>> \in E
    BY <1>3, <2>2, <2>3, <2>4
  <2> QED
    BY <1>4, <1>10, <2>1, <2>5 DEF Alike
<1>11. CASE t.kind = "array"
  <2>1. u.kind = "array" /\ t.count > 0 /\ u.count = 0
    BY <1>11 DEF Asked, ArrayRelation
  <2>2. u.count > 0
    BY <2>1 DEF Asked, ArrayRelation
  <2> QED
    BY <2>1, <2>2
<1>12. CASE t.kind = "tuple"
  <2>1. u.kind = "tuple" /\ Elementwise(rel, "implicit", ps, qs)
    BY <1>12 DEF Asked, TupleRelation
  <2>2. Elementwise(rel, "implicit", qs, ps)
    BY <2>1 DEF Asked, TupleRelation
  <2>3. Len(ps) = Len(qs)
    BY <2>1 DEF Elementwise
  <2>4. ASSUME NEW i \in 1..Len(ps) PROVE <<ps[i], qs[i]>> \in E
    <3>1. ps[i] \in 1..(d - 1) /\ qs[i] \in 1..n
      BY <2>3, PartsAre
    <3>2. rel[<<"implicit", ps[i], qs[i]>>] /\ rel[<<"implicit", qs[i], ps[i]>>]
      BY <2>1, <2>2, <2>3 DEF Elementwise
    <3> QED
      BY <1>3, <3>1, <3>2
  <2>5. PartsIn(E, ps, qs)
    BY <2>3, <2>4 DEF PartsIn
  <2> QED
    BY <1>4, <1>12, <2>1, <2>5 DEF Alike
<1>13. rel[<<"equals", d, e>>] = Asked(ts, rel, "equals", d, e)
       /\ rel[<<"equals", e, d>>] = Asked(ts, rel, "equals", e, d)
  BY RelationIs DEF Questions
<1>14. CASE t.kind = "function"
  <2>1. Asked(ts, rel, "equals", d, e)
    BY <1>14 DEF Asked
  <2> QED
    BY <1>2, <1>13, <2>1
<1>15. CASE t.kind = "struct"
  BY <1>15 DEF Asked, StructRelation
<1>16. CASE t.kind = "class"
  <2>1. u.kind = "class" /\ (RecordEquals(ts, rel, d, e) \/ IsBaseOf(ts, e, d))
    BY <1>16 DEF Asked, ClassRelation
  <2>2. RecordEquals(ts, rel, e, d) \/ IsBaseOf(ts, d, e)
    BY <2>1 DEF Asked, ClassRelation
  <2>3. CASE RecordEquals(ts, rel, d, e)
    <3>1. Asked(ts, rel, "equals", d, e)
      BY <1>16, <2>3 DEF Asked, ClassRelation
    <3> QED
      BY <1>2, <1>13, <3>1
  <2>4. CASE RecordEquals(ts, rel, e, d)
    <3>1. Asked(ts, rel, "equals", e, d)
      BY <2>1, <2>4 DEF Asked, ClassRelation
    <3> QED
      BY <1>2, <1>13, <3>1
  <2>5. CASE IsBaseOf(ts, e, d) /\ IsBaseOf(ts, d, e)
    <3>1. e \in 1..(d - 1) /\ d \in 1..(e - 1)
      BY <2>5, BasesComeFirst
    <3> QED
      BY <3>1
  <2> QED
    BY <2>1, <2>2, <2>3, <2>4, <2>5
<1> QED
  BY <1>1, <1>5, <1>6, <1>7, <1>8, <1>9, <1>10, <1>11, <1>12, <1>14, <1>15, <1>16 DEF Kinds

LEMMA OneWay ==
  ASSUME NEW ts, WellFormed(ts), NoUnions(ts), NEW rel, rel = Relation(ts)
  PROVE  \A d \in 1..Len(ts), e \in 1..Len(ts) :
           rel[<<"implicit", d, e>>] /\ rel[<<"implicit", e, d>>] => <<d, e>> \in Same(ts)
<1> DEFINE n == Len(ts)
           E == Same(ts)
           S == {d \in Nat : d \in 1..n => \A e \in 1..n :
                   rel[<<"implicit", d, e>>] /\ rel[<<"implicit", e, d>>] => <<d, e>> \in E}
<1>1. n \in Nat
  BY DEF WellFormed
<1>2. ASSUME NEW d \in Nat, \A a \in 0..(d - 1) : a \in S
      PROVE  d \in S
  <2> SUFFICES ASSUME d \in 1..n, NEW e \in 1..n,
                      rel[<<"implicit", d, e>>], rel[<<"implicit", e, d>>]
               PROVE  <<d, e>> \in E
    OBVIOUS
  <2>1. \A p \in 1..(d - 1), q \in 1..n :
          rel[<<"implicit", p, q>>] /\ rel[<<"implicit", q, p>>] => <<p, q>> \in E
    <3> SUFFICES ASSUME NEW p \in 1..(d - 1), NEW q \in 1..n
                 PROVE  rel[<<"implicit", p, q>>] /\ rel[<<"implicit", q, p>>] => <<p, q>> \in E
      OBVIOUS
    <3>1. p \in 0..(d - 1) /\ p \in 1..n
      BY <1>1
    <3> QED
      BY <1>2, <3>1
  <2>2. Asked(ts, rel, "implicit", d, e) /\ Asked(ts, rel, "implicit", e, d)
    BY RelationIs DEF Questions
  <2> HIDE DEF S
  <2> QED
    BY <2>1, <2>2, OneWayAsked
<1>3. Nat \subseteq S
  <2> HIDE DEF S
  <2> QED
    BY <1>2, StrongInduction
<1> QED
  BY <1>1, <1>3

LEMMA ConvertsOneWay ==
  ASSUME IInv
  PROVE  ImplicitConversionIsOneWay
<1> PICK ts : ts = types
  OBVIOUS
<1>1. WellFormed(ts) /\ Ids = 1..Len(ts)
  BY DEF IInv, WellFormed, Ids
<1> SUFFICES ASSUME OfKind("union") = {}, NEW d \in 1..Len(ts), NEW e \in 1..Len(ts),
                    Rel[<<"implicit", d, e>>], Rel[<<"implicit", e, d>>]
             PROVE  Rel[<<"equals", d, e>>]
  BY <1>1 DEF ImplicitConversionIsOneWay
<1>2. NoUnions(ts) /\ Rel = Relation(ts)
  BY <1>1 DEF OfKind, NoUnions, Rel
<1>3. <<d, e>> \in Same(ts)
  BY <1>1, <1>2, OneWay
<1> QED
  BY <1>2, <1>3, EqualsIs

\* Numbers are added up by a fold.
LEMMA SumIs ==
  ASSUME NEW n \in Nat, NEW g, DOMAIN g = 1..n, Numbers(g, n)
  PROVE  FoldLeft(+, 0, g) = Total(g, n)
<1> DEFINE D == SUBSET DOMAIN g
           Body(f) == [s \in D |-> IF s = {} THEN 0 ELSE f[s \ {Max(s)}] + g[Max(s)]]
           P(f) == f = Body(f)
           h == CHOOSE f : P(f)
<1>2. FoldLeft(+, 0, g) = h[DOMAIN g]
  BY DEF FoldLeft, MapThenFoldSet
<1>3. PICK f \in [SUBSET (1..n) -> Nat] : Adds(f, n, g)
  BY AdderExists DEF AddersOf
<1>4. D = SUBSET (1..n)
  OBVIOUS
<1>5. \A u : \A s \in D : Body(u)[s] = IF s = {} THEN 0 ELSE u[s \ {Max(s)}] + g[Max(s)]
  OBVIOUS
<1>6. P(f)
  <2>1. \A s \in D : f[s] = Body(f)[s]
    BY <1>3, <1>4, <1>5 DEF Adds
  <2>2. Body(f) = [s \in D |-> Body(f)[s]]
    OBVIOUS
  <2> HIDE DEF Body, D
  <2> QED
    BY <1>4, <2>1, <2>2
<1>7. P(h)
  <2> HIDE DEF P
  <2> QED
    BY <1>6
<1>8. h = Body(h)
  BY <1>7
<1> HIDE DEF h, Body, D
<1>9. Adds(h, n, g)
  BY <1>4, <1>5, <1>8 DEF Adds
<1> QED
  BY <1>2, <1>9, AddsTotal

\* A sum of natural numbers is zero only if all of them are.
LEMMA TotalIsZero ==
  ASSUME NEW n \in Nat, NEW g, Numbers(g, n)
  PROVE  /\ Total(g, n) \in Nat
         /\ Total(g, n) = 0 <=> \A i \in 1..n : g[i] = 0
<1>1. Total(g, n) \in Nat
  BY TotalNat DEF Numbers
<1>2. ASSUME Total(g, n) = 0, NEW i \in 1..n PROVE g[i] = 0
  <2> PICK k : k = i - 1
    OBVIOUS
  <2>1. k \in Nat /\ k + 1 = i /\ i \in 0..n /\ k \in 0..n
    OBVIOUS
  <2>2. Total(g, i) = Total(g, k) + g[i]
    BY <2>1, TotalStep
  <2>3. Total(g, i) <= Total(g, n)
    BY <2>1, TotalOfFewer DEF Numbers
  <2>4. Total(g, k) \in Nat
    <3>1. \A j \in 1..k : g[j] \in Nat
      BY <2>1 DEF Numbers
    <3> QED
      BY <2>1, <3>1, TotalNat
  <2>5. g[i] \in Nat
    BY DEF Numbers
  <2> QED
    BY <1>2, <2>2, <2>3, <2>4, <2>5
<1>3. ASSUME \A i \in 1..n : g[i] = 0 PROVE Total(g, n) = 0
  <2> DEFINE S == {k \in Nat : k <= n => Total(g, k) = 0}
  <2>1. 0 \in S
    BY TotalStep
  <2>2. ASSUME NEW k \in Nat, k \in S PROVE k + 1 \in S
    <3> SUFFICES ASSUME k + 1 <= n PROVE Total(g, k + 1) = 0
      OBVIOUS
    <3>1. Total(g, k) = 0 /\ g[k + 1] = 0
      BY <1>3, <2>2
    <3>2. Total(g, k + 1) = Total(g, k) + g[k + 1]
      BY TotalStep
    <3> QED
      BY <3>1, <3>2
  <2>3. Nat \subseteq S
    <3> HIDE DEF S
    <3> QED
      BY <2>1, <2>2, SimpleInduction
  <2> QED
    BY <2>3
<1> QED
  BY <1>1, <1>2, <1>3

LEMMA CostIs ==
  ASSUME NEW ts, NEW a, NEW p
  PROVE  ConversionCost(ts, a, p) \in 1..4
<1> DEFINE from == ts[a]
           to == ts[p]
<1>1. CASE from.kind = "integer" /\ to.kind = "integer"
  BY <1>1 DEF ConversionCost
<1>2. CASE from.kind = "float" /\ to.kind = "float"
  BY <1>2 DEF ConversionCost
<1>3. CASE from.kind = "integer" /\ to.kind = "float"
  BY <1>3 DEF ConversionCost
<1>4. CASE from.kind = "float" /\ to.kind = "integer"
  BY <1>4 DEF ConversionCost
<1>5. CASE ~({from.kind, to.kind} \subseteq {"integer", "float"})
  BY <1>5 DEF ConversionCost
<1> QED
  BY <1>1, <1>2, <1>3, <1>4, <1>5

\* A call of a function with arguments args
LEMMA DistanceIs ==
  ASSUME NEW ts, NEW f, NEW args, NEW n \in Nat, DOMAIN args = 1..n, Len(args) = n,
         NEW distance, distance = ConversionDistance(ts, f, args)
  PROVE  /\ CanBeCalledWith(ts, f, args) <=> distance >= 0
         /\ distance = 0 <=> Elementwise(Relation(ts), "equals", args, ts[f].parts)
<1> DEFINE ps == ts[f].parts
           free(i) == Equals(ts, args[i], ps[i])
           g == [i \in DOMAIN args |-> IF Equals(ts, args[i], ps[i]) THEN 0
                                       ELSE ConversionCost(ts, args[i], ps[i])]
           can == CanBeCalledWith(ts, f, args)
<1>1. distance = IF can THEN FoldLeft(+, 0, g) ELSE -1
  <2>1. can <=> ~ \/ Len(args) # Len(ps)
                  \/ \E i \in DOMAIN args : /\ ~Equals(ts, args[i], ps[i])
                                            /\ ~CanBeImplicitlyPassedTo(ts, args[i], ps[i])
    BY DEF CanBeCalledWith
  <2> HIDE DEF can
  <2> QED
    BY <2>1 DEF ConversionDistance
<1>2. \A i \in 1..n : g[i] = IF free(i) THEN 0 ELSE ConversionCost(ts, args[i], ps[i])
  OBVIOUS
<1>3. \A i \in 1..n : g[i] \in Nat /\ (g[i] = 0 <=> free(i))
  <2> SUFFICES ASSUME NEW i \in 1..n PROVE g[i] \in Nat /\ (g[i] = 0 <=> free(i))
    OBVIOUS
  <2>1. ConversionCost(ts, args[i], ps[i]) \in 1..4
    BY CostIs
  <2> HIDE DEF g, free, ps
  <2> QED
    BY <1>2, <2>1
<1>4. DOMAIN g = 1..n
  OBVIOUS
<1> HIDE DEF g, free
<1>5. FoldLeft(+, 0, g) = Total(g, n) /\ Numbers(g, n)
  BY <1>3, <1>4, SumIs DEF Numbers
<1>6. Total(g, n) \in Nat /\ (Total(g, n) = 0 <=> \A i \in 1..n : free(i))
  BY <1>3, <1>5, TotalIsZero
<1>7. Elementwise(Relation(ts), "equals", args, ps) <=> Len(ps) = n /\ \A i \in 1..n : free(i)
  BY DEF Elementwise, Equals, free
<1>8. Len(ps) = n /\ (\A i \in 1..n : free(i)) => can
  BY DEF CanBeCalledWith, free
<1>9. can => Len(ps) = n
  BY DEF CanBeCalledWith
<1> HIDE DEF can, ps
<1> PICK total : total = Total(g, n)
  OBVIOUS
<1>10. CASE can
  <2>1. distance = total /\ total \in Nat
    BY <1>1, <1>5, <1>6, <1>10
  <2>2. distance >= 0
    BY <2>1
  <2>3. total = 0 <=> Elementwise(Relation(ts), "equals", args, ps)
    BY <1>6, <1>7, <1>9, <1>10
  <2> QED
    BY <1>10, <2>1, <2>2, <2>3 DEF can, ps
<1>11. CASE ~can
  <2>1. distance = -1
    BY <1>1, <1>11
  <2>2. ~(distance >= 0) /\ distance # 0
    BY <2>1
  <2>3. ~Elementwise(Relation(ts), "equals", args, ps)
    BY <1>7, <1>8, <1>11
  <2> QED
    BY <1>11, <2>2, <2>3 DEF can, ps
<1> QED
  BY <1>10, <1>11

LEMMA CallsAgree ==
  ASSUME IInv
  PROVE  CallIffDistance
<1> SUFFICES ASSUME NEW f \in OfKind("function"), NEW m \in 0..Len(types[f].parts) + 1,
                    NEW args \in [1..m -> Ids]
             PROVE  LET distance == ConversionDistance(types, f, args)
                    IN  /\ CanBeCalledWith(types, f, args) <=> distance >= 0
                        /\ distance = 0 <=> Elementwise(Rel, "equals", args, types[f].parts)
  BY DEF CallIffDistance
<1>1. m \in Nat
  <2>1. Len(types[f].parts) \in Nat
    BY PartsAre DEF IInv, WellFormed, OfKind, Ids
  <2> QED
    BY <2>1
<1>2. args \in Seq(Ids)
  BY <1>1, SeqDef
<1>3. Len(args) \in Nat /\ DOMAIN args = 1..Len(args)
  BY <1>2, LenProperties
<1> QED
  BY <1>3, DistanceIs DEF Rel

Numeric == {"integer", "float"}

\* Numbers of one kind and variant are equal.
LEMMA NumbersEqual ==
  ASSUME NEW ts, WellFormed(ts), NEW d \in 1..Len(ts), NEW e \in 1..Len(ts),
         ts[d].kind \in Numeric, ts[e].kind = ts[d].kind, ts[e].variant = ts[d].variant
  PROVE  Relation(ts)[<<"equals", d, e>>]
<1>1. Alike(Same(ts), ts[d], ts[e])
  BY DEF Alike, Numeric
<1>2. <<d, e>> \in Same(ts)
  BY <1>1, SameIs
<1> QED
  BY <1>2, EqualsIs

\* Integers of one size are told apart by their sign, floats by their size.
LEMMA VariantsDiffer ==
  /\ \A v, w \in DOMAIN IntegerBytes \ {"auto"} :
       /\ IntegerBytes[v] \in Nat
       /\ IntegerBytes[v] = IntegerBytes[w] /\ (v \in Signed <=> w \in Signed) => v = w
  /\ \A v \in DOMAIN FloatBytes \ {"auto"} : FloatBytes[v] = IF v = "f32" THEN 4 ELSE 8
  /\ DOMAIN FloatBytes \ {"auto"} = {"f32", "f64"}
<1>1. \A v, w \in DOMAIN IntegerBytes \ {"auto"} :
        IntegerBytes[v] = IntegerBytes[w] /\ (v \in Signed <=> w \in Signed) => v = w
  BY DEF IntegerBytes, Signed
<1>2. \A v \in DOMAIN IntegerBytes : IntegerBytes[v] \in Nat
  BY DEF IntegerBytes
<1>3. /\ DOMAIN FloatBytes \ {"auto"} = {"f32", "f64"}
      /\ FloatBytes["f32"] = 4 /\ FloatBytes["f64"] = 8
  BY DEF FloatBytes
<1> QED
  BY <1>1, <1>2, <1>3

LEMMA IntegersPromoted ==
  ASSUME NEW ts, WellFormed(ts), NEW l \in 1..Len(ts), NEW r \in 1..Len(ts),
         ts[l].variant # "auto", ts[r].variant # "auto",
         ts[l].kind = "integer", ts[r].kind = "integer",
         NEW p, p = PromoteForBinaryOperation(ts, l, r),
         NEW q, q = PromoteForBinaryOperation(ts, r, l)
  PROVE  p \in {l, r} /\ Relation(ts)[<<"equals", p, q>>]
<1> DEFINE v == ts[l].variant
           w == ts[r].variant
           big(x, y) == IntegerBytes[x] > IntegerBytes[y]
           mixed(x, y) == x \notin Signed /\ y \in Signed
<1>1. v \in DOMAIN IntegerBytes \ {"auto"} /\ w \in DOMAIN IntegerBytes \ {"auto"}
  BY DEF WellFormed, Built
<1>2. /\ p = (IF IntegerBytes[v] # IntegerBytes[w] THEN IF big(v, w) THEN l ELSE r
              ELSE IF mixed(v, w) THEN r ELSE l)
      /\ q = (IF IntegerBytes[w] # IntegerBytes[v] THEN IF big(w, v) THEN r ELSE l
              ELSE IF mixed(w, v) THEN l ELSE r)
  BY DEF PromoteForBinaryOperation
<1>3. /\ IntegerBytes[v] \in Nat /\ IntegerBytes[w] \in Nat
      /\ IntegerBytes[v] = IntegerBytes[w] /\ (v \in Signed <=> w \in Signed) => v = w
  BY <1>1, VariantsDiffer
<1>4. p = q \/ (v = w /\ p = l /\ q = r)
  <2>1. CASE IntegerBytes[v] # IntegerBytes[w]
    <3>1. big(v, w) <=> ~big(w, v)
      BY <1>3, <2>1
    <3> HIDE DEF big
    <3> QED
      BY <1>2, <2>1, <3>1
  <2>2. CASE IntegerBytes[v] = IntegerBytes[w]
    <3>1. p = (IF mixed(v, w) THEN r ELSE l) /\ q = (IF mixed(w, v) THEN l ELSE r)
      BY <1>2, <2>2
    <3>2. v = w \/ mixed(v, w) \/ mixed(w, v)
      BY <1>3, <2>2
    <3>3. ~(mixed(v, w) /\ mixed(w, v))
      OBVIOUS
    <3> HIDE DEF mixed
    <3> QED
      BY <3>1, <3>2, <3>3
  <2> QED
    BY <2>1, <2>2
<1>5. p \in {l, r} /\ q \in {l, r}
  <2> HIDE DEF big, mixed
  <2> QED
    BY <1>2
<1>6. Relation(ts)[<<"equals", l, l>>] /\ Relation(ts)[<<"equals", r, r>>]
  BY NumbersEqual DEF Numeric
<1>7. v = w => Relation(ts)[<<"equals", l, r>>]
  BY NumbersEqual DEF Numeric
<1> QED
  BY <1>4, <1>5, <1>6, <1>7

LEMMA FloatsPromoted ==
  ASSUME NEW ts, WellFormed(ts), NEW l \in 1..Len(ts), NEW r \in 1..Len(ts),
         ts[l].variant # "auto", ts[r].variant # "auto",
         ts[l].kind = "float", ts[r].kind = "float",
         NEW p, p = PromoteForBinaryOperation(ts, l, r),
         NEW q, q = PromoteForBinaryOperation(ts, r, l)
  PROVE  /\ \A d \in {l, r} : Relation(ts)[<<"implicit", d, p>>] \/ Relation(ts)[<<"equals", d, p>>]
         /\ p \in {l, r} /\ Relation(ts)[<<"equals", p, q>>]
<1> DEFINE v == ts[l].variant
           w == ts[r].variant
           rel == Relation(ts)
<1>1. v \in {"f32", "f64"} /\ w \in {"f32", "f64"}
  <2>1. v \in DOMAIN FloatBytes \ {"auto"} /\ w \in DOMAIN FloatBytes \ {"auto"}
    BY DEF WellFormed, Built
  <2> QED
    BY <2>1, VariantsDiffer
<1>2. FloatBytes["f32"] = 4 /\ FloatBytes["f64"] = 8
  BY DEF FloatBytes
<1>3. p = (IF FloatBytes[v] > FloatBytes[w] THEN l ELSE r)
      /\ q = (IF FloatBytes[w] > FloatBytes[v] THEN r ELSE l)
  BY DEF PromoteForBinaryOperation
<1>4. p = (IF v = "f64" /\ w = "f32" THEN l ELSE r)
      /\ q = (IF w = "f64" /\ v = "f32" THEN r ELSE l)
  BY <1>1, <1>2, <1>3
<1>5. rel[<<"equals", l, l>>] /\ rel[<<"equals", r, r>>]
  BY NumbersEqual DEF Numeric
<1>6. v = w => rel[<<"equals", l, r>>] /\ rel[<<"equals", r, l>>]
  BY NumbersEqual DEF Numeric
<1>7. v = "f32" /\ w = "f64" => rel[<<"implicit", l, r>>]
  <2> SUFFICES ASSUME v = "f32", w = "f64" PROVE rel[<<"implicit", l, r>>]
    OBVIOUS
  <2>1. Asked(ts, rel, "implicit", l, r)
    BY DEF Asked, FloatRelation
  <2> QED
    BY <2>1, RelationIs DEF Questions
<1>8. w = "f32" /\ v = "f64" => rel[<<"implicit", r, l>>]
  <2> SUFFICES ASSUME w = "f32", v = "f64" PROVE rel[<<"implicit", r, l>>]
    OBVIOUS
  <2>1. Asked(ts, rel, "implicit", r, l)
    BY DEF Asked, FloatRelation
  <2> QED
    BY <2>1, RelationIs DEF Questions
<1> HIDE DEF v, w, rel
<1>9. CASE v = w
  <2>1. p = r /\ q = l
    BY <1>1, <1>4, <1>9
  <2> QED
    BY <1>5, <1>6, <1>9, <2>1 DEF rel
<1>10. CASE v = "f32" /\ w = "f64"
  <2>1. p = r /\ q = r
    BY <1>4, <1>10
  <2> QED
    BY <1>5, <1>7, <1>10, <2>1 DEF rel
<1>11. CASE v = "f64" /\ w = "f32"
  <2>1. p = l /\ q = l
    BY <1>4, <1>11
  <2> QED
    BY <1>5, <1>8, <1>11, <2>1 DEF rel
<1> QED
  BY <1>1, <1>9, <1>10, <1>11

LEMMA Promoted ==
  ASSUME NEW ts, WellFormed(ts), NEW l \in 1..Len(ts), NEW r \in 1..Len(ts),
         ts[l].variant # "auto", ts[r].variant # "auto",
         NEW p, p = PromoteForBinaryOperation(ts, l, r), p # None
  PROVE  /\ \A d \in {l, r} : \/ CanBeImplicitlyPassedTo(ts, d, p)
                              \/ Relation(ts)[<<"equals", d, p>>]
         /\ Relation(ts)[<<"equals", p, PromoteForBinaryOperation(ts, r, l)>>]
<1> PICK q : q = PromoteForBinaryOperation(ts, r, l)
  OBVIOUS
<1> DEFINE rel == Relation(ts)
           left == ts[l].kind
           right == ts[r].kind
<1>1. CASE left = "integer" /\ right = "integer"
  <2>1. p \in {l, r} /\ rel[<<"equals", p, q>>]
    BY <1>1, IntegersPromoted
  <2>2. \A d \in {l, r} : CanBeImplicitlyPassedTo(ts, d, p)
    BY <1>1, <2>1 DEF CanBeImplicitlyPassedTo
  <2> QED
    BY <2>1, <2>2
<1>2. CASE left = "float" /\ right = "float"
  <2>1. /\ rel[<<"equals", p, q>>]
        /\ \A d \in {l, r} : rel[<<"implicit", d, p>>] \/ rel[<<"equals", d, p>>]
    BY <1>2, FloatsPromoted
  <2> QED
    BY <2>1 DEF CanBeImplicitlyPassedTo
<1>3. CASE left = "integer" /\ right = "float"
  <2>1. p = r /\ q = r
    BY <1>3 DEF PromoteForBinaryOperation
  <2>2. rel[<<"equals", r, r>>]
    BY <1>3, NumbersEqual DEF Numeric
  <2>3. CanBeImplicitlyPassedTo(ts, l, r)
    BY <1>3 DEF CanBeImplicitlyPassedTo
  <2> QED
    BY <2>1, <2>2, <2>3
<1>4. CASE left = "float" /\ right = "integer"
  <2>1. p = l /\ q = l
    BY <1>4 DEF PromoteForBinaryOperation
  <2>2. rel[<<"equals", l, l>>]
    BY <1>4, NumbersEqual DEF Numeric
  <2>3. CanBeImplicitlyPassedTo(ts, r, l)
    BY <1>4 DEF CanBeImplicitlyPassedTo
  <2> QED
    BY <2>1, <2>2, <2>3
<1>5. CASE ~({left, right} \subseteq {"integer", "float"})
  <2>1. p = None
    BY <1>5 DEF PromoteForBinaryOperation
  <2> QED
    BY <2>1
<1> QED
  BY <1>1, <1>2, <1>3, <1>4, <1>5

LEMMA PromotesFairly ==
  ASSUME IInv
  PROVE  PromotionIsFair
<1>1. WellFormed(types) /\ Ids = 1..Len(types)
  BY DEF IInv, WellFormed, Ids
<1> SUFFICES ASSUME NEW l \in 1..Len(types), NEW r \in 1..Len(types),
                    types[l].variant # "auto", types[r].variant # "auto",
                    PromoteForBinaryOperation(types, l, r) # None
             PROVE  LET p == PromoteForBinaryOperation(types, l, r)
                    IN  /\ \A d \in {l, r} : \/ CanBeImplicitlyPassedTo(types, d, p)
                                             \/ Rel[<<"equals", d, p>>]
                        /\ Rel[<<"equals", p, PromoteForBinaryOperation(types, r, l)>>]
  BY <1>1 DEF PromotionIsFair
<1>2. Rel = Relation(types)
  BY DEF Rel
<1> QED
  BY <1>1, <1>2, Promoted

\* Equal types are as good as one, and implicit conversion, the choice of a call
\* and promotion agree with equality and with one another, for every sequence of
\* calls of the registry.
THEOREM SpecConversionsAgree == Spec => []ConversionsAgree
<1>1. IInv => ConversionsAgree
  BY Interchangeable, ConvertsOneWay, CallsAgree, PromotesFairly DEF ConversionsAgree
<1> QED
  BY <1>1, InitIInv, NextIInv, PTL DEF Spec

-----------------------------------------------------------------------------
(* The fields of structs and classes.                                       *)

\* The first k of the parts end where all of them are laid out up to the k-th.
FirstEnds(e, size, align, ps, n) ==
  \A k \in 0..n : NaturalEnd(size, align, SubSeq(ps, 1, k)) = e[k]

PrefixesOf(size, align, ps, n) ==
  {e \in [0..n -> Nat] : Ends(e, n, size, align, ps) /\ FirstEnds(e, size, align, ps, n)}

LEMMA PrefixIs ==
  ASSUME NEW ps, NEW n \in Nat, DOMAIN ps = 1..n, NEW k \in 0..n
  PROVE  DOMAIN SubSeq(ps, 1, k) = 1..k /\ \A i \in 1..k : SubSeq(ps, 1, k)[i] = ps[i]
<1> DEFINE S == {ps[i] : i \in 1..n}
<1>1. \A i \in 1..k : ps[i] \in S
  OBVIOUS
<1> HIDE DEF S
<1>2. /\ SubSeq(ps, 1, k) \in Seq(S)
      /\ Len(SubSeq(ps, 1, k)) = IF 1 <= k THEN k - 1 + 1 ELSE 0
      /\ \A i \in 1..(k - 1 + 1) : SubSeq(ps, 1, k)[i] = ps[1 + i - 1]
  BY <1>1, SubSeqProperties
<1>3. Len(SubSeq(ps, 1, k)) = k
  BY <1>2
<1>4. DOMAIN SubSeq(ps, 1, k) = 1..k
  BY <1>2, <1>3, LenProperties
<1>5. \A i \in 1..k : SubSeq(ps, 1, k)[i] = ps[i]
  BY <1>2
<1> QED
  BY <1>4, <1>5

LEMMA PrefixesAre ==
  ASSUME NEW size, NEW align, NEW ps, NEW n \in Nat, Laid(size, align, ps, n)
  PROVE  PrefixesOf(size, align, ps, n) # {}
<1>1. PICK e \in EndsOf(size, align, ps, n) : TRUE
  BY EndIs
<1>2. e \in [0..n -> Nat] /\ Ends(e, n, size, align, ps)
  BY <1>1 DEF EndsOf
<1>3. ASSUME NEW k \in 0..n
      PROVE  NaturalEnd(size, align, SubSeq(ps, 1, k)) = e[k]
  <2> PICK qs : qs = SubSeq(ps, 1, k)
    OBVIOUS
  <2>1. DOMAIN qs = 1..k /\ \A i \in 1..k : qs[i] = ps[i]
    BY PrefixIs DEF Laid
  <2>2. k \in Nat /\ 1..k \subseteq 1..n
    OBVIOUS
  <2>3. Laid(size, align, qs, k)
    BY <2>1, <2>2 DEF Laid
  <2>4. PICK f \in EndsOf(size, align, qs, k) : TRUE
    BY <2>2, <2>3, EndIs
  <2>5. Ends(f, k, size, align, qs) /\ NaturalEnd(size, align, qs) = f[k]
    BY <2>4 DEF EndsOf
  <2>6. Ends(e, k, size, align, ps)
    BY <1>2, <2>2 DEF Ends
  <2>7. Tally(size, qs, size, ps, k) /\ Tally(align, qs, align, ps, k)
    BY <2>1 DEF Tally
  <2>8. f[k] = e[k]
    BY <2>2, <2>5, <2>6, <2>7, EndsAgree
  <2> QED
    BY <2>5, <2>8
<1>4. FirstEnds(e, size, align, ps, n)
  BY <1>3 DEF FirstEnds
<1> QED
  BY <1>2, <1>4 DEF PrefixesOf

\* Where the parts of a record begin: each lies behind those before it and is aligned.
Placed(ts, size, align, ps, n) ==
  \A i \in 1..n :
    /\ NaturalOffset(ts, ps, i) \in Nat
    /\ NaturalOffset(ts, ps, i) % align[ps[i]] = 0
    /\ NaturalOffset(ts, ps, i) + size[ps[i]] <= NaturalSize(size, align, ps)
    /\ i < n => NaturalOffset(ts, ps, i) + size[ps[i]] <= NaturalOffset(ts, ps, i + 1)

LEMMA OffsetsFit ==
  ASSUME NEW ts, NEW size, size = StaticSize(ts), NEW align, align = Alignment(ts),
         NEW ps, NEW n \in Nat, Laid(size, align, ps, n), Len(ps) = n,
         MaxAlignment(align, ps) \in Alignments, ps = <<>> <=> n = 0
  PROVE  Placed(ts, size, align, ps, n)
<1>1. PICK e \in PrefixesOf(size, align, ps, n) : TRUE
  BY PrefixesAre
<1>2. e \in [0..n -> Nat] /\ Ends(e, n, size, align, ps) /\ FirstEnds(e, size, align, ps, n)
  BY <1>1 DEF PrefixesOf
<1>3. \A i \in 1..n : i - 1 \in 0..n /\ i \in 0..n /\ (i < n => i + 1 \in 1..n /\ (i + 1) - 1 = i)
  OBVIOUS
<1>4. \A i \in 1..n : /\ NaturalOffset(ts, ps, i) = AlignUp(e[i - 1], align[ps[i]])
                      /\ size[ps[i]] \in Nat /\ align[ps[i]] \in Alignments
  BY <1>2, <1>3 DEF NaturalOffset, FirstEnds, Laid
<1>5. \A i \in 1..n : /\ NaturalOffset(ts, ps, i) \in Nat
                      /\ NaturalOffset(ts, ps, i) % align[ps[i]] = 0
                      /\ e[i - 1] <= NaturalOffset(ts, ps, i)
                      /\ e[i] = NaturalOffset(ts, ps, i) + size[ps[i]]
  <2> SUFFICES ASSUME NEW i \in 1..n
               PROVE  /\ NaturalOffset(ts, ps, i) \in Nat
                      /\ NaturalOffset(ts, ps, i) % align[ps[i]] = 0
                      /\ e[i - 1] <= NaturalOffset(ts, ps, i)
                      /\ e[i] = NaturalOffset(ts, ps, i) + size[ps[i]]
    OBVIOUS
  <2>1. e[i - 1] \in Nat
    BY <1>2, <1>3
  <2>2. e[i] = NaturalOffset(ts, ps, i) + size[ps[i]]
    BY <1>2, <1>4 DEF Ends
  <2> QED
    BY ZenonT(60), <1>4, <2>1, <2>2, AlignUpIs
<1>6. n # 0 => NaturalSize(size, align, ps) = AlignUp(e[n], MaxAlignment(align, ps))
  <2>1. PICK f \in EndsOf(size, align, ps, n) : TRUE
    BY EndIs
  <2>2. Ends(f, n, size, align, ps) /\ NaturalEnd(size, align, ps) = f[n]
    BY <2>1 DEF EndsOf
  <2>3. Tally(size, ps, size, ps, n) /\ Tally(align, ps, align, ps, n)
    BY DEF Tally
  <2>4. f[n] = e[n]
    BY <1>2, <2>2, <2>3, EndsAgree
  <2> QED
    BY <2>2, <2>4 DEF NaturalSize
<1>7. n # 0 => e[n] <= NaturalSize(size, align, ps) /\ NaturalSize(size, align, ps) \in Nat
  BY <1>2, <1>6, AlignUpIs
<1>8. \A i \in 1..n, j \in 1..n : i <= j => e[i] <= e[j]
  <2> DEFINE S == {d \in Nat : \A i \in 1..n : i + d <= n => e[i] <= e[i + d]}
  <2>1. 0 \in S
    BY <1>2
  <2>2. ASSUME NEW d \in Nat, d \in S PROVE d + 1 \in S
    <3> SUFFICES ASSUME NEW i \in 1..n, i + (d + 1) <= n PROVE e[i] <= e[i + (d + 1)]
      OBVIOUS
    <3> PICK k : k = i + d
      OBVIOUS
    <3>1. k + 1 = i + (d + 1) /\ k \in 1..n /\ k + 1 \in 1..n /\ (k + 1) - 1 = k
      OBVIOUS
    <3>2. e[i] <= e[k]
      BY <2>2, <3>1
    <3>3. /\ e[k] <= NaturalOffset(ts, ps, k + 1) /\ NaturalOffset(ts, ps, k + 1) \in Nat
          /\ e[k + 1] = NaturalOffset(ts, ps, k + 1) + size[ps[k + 1]]
          /\ size[ps[k + 1]] \in Nat
      BY <1>4, <1>5, <3>1
    <3>4. e[i] \in Nat /\ e[k] \in Nat
      BY <1>2, <3>1
    <3> QED
      BY <3>1, <3>2, <3>3, <3>4
  <2>3. Nat \subseteq S
    <3> HIDE DEF S
    <3> QED
      BY <2>1, <2>2, SimpleInduction
  <2> SUFFICES ASSUME NEW i \in 1..n, NEW j \in 1..n, i <= j PROVE e[i] <= e[j]
    OBVIOUS
  <2>4. j - i \in S /\ i + (j - i) = j
    <3> HIDE DEF S
    <3> QED
      BY <2>3
  <2> QED
    BY <2>4
<1> SUFFICES ASSUME NEW i \in 1..n
             PROVE  /\ NaturalOffset(ts, ps, i) \in Nat
                    /\ NaturalOffset(ts, ps, i) % align[ps[i]] = 0
                    /\ NaturalOffset(ts, ps, i) + size[ps[i]] <= NaturalSize(size, align, ps)
                    /\ i < n => NaturalOffset(ts, ps, i) + size[ps[i]]
                                  <= NaturalOffset(ts, ps, i + 1)
  BY DEF Placed
<1>9. e[i] \in Nat /\ e[n] \in Nat /\ e[i] <= e[n] /\ n # 0
  BY <1>2, <1>8
<1>10. e[i] <= NaturalSize(size, align, ps)
  BY <1>7, <1>9
<1>11. i < n => e[i] <= NaturalOffset(ts, ps, i + 1)
  <2> SUFFICES ASSUME i < n PROVE e[i] <= NaturalOffset(ts, ps, i + 1)
    OBVIOUS
  <2> PICK k : k = i + 1
    OBVIOUS
  <2>1. k \in 1..n /\ k - 1 = i
    OBVIOUS
  <2>2. e[k - 1] <= NaturalOffset(ts, ps, k)
    BY <1>5, <2>1
  <2> QED
    BY <2>1, <2>2
<1> QED
  BY <1>5, <1>10, <1>11

\* The parts of a packed struct, one right behind the other
PackedEnd(size, ps) == FoldLeft(LAMBDA end, p : end + size[p], 0, ps)

LEMMA PackedEndIs ==
  ASSUME NEW size, NEW ps, NEW n \in Nat, DOMAIN ps = 1..n,
         NEW g, g = [i \in 1..n |-> size[ps[i]]], Numbers(g, n)
  PROVE  PackedEnd(size, ps) = Total(g, n)
<1> DEFINE D == SUBSET DOMAIN ps
           Body(f) == [s \in D |-> IF s = {} THEN 0 ELSE f[s \ {Max(s)}] + size[ps[Max(s)]]]
           P(f) == f = Body(f)
           h == CHOOSE f : P(f)
<1>2. PackedEnd(size, ps) = h[DOMAIN ps]
  BY DEF PackedEnd, FoldLeft, MapThenFoldSet
<1>3. PICK f \in [SUBSET (1..n) -> Nat] : Adds(f, n, g)
  BY AdderExists DEF AddersOf
<1>4. D = SUBSET (1..n) /\ \A s \in D : s # {} => Max(s) \in 1..n
  BY GreatestIs
<1>5. \A u : \A s \in D : Body(u)[s] = IF s = {} THEN 0 ELSE u[s \ {Max(s)}] + g[Max(s)]
  <2> SUFFICES ASSUME NEW u, NEW s \in D
               PROVE  Body(u)[s] = IF s = {} THEN 0 ELSE u[s \ {Max(s)}] + g[Max(s)]
    OBVIOUS
  <2>1. s # {} => g[Max(s)] = size[ps[Max(s)]]
    BY <1>4
  <2> QED
    BY <2>1
<1>6. P(f)
  <2>1. \A s \in D : f[s] = Body(f)[s]
    BY <1>3, <1>4, <1>5 DEF Adds
  <2>2. Body(f) = [s \in D |-> Body(f)[s]]
    OBVIOUS
  <2> HIDE DEF Body, D
  <2> QED
    BY <1>4, <2>1, <2>2
<1>7. P(h)
  <2> HIDE DEF P
  <2> QED
    BY <1>6
<1>8. h = Body(h)
  BY <1>7
<1> HIDE DEF h, Body, D
<1>9. Adds(h, n, g)
  <2> SUFFICES ASSUME NEW s \in SUBSET (1..n)
               PROVE  h[s] = IF s = {} THEN 0 ELSE h[s \ {Max(s)}] + g[Max(s)]
    BY DEF Adds
  <2>1. Body(h)[s] = IF s = {} THEN 0 ELSE h[s \ {Max(s)}] + g[Max(s)]
    BY <1>4, <1>5
  <2> QED
    BY <1>8, <2>1
<1>10. h[1..n] = Total(g, n)
  BY <1>9, AddsTotal
<1> QED
  BY <1>2, <1>10

\* A sum of the first values of a function and of its beginning is the same.
LEMMA TotalOfPrefix ==
  ASSUME NEW g, NEW h, NEW n \in Nat, \A i \in 1..n : g[i] = h[i]
  PROVE  Total(g, n) = Total(h, n)
<1> DEFINE S == {k \in Nat : k <= n => Total(g, k) = Total(h, k)}
<1>1. 0 \in S
  BY TotalStep
<1>2. ASSUME NEW k \in Nat, k \in S PROVE k + 1 \in S
  <2> SUFFICES ASSUME k + 1 <= n PROVE Total(g, k + 1) = Total(h, k + 1)
    OBVIOUS
  <2>1. Total(g, k) = Total(h, k) /\ g[k + 1] = h[k + 1]
    BY <1>2
  <2>2. Total(g, k + 1) = Total(g, k) + g[k + 1] /\ Total(h, k + 1) = Total(h, k) + h[k + 1]
    BY TotalStep
  <2> QED
    BY <2>1, <2>2
<1>3. Nat \subseteq S
  <2> HIDE DEF S
  <2> QED
    BY <1>1, <1>2, SimpleInduction
<1> QED
  BY <1>3

\* What each of the parts takes
Sizes(g, size, ps, n) == \A i \in 1..n : g[i] = size[ps[i]] /\ g[i] \in Nat

LEMMA PackedPrefix ==
  ASSUME NEW size, NEW k \in Nat, NEW g, NEW qs, DOMAIN qs = 1..k, Sizes(g, size, qs, k)
  PROVE  PackedEnd(size, qs) = Total(g, k)
<1> DEFINE h == [j \in 1..k |-> size[qs[j]]]
<1>1. \A j \in 1..k : h[j] = g[j]
  BY DEF Sizes
<1>2. Numbers(h, k)
  BY <1>1 DEF Numbers, Sizes
<1> PICK r : r = h
  OBVIOUS
<1>3. r = [j \in 1..k |-> size[qs[j]]] /\ Numbers(r, k) /\ \A j \in 1..k : r[j] = g[j]
  BY <1>1, <1>2
<1> HIDE DEF h
<1>4. PackedEnd(size, qs) = Total(r, k)
  BY <1>3, PackedEndIs
<1>5. Total(r, k) = Total(g, k)
  BY <1>3, TotalOfPrefix
<1> QED
  BY <1>4, <1>5

LEMMA PackedPrefixes ==
  ASSUME NEW size, NEW ps, NEW n \in Nat, DOMAIN ps = 1..n,
         NEW g, Sizes(g, size, ps, n)
  PROVE  \A k \in 0..n : PackedEnd(size, SubSeq(ps, 1, k)) = Total(g, k)
<1> SUFFICES ASSUME NEW k \in 0..n PROVE PackedEnd(size, SubSeq(ps, 1, k)) = Total(g, k)
  OBVIOUS
<1>1. PICK qs : qs = SubSeq(ps, 1, k)
  OBVIOUS
<1>2. DOMAIN qs = 1..k /\ \A j \in 1..k : qs[j] = ps[j]
  BY <1>1, PrefixIs
<1>3. k \in Nat /\ 1..k \subseteq 1..n
  OBVIOUS
<1>4. Sizes(g, size, qs, k)
  BY <1>2, <1>3 DEF Sizes
<1>5. PackedEnd(size, qs) = Total(g, k)
  BY <1>2, <1>3, <1>4, PackedPrefix
<1> QED
  BY <1>1, <1>5

\* Where the parts of a packed struct begin: each right behind those before it.
Packing(off, size, ps, n) == \A i \in 1..n : off[i] = PackedEnd(size, SubSeq(ps, 1, i - 1))

LEMMA PackedOffsets ==
  ASSUME NEW size, NEW ps, NEW n \in Nat, DOMAIN ps = 1..n, Len(ps) = n,
         \A i \in 1..n : size[ps[i]] \in Nat,
         NEW off, Packing(off, size, ps, n)
  PROVE  \A i \in 1..n : /\ off[i] + size[ps[i]] <= PackedSize(size, ps)
                         /\ i < n => off[i] + size[ps[i]] <= off[i + 1]
<1> DEFINE g == [i \in 1..n |-> size[ps[i]]]
<1>1. /\ Numbers(g, n) /\ \A i \in 1..n : g[i] = size[ps[i]]
      /\ Sizes(g, size, ps, n)
  BY DEF Numbers, Sizes
<1> HIDE DEF g
<1>0. \A k \in 0..n : PackedEnd(size, SubSeq(ps, 1, k)) = Total(g, k)
  BY <1>1, PackedPrefixes
<1>2. \A i \in 1..n : off[i] = Total(g, i - 1)
  <2>1. \A i \in 1..n : i - 1 \in 0..n
    OBVIOUS
  <2> QED
    BY <1>0, <2>1 DEF Packing
<1>3. n # 0 => PackedSize(size, ps) = Total(g, n)
  BY <1>1, PackedIs DEF g
<1> SUFFICES ASSUME NEW i \in 1..n
             PROVE  /\ off[i] + size[ps[i]] <= PackedSize(size, ps)
                    /\ i < n => off[i] + size[ps[i]] <= off[i + 1]
  OBVIOUS
<1>4. (i - 1) + 1 = i /\ i - 1 \in Nat /\ i \in Nat /\ n # 0 /\ i \in 0..n
  OBVIOUS
<1>5. Total(g, i) = Total(g, i - 1) + g[i]
  BY <1>4, TotalStep
<1>6. off[i] + size[ps[i]] = Total(g, i)
  BY <1>1, <1>2, <1>5
<1>7. Total(g, i) <= Total(g, n)
  BY <1>1, <1>4, TotalOfFewer DEF Numbers
<1>8. i < n => off[i + 1] = Total(g, i)
  <2> SUFFICES ASSUME i < n PROVE off[i + 1] = Total(g, i)
    OBVIOUS
  <2>1. i + 1 \in 1..n /\ (i + 1) - 1 = i
    OBVIOUS
  <2> QED
    BY <1>2, <2>1
<1>9. Total(g, i) \in Nat
  BY <1>1, <1>4, TotalNat DEF Numbers
<1> QED
  BY <1>3, <1>4, <1>6, <1>7, <1>8, <1>9

\* The alignment of each part divides that of the whole.
LEMMA AlignmentDivides ==
  ASSUME NEW align, NEW ps, NEW i \in DOMAIN ps, \A p \in Range(ps) : align[p] \in Alignments
  PROVE  MaxAlignment(align, ps) \in Alignments /\ MaxAlignment(align, ps) % align[ps[i]] = 0
<1> DEFINE A == {1} \cup {align[p] : p \in Range(ps)}
<1>1. A \in SUBSET (1..16) /\ 1 \in A /\ A \subseteq Alignments
  BY DEF Alignments
<1>2. ps[i] \in Range(ps)
  BY DEF Range
<1>3. align[ps[i]] \in A
  BY <1>2
<1> HIDE DEF A
<1>4. Max(A) \in A /\ align[ps[i]] <= Max(A)
  BY <1>1, <1>3, GreatestIs
<1>5. MaxAlignment(align, ps) = Max(A)
  BY DEF MaxAlignment, A
<1> PICK m, a : m = Max(A) /\ a = align[ps[i]]
  OBVIOUS
<1>6. m \in Alignments /\ a \in Alignments /\ a <= m
  BY <1>1, <1>3, <1>4
<1>7. m % a = 0
  BY <1>6 DEF Alignments
<1> QED
  BY <1>5, <1>6, <1>7

\* Whole numbers of something aligned stay aligned.
LEMMA MultipleIs ==
  ASSUME NEW a \in Alignments, NEW s \in Nat, s % a = 0, NEW c \in Nat
  PROVE  (s * c) % a = 0
<1>1. PICK q \in Nat : s = a * q
  BY DEF Alignments
<1>2. PICK z \in Nat : z = q * c
  OBVIOUS
<1>3. s * c = a * z
  <2>1. CASE a = 1
    BY <1>1, <1>2, <2>1
  <2>2. CASE a = 2
    BY <1>1, <1>2, <2>2
  <2>3. CASE a = 4
    BY <1>1, <1>2, <2>3
  <2>4. CASE a = 8
    BY <1>1, <1>2, <2>4
  <2>5. CASE a = 16
    BY <1>1, <1>2, <2>5
  <2> QED
    BY <2>1, <2>2, <2>3, <2>4, <2>5 DEF Alignments
<1>4. (a * z) % a = 0
  BY DEF Alignments
<1> QED
  BY <1>3, <1>4

\* As long as there are no unions, the size of a type is a multiple of its alignment.
LEMMA SizesAligned ==
  ASSUME NEW ts, WellFormed(ts), \A d \in 1..Len(ts) : ts[d].kind # "union",
         NEW align, align = Alignment(ts), NEW size, size = StaticSize(ts)
  PROVE  \A d \in 1..Len(ts) : size[d] % align[d] = 0
<1> DEFINE n == Len(ts)
           S == {d \in Nat : d \in 1..n => size[d] % align[d] = 0}
<1>1. ASSUME NEW d \in Nat, \A e \in 0..(d - 1) : e \in S
      PROVE  d \in S
  <2> SUFFICES ASSUME d \in 1..n PROVE size[d] % align[d] = 0
    OBVIOUS
  <2> DEFINE t == ts[d]
             ps == t.parts
  <2>1. t.kind \in Kinds /\ t.kind # "union" /\ Built(t, d - 1)
    BY PartsAre DEF WellFormed
  <2>2. /\ size[d] = SizeAt(ts, align, size, d) /\ size[d] \in Nat
        /\ align[d] = AlignAt(ts, align, d) /\ align[d] \in Alignments
    BY AlignmentIs, SizeIs
  <2>3. CASE t.kind = "integer"
    <3>1. t.variant \in DOMAIN IntegerBytes
      BY <2>1, <2>3 DEF Built
    <3>2. IntegerBytes[t.variant] \in Alignments
      BY <3>1, BytesAre
    <3>3. size[d] = IntegerBytes[t.variant] /\ align[d] = IntegerBytes[t.variant]
      BY <2>2, <2>3 DEF SizeAt, AlignAt
    <3> QED
      BY <3>2, <3>3 DEF Alignments
  <2>4. CASE t.kind = "float"
    <3>1. t.variant \in DOMAIN FloatBytes
      BY <2>1, <2>4 DEF Built
    <3>2. FloatBytes[t.variant] \in Alignments
      BY <3>1, BytesAre
    <3>3. size[d] = FloatBytes[t.variant] /\ align[d] = FloatBytes[t.variant]
      BY <2>2, <2>4 DEF SizeAt, AlignAt
    <3> QED
      BY <3>2, <3>3 DEF Alignments
  <2>5. CASE t.kind \in {"bool", "void", "auto", "char", "pointer", "reference", "function",
                         "class"}
    BY <2>2, <2>5 DEF SizeAt, AlignAt, PointerSize
  <2>6. CASE t.kind = "array"
    <3>1. CASE t.count = 0
      BY <2>2, <2>6, <3>1 DEF SizeAt, AlignAt, PointerSize
    <3>2. CASE t.count # 0
      <4>1. ps[1] \in 1..(d - 1) /\ ps[1] \in 1..n
        BY <2>6, PartsAre
      <4>2. size[ps[1]] % align[ps[1]] = 0
        BY <1>1, <4>1
      <4>3. size[ps[1]] \in Nat /\ align[ps[1]] \in Alignments
        BY <4>1, AlignmentIs, SizeIs
      <4>4. t.count \in Nat
        BY <2>1 DEF Built, Object
      <4>5. size[d] = size[ps[1]] * t.count /\ align[d] = align[ps[1]]
        BY <2>2, <2>6, <3>2 DEF SizeAt, AlignAt
      <4> QED
        BY <4>2, <4>3, <4>4, <4>5, MultipleIs
    <3> QED
      BY <3>1, <3>2
  <2>7. /\ MaxAlignment(align, ps) \in Alignments
        /\ NaturalEnd(size, align, ps) \in Nat
    <3>1. Measured(align, size, d)
      <4>1. 1..(d - 1) \subseteq 1..n
        OBVIOUS
      <4> QED
        BY <4>1, AlignmentIs, SizeIs DEF Measured
    <3>2. Laid(size, align, ps, Len(ps)) /\ MaxAlignment(align, ps) \in Alignments
      BY <3>1, PartsLaid
    <3> QED
      BY <3>2, NaturalEndFits, PartsAre
  <2>8. AlignUp(NaturalEnd(size, align, ps), MaxAlignment(align, ps)) % MaxAlignment(align, ps) = 0
    BY <2>7, AlignUpIs
  <2>9. CASE t.kind = "tuple"
    BY <2>2, <2>8, <2>9 DEF SizeAt, AlignAt, TupleSize
  <2>10. CASE t.kind = "struct"
    <3>1. CASE "packed" \in t.flags
      <4>1. align[d] = 1
        BY <2>2, <2>10, <3>1 DEF AlignAt
      <4> QED
        BY <2>2, <4>1
    <3>2. CASE "packed" \notin t.flags
      <4>1. align[d] = MaxAlignment(align, ps) /\ size[d] = NaturalSize(size, align, ps)
        BY <2>2, <2>10, <3>2 DEF AlignAt, SizeAt
      <4>2. CASE ps = <<>>
        <5>1. Range(ps) = {}
          BY <4>2 DEF Range
        <5>2. {1} \cup {align[p] : p \in Range(ps)} = {1} /\ {1} \in SUBSET (1..1)
          BY <5>1
        <5>3. Max({1}) = 1
          BY <5>2, GreatestIs
        <5>4. MaxAlignment(align, ps) = 1 /\ NaturalSize(size, align, ps) = 1
          BY <4>2, <5>2, <5>3 DEF MaxAlignment, NaturalSize
        <5> QED
          BY <4>1, <5>4
      <4>3. CASE ps # <<>>
        BY <2>8, <4>1, <4>3 DEF NaturalSize
      <4> QED
        BY <4>2, <4>3
    <3> QED
      BY <3>1, <3>2
  <2> QED
    BY <2>1, <2>3, <2>4, <2>5, <2>6, <2>9, <2>10 DEF Kinds
<1>2. Nat \subseteq S
  <2> HIDE DEF S
  <2> QED
    BY <1>1, StrongInduction
<1> QED
  BY <1>2

\* Where the fields of a struct begin
Start(ts, s) == [i \in 1..Len(ts[s].parts) |-> StructOffset(ts, s, i)]

LEMMA PackedStart ==
  ASSUME NEW ts, NEW s, "packed" \in ts[s].flags, NEW i
  PROVE  StructOffset(ts, s, i) = PackedEnd(StaticSize(ts), SubSeq(ts[s].parts, 1, i - 1))
BY DEF StructOffset, PackedEnd

LEMMA StructFits ==
  ASSUME NEW ts, WellFormed(ts), NEW s \in 1..Len(ts), ts[s].kind = "struct",
         NEW align, align = Alignment(ts), NEW size, size = StaticSize(ts),
         NEW ps, ps = ts[s].parts, NEW start, start = Start(ts, s)
  PROVE  \A i \in 1..Len(ps) :
           /\ start[i] + size[ps[i]] <= size[s]
           /\ i < Len(ps) => start[i] + size[ps[i]] <= start[i + 1]
           /\ "packed" \notin ts[s].flags =>
                start[i] % align[ps[i]] = 0 /\ align[s] % align[ps[i]] = 0
<1> PICK n : n = Len(ps)
  OBVIOUS
<1>1. n \in Nat /\ DOMAIN ps = 1..n /\ (ps = <<>> <=> n = 0)
  <2>1. n \in Nat /\ DOMAIN ps = 1..n
    BY PartsAre
  <2>2. n = 0 => ps = <<>>
    BY EmptyParts
  <2>3. ps = <<>> => n = 0
    OBVIOUS
  <2> QED
    BY <2>1, <2>2, <2>3
<1>2. /\ size[s] = SizeAt(ts, align, size, s) /\ size[s] \in Nat
      /\ align[s] = AlignAt(ts, align, s)
  BY AlignmentIs, SizeIs
<1>3. Measured(align, size, s)
  <2>1. 1..(s - 1) \subseteq 1..Len(ts)
    BY PartsAre
  <2> QED
    BY <2>1, AlignmentIs, SizeIs DEF Measured
<1>4. /\ Laid(size, align, ps, n) /\ MaxAlignment(align, ps) \in Alignments
      /\ \A i \in 1..n : size[ps[i]] \in Nat
  BY <1>3, PartsLaid
<1>5. CASE "packed" \in ts[s].flags
  <2>1. \A i \in 1..n : start[i] = PackedEnd(size, SubSeq(ps, 1, i - 1))
    BY <1>5, PackedStart DEF Start
  <2>2. Packing(start, size, ps, n)
    BY <2>1 DEF Packing
  <2>3. Len(ps) = n /\ DOMAIN ps = 1..n /\ \A i \in 1..n : size[ps[i]] \in Nat
    BY <1>1, <1>4
  <2>4. \A i \in 1..n : /\ start[i] + size[ps[i]] <= PackedSize(size, ps)
                        /\ i < n => start[i] + size[ps[i]] <= start[i + 1]
    BY <1>1, <2>2, <2>3, PackedOffsets
  <2>5. size[s] = PackedSize(size, ps)
    BY <1>2, <1>5 DEF SizeAt
  <2>6. \A i \in 1..n : i < n => i + 1 \in 1..n
    OBVIOUS
  <2> QED
    BY <1>5, <2>4, <2>5, <2>6
<1>6. CASE "packed" \notin ts[s].flags
  <2>1. \A i \in 1..n : start[i] = NaturalOffset(ts, ps, i)
    BY <1>6 DEF Start, StructOffset
  <2>2. Placed(ts, size, align, ps, n)
    BY <1>1, <1>4, OffsetsFit
  <2>3. size[s] = NaturalSize(size, align, ps) /\ align[s] = MaxAlignment(align, ps)
    BY <1>2, <1>6 DEF SizeAt, AlignAt
  <2>4. \A i \in 1..n : align[s] % align[ps[i]] = 0
    <3>1. \A p \in Range(ps) : align[p] \in Alignments
      BY <1>1, <1>4 DEF Range, Laid
    <3> QED
      BY <1>1, <2>3, <3>1, AlignmentDivides
  <2>5. \A i \in 1..n : i < n => i + 1 \in 1..n
    OBVIOUS
  <2> QED
    BY SMTT(30), <2>1, <2>2, <2>3, <2>4, <2>5 DEF Placed
<1> QED
  BY <1>5, <1>6

LEMMA FieldsFitIn == IInv => FieldsFit
<1> SUFFICES ASSUME IInv PROVE FieldsFit
  OBVIOUS
<1>1. WellFormed(types) /\ DOMAIN types = 1..Len(types)
  BY DEF IInv, WellFormed
<1>2. ASSUME NEW s \in OfKind("struct"), NEW i \in DOMAIN types[s].parts
      PROVE  LET ps == types[s].parts
                 start(j) == StructOffset(types, s, j)
             IN  /\ start(i) + Size[ps[i]] <= (IF i = Len(ps) THEN Size[s] ELSE start(i + 1))
                 /\ "packed" \notin types[s].flags =>
                      start(i) % Align[ps[i]] = 0 /\ Align[s] % Align[ps[i]] = 0
  <2>1. s \in 1..Len(types) /\ types[s].kind = "struct"
    BY <1>1 DEF OfKind, Ids
  <2> PICK ps, size, align, start : /\ ps = types[s].parts /\ size = Size /\ align = Align
                                    /\ start = Start(types, s)
    OBVIOUS
  <2>2. Len(ps) \in Nat /\ DOMAIN ps = 1..Len(ps) /\ i \in 1..Len(ps)
    BY <1>1, <2>1, PartsAre
  <2>3. size = StaticSize(types) /\ align = Alignment(types)
    BY DEF Size, Align
  <2>4. /\ start[i] + size[ps[i]] <= size[s]
        /\ i < Len(ps) => start[i] + size[ps[i]] <= start[i + 1]
        /\ "packed" \notin types[s].flags =>
             start[i] % align[ps[i]] = 0 /\ align[s] % align[ps[i]] = 0
    BY <1>1, <2>1, <2>2, <2>3, StructFits
  <2>5. /\ start[i] = StructOffset(types, s, i)
        /\ i # Len(ps) => i < Len(ps) /\ start[i + 1] = StructOffset(types, s, i + 1)
    BY <2>2 DEF Start
  <2> QED
    BY <2>4, <2>5
<1>3. OfKind("union") = {} => \A d \in Ids : Size[d] % Align[d] = 0
  <2> SUFFICES ASSUME OfKind("union") = {} PROVE \A d \in 1..Len(types) : Size[d] % Align[d] = 0
    BY <1>1 DEF Ids
  <2>1. \A d \in 1..Len(types) : types[d].kind # "union"
    BY <1>1 DEF OfKind, Ids
  <2> QED
    BY <1>1, <2>1, SizesAligned DEF Size, Align
<1> QED
  BY <1>2, <1>3 DEF FieldsFit

-----------------------------------------------------------------------------
(* The flattened view of a class.                                           *)

\* What is flattened of the first lists
Flats(e, q, n) == e[1] = q[1] /\ \A i \in 2..n : e[i] = e[i - 1] \o q[i]

\* n lists of members of S
Listed(q, n, S) == DOMAIN q = 1..n /\ \A i \in 1..n : q[i] \in Seq(S)

FlatsOf(q, n, S) == {e \in [1..n -> Seq(S)] : Flats(e, q, n) /\ FlattenSeq(q) = e[n]}

LEMMA FlattenIs ==
  ASSUME NEW S, NEW n \in Nat \ {0}, NEW q, Listed(q, n, S), Len(q) = n
  PROVE  FlatsOf(q, n, S) # {}
<1> DEFINE Body(f) == [i \in 1..n |-> IF i = 1 THEN q[i] ELSE f[i - 1] \o q[i]]
           P(f) == f = Body(f)
           h == CHOOSE f : P(f)
<1>1. FlattenSeq(q) = h[n]
  BY DEF FlattenSeq
<1>2. \E f \in [1..n -> Seq(S)] : P(f)
  <2> DEFINE V == Seq(S)
             Stop == {1}
             val == q
             nxt == [i \in 1..n |-> i - 1]
             step == [i \in 1..n |-> [w \in V |-> w \o q[i]]]
  <2>1. \A i \in 1..n : q[i] \in V
    BY DEF Listed
  <2>2. \A i \in 1..n : i # 1 => nxt[i] = i - 1 /\ i - 1 \in 1..(i - 1) /\ i - 1 \in 1..n
    OBVIOUS
  <2>3. \A i \in 1..n : \A w \in V : step[i][w] = w \o q[i] /\ step[i][w] \in V
    BY <2>1
  <2> HIDE DEF V, nxt, step
  <2>4. GoesDown(n, V, Stop, val, nxt, step)
    BY <2>1, <2>2, <2>3 DEF GoesDown
  <2>5. PICK f \in [1..n -> V] : Down(f, n, Stop, val, nxt, step)
    BY <2>4, DownExists
  <2>6. ASSUME NEW i \in 1..n PROVE f[i] = IF i = 1 THEN q[i] ELSE f[i - 1] \o q[i]
    <3>1. CASE i = 1
      BY <2>5, <3>1 DEF Down
    <3>2. CASE i # 1
      <4>1. nxt[i] = i - 1 /\ i - 1 \in 1..n
        BY <2>2, <3>2
      <4>2. f[i - 1] \in V
        BY <2>5, <4>1
      <4>3. f[i] = step[i][f[nxt[i]]]
        BY <2>5, <3>2 DEF Down
      <4> QED
        BY <2>3, <3>2, <4>1, <4>2, <4>3
    <3> QED
      BY <3>1, <3>2
  <2>7. f = Body(f)
    BY Zenon, <2>5, <2>6
  <2> QED
    BY <2>5, <2>7 DEF V
<1>3. P(h)
  <2> HIDE DEF P
  <2> QED
    BY <1>2
<1>4. h = Body(h)
  BY <1>3
<1>5. \A i \in 1..n : Body(h)[i] = IF i = 1 THEN q[i] ELSE h[i - 1] \o q[i]
  OBVIOUS
<1>6. h = [i \in 1..n |-> h[i]]
  <2>1. Body(h) = [i \in 1..n |-> Body(h)[i]]
    OBVIOUS
  <2> HIDE DEF h, Body
  <2> QED
    BY <1>4, <2>1
<1> HIDE DEF h, Body
<1>7. \A i \in 1..n : h[i] = IF i = 1 THEN q[i] ELSE h[i - 1] \o q[i]
  BY <1>4, <1>5
<1>8. Flats(h, q, n)
  <2>1. 1 \in 1..n /\ \A i \in 2..n : i \in 1..n /\ i # 1
    OBVIOUS
  <2>2. h[1] = q[1]
    BY <1>7, <2>1
  <2>3. \A i \in 2..n : h[i] = h[i - 1] \o q[i]
    BY <1>7, <2>1
  <2> QED
    BY <2>2, <2>3 DEF Flats
<1>9. \A i \in 1..n : h[i] \in Seq(S)
  <2> DEFINE T == {i \in Nat : i + 1 <= n => h[i + 1] \in Seq(S)}
  <2>1. 0 \in T
    <3>1. h[1] = q[1] /\ 1 \in 1..n
      BY <1>7
    <3> QED
      BY <3>1 DEF Listed
  <2>2. ASSUME NEW i \in Nat, i \in T PROVE i + 1 \in T
    <3> SUFFICES ASSUME (i + 1) + 1 <= n PROVE h[(i + 1) + 1] \in Seq(S)
      OBVIOUS
    <3> PICK k : k = (i + 1) + 1
      OBVIOUS
    <3>1. k \in 1..n /\ k # 1 /\ k - 1 = i + 1
      OBVIOUS
    <3>2. h[k - 1] \in Seq(S)
      BY <2>2, <3>1
    <3>3. h[k] = h[k - 1] \o q[k] /\ q[k] \in Seq(S)
      BY <1>7, <3>1 DEF Listed
    <3> QED
      BY <3>2, <3>3
  <2>3. Nat \subseteq T
    <3> HIDE DEF T
    <3> QED
      BY <2>1, <2>2, SimpleInduction
  <2> TAKE i \in 1..n
  <2>4. i - 1 \in T /\ (i - 1) + 1 = i
    <3> HIDE DEF T
    <3> QED
      BY <2>3
  <2> QED
    BY <2>4
<1>10. h \in [1..n -> Seq(S)]
  BY <1>6, <1>9
<1> QED
  BY <1>1, <1>8, <1>10 DEF FlatsOf

\* The same lists are flattened to the same.
Begins(q, r, n) == \A i \in 1..n : q[i] = r[i]

LEMMA FlatsAgree ==
  ASSUME NEW n \in Nat \ {0}, NEW m \in Nat, n <= m, NEW q, NEW r, NEW e, NEW f,
         Flats(e, q, n), Flats(f, r, m), Begins(q, r, n)
  PROVE  e[n] = f[n]
<1> DEFINE T == {i \in Nat : i + 1 <= n => e[i + 1] = f[i + 1]}
<1>1. 0 \in T
  BY DEF Flats, Begins
<1>2. ASSUME NEW i \in Nat, i \in T PROVE i + 1 \in T
  <2> SUFFICES ASSUME (i + 1) + 1 <= n PROVE e[(i + 1) + 1] = f[(i + 1) + 1]
    OBVIOUS
  <2> PICK k : k = (i + 1) + 1
    OBVIOUS
  <2>1. k \in 2..n /\ k \in 2..m /\ k \in 1..n /\ k - 1 = i + 1
    OBVIOUS
  <2>2. e[k - 1] = f[k - 1]
    BY <1>2, <2>1
  <2>3. e[k] = e[k - 1] \o q[k] /\ f[k] = f[k - 1] \o r[k]
    BY <2>1 DEF Flats
  <2>4. q[k] = r[k]
    BY <2>1 DEF Begins
  <2> QED
    BY <2>1, <2>2, <2>3, <2>4
<1>3. Nat \subseteq T
  <2> HIDE DEF T
  <2> QED
    BY <1>1, <1>2, SimpleInduction
<1>4. n - 1 \in T /\ (n - 1) + 1 = n
  <2> HIDE DEF T
  <2> QED
    BY <1>3
<1> QED
  BY <1>4

\* A chain goes on with that of the base class.
LEMMA ChainGoesOn ==
  ASSUME NEW ts, WellFormed(ts), NEW c \in 1..Len(ts), NEW b, b = ts[c].base
  PROVE  /\ Chain(ts, c) \in Seq(1..Len(ts)) /\ Len(Chain(ts, c)) \in Nat \ {0}
         /\ Chain(ts, c)[1] = c
         /\ b = None => Len(Chain(ts, c)) = 1
         /\ b # None => /\ b \in 1..Len(ts)
                        /\ Len(Chain(ts, c)) = Len(Chain(ts, b)) + 1
                        /\ \A i \in 1..Len(Chain(ts, b)) : Chain(ts, c)[i + 1] = Chain(ts, b)[i]
<1> DEFINE line == [x \in 1..Len(ts) |-> Chain(ts, x)]
           base == [x \in 1..Len(ts) |-> ts[x].base]
<1>1. IsLine(line, base, Len(ts))
  BY LinesAre
<1>2. line[c] = Chain(ts, c) /\ base[c] = b /\ (b # None => b \in 1..Len(ts))
  BY BaseIs
<1>3. b # None => line[b] = Chain(ts, b)
  BY <1>2
<1> HIDE DEF line, base
<1>4. /\ line[c] \in Seq(1..Len(ts)) /\ Len(line[c]) \in Nat \ {0} /\ line[c][1] = c
      /\ base[c] = None => Len(line[c]) = 1
      /\ base[c] # None =>
           /\ Len(line[c]) = Len(line[base[c]]) + 1
           /\ \A i \in 1..Len(line[base[c]]) : line[c][i + 1] = line[base[c]][i]
  BY <1>1 DEF IsLine
<1> QED
  BY <1>2, <1>3, <1>4

\* What c and its bases declare, a base's before its own
Declared(ts, own, c) ==
  [i \in 1..Len(Chain(ts, c)) |-> own[Chain(ts, c)[(Len(Chain(ts, c)) - i) + 1]]]

Flattened(ts, own, c) == FlattenSeq(Declared(ts, own, c))

Owned(own, n, S) == \A x \in 1..n : own[x] \in Seq(S)

LEMMA DeclaredIs ==
  ASSUME NEW ts, WellFormed(ts), NEW S, NEW own, Owned(own, Len(ts), S), NEW c \in 1..Len(ts),
         NEW k, k = Len(Chain(ts, c)), NEW q, q = Declared(ts, own, c)
  PROVE  k \in Nat \ {0} /\ Len(q) = k /\ Listed(q, k, S) /\ q[k] = own[c]
<1> PICK s : s = Chain(ts, c)
  OBVIOUS
<1>1. s = Chain(ts, c)
  OBVIOUS
<1>2. s \in Seq(1..Len(ts)) /\ Len(s) \in Nat \ {0} /\ s[1] = c
  BY ChainGoesOn
<1>3. k = Len(s) /\ q = [i \in 1..k |-> own[s[(k - i) + 1]]]
  BY <1>1 DEF Declared
<1>4. k \in Nat \ {0} /\ DOMAIN q = 1..k
  BY <1>2, <1>3
<1>5. \A i \in 1..k : (k - i) + 1 \in 1..k
  BY <1>4
<1>6. \A i \in 1..k : s[i] \in 1..Len(ts)
  BY <1>2, <1>3
<1>7. \A i \in 1..k : q[i] \in Seq(S)
  BY <1>3, <1>5, <1>6 DEF Owned
<1>8. Listed(q, k, S)
  BY <1>4, <1>7 DEF Listed
<1>9. Len(q) = k
  <2>1. q \in Seq(Seq(S))
    <3>1. q \in [1..k -> Seq(S)]
      BY <1>3, <1>7
    <3> QED
      BY <1>4, <3>1, SeqDef
  <2> QED
    BY <1>4, <2>1, LenProperties
<1>10. q[k] = own[c]
  <2>1. k \in 1..k /\ (k - k) + 1 = 1
    BY <1>4
  <2> QED
    BY <1>2, <1>3, <2>1
<1> QED
  BY <1>4, <1>8, <1>9, <1>10

\* The flattened lists
IsFlat(ts, own, S, c) ==
  /\ Flattened(ts, own, c) \in Seq(S)
  /\ ts[c].base = None => Flattened(ts, own, c) = own[c]
  /\ ts[c].base # None =>
       /\ ts[c].base \in 1..Len(ts) /\ ts[c].base \in 1..(c - 1)
       /\ Flattened(ts, own, ts[c].base) \in Seq(S)
       /\ Flattened(ts, own, c) = Flattened(ts, own, ts[c].base) \o own[c]

LEMMA FlattenedIs ==
  ASSUME NEW ts, WellFormed(ts), NEW S, NEW own, Owned(own, Len(ts), S), NEW c \in 1..Len(ts)
  PROVE  IsFlat(ts, own, S, c)
<1> PICK b : b = ts[c].base
  OBVIOUS
<1>0. /\ b = None => Len(Chain(ts, c)) = 1
      /\ b # None => /\ b \in 1..Len(ts)
                     /\ Len(Chain(ts, c)) = Len(Chain(ts, b)) + 1
                     /\ \A i \in 1..Len(Chain(ts, b)) : Chain(ts, c)[i + 1] = Chain(ts, b)[i]
  BY ChainGoesOn
<1> PICK k, q : k = Len(Chain(ts, c)) /\ q = Declared(ts, own, c)
  OBVIOUS
<1>1. k \in Nat \ {0} /\ Len(q) = k /\ Listed(q, k, S) /\ q[k] = own[c]
  BY DeclaredIs
<1>2. PICK e \in FlatsOf(q, k, S) : TRUE
  BY <1>1, FlattenIs
<1>3. e \in [1..k -> Seq(S)] /\ Flats(e, q, k) /\ Flattened(ts, own, c) = e[k] /\ k \in 1..k
  BY <1>1, <1>2 DEF FlatsOf, Flattened
<1>4. ASSUME b = None PROVE Flattened(ts, own, c) = own[c]
  <2>2. k = 1
    BY <1>4, <1>0
  <2>3. e[k] = own[c]
    BY <1>1, <1>3, <2>2 DEF Flats
  <2> QED
    BY <1>3, <1>4, <2>3
<1>5. ASSUME b # None
      PROVE  /\ b \in 1..Len(ts) /\ b \in 1..(c - 1) /\ Flattened(ts, own, b) \in Seq(S)
             /\ Flattened(ts, own, c) = Flattened(ts, own, b) \o own[c]
  <2>1. b \in 1..Len(ts)
    BY <1>5, BaseIs
  <2> PICK l, r : l = Len(Chain(ts, b)) /\ r = Declared(ts, own, b)
    OBVIOUS
  <2>2. l \in Nat \ {0} /\ Len(r) = l /\ Listed(r, l, S)
    BY <2>1, DeclaredIs
  <2>3. PICK f \in FlatsOf(r, l, S) : TRUE
    BY <2>2, FlattenIs
  <2>4. f \in [1..l -> Seq(S)] /\ Flats(f, r, l) /\ Flattened(ts, own, b) = f[l]
    BY <2>2, <2>3 DEF FlatsOf, Flattened
  <2>6. k = l + 1 /\ \A i \in 1..l : Chain(ts, c)[i + 1] = Chain(ts, b)[i]
    BY <1>5, <1>0
  <2>7. \A i \in 1..l : r[i] = q[i]
    <3> TAKE i \in 1..l
    <3> PICK j : j = (l - i) + 1
      OBVIOUS
    <3>1. j \in 1..l /\ (k - i) + 1 = j + 1 /\ i \in 1..k
      BY <2>2, <2>6
    <3>2. q[i] = own[Chain(ts, c)[j + 1]] /\ r[i] = own[Chain(ts, b)[j]]
      BY <3>1 DEF Declared
    <3> QED
      BY <2>6, <3>1, <3>2
  <2>8. l <= k /\ k \in Nat
    BY <2>2, <2>6
  <2>9. f[l] = e[l]
    <3>1. Begins(r, q, l)
      BY <2>7 DEF Begins
    <3> QED
      BY <1>3, <2>2, <2>4, <2>8, <3>1, FlatsAgree
  <2>10. k \in 2..k /\ k - 1 = l
    BY <2>2, <2>6
  <2>11. e[k] = e[k - 1] \o q[k]
    BY <1>3, <2>10 DEF Flats
  <2>12. Flattened(ts, own, c) = Flattened(ts, own, b) \o own[c]
    BY <1>1, <1>3, <2>4, <2>9, <2>10, <2>11
  <2>13. Flattened(ts, own, b) \in Seq(S)
    BY <2>2, <2>4
  <2>14. b \in 1..(c - 1)
    BY <1>5, BaseIs
  <2> QED
    BY <1>5, <2>1, <2>12, <2>13, <2>14
<1>6. Flattened(ts, own, c) \in Seq(S)
  BY <1>3
<1> QED
  BY <1>4, <1>5, <1>6 DEF IsFlat

\* h are the values of g behind the first.
Behind(g, h, n) == \A i \in 1..n : g[i + 1] = h[i]

\* A sum by its first value and those behind it
LEMMA TotalShifts ==
  ASSUME NEW g, NEW h, NEW n \in Nat, Numbers(g, n + 1), Behind(g, h, n)
  PROVE  Total(g, n + 1) = g[1] + Total(h, n)
<1> DEFINE S == {k \in Nat : k <= n => Total(g, k + 1) = g[1] + Total(h, k) /\ Total(h, k) \in Nat}
<1>1. 0 \in S
  <2>1. Total(g, 0 + 1) = Total(g, 0) + g[0 + 1] /\ Total(g, 0) = 0 /\ Total(h, 0) = 0
    BY TotalStep
  <2>2. g[1] \in Nat
    BY DEF Numbers
  <2> QED
    BY <2>1, <2>2
<1>2. ASSUME NEW k \in Nat, k \in S PROVE k + 1 \in S
  <2> SUFFICES ASSUME k + 1 <= n
               PROVE  Total(g, (k + 1) + 1) = g[1] + Total(h, k + 1) /\ Total(h, k + 1) \in Nat
    OBVIOUS
  <2>1. Total(g, k + 1) = g[1] + Total(h, k) /\ Total(h, k) \in Nat
    BY <1>2
  <2>2. /\ Total(g, (k + 1) + 1) = Total(g, k + 1) + g[(k + 1) + 1]
        /\ Total(h, k + 1) = Total(h, k) + h[k + 1]
    BY TotalStep
  <2>3. g[(k + 1) + 1] = h[k + 1] /\ g[(k + 1) + 1] \in Nat /\ g[1] \in Nat
    BY DEF Numbers, Behind
  <2> QED
    BY <2>1, <2>2, <2>3
<1>3. Nat \subseteq S
  <2> HIDE DEF S
  <2> QED
    BY <1>1, <1>2, SimpleInduction
<1> QED
  BY <1>3

\* How many fields each class declares, from c on
Widths(ts, c) == [i \in 1..Len(Chain(ts, c)) |-> Len(ts[Chain(ts, c)[i]].names)]

LEMMA WidthsAre ==
  ASSUME NEW ts, WellFormed(ts), NEW c \in 1..Len(ts), NEW n, n = Len(Chain(ts, c)),
         NEW g, g = Widths(ts, c)
  PROVE  n \in Nat \ {0} /\ DOMAIN Chain(ts, c) = 1..n /\ Numbers(g, n) /\ g[1] = Len(ts[c].names)
<1> PICK s : s = Chain(ts, c)
  OBVIOUS
<1>1. s = Chain(ts, c)
  OBVIOUS
<1>2. s \in Seq(1..Len(ts)) /\ Len(s) \in Nat \ {0} /\ s[1] = c
  BY ChainGoesOn
<1>3. n = Len(s) /\ n \in Nat \ {0} /\ DOMAIN s = 1..n /\ \A i \in 1..n : s[i] \in 1..Len(ts)
  BY <1>1, <1>2
<1>4. \A i \in 1..n : g[i] = Len(ts[s[i]].names)
  BY <1>1, <1>3 DEF Widths
<1>5. \A x \in 1..Len(ts) : Len(ts[x].names) \in Nat
  <2> TAKE x \in 1..Len(ts)
  <2>1. ts[x].names \in Seq(STRING)
    BY DEF WellFormed, Built, Object
  <2> QED
    BY <2>1
<1>6. Numbers(g, n)
  BY <1>3, <1>4, <1>5 DEF Numbers
<1>7. g[1] = Len(ts[c].names)
  <2>1. 1 \in 1..n
    BY <1>3
  <2> QED
    BY <1>2, <1>4, <2>1
<1> QED
  BY <1>1, <1>3, <1>6, <1>7

LEMMA CountTotal ==
  ASSUME NEW ts, WellFormed(ts), NEW c \in 1..Len(ts), NEW n, n = Len(Chain(ts, c)),
         NEW g, g = Widths(ts, c)
  PROVE  FlattenedFieldCount(ts, c) = Total(g, n)
<1> PICK ps : ps = Chain(ts, c)
  OBVIOUS
<1>0. n \in Nat /\ DOMAIN ps = 1..n /\ Numbers(g, n)
  BY WidthsAre
<1>1. \A i \in 1..n : g[i] = Len(ts[ps[i]].names)
  BY DEF Widths
<1> DEFINE D == SUBSET DOMAIN ps
           Body(f) == [s \in D |->
                         IF s = {} THEN 0 ELSE f[s \ {Max(s)}] + Len(ts[ps[Max(s)]].names)]
           P(f) == f = Body(f)
           h == CHOOSE f : P(f)
<1>2. FlattenedFieldCount(ts, c) = h[DOMAIN ps]
  BY DEF FlattenedFieldCount, FoldLeft, MapThenFoldSet
<1>3. PICK f \in [SUBSET (1..n) -> Nat] : Adds(f, n, g)
  BY <1>0, AdderExists DEF AddersOf
<1>4. D = SUBSET (1..n) /\ \A s \in D : s # {} => Max(s) \in 1..n
  BY <1>0, GreatestIs
<1>5. \A u : \A s \in D : Body(u)[s] = IF s = {} THEN 0 ELSE u[s \ {Max(s)}] + g[Max(s)]
  <2> SUFFICES ASSUME NEW u, NEW s \in D
               PROVE  Body(u)[s] = IF s = {} THEN 0 ELSE u[s \ {Max(s)}] + g[Max(s)]
    OBVIOUS
  <2>1. s # {} => g[Max(s)] = Len(ts[ps[Max(s)]].names)
    BY <1>1, <1>4
  <2> QED
    BY <2>1
<1>6. P(f)
  <2>1. \A s \in D : f[s] = Body(f)[s]
    BY <1>3, <1>4, <1>5 DEF Adds
  <2>2. Body(f) = [s \in D |-> Body(f)[s]]
    OBVIOUS
  <2> HIDE DEF Body, D
  <2> QED
    BY <1>3, <1>4, <2>1, <2>2
<1>7. P(h)
  <2> HIDE DEF P
  <2> QED
    BY <1>6
<1>8. h = Body(h)
  BY <1>7
<1> HIDE DEF h, Body, D
<1>9. Adds(h, n, g)
  <2> SUFFICES ASSUME NEW s \in SUBSET (1..n)
               PROVE  h[s] = IF s = {} THEN 0 ELSE h[s \ {Max(s)}] + g[Max(s)]
    BY DEF Adds
  <2>1. Body(h)[s] = IF s = {} THEN 0 ELSE h[s \ {Max(s)}] + g[Max(s)]
    BY <1>4, <1>5
  <2> QED
    BY <1>8, <2>1
<1>10. h[1..n] = Total(g, n)
  BY <1>0, <1>9, AddsTotal
<1> QED
  BY <1>0, <1>2, <1>10

\* The number of the fields of c and of its bases
IsCount(ts, c) ==
  /\ FlattenedFieldCount(ts, c) \in Nat
  /\ ts[c].base = None => FlattenedFieldCount(ts, c) = Len(ts[c].names)
  /\ ts[c].base # None =>
       FlattenedFieldCount(ts, c) = Len(ts[c].names) + FlattenedFieldCount(ts, ts[c].base)

LEMMA CountIs ==
  ASSUME NEW ts, WellFormed(ts), NEW c \in 1..Len(ts)
  PROVE  IsCount(ts, c)
<1> PICK b : b = ts[c].base
  OBVIOUS
<1>0. /\ b = None => Len(Chain(ts, c)) = 1
      /\ b # None => /\ b \in 1..Len(ts)
                     /\ Len(Chain(ts, c)) = Len(Chain(ts, b)) + 1
                     /\ \A i \in 1..Len(Chain(ts, b)) : Chain(ts, c)[i + 1] = Chain(ts, b)[i]
  BY ChainGoesOn
<1> PICK n, g : n = Len(Chain(ts, c)) /\ g = Widths(ts, c)
  OBVIOUS
<1>1. n \in Nat \ {0} /\ Numbers(g, n) /\ g[1] = Len(ts[c].names)
  BY WidthsAre
<1>2. FlattenedFieldCount(ts, c) = Total(g, n)
  BY CountTotal
<1>3. FlattenedFieldCount(ts, c) \in Nat
  BY <1>1, <1>2, TotalNat DEF Numbers
<1>4. g[1] \in Nat
  BY <1>1 DEF Numbers
<1>5. ASSUME b = None PROVE FlattenedFieldCount(ts, c) = Len(ts[c].names)
  <2>1. n = 1
    BY <1>5, <1>0
  <2>2. Total(g, 0 + 1) = Total(g, 0) + g[0 + 1] /\ Total(g, 0) = 0
    BY TotalStep
  <2> QED
    BY <1>1, <1>2, <1>4, <2>1, <2>2
<1>6. ASSUME b # None
      PROVE  FlattenedFieldCount(ts, c) = Len(ts[c].names) + FlattenedFieldCount(ts, b)
  <2>1. b \in 1..Len(ts)
    BY <1>6, BaseIs
  <2> PICK l, h : l = Len(Chain(ts, b)) /\ h = Widths(ts, b)
    OBVIOUS
  <2>2. l \in Nat \ {0} /\ Numbers(h, l)
    BY <2>1, WidthsAre
  <2>3. FlattenedFieldCount(ts, b) = Total(h, l)
    BY <2>1, CountTotal
  <2>5. n = l + 1 /\ \A i \in 1..l : Chain(ts, c)[i + 1] = Chain(ts, b)[i]
    BY <1>6, <1>0
  <2>6. \A i \in 1..l : g[i + 1] = h[i]
    <3> TAKE i \in 1..l
    <3> PICK j : j = i + 1
      OBVIOUS
    <3>1. j \in 1..n
      BY <2>2, <2>5
    <3>2. g[j] = Len(ts[Chain(ts, c)[j]].names) /\ h[i] = Len(ts[Chain(ts, b)[i]].names)
      BY <3>1 DEF Widths
    <3> QED
      BY <2>5, <3>2
  <2>7. Total(g, l + 1) = g[1] + Total(h, l)
    <3>1. Behind(g, h, l)
      BY <2>6 DEF Behind
    <3> QED
      BY <1>1, <2>2, <2>5, <3>1, TotalShifts
  <2> QED
    BY <1>1, <1>2, <2>3, <2>5, <2>7
<1> QED
  BY <1>3, <1>5, <1>6 DEF IsCount

\* The fields of all classes, by their names and by their types
Named(ts) == [x \in 1..Len(ts) |-> ts[x].names]

Typed(ts) == [x \in 1..Len(ts) |-> ts[x].parts]

LEMMA OwnFields ==
  ASSUME NEW ts, WellFormed(ts)
  PROVE  /\ Owned(Named(ts), Len(ts), STRING) /\ Owned(Typed(ts), Len(ts), Nat)
         /\ \A x \in 1..Len(ts) : /\ Named(ts)[x] = ts[x].names /\ Typed(ts)[x] = ts[x].parts
                                  /\ ts[x].names \in Seq(STRING) /\ ts[x].parts \in Seq(Nat)
<1>1. \A x \in 1..Len(ts) : ts[x].names \in Seq(STRING) /\ ts[x].parts \in Seq(Nat)
  BY DEF WellFormed, Built, Object
<1> QED
  BY <1>1 DEF Owned, Named, Typed

\* m is the i-th of the names N only, or none of them.
Only(N, m, i) == i \in 1..Len(N) /\ N[i] = m /\ \A j \in 1..Len(N) : N[j] = m => j = i

Nowhere(N, m) == \A j \in 1..Len(N) : N[j] # m

LEMMA WhereInTwo ==
  ASSUME NEW S, NEW a \in Seq(S), NEW b \in Seq(S), NEW m, NEW i \in Nat
  PROVE  /\ Nowhere(a \o b, m) => Nowhere(a, m) /\ Nowhere(b, m)
         /\ Only(a \o b, m, i) /\ i <= Len(a) => Only(a, m, i) /\ Nowhere(b, m)
         /\ Only(a \o b, m, i) /\ i > Len(a) => Nowhere(a, m) /\ Only(b, m, i - Len(a))
<1> PICK ab, k, l : ab = a \o b /\ k = Len(a) /\ l = Len(b)
  OBVIOUS
<1>1. /\ k \in Nat /\ l \in Nat /\ Len(ab) = k + l
      /\ \A j \in 1..k : ab[j] = a[j]
      /\ \A j \in 1..(k + l) : j > k => ab[j] = b[j - k]
  <2>1. k \in Nat /\ l \in Nat /\ Len(ab) = k + l
    OBVIOUS
  <2>2. \A j \in 1..k : ab[j] = a[j]
    OBVIOUS
  <2>3. \A j \in 1..(k + l) : j > k => ab[j] = b[j - k]
    OBVIOUS
  <2> QED
    BY <2>1, <2>2, <2>3
<1>2. \A j \in 1..k : j \in 1..(k + l)
  BY <1>1
<1>3. \A j \in 1..l : j + k \in 1..(k + l) /\ j + k > k /\ (j + k) - k = j /\ ab[j + k] = b[j]
  <2> TAKE j \in 1..l
  <2>1. j + k \in 1..(k + l) /\ j + k > k /\ (j + k) - k = j
    BY <1>1
  <2> QED
    BY <1>1, <2>1
<1>4. Nowhere(ab, m) => Nowhere(a, m) /\ Nowhere(b, m)
  <2> SUFFICES ASSUME Nowhere(ab, m) PROVE Nowhere(a, m) /\ Nowhere(b, m)
    OBVIOUS
  <2>1. \A j \in 1..(k + l) : ab[j] # m
    BY <1>1 DEF Nowhere
  <2>2. \A j \in 1..k : a[j] # m
    BY <1>1, <1>2, <2>1
  <2>3. \A j \in 1..l : b[j] # m
    BY <1>3, <2>1
  <2> QED
    BY <2>2, <2>3 DEF Nowhere
<1>5. ASSUME Only(ab, m, i), i <= k PROVE Only(a, m, i) /\ Nowhere(b, m)
  <2>1. i \in 1..(k + l) /\ ab[i] = m /\ \A j \in 1..(k + l) : ab[j] = m => j = i
    BY <1>1, <1>5 DEF Only
  <2>2. Only(a, m, i)
    BY <1>1, <1>2, <1>5, <2>1 DEF Only
  <2>3. ASSUME NEW j \in 1..l, b[j] = m PROVE FALSE
    <3>1. j + k = i
      BY <1>3, <2>1, <2>3
    <3> QED
      BY <1>1, <1>3, <1>5, <3>1
  <2> QED
    BY <2>2, <2>3 DEF Nowhere
<1>6. ASSUME Only(ab, m, i), i > k PROVE Nowhere(a, m) /\ Only(b, m, i - k)
  <2>1. i \in 1..(k + l) /\ ab[i] = m /\ \A j \in 1..(k + l) : ab[j] = m => j = i
    BY <1>1, <1>6 DEF Only
  <2>2. Nowhere(a, m)
    BY <1>1, <1>2, <1>6, <2>1 DEF Nowhere
  <2>3. i - k \in 1..l /\ b[i - k] = m
    BY <1>1, <1>6, <2>1
  <2>4. ASSUME NEW j \in 1..l, b[j] = m PROVE j = i - k
    <3>1. j + k = i
      BY <1>3, <2>1, <2>4
    <3> QED
      BY <1>1, <3>1
  <2> QED
    BY <2>2, <2>3, <2>4 DEF Only
<1> QED
  BY <1>4, <1>5, <1>6

LEMMA FieldIndexIs ==
  ASSUME NEW ts, WellFormed(ts), NEW x \in 1..Len(ts), NEW m, NEW f, f = FieldIndex(ts, x, m)
  PROVE  /\ f \in Nat /\ (f = 0 <=> Nowhere(ts[x].names, m))
         /\ \A i : Only(ts[x].names, m, i) => f = i
<1> PICK N : N = ts[x].names
  OBVIOUS
<1> DEFINE I == {i \in 1..Len(N) : N[i] = m}
<1>1. f = IF I # {} THEN Min(I) ELSE 0
  BY DEF FieldIndex, SelectInSeq
<1>2. Len(N) \in Nat
  BY OwnFields
<1>3. I \in SUBSET Nat /\ 0 \notin I
  OBVIOUS
<1>4. \A i : i \in I <=> i \in 1..Len(N) /\ N[i] = m
  OBVIOUS
<1> HIDE DEF I
<1>5. I # {} => f \in I /\ f \in Nat /\ f # 0
  BY <1>1, <1>3, LeastIs
<1>6. I = {} <=> Nowhere(N, m)
  BY <1>4 DEF Nowhere
<1>7. ASSUME NEW i, Only(N, m, i) PROVE f = i
  <2>1. i \in I
    BY <1>4, <1>7 DEF Only
  <2>2. f \in I
    BY <1>5, <2>1
  <2> QED
    BY <1>4, <1>7, <2>2 DEF Only
<1> QED
  BY <1>1, <1>5, <1>6, <1>7

LEMMA LengthOfTwo ==
  ASSUME NEW S, NEW a \in Seq(S), NEW b \in Seq(S)
  PROVE  Len(a \o b) = Len(b) + Len(a)
OBVIOUS

LEMMA FlattenedLength ==
  ASSUME NEW ts, WellFormed(ts)
  PROVE  \A c \in 1..Len(ts) : Len(Flattened(ts, Named(ts), c)) = FlattenedFieldCount(ts, c)
<1> DEFINE S == {c \in Nat : c \in 1..Len(ts) =>
                   Len(Flattened(ts, Named(ts), c)) = FlattenedFieldCount(ts, c)}
<1>1. ASSUME NEW c \in Nat, \A e \in 0..(c - 1) : e \in S PROVE c \in S
  <2> SUFFICES ASSUME c \in 1..Len(ts)
               PROVE  Len(Flattened(ts, Named(ts), c)) = FlattenedFieldCount(ts, c)
    OBVIOUS
  <2> PICK b, own : b = ts[c].base /\ own = ts[c].names
    OBVIOUS
  <2>1. Owned(Named(ts), Len(ts), STRING) /\ Named(ts)[c] = own /\ own \in Seq(STRING)
    BY OwnFields
  <2>2. /\ b = None => Flattened(ts, Named(ts), c) = own
        /\ b # None => Flattened(ts, Named(ts), c) = Flattened(ts, Named(ts), b) \o own
    <3>1. IsFlat(ts, Named(ts), STRING, c)
      BY <2>1, FlattenedIs
    <3> QED
      BY <2>1, <3>1 DEF IsFlat
  <2>3. /\ b = None => FlattenedFieldCount(ts, c) = Len(own)
        /\ b # None => FlattenedFieldCount(ts, c) = Len(own) + FlattenedFieldCount(ts, b)
    BY CountIs DEF IsCount
  <2>4. CASE b = None
    BY <2>2, <2>3, <2>4
  <2>5. CASE b # None
    <3>1. b \in 1..Len(ts) /\ b \in 1..(c - 1)
      BY <2>5, BaseIs
    <3>2. b \in 0..(c - 1)
      BY <3>1
    <3>3. Len(Flattened(ts, Named(ts), b)) = FlattenedFieldCount(ts, b)
      BY <1>1, <3>1, <3>2
    <3> PICK w : w = Flattened(ts, Named(ts), b)
      OBVIOUS
    <3>4. w \in Seq(STRING)
      <4>1. IsFlat(ts, Named(ts), STRING, b)
        BY <2>1, <3>1, FlattenedIs
      <4> QED
        BY <4>1 DEF IsFlat
    <3>5. Len(w \o own) = Len(own) + Len(w)
      BY <2>1, <3>4, LengthOfTwo
    <3>6. Flattened(ts, Named(ts), c) = w \o own /\ Len(w) = FlattenedFieldCount(ts, b)
      BY <2>2, <2>5, <3>3
    <3>8. FlattenedFieldCount(ts, c) = Len(own) + Len(w)
      BY <2>3, <2>5, <3>6
    <3> QED
      BY <3>5, <3>6, <3>8
  <2> QED
    BY <2>4, <2>5
<1>2. Nat \subseteq S
  <2> HIDE DEF S
  <2> QED
    BY <1>1, StrongInduction
<1> QED
  BY <1>2

\* The place of m: among those of the base class, or behind them
IsIndex(ts, c, m) ==
  LET own == FieldIndex(ts, c, m)
      b == ts[c].base
  IN  /\ b = None => FlattenedFieldIndex(ts, c, m) = own
      /\ b # None /\ FlattenedFieldIndex(ts, b, m) > 0 =>
           FlattenedFieldIndex(ts, c, m) = FlattenedFieldIndex(ts, b, m)
      /\ b # None /\ FlattenedFieldIndex(ts, b, m) = 0 =>
           FlattenedFieldIndex(ts, c, m) = IF own = 0 THEN 0 ELSE own + FlattenedFieldCount(ts, b)

LEMMA IndexIs ==
  ASSUME NEW ts, WellFormed(ts), NEW m
  PROVE  \A c \in 1..Len(ts) : IsIndex(ts, c, m) /\ FlattenedFieldIndex(ts, c, m) \in Nat
<1> DEFINE n == Len(ts)
           D == DOMAIN ts
           own(x) == FieldIndex(ts, x, m)
           count(x) == FlattenedFieldCount(ts, x)
           Body(f) == [x \in DOMAIN ts |->
                         LET b == ts[x].base
                             mine == FieldIndex(ts, x, m)
                         IN  IF b # None /\ f[b] > 0 THEN f[b]
                             ELSE IF mine = 0 THEN 0
                             ELSE mine + (IF b = None THEN 0 ELSE FlattenedFieldCount(ts, b))]
           P(f) == f = Body(f)
           h == CHOOSE f : P(f)
           Found(x, w) == IF w > 0 THEN w ELSE IF own(x) = 0 THEN 0 ELSE own(x) + count(ts[x].base)
<1>1. n \in Nat /\ D = 1..n
  BY DEF WellFormed
<1>2. \A x \in 1..n : ts[x].base # None => ts[x].base \in 1..(x - 1) /\ ts[x].base \in 1..n
  BY BaseIs
<1>3. \A x \in D : FlattenedFieldIndex(ts, x, m) = h[x]
  BY DEF FlattenedFieldIndex
<1>4. \A x \in 1..n : own(x) \in Nat
  BY FieldIndexIs
<1>5. \A x \in 1..n : count(x) \in Nat
  BY CountIs DEF IsCount
<1>6. \A f : \A x \in D : Body(f)[x] = IF ts[x].base = None
                                       THEN IF own(x) = 0 THEN 0 ELSE own(x) + 0
                                       ELSE Found(x, f[ts[x].base])
  OBVIOUS
<1>7. \E f \in [1..n -> Nat] : P(f)
  <2> DEFINE Stop == {x \in 1..n : ts[x].base = None}
             val == [x \in 1..n |-> own(x)]
             nxt == [x \in 1..n |-> ts[x].base]
             step == [x \in 1..n |-> [w \in Nat |-> Found(x, w)]]
  <2>1. /\ \A x \in 1..n : /\ val[x] = own(x) /\ nxt[x] = ts[x].base
                           /\ x \in Stop <=> ts[x].base = None
        /\ \A x \in 1..n : \A w \in Nat : step[x][w] = Found(x, w)
    OBVIOUS
  <2> HIDE DEF Stop, val, nxt, step, n, D, own, count, Body, P, h
  <2>2. GoesDown(n, Nat, Stop, val, nxt, step)
    <3>1. ASSUME NEW x \in 1..n, ts[x].base # None, NEW w \in Nat PROVE Found(x, w) \in Nat
      BY <1>2, <1>4, <1>5, <3>1
    <3> HIDE DEF Found
    <3> QED
      BY <1>2, <1>4, <2>1, <3>1 DEF GoesDown
  <2>3. PICK f \in [1..n -> Nat] : Down(f, n, Stop, val, nxt, step)
    BY <1>1, <2>2, DownExists
  <2>4. ASSUME NEW x \in D
        PROVE  f[x] = IF ts[x].base = None THEN own(x) ELSE Found(x, f[ts[x].base])
    <3> HIDE DEF Found
    <3>1. x \in 1..n /\ f[x] = IF x \in Stop THEN val[x] ELSE step[x][f[nxt[x]]]
      BY <1>1, <2>3 DEF Down
    <3>2. CASE ts[x].base = None
      BY <2>1, <3>1, <3>2
    <3>3. CASE ts[x].base # None
      <4>1. f[ts[x].base] \in Nat /\ nxt[x] = ts[x].base
        BY <1>2, <2>1, <2>3, <3>1, <3>3
      <4> QED
        BY <2>1, <3>1, <3>3, <4>1
    <3> QED
      BY <3>2, <3>3
  <2>5. f = Body(f)
    <3>1. \A x \in D : own(x) = (IF own(x) = 0 THEN 0 ELSE own(x) + 0)
      BY <1>1, <1>4
    <3>2. \A x \in D : f[x] = Body(f)[x]
      <4> HIDE DEF Found
      <4> QED
        BY <1>6, <2>4, <3>1
    <3>3. Body(f) = [x \in D |-> Body(f)[x]]
      BY DEF Body, D
    <3> QED
      BY <1>1, <3>2, <3>3
  <2> QED
    BY <2>5 DEF P
<1>8. P(h)
  <2> HIDE DEF P
  <2> QED
    BY <1>7
<1>9. h = Body(h)
  BY <1>8
<1> HIDE DEF h, Body, D, n
<1>10. \A x \in D : h[x] = IF ts[x].base = None
                           THEN IF own(x) = 0 THEN 0 ELSE own(x) + 0
                           ELSE Found(x, h[ts[x].base])
  BY <1>6, <1>9
<1> DEFINE S == {x \in Nat : x \in 1..n => h[x] \in Nat}
<1>11. ASSUME NEW x \in Nat, \A y \in 0..(x - 1) : y \in S PROVE x \in S
  <2> SUFFICES ASSUME x \in 1..n PROVE h[x] \in Nat
    OBVIOUS
  <2> HIDE DEF own, count
  <2>1. x \in D
    BY <1>1
  <2>2. CASE ts[x].base = None
    BY <1>4, <1>10, <2>1, <2>2
  <2>3. CASE ts[x].base # None
    <3>1. ts[x].base \in 1..(x - 1) /\ ts[x].base \in 1..n
      BY <1>2, <2>3
    <3>2. ts[x].base \in 0..(x - 1)
      BY <3>1
    <3>3. h[ts[x].base] \in Nat
      BY <1>11, <3>1, <3>2
    <3>4. h[x] = Found(x, h[ts[x].base])
      BY <1>10, <2>1, <2>3
    <3> QED
      BY <1>4, <1>5, <3>1, <3>3, <3>4
  <2> QED
    BY <2>2, <2>3
<1>12. Nat \subseteq S
  <2> HIDE DEF S
  <2> QED
    BY <1>11, StrongInduction
<1>13. \A x \in 1..n : h[x] \in Nat
  BY <1>12
<1> SUFFICES ASSUME NEW c \in 1..n PROVE IsIndex(ts, c, m) /\ FlattenedFieldIndex(ts, c, m) \in Nat
  BY DEF n
<1> HIDE DEF S, own, count
<1> PICK b : b = ts[c].base
  OBVIOUS
<1>14. c \in D /\ FlattenedFieldIndex(ts, c, m) = h[c] /\ h[c] \in Nat /\ own(c) \in Nat
  BY <1>1, <1>3, <1>4, <1>13
<1>15. b # None => b \in D /\ FlattenedFieldIndex(ts, b, m) = h[b] /\ h[b] \in Nat
  BY <1>1, <1>2, <1>3, <1>13
<1>16. ASSUME b = None PROVE h[c] = own(c)
  <2>1. h[c] = IF own(c) = 0 THEN 0 ELSE own(c) + 0
    BY <1>10, <1>14, <1>16
  <2> QED
    BY <1>14, <2>1
<1>17. ASSUME b # None PROVE h[c] = Found(c, h[b])
  BY <1>10, <1>14, <1>17
<1>18. ASSUME b # None, h[b] > 0 PROVE h[c] = h[b]
  BY <1>17, <1>18
<1>19. ASSUME b # None, h[b] = 0 PROVE h[c] = IF own(c) = 0 THEN 0 ELSE own(c) + count(b)
  BY <1>17, <1>19
<1> QED
  BY <1>14, <1>15, <1>16, <1>18, <1>19 DEF IsIndex, own, count

\* The least of numbers that are all one more
LEMMA ShiftedLeast ==
  ASSUME NEW I \in SUBSET Nat, NEW J \in SUBSET (Nat \ {0, 1}),
         \A i \in Nat : i \in I <=> i + 1 \in J
  PROVE  (I = {} <=> J = {}) /\ (I # {} => Min(J) = Min(I) + 1)
<1>1. \A j \in J : j - 1 \in Nat /\ (j - 1) + 1 = j
  OBVIOUS
<1>2. \A j \in J : j - 1 \in I
  BY <1>1
<1>3. I = {} <=> J = {}
  BY <1>2
<1>4. ASSUME I # {} PROVE Min(J) = Min(I) + 1
  <2> PICK a, b : a = Min(I) /\ b = Min(J)
    OBVIOUS
  <2>1. a \in I /\ \A y \in I : a <= y
    BY <1>4, LeastIs
  <2>2. b \in J /\ \A y \in J : b <= y
    BY <1>3, <1>4, LeastIs
  <2>3. a + 1 \in J /\ b - 1 \in I
    BY <1>2, <2>1, <2>2
  <2>4. b <= a + 1 /\ a <= b - 1
    BY <2>1, <2>2, <2>3
  <2> QED
    BY <2>1, <2>2, <2>4
<1> QED
  BY <1>3, <1>4

\* The classes of the chain that declare m
Holders(ts, c, m) == {i \in 1..Len(Chain(ts, c)) : FieldIndex(ts, Chain(ts, c)[i], m) > 0}

LEMMA HoldersAre ==
  ASSUME NEW ts, WellFormed(ts), NEW c \in 1..Len(ts), NEW m, NEW f, f = FieldType(ts, c, m)
  PROVE  /\ Holders(ts, c, m) \in SUBSET (Nat \ {0})
         /\ Holders(ts, c, m) = {} => f = None
         /\ Holders(ts, c, m) # {} =>
              \E x : /\ x = Chain(ts, c)[Min(Holders(ts, c, m))]
                     /\ f = ts[x].parts[FieldIndex(ts, x, m)]
<1> PICK s, J : s = Chain(ts, c) /\ J = Holders(ts, c, m)
  OBVIOUS
<1>1. f = (LET at == IF J # {} THEN Min(J) ELSE 0
           IN  IF at = 0 THEN None ELSE ts[s[at]].parts[FieldIndex(ts, s[at], m)])
  BY DEF FieldType, SelectInSeq, Holders
<1>2. Len(s) \in Nat
  BY ChainGoesOn
<1>3. J \in SUBSET (Nat \ {0})
  BY <1>2 DEF Holders
<1>4. J # {} => Min(J) # 0
  BY <1>3, LeastIs
<1>5. ASSUME J # {} PROVE f = ts[s[Min(J)]].parts[FieldIndex(ts, s[Min(J)], m)]
  BY <1>1, <1>4, <1>5
<1>6. J = {} => f = None
  BY <1>1
<1> QED
  BY <1>3, <1>5, <1>6

\* The type of m: that of the class, or else what the base class tells
IsType(ts, c, m) ==
  LET own == FieldIndex(ts, c, m)
  IN  /\ own > 0 => FieldType(ts, c, m) = ts[c].parts[own]
      /\ own = 0 /\ ts[c].base # None => FieldType(ts, c, m) = FieldType(ts, ts[c].base, m)

LEMMA TypeIs ==
  ASSUME NEW ts, WellFormed(ts), NEW m, NEW c \in 1..Len(ts)
  PROVE  IsType(ts, c, m)
<1> PICK b : b = ts[c].base
  OBVIOUS
<1>1. /\ Len(Chain(ts, c)) \in Nat \ {0} /\ Chain(ts, c)[1] = c
      /\ b # None => /\ b \in 1..Len(ts)
                     /\ Len(Chain(ts, c)) = Len(Chain(ts, b)) + 1
                     /\ \A i \in 1..Len(Chain(ts, b)) : Chain(ts, c)[i + 1] = Chain(ts, b)[i]
  BY ChainGoesOn
<1> PICK J : J = Holders(ts, c, m)
  OBVIOUS
<1>2. /\ J \in SUBSET (Nat \ {0})
      /\ J = {} => FieldType(ts, c, m) = None
      /\ J # {} => FieldType(ts, c, m)
                     = ts[Chain(ts, c)[Min(J)]].parts[FieldIndex(ts, Chain(ts, c)[Min(J)], m)]
  BY HoldersAre
<1>3. FieldIndex(ts, c, m) \in Nat
  BY FieldIndexIs
<1>4. 1 \in J <=> FieldIndex(ts, c, m) > 0
  BY <1>1 DEF Holders
<1>5. ASSUME FieldIndex(ts, c, m) > 0
      PROVE  FieldType(ts, c, m) = ts[c].parts[FieldIndex(ts, c, m)]
  <2> PICK l : l = Min(J)
    OBVIOUS
  <2>1. 1 \in J /\ J \in SUBSET Nat /\ J # {}
    BY <1>2, <1>4, <1>5
  <2>2. l \in J /\ l <= 1
    BY <2>1, LeastIs
  <2>3. l \in Nat \ {0}
    BY <1>2, <2>2
  <2>4. l = 1
    BY <2>2, <2>3
  <2> QED
    BY <1>1, <1>2, <2>1, <2>4
<1>6. ASSUME FieldIndex(ts, c, m) = 0, b # None
      PROVE  FieldType(ts, c, m) = FieldType(ts, b, m)
  <2> PICK I : I = Holders(ts, b, m)
    OBVIOUS
  <2>1. /\ I \in SUBSET (Nat \ {0})
        /\ I = {} => FieldType(ts, b, m) = None
        /\ I # {} => FieldType(ts, b, m)
                       = ts[Chain(ts, b)[Min(I)]].parts[FieldIndex(ts, Chain(ts, b)[Min(I)], m)]
    BY <1>1, <1>6, HoldersAre
  <2> PICK l, k, s, r : /\ l = Len(Chain(ts, b)) /\ k = Len(Chain(ts, c))
                        /\ s = Chain(ts, c) /\ r = Chain(ts, b)
    OBVIOUS
  <2>2. l \in Nat /\ k = l + 1 /\ \A i \in 1..l : s[i + 1] = r[i]
    <3>1. l \in Nat
      BY <1>1, <1>6, ChainGoesOn
    <3> QED
      BY <1>1, <1>6, <3>1
  <2>3. 1 \notin J /\ 0 \notin J /\ 0 \notin I
    BY <1>2, <1>4, <1>6, <2>1
  <2>4. \A i \in 1..l : i + 1 \in 1..k
    BY <2>2
  <2>5. \A i : i \in I <=> i \in 1..l /\ FieldIndex(ts, r[i], m) > 0
    BY DEF Holders
  <2>6. \A i : i \in J <=> i \in 1..k /\ FieldIndex(ts, s[i], m) > 0
    BY DEF Holders
  <2>7. ASSUME NEW i \in Nat PROVE i \in I <=> i + 1 \in J
    <3> PICK j : j = i + 1
      OBVIOUS
    <3>1. i # 0 => (i \in 1..l <=> j \in 1..k)
      BY <2>2
    <3>2. i \in 1..l => s[j] = r[i]
      BY <2>2
    <3>3. i = 0 => j = 1
      OBVIOUS
    <3> QED
      BY <2>3, <2>5, <2>6, <3>1, <3>2, <3>3
  <2>8. J \in SUBSET (Nat \ {0, 1}) /\ I \in SUBSET Nat
    BY <1>2, <2>1, <2>3
  <2>9. (I = {} <=> J = {}) /\ (I # {} => Min(J) = Min(I) + 1)
    BY <2>7, <2>8, ShiftedLeast
  <2>10. CASE I = {}
    BY <1>2, <2>1, <2>9, <2>10
  <2>11. CASE I # {}
    <3> PICK a : a = Min(I)
      OBVIOUS
    <3>1. a \in I /\ Min(J) = a + 1
      BY <2>8, <2>9, <2>11, LeastIs
    <3>2. s[a + 1] = r[a]
      BY <2>2, <2>5, <3>1
    <3> QED
      BY <1>2, <2>1, <2>9, <2>11, <3>1, <3>2
  <2> QED
    BY <2>10, <2>11
<1> QED
  BY <1>5, <1>6 DEF IsType

\* A class has a type for each field it declares, and so have its bases.
Fielded(ts) ==
  \A x \in 1..Len(ts) :
    /\ ts[x].kind = "class" => Len(ts[x].names) = Len(ts[x].parts)
    /\ ts[x].base # None => ts[ts[x].base].kind = "class"

\* The index f and the type t of a field m, the fields having the names N and the types T
Points(N, T, m, f, t) ==
  /\ Nowhere(N, m) => f = 0
  /\ \A i : Only(N, m, i) => f = i /\ t = T[i]

LEMMA SecondPart ==
  ASSUME NEW S, NEW a \in Seq(S), NEW b \in Seq(S), NEW i \in Nat
  PROVE  /\ i \in 1..Len(a) => (a \o b)[i] = a[i]
         /\ i > Len(a) /\ i - Len(a) <= Len(b) => (a \o b)[i] = b[i - Len(a)]
OBVIOUS

\* The fields M of the base class, with the types U, before the own fields N
LEMMA PointsOn ==
  ASSUME NEW m, NEW M \in Seq(STRING), NEW N \in Seq(STRING),
         NEW U \in Seq(Nat), NEW T \in Seq(Nat),
         Len(M) = Len(U), Len(N) = Len(T),
         NEW g, NEW v, Points(M, U, m, g, v), NEW own \in Nat,
         own = 0 <=> Nowhere(N, m), \A i : Only(N, m, i) => own = i,
         NEW f, NEW t, g \in Nat,
         g > 0 => f = g, g = 0 => f = IF own = 0 THEN 0 ELSE own + Len(M),
         own > 0 => t = T[own], own = 0 => t = v
  PROVE  Points(M \o N, U \o T, m, f, t)
<1> PICK k, l : k = Len(M) /\ l = Len(N)
  OBVIOUS
<1>1. /\ k \in Nat /\ l \in Nat /\ Len(U) = k /\ Len(T) = l
      /\ Nowhere(M, m) => g = 0
      /\ \A i : Only(M, m, i) => g = i /\ v = U[i]
  <2>1. k \in Nat /\ l \in Nat /\ Len(U) = k /\ Len(T) = l
    OBVIOUS
  <2>2. /\ Nowhere(M, m) => g = 0
        /\ \A i : Only(M, m, i) => g = i /\ v = U[i]
    BY DEF Points
  <2> QED
    BY <2>1, <2>2
<1>2. Len(M \o N) = k + l
  <2>1. Len(M \o N) = l + k
    BY LengthOfTwo
  <2> QED
    BY <1>1, <2>1
<1>3. ASSUME Nowhere(M \o N, m) PROVE f = 0
  <2>1. Nowhere(M, m) /\ Nowhere(N, m)
    <3>1. 0 \in Nat
      OBVIOUS
    <3> QED
      BY <1>3, <3>1, WhereInTwo
  <2> QED
    BY <1>1, <2>1
<1>4. ASSUME NEW i, Only(M \o N, m, i) PROVE f = i /\ t = (U \o T)[i]
  <2>1. i \in 1..(k + l)
    BY <1>2, <1>4 DEF Only
  <2>2. i \in Nat /\ i > 0
    BY <1>1, <2>1
  <2>3. ASSUME i <= k PROVE f = i /\ t = (U \o T)[i]
    <3>1. Only(M, m, i) /\ Nowhere(N, m)
      BY <1>4, <2>2, <2>3, WhereInTwo
    <3>2. g = i /\ v = U[i] /\ own = 0
      BY <1>1, <3>1
    <3>3. (U \o T)[i] = U[i]
      BY <1>1, <2>2, <2>3, SecondPart
    <3> QED
      BY <2>2, <3>2, <3>3
  <2>4. ASSUME i > k PROVE f = i /\ t = (U \o T)[i]
    <3>1. Nowhere(M, m) /\ Only(N, m, i - k)
      BY <1>4, <2>2, <2>4, WhereInTwo
    <3>2. g = 0 /\ own = i - k
      BY <1>1, <3>1
    <3>3. i - k > 0 /\ i - k <= l /\ (i - k) + k = i
      BY <1>1, <2>1, <2>4
    <3>4. f = i
      BY <3>2, <3>3
    <3>5. t = T[i - k]
      BY <3>2, <3>3
    <3>6. (U \o T)[i] = T[i - k]
      BY <1>1, <2>2, <2>4, <3>3, SecondPart
    <3> QED
      BY <3>4, <3>5, <3>6
  <2>5. i <= k \/ i > k
    BY <1>1, <2>2
  <2> QED
    BY <2>3, <2>4, <2>5
<1> QED
  BY <1>3, <1>4 DEF Points

\* What getFlattenedFieldIndex and getFieldType tell of a field m
Tells(ts, c, m, N, T) ==
  Len(N) = Len(T) /\ Points(N, T, m, FlattenedFieldIndex(ts, c, m), FieldType(ts, c, m))

\* The last base of all, and a class behind its base
LEMMA TellsFirst ==
  ASSUME NEW ts, WellFormed(ts), Fielded(ts), NEW m, NEW c \in 1..Len(ts), ts[c].kind = "class",
         ts[c].base = None
  PROVE  Tells(ts, c, m, ts[c].names, ts[c].parts)
<1> DEFINE own == FieldIndex(ts, c, m)
           N == ts[c].names
           T == ts[c].parts
<1>1. Len(N) = Len(T)
  BY DEF Fielded
<1>2. /\ own \in Nat /\ (own = 0 <=> Nowhere(N, m))
      /\ \A i : Only(N, m, i) => own = i
  BY FieldIndexIs
<1>3. FlattenedFieldIndex(ts, c, m) = own
  BY IndexIs DEF IsIndex
<1>4. own > 0 => FieldType(ts, c, m) = T[own]
  BY TypeIs DEF IsType
<1> HIDE DEF own, N, T
<1>5. ASSUME NEW i, Only(N, m, i)
      PROVE  FlattenedFieldIndex(ts, c, m) = i /\ FieldType(ts, c, m) = T[i]
  <2>1. own = i
    BY <1>2, <1>5
  <2>2. Nowhere(N, m) => FALSE
    BY <1>5 DEF Only, Nowhere
  <2>3. own > 0
    BY <1>2, <2>2
  <2> QED
    BY <1>3, <1>4, <2>1, <2>3
<1>6. Tells(ts, c, m, N, T)
  BY <1>1, <1>2, <1>3, <1>5 DEF Tells, Points
<1> QED
  BY <1>6 DEF N, T

LEMMA TellsNext ==
  ASSUME NEW ts, WellFormed(ts), Fielded(ts), NEW m, NEW c \in 1..Len(ts), ts[c].kind = "class",
         NEW b \in 1..Len(ts), b = ts[c].base, b # None,
         NEW M \in Seq(STRING), NEW U \in Seq(Nat), Tells(ts, b, m, M, U),
         Len(M) = FlattenedFieldCount(ts, b)
  PROVE  Tells(ts, c, m, M \o ts[c].names, U \o ts[c].parts)
<1> DEFINE own == FieldIndex(ts, c, m)
           N == ts[c].names
           T == ts[c].parts
           g == FlattenedFieldIndex(ts, b, m)
           f == FlattenedFieldIndex(ts, c, m)
           v == FieldType(ts, b, m)
           t == FieldType(ts, c, m)
<1>1. Len(N) = Len(T)
  BY DEF Fielded
<1>2. /\ own \in Nat /\ (own = 0 <=> Nowhere(N, m))
      /\ \A i : Only(N, m, i) => own = i
  BY FieldIndexIs
<1>3. N \in Seq(STRING) /\ T \in Seq(Nat)
  BY OwnFields
<1>4. Len(M) = Len(U) /\ Points(M, U, m, g, v)
  BY DEF Tells
<1>5. /\ g \in Nat
      /\ g > 0 => f = g
      /\ g = 0 => f = IF own = 0 THEN 0 ELSE own + Len(M)
  BY IndexIs DEF IsIndex
<1>6. /\ own > 0 => t = T[own]
      /\ own = 0 => t = v
  BY TypeIs DEF IsType
<1>7. Tells(ts, c, m, M \o N, U \o T)
        <=> Len(M \o N) = Len(U \o T) /\ Points(M \o N, U \o T, m, f, t)
  BY DEF Tells
<1> HIDE DEF own, N, T, g, f, v, t
<1>8. Points(M \o N, U \o T, m, f, t)
  BY <1>1, <1>2, <1>3, <1>4, <1>5, <1>6, PointsOn
<1>9. Len(M \o N) = Len(U \o T)
  <2>1. Len(M \o N) = Len(N) + Len(M) /\ Len(U \o T) = Len(T) + Len(U)
    BY <1>3, LengthOfTwo
  <2> QED
    BY <1>1, <1>4, <2>1
<1> QED
  BY <1>7, <1>8, <1>9 DEF N, T

LEMMA TellsAll ==
  ASSUME NEW ts, WellFormed(ts), Fielded(ts), NEW m
  PROVE  \A c \in 1..Len(ts) : ts[c].kind = "class" =>
           Tells(ts, c, m, Flattened(ts, Named(ts), c), Flattened(ts, Typed(ts), c))
<1> DEFINE Good(c) == Tells(ts, c, m, Flattened(ts, Named(ts), c), Flattened(ts, Typed(ts), c))
           S == {c \in Nat : c \in 1..Len(ts) /\ ts[c].kind = "class" => Good(c)}
<1>1. ASSUME NEW c \in Nat, \A e \in 0..(c - 1) : e \in S PROVE c \in S
  <2> SUFFICES ASSUME c \in 1..Len(ts), ts[c].kind = "class" PROVE Good(c)
    OBVIOUS
  <2>1. /\ Owned(Named(ts), Len(ts), STRING) /\ Owned(Typed(ts), Len(ts), Nat)
        /\ Named(ts)[c] = ts[c].names /\ Typed(ts)[c] = ts[c].parts
    BY OwnFields
  <2>2. IsFlat(ts, Named(ts), STRING, c) /\ IsFlat(ts, Typed(ts), Nat, c)
    BY <2>1, FlattenedIs
  <2>3. CASE ts[c].base = None
    <3>1. Flattened(ts, Named(ts), c) = ts[c].names /\ Flattened(ts, Typed(ts), c) = ts[c].parts
      BY <2>1, <2>2, <2>3 DEF IsFlat
    <3> QED
      BY <2>3, <3>1, TellsFirst
  <2>4. CASE ts[c].base # None
    <3> PICK b, M, U : /\ b = ts[c].base /\ M = Flattened(ts, Named(ts), b)
                       /\ U = Flattened(ts, Typed(ts), b)
      OBVIOUS
    <3>1. b \in 1..Len(ts) /\ b \in 0..(c - 1) /\ ts[b].kind = "class"
      <4>1. b \in 1..Len(ts) /\ b \in 1..(c - 1)
        BY <2>4, BaseIs
      <4>2. b \in 0..(c - 1)
        BY <4>1
      <4> QED
        BY <2>4, <4>1, <4>2 DEF Fielded
    <3>2. Good(b)
      BY <1>1, <3>1
    <3> HIDE DEF S
    <3>3. M \in Seq(STRING) /\ U \in Seq(Nat)
      <4>1. IsFlat(ts, Named(ts), STRING, b) /\ IsFlat(ts, Typed(ts), Nat, b)
        BY <2>1, <3>1, FlattenedIs
      <4> QED
        BY <4>1 DEF IsFlat
    <3>4. Len(M) = FlattenedFieldCount(ts, b)
      BY <3>1, FlattenedLength
    <3>5. /\ Flattened(ts, Named(ts), c) = M \o ts[c].names
          /\ Flattened(ts, Typed(ts), c) = U \o ts[c].parts
      BY <2>1, <2>2, <2>4 DEF IsFlat
    <3>6. Tells(ts, c, m, M \o ts[c].names, U \o ts[c].parts)
      BY <2>4, <3>1, <3>2, <3>3, <3>4, TellsNext
    <3> QED
      BY <3>5, <3>6
  <2> QED
    BY <2>3, <2>4
<1>2. Nat \subseteq S
  <2> HIDE DEF S
  <2> QED
    BY <1>1, StrongInduction
<1> QED
  BY <1>2

\* What the fields that a class declares take, for a class that derives from it
Room(ts, b) == NaturalSize(StaticSize(ts), Alignment(ts), ts[b].parts)

\* Where the i-th field begins: in the base class, or behind it
IsOffset(ts, c, i) ==
  LET b == ts[c].base
  IN  /\ b = None => FlattenedFieldOffset(ts, c, i) = 0 + NaturalOffset(ts, ts[c].parts, i - 0)
      /\ b # None /\ i <= FlattenedFieldCount(ts, b) =>
           FlattenedFieldOffset(ts, c, i) = FlattenedFieldOffset(ts, b, i)
      /\ b # None /\ ~(i <= FlattenedFieldCount(ts, b)) =>
           FlattenedFieldOffset(ts, c, i)
             = Room(ts, b) + NaturalOffset(ts, ts[c].parts, i - FlattenedFieldCount(ts, b))

LEMMA OffsetIs ==
  ASSUME NEW ts, WellFormed(ts), NEW i \in Nat \ {0}
  PROVE  \A c \in 1..Len(ts) : IsOffset(ts, c, i)
<1> DEFINE n == Len(ts)
           D == DOMAIN ts
           first(x) == 0 + NaturalOffset(ts, ts[x].parts, i - 0)
           within(x) == i <= FlattenedFieldCount(ts, ts[x].base)
           last(x) == Room(ts, ts[x].base)
                        + NaturalOffset(ts, ts[x].parts, i - FlattenedFieldCount(ts, ts[x].base))
           Body(f) == [x \in DOMAIN ts |->
                         LET b == ts[x].base
                             before == IF b = None THEN 0 ELSE FlattenedFieldCount(ts, b)
                             room == IF b = None THEN 0
                                     ELSE NaturalSize(StaticSize(ts), Alignment(ts), ts[b].parts)
                         IN  IF i <= before THEN f[b]
                             ELSE room + NaturalOffset(ts, ts[x].parts, i - before)]
           P(f) == f = Body(f)
           h == CHOOSE f : P(f)
<1>1. n \in Nat /\ D = 1..n
  BY DEF WellFormed
<1>2. \A x \in 1..n : ts[x].base # None => ts[x].base \in 1..(x - 1) /\ ts[x].base \in 1..n
  BY BaseIs
<1>3. \A x \in D : FlattenedFieldOffset(ts, x, i) = h[x]
  BY DEF FlattenedFieldOffset
<1>4. \A f : \A x \in D : Body(f)[x] = IF ts[x].base = None THEN first(x)
                                       ELSE IF within(x) THEN f[ts[x].base] ELSE last(x)
  <2> SUFFICES ASSUME NEW f, NEW x \in D
               PROVE  Body(f)[x] = IF ts[x].base = None THEN first(x)
                                   ELSE IF within(x) THEN f[ts[x].base] ELSE last(x)
    OBVIOUS
  <2>1. ~(i <= 0)
    OBVIOUS
  <2>2. CASE ts[x].base = None
    BY <2>1, <2>2
  <2>3. CASE ts[x].base # None
    BY <2>3 DEF Room
  <2> QED
    BY <2>2, <2>3
<1>5. \E f : P(f)
  <2> DEFINE Stop == {x \in 1..n : ts[x].base = None \/ ~within(x)}
             val == [x \in 1..n |-> IF ts[x].base = None THEN first(x) ELSE last(x)]
             V == {val[x] : x \in 1..n}
             nxt == [x \in 1..n |-> ts[x].base]
             step == [x \in 1..n |-> [w \in V |-> w]]
  <2>1. /\ \A x \in 1..n : /\ nxt[x] = ts[x].base
                           /\ x \in Stop <=> ts[x].base = None \/ ~within(x)
                           /\ val[x] \in V
                           /\ ts[x].base = None => val[x] = first(x)
                           /\ ts[x].base # None => val[x] = last(x)
        /\ \A x \in 1..n : \A w \in V : step[x][w] = w
    OBVIOUS
  <2> HIDE DEF Stop, val, nxt, step, V, n, D, first, last, within, Body, P, h
  <2>2. GoesDown(n, V, Stop, val, nxt, step)
    BY <1>2, <2>1 DEF GoesDown
  <2>3. PICK f \in [1..n -> V] : Down(f, n, Stop, val, nxt, step)
    BY <1>1, <2>2, DownExists
  <2>4. ASSUME NEW x \in D
        PROVE  f[x] = IF ts[x].base = None THEN first(x)
                      ELSE IF within(x) THEN f[ts[x].base] ELSE last(x)
    <3>1. x \in 1..n /\ f[x] = IF x \in Stop THEN val[x] ELSE step[x][f[nxt[x]]]
      BY <1>1, <2>3 DEF Down
    <3>2. ASSUME ts[x].base = None PROVE f[x] = first(x)
      BY <2>1, <3>1, <3>2
    <3>3. ASSUME ts[x].base # None, ~within(x) PROVE f[x] = last(x)
      BY <2>1, <3>1, <3>3
    <3>4. ASSUME ts[x].base # None, within(x) PROVE f[x] = f[ts[x].base]
      <4>1. f[ts[x].base] \in V /\ nxt[x] = ts[x].base
        BY <1>2, <2>1, <2>3, <3>1, <3>4
      <4> QED
        BY <2>1, <3>1, <3>4, <4>1
    <3> QED
      BY <3>2, <3>3, <3>4
  <2>5. f = Body(f)
    <3>1. \A x \in D : f[x] = Body(f)[x]
      BY <1>4, <2>4
    <3>2. Body(f) = [x \in D |-> Body(f)[x]]
      BY DEF Body, D
    <3> QED
      BY <1>1, <2>3, <3>1, <3>2
  <2> QED
    BY <2>5 DEF P
<1>6. P(h)
  <2> HIDE DEF P
  <2> QED
    BY <1>5
<1>7. h = Body(h)
  BY <1>6
<1> HIDE DEF h, Body, D, n
<1>8. \A x \in D : h[x] = IF ts[x].base = None THEN first(x)
                          ELSE IF within(x) THEN h[ts[x].base] ELSE last(x)
  BY <1>4, <1>7
<1> SUFFICES ASSUME NEW c \in 1..n PROVE IsOffset(ts, c, i)
  BY DEF n
<1>9. c \in D /\ FlattenedFieldOffset(ts, c, i) = h[c]
  BY <1>1, <1>3
<1> HIDE DEF first, within, last
<1>10. ts[c].base # None => FlattenedFieldOffset(ts, ts[c].base, i) = h[ts[c].base]
  BY <1>1, <1>2, <1>3
<1>11. /\ ts[c].base = None => h[c] = first(c)
       /\ ts[c].base # None /\ within(c) => h[c] = h[ts[c].base]
       /\ ts[c].base # None /\ ~within(c) => h[c] = last(c)
  BY <1>8, <1>9
<1> QED
  BY <1>9, <1>10, <1>11 DEF IsOffset, first, within, last

\* The parts of a class are laid out as OffsetsFit tells.
LEMMA PartsPlaced ==
  ASSUME NEW ts, WellFormed(ts), NEW c \in 1..Len(ts), NEW n, n = Len(ts[c].parts)
  PROVE  /\ n \in Nat
         /\ Placed(ts, StaticSize(ts), Alignment(ts), ts[c].parts, n)
         /\ Room(ts, c) \in Nat
         /\ \A i \in 1..n : StaticSize(ts)[ts[c].parts[i]] \in Nat
<1> PICK ps, align, size : ps = ts[c].parts /\ align = Alignment(ts) /\ size = StaticSize(ts)
  OBVIOUS
<1>1. n \in Nat /\ DOMAIN ps = 1..n /\ (ps = <<>> <=> n = 0)
  <2>1. n \in Nat /\ DOMAIN ps = 1..n
    BY PartsAre
  <2>2. n = 0 => ps = <<>>
    BY EmptyParts
  <2>3. ps = <<>> => n = 0
    OBVIOUS
  <2> QED
    BY <2>1, <2>2, <2>3
<1>2. Measured(align, size, c)
  <2>1. 1..(c - 1) \subseteq 1..Len(ts)
    BY PartsAre
  <2> QED
    BY <2>1, AlignmentIs, SizeIs DEF Measured
<1>3. /\ Laid(size, align, ps, n) /\ MaxAlignment(align, ps) \in Alignments
      /\ \A i \in 1..n : size[ps[i]] \in Nat
  BY <1>2, PartsLaid
<1>4. Placed(ts, size, align, ps, n)
  BY <1>1, <1>3, OffsetsFit
<1>5. NaturalSize(size, align, ps) \in Nat
  <2>1. PICK e \in EndsOf(size, align, ps, n) : TRUE
    BY <1>1, <1>3, EndIs
  <2>2. NaturalEnd(size, align, ps) \in Nat
    <3>1. e \in [0..n -> Nat] /\ NaturalEnd(size, align, ps) = e[n] /\ n \in 0..n
      BY <1>1, <2>1 DEF EndsOf
    <3> QED
      BY <3>1
  <2>3. AlignUp(NaturalEnd(size, align, ps), MaxAlignment(align, ps)) \in Nat
    BY <1>3, <2>2, AlignUpIs
  <2> QED
    BY <2>3 DEF NaturalSize
<1> QED
  BY <1>1, <1>3, <1>4, <1>5 DEF Room

\* The fields of the types T do not overlap, o(i) being where the i-th begins.
Apart(o, size, T) == \A i \in 1..(Len(T) - 1) : o[i] + size[T[i]] <= o[i + 1]

Offsets(ts, c, n) == [i \in 1..n |-> FlattenedFieldOffset(ts, c, i)]

\* p lists where the parts ps begin, and room is what they take.
Rooms(p, size, ps, room) ==
  \A i \in 1..Len(ps) :
    /\ p[i] \in Nat /\ size[ps[i]] \in Nat
    /\ p[i] + size[ps[i]] <= room
    /\ i < Len(ps) => p[i] + size[ps[i]] <= p[i + 1]

Begin(ts, c) == [i \in 1..Len(ts[c].parts) |-> NaturalOffset(ts, ts[c].parts, i)]

LEMMA BeginsApart ==
  ASSUME NEW ts, WellFormed(ts), NEW c \in 1..Len(ts)
  PROVE  /\ Rooms(Begin(ts, c), StaticSize(ts), ts[c].parts, Room(ts, c))
         /\ Len(ts[c].parts) \in Nat /\ Room(ts, c) \in Nat
<1> PICK n, p, ps, size : /\ n = Len(ts[c].parts) /\ p = Begin(ts, c) /\ ps = ts[c].parts
                          /\ size = StaticSize(ts)
  OBVIOUS
<1>1. /\ n \in Nat /\ Room(ts, c) \in Nat
      /\ Placed(ts, size, Alignment(ts), ps, n)
      /\ \A i \in 1..n : size[ps[i]] \in Nat
  BY PartsPlaced
<1>2. \A i \in 1..n : p[i] = NaturalOffset(ts, ps, i)
  BY DEF Begin
<1>3. \A i \in 1..n :
        /\ p[i] \in Nat
        /\ p[i] + size[ps[i]] <= Room(ts, c)
        /\ i < n => p[i] + size[ps[i]] <= p[i + 1]
  <2> SUFFICES ASSUME NEW i \in 1..n
               PROVE  /\ p[i] \in Nat
                      /\ p[i] + size[ps[i]] <= Room(ts, c)
                      /\ i < n => p[i] + size[ps[i]] <= p[i + 1]
    OBVIOUS
  <2>1. i < n => i + 1 \in 1..n
    BY <1>1
  <2> QED
    BY <1>1, <1>2, <2>1 DEF Placed, Room
<1> QED
  BY <1>1, <1>3 DEF Rooms

\* A class without a base
LEMMA ApartFirst ==
  ASSUME NEW ts, WellFormed(ts), NEW c \in 1..Len(ts), ts[c].base = None,
         NEW n, n = Len(ts[c].parts)
  PROVE  Apart(Offsets(ts, c, n), StaticSize(ts), ts[c].parts)
<1> PICK p, ps, size, o : /\ p = Begin(ts, c) /\ ps = ts[c].parts /\ size = StaticSize(ts)
                          /\ o = Offsets(ts, c, n)
  OBVIOUS
<1>1. Rooms(p, size, ps, Room(ts, c)) /\ n \in Nat
  BY BeginsApart
<1>2. \A i \in 1..n : o[i] = p[i]
  <2> TAKE i \in 1..n
  <2>1. o[i] = 0 + NaturalOffset(ts, ps, i - 0)
    <3>1. i \in Nat \ {0}
      BY <1>1
    <3> QED
      BY <3>1, OffsetIs DEF IsOffset, Offsets
  <2>2. p[i] = NaturalOffset(ts, ps, i) /\ i - 0 = i
    BY <1>1 DEF Begin
  <2>3. p[i] \in Nat
    BY <1>1 DEF Rooms
  <2> QED
    BY <2>1, <2>2, <2>3
<1>3. \A i \in 1..(n - 1) : o[i] + size[ps[i]] <= o[i + 1]
  <2> TAKE i \in 1..(n - 1)
  <2>1. i \in 1..n /\ i + 1 \in 1..n /\ i < n
    BY <1>1
  <2>2. p[i] + size[ps[i]] <= p[i + 1]
    BY <1>1, <2>1 DEF Rooms
  <2> QED
    BY <1>2, <2>1, <2>2
<1> QED
  BY <1>3 DEF Apart

\* The fields of two lists, those of the second behind the room of the first
Joined(o, q, p, room, k, l) ==
  (\A i \in 1..k : o[i] = q[i]) /\ (\A i \in 1..l : o[i + k] = room + p[i])

LEMMA Moved ==
  ASSUME NEW a \in Nat, NEW b \in Nat, NEW c \in Nat, NEW d \in Nat, a + b <= c
  PROVE  (d + a) + b <= d + c
OBVIOUS

LEMMA Places ==
  ASSUME NEW k \in Nat, NEW l \in Nat
  PROVE  /\ \A i \in 1..k : i \in Nat \ {0} /\ i <= k /\ i - 0 = i /\ i \in 1..(k + l)
         /\ \A i \in 1..l : /\ i + k \in Nat \ {0} /\ ~(i + k <= k) /\ (i + k) - k = i
                            /\ i + k \in 1..(k + l)
OBVIOUS

LEMMA JoinedApart ==
  ASSUME NEW us \in Seq(Nat), NEW ps \in Seq(Nat), NEW size, NEW q, NEW p, NEW o,
         NEW room \in Nat, NEW further, Rooms(q, size, us, room), Rooms(p, size, ps, further),
         Joined(o, q, p, room, Len(us), Len(ps))
  PROVE  Apart(o, size, us \o ps)
<1> PICK k, l, T : k = Len(us) /\ l = Len(ps) /\ T = us \o ps
  OBVIOUS
<1>1. k \in Nat /\ l \in Nat
  OBVIOUS
<1>2. Len(T) = k + l
  <2>1. Len(T) = l + k
    BY LengthOfTwo
  <2> QED
    BY <1>1, <2>1
<1>3. \A i \in 1..k : T[i] = us[i]
  BY SecondPart
<1>4. \A i \in 1..l : T[i + k] = ps[i]
  <2> TAKE i \in 1..l
  <2>1. i + k \in Nat /\ i + k > k /\ (i + k) - k = i /\ i <= l
    BY <1>1
  <2> QED
    BY <2>1, SecondPart
<1>5. \A i \in 1..k : /\ o[i] = q[i] /\ q[i] \in Nat /\ size[us[i]] \in Nat
                      /\ q[i] + size[us[i]] <= room
                      /\ i < k => q[i] + size[us[i]] <= q[i + 1]
  BY DEF Rooms, Joined
<1>6. \A i \in 1..l : /\ o[i + k] = room + p[i] /\ p[i] \in Nat /\ size[ps[i]] \in Nat
                      /\ i < l => p[i] + size[ps[i]] <= p[i + 1]
  BY DEF Rooms, Joined
<1>7. ASSUME NEW i \in 1..((k + l) - 1) PROVE o[i] + size[T[i]] <= o[i + 1]
  <2>1. i \in Nat \ {0} /\ i + 1 <= k + l
    BY <1>1
  <2>2. ASSUME i < k PROVE o[i] + size[T[i]] <= o[i + 1]
    <3>1. i \in 1..k /\ i + 1 \in 1..k
      BY <1>1, <2>1, <2>2
    <3>2. q[i] + size[us[i]] <= q[i + 1]
      BY <1>5, <2>2, <3>1
    <3>3. o[i] = q[i] /\ o[i + 1] = q[i + 1] /\ T[i] = us[i]
      BY <1>3, <1>5, <3>1
    <3> QED
      BY <3>2, <3>3
  <2>3. ASSUME i = k PROVE o[i] + size[T[i]] <= o[i + 1]
    <3>1. i \in 1..k /\ 1 \in 1..l /\ i + 1 = 1 + k
      BY <1>1, <2>1, <2>3
    <3>2. o[i + 1] = room + p[1] /\ p[1] \in Nat
      BY <1>6, <3>1
    <3>3. /\ q[i] + size[us[i]] <= room /\ q[i] \in Nat /\ size[us[i]] \in Nat
          /\ o[i] = q[i] /\ T[i] = us[i]
      BY <1>3, <1>5, <3>1
    <3>4. q[i] + size[us[i]] <= room + p[1]
      BY SMTT(30), <3>2, <3>3
    <3> QED
      BY <3>2, <3>3, <3>4
  <2>4. ASSUME i > k PROVE o[i] + size[T[i]] <= o[i + 1]
    <3>1. i - k \in 1..l /\ (i - k) + 1 \in 1..l /\ i - k < l
      BY <1>1, <2>1, <2>4
    <3>2. (i - k) + k = i /\ ((i - k) + 1) + k = i + 1
      BY <1>1, <2>1
    <3> PICK x : x = i - k
      OBVIOUS
    <3>3. /\ x \in 1..l /\ x + 1 \in 1..l /\ x < l /\ x + k = i /\ (x + 1) + k = i + 1
      BY <3>1, <3>2
    <3>4. o[x + k] = room + p[x] /\ o[(x + 1) + k] = room + p[x + 1]
      BY <1>6, <3>3
    <3>5. /\ p[x] + size[ps[x]] <= p[x + 1] /\ p[x] \in Nat /\ size[ps[x]] \in Nat
          /\ p[x + 1] \in Nat
      BY <1>6, <3>3
    <3>6. (room + p[x]) + size[ps[x]] <= room + p[x + 1]
      BY <3>5, Moved
    <3>7. T[x + k] = ps[x]
      BY <1>4, <3>3
    <3>8. o[i] = room + p[x] /\ o[i + 1] = room + p[x + 1] /\ T[i] = ps[x]
      BY <3>3, <3>4, <3>7
    <3> QED
      BY <3>6, <3>8
  <2>5. i < k \/ i = k \/ i > k
    BY <1>1, <2>1
  <2> QED
    BY <2>2, <2>3, <2>4, <2>5
<1> QED
  BY <1>2, <1>7 DEF Apart

HasParts(ts, x, n) == n = Len(ts[x].parts)

\* A class whose base has none
LEMMA OffsetsJoined ==
  ASSUME NEW ts, WellFormed(ts), Fielded(ts), NEW c \in 1..Len(ts), NEW b \in 1..Len(ts),
         b = ts[c].base, b # None, ts[b].base = None, ts[b].kind = "class",
         NEW k \in Nat, NEW l \in Nat, HasParts(ts, b, k), HasParts(ts, c, l)
  PROVE  Joined(Offsets(ts, c, k + l), Begin(ts, b), Begin(ts, c), Room(ts, b), k, l)
<1>2. FlattenedFieldCount(ts, b) = k
  <2>1. FlattenedFieldCount(ts, b) = Len(ts[b].names)
    BY CountIs DEF IsCount
  <2>2. Len(ts[b].names) = Len(ts[b].parts)
    BY DEF Fielded
  <2> QED
    BY <2>1, <2>2 DEF HasParts
<1>3. ASSUME NEW i \in 1..k PROVE Offsets(ts, c, k + l)[i] = Begin(ts, b)[i]
  <2>1. i \in Nat \ {0} /\ i <= k /\ i - 0 = i /\ i \in 1..(k + l)
    BY Places
  <2>2. Offsets(ts, c, k + l)[i] = FlattenedFieldOffset(ts, c, i)
    BY <2>1 DEF Offsets
  <2>3. FlattenedFieldOffset(ts, c, i) = FlattenedFieldOffset(ts, b, i)
    BY <1>2, <2>1, OffsetIs DEF IsOffset
  <2>4. FlattenedFieldOffset(ts, b, i) = 0 + NaturalOffset(ts, ts[b].parts, i - 0)
    BY <2>1, OffsetIs DEF IsOffset
  <2>5. Begin(ts, b)[i] = NaturalOffset(ts, ts[b].parts, i)
    BY DEF Begin, HasParts
  <2>6. Begin(ts, b)[i] \in Nat
    BY BeginsApart DEF Rooms, HasParts
  <2>7. 0 + NaturalOffset(ts, ts[b].parts, i) = NaturalOffset(ts, ts[b].parts, i)
    BY <2>5, <2>6
  <2> QED
    BY <2>1, <2>2, <2>3, <2>4, <2>5, <2>7
<1>4. ASSUME NEW i \in 1..l PROVE Offsets(ts, c, k + l)[i + k] = Room(ts, b) + Begin(ts, c)[i]
  <2>1. i + k \in Nat \ {0} /\ ~(i + k <= k) /\ (i + k) - k = i /\ i + k \in 1..(k + l)
    BY Places
  <2>2. Offsets(ts, c, k + l)[i + k] = FlattenedFieldOffset(ts, c, i + k)
    BY <2>1 DEF Offsets
  <2>3. FlattenedFieldOffset(ts, c, i + k)
          = Room(ts, b) + NaturalOffset(ts, ts[c].parts, (i + k) - k)
    BY <1>2, <2>1, OffsetIs DEF IsOffset
  <2>4. Begin(ts, c)[i] = NaturalOffset(ts, ts[c].parts, i)
    BY DEF Begin, HasParts
  <2> QED
    BY <2>1, <2>2, <2>3, <2>4
<1> QED
  BY <1>3, <1>4 DEF Joined

LEMMA ApartNext ==
  ASSUME NEW ts, WellFormed(ts), Fielded(ts), NEW c \in 1..Len(ts), NEW b \in 1..Len(ts),
         b = ts[c].base, b # None, ts[b].base = None, ts[b].kind = "class",
         NEW T, T = ts[b].parts \o ts[c].parts
  PROVE  Apart(Offsets(ts, c, Len(T)), StaticSize(ts), T)
<1> DEFINE us == ts[b].parts
           ps == ts[c].parts
           k == Len(us)
           l == Len(ps)
<1>1. us \in Seq(Nat) /\ ps \in Seq(Nat)
  BY OwnFields
<1>2. /\ Rooms(Begin(ts, b), StaticSize(ts), us, Room(ts, b)) /\ Room(ts, b) \in Nat
      /\ Rooms(Begin(ts, c), StaticSize(ts), ps, Room(ts, c))
  BY BeginsApart
<1>3. Joined(Offsets(ts, c, k + l), Begin(ts, b), Begin(ts, c), Room(ts, b), k, l)
  <2>1. k \in Nat /\ l \in Nat
    BY <1>1
  <2>2. HasParts(ts, b, k) /\ HasParts(ts, c, l)
    BY DEF HasParts
  <2> HIDE DEF k, l
  <2> QED
    BY <2>1, <2>2, OffsetsJoined
<1>4. T = us \o ps
  OBVIOUS
<1> HIDE DEF us, ps
<1>5. Apart(Offsets(ts, c, k + l), StaticSize(ts), us \o ps)
  BY <1>1, <1>2, <1>3, JoinedApart
<1>6. Len(T) = k + l
  <2>1. Len(us \o ps) = Len(ps) + Len(us) /\ Len(ps) \in Nat /\ Len(us) \in Nat
    BY <1>1, LengthOfTwo
  <2> QED
    BY <1>4, <2>1
<1> QED
  BY <1>4, <1>5, <1>6

\* The flattened fields as FlattenedViewAgrees writes them
LEMMA ViewIs ==
  ASSUME NEW ts, WellFormed(ts), NEW c \in 1..Len(ts), NEW s, s = Reverse(Chain(ts, c))
  PROVE  /\ FlattenSeq([i \in DOMAIN s |-> ts[s[i]].names]) = Flattened(ts, Named(ts), c)
         /\ FlattenSeq([i \in DOMAIN s |-> ts[s[i]].parts]) = Flattened(ts, Typed(ts), c)
         /\ Len(s) = Len(Chain(ts, c))
<1> PICK r, k : r = Chain(ts, c) /\ k = Len(r)
  OBVIOUS
<1>1. r \in Seq(1..Len(ts)) /\ k \in Nat
  BY ChainGoesOn
<1>2. s = [i \in 1..k |-> r[(k - i) + 1]]
  BY DEF Reverse
<1>3. \A i \in 1..k : (k - i) + 1 \in 1..k
  BY <1>1
<1>4. \A i \in 1..k : r[i] \in 1..Len(ts)
  BY <1>1
<1>5. DOMAIN s = 1..k /\ \A i \in 1..k : s[i] = r[(k - i) + 1] /\ s[i] \in 1..Len(ts)
  BY <1>2, <1>3, <1>4
<1>6. Len(s) = k
  <2>1. s \in [1..k -> 1..Len(ts)]
    BY <1>2, <1>5
  <2>2. s \in Seq(1..Len(ts))
    BY <1>1, <2>1, SeqDef
  <2> QED
    BY <1>1, <1>5, <2>2, LenProperties
<1>7. Declared(ts, Named(ts), c) = [i \in 1..k |-> Named(ts)[r[(k - i) + 1]]]
  BY DEF Declared
<1>8. Declared(ts, Typed(ts), c) = [i \in 1..k |-> Typed(ts)[r[(k - i) + 1]]]
  BY DEF Declared
<1>9. \A x \in 1..Len(ts) : Named(ts)[x] = ts[x].names /\ Typed(ts)[x] = ts[x].parts
  BY DEF Named, Typed
<1>10. [i \in DOMAIN s |-> ts[s[i]].names] = Declared(ts, Named(ts), c)
  <2>1. \A i \in 1..k : ts[s[i]].names = Named(ts)[r[(k - i) + 1]]
    BY <1>5, <1>9
  <2> QED
    BY <1>5, <1>7, <2>1
<1>11. [i \in DOMAIN s |-> ts[s[i]].parts] = Declared(ts, Typed(ts), c)
  <2>1. \A i \in 1..k : ts[s[i]].parts = Typed(ts)[r[(k - i) + 1]]
    BY <1>5, <1>9
  <2> QED
    BY <1>5, <1>8, <2>1
<1> QED
  BY <1>6, <1>10, <1>11 DEF Flattened

\* The flattened view of a class of k classes, itself and its bases
Agrees(ts, c, k, names, parts) ==
  /\ \A i \in DOMAIN names :
       (\A j \in DOMAIN names : names[j] = names[i] => j = i) =>
         /\ FlattenedFieldIndex(ts, c, names[i]) = i
         /\ FieldType(ts, c, names[i]) = parts[i]
  /\ k <= 2 =>
       \A i \in 1..(Len(parts) - 1) :
         FlattenedFieldOffset(ts, c, i) + StaticSize(ts)[parts[i]]
           <= FlattenedFieldOffset(ts, c, i + 1)

LEMMA ShortChain ==
  ASSUME NEW ts, WellFormed(ts), NEW c \in 1..Len(ts), Len(Chain(ts, c)) <= 2,
         NEW b, b = ts[c].base, b # None
  PROVE  b \in 1..Len(ts) /\ ts[b].base = None
<1>1. b \in 1..Len(ts) /\ Len(Chain(ts, c)) = Len(Chain(ts, b)) + 1
  BY ChainGoesOn
<1>2. ASSUME ts[b].base # None PROVE FALSE
  <2> PICK a : a = ts[b].base
    OBVIOUS
  <2>1. a \in 1..Len(ts) /\ Len(Chain(ts, b)) = Len(Chain(ts, a)) + 1
    <3>1. b \in 1..Len(ts)
      BY <1>1
    <3>2. a # None => a \in 1..Len(ts) /\ Len(Chain(ts, b)) = Len(Chain(ts, a)) + 1
      BY SMTT(30), <3>1, ChainGoesOn
    <3> QED
      BY <1>2, <3>2
  <2>2. Len(Chain(ts, a)) \in Nat \ {0}
    BY <2>1, ChainGoesOn
  <2> QED
    BY <1>1, <2>1, <2>2
<1> QED
  BY <1>1, <1>2

LEMMA ViewAgrees ==
  ASSUME NEW ts, WellFormed(ts), Fielded(ts), NEW c \in 1..Len(ts), ts[c].kind = "class",
         NEW k, k = Len(Chain(ts, c)), NEW N, N = Flattened(ts, Named(ts), c),
         NEW T, T = Flattened(ts, Typed(ts), c)
  PROVE  Agrees(ts, c, k, N, T)
<1>1. /\ Owned(Named(ts), Len(ts), STRING) /\ Owned(Typed(ts), Len(ts), Nat)
      /\ \A x \in 1..Len(ts) : Named(ts)[x] = ts[x].names /\ Typed(ts)[x] = ts[x].parts
  BY OwnFields
<1>2. IsFlat(ts, Named(ts), STRING, c) /\ IsFlat(ts, Typed(ts), Nat, c)
  BY <1>1, FlattenedIs
<1>3. N \in Seq(STRING) /\ T \in Seq(Nat)
  BY <1>2 DEF IsFlat
<1>4. ASSUME NEW i \in DOMAIN N, \A j \in DOMAIN N : N[j] = N[i] => j = i
      PROVE  FlattenedFieldIndex(ts, c, N[i]) = i /\ FieldType(ts, c, N[i]) = T[i]
  <2>1. DOMAIN N = 1..Len(N)
    BY <1>3
  <2>2. Only(N, N[i], i)
    BY <1>4, <2>1 DEF Only
  <2>3. Tells(ts, c, N[i], N, T)
    BY TellsAll
  <2> QED
    BY <2>2, <2>3 DEF Tells, Points
<1>5. ASSUME k <= 2
      PROVE  \A i \in 1..(Len(T) - 1) :
               FlattenedFieldOffset(ts, c, i) + StaticSize(ts)[T[i]]
                 <= FlattenedFieldOffset(ts, c, i + 1)
  <2> PICK o : o = Offsets(ts, c, Len(T))
    OBVIOUS
  <2>1. Apart(o, StaticSize(ts), T)
    <3>1. CASE ts[c].base = None
      <4>1. T = ts[c].parts
        BY SMTT(30), <1>1, <1>2, <3>1 DEF IsFlat
      <4> QED
        BY <3>1, <4>1, ApartFirst
    <3>2. CASE ts[c].base # None
      <4> PICK b : b = ts[c].base
        OBVIOUS
      <4>1. b \in 1..Len(ts) /\ ts[b].base = None
        BY <1>5, <3>2, ShortChain
      <4>2. ts[b].kind = "class"
        BY <3>2 DEF Fielded
      <4>3. IsFlat(ts, Typed(ts), Nat, b)
        BY <1>1, <4>1, FlattenedIs
      <4>4. T = ts[b].parts \o ts[c].parts
        BY <1>1, <1>2, <3>2, <4>1, <4>3 DEF IsFlat
      <4> QED
        BY <3>2, <4>1, <4>2, <4>4, ApartNext
    <3> QED
      BY <3>1, <3>2
  <2>2. Len(T) \in Nat
    BY <1>3
  <2>3. ASSUME NEW i \in 1..(Len(T) - 1)
        PROVE  /\ o[i] = FlattenedFieldOffset(ts, c, i)
               /\ o[i + 1] = FlattenedFieldOffset(ts, c, i + 1)
    <3>1. i \in 1..Len(T) /\ i + 1 \in 1..Len(T)
      BY <2>2
    <3> QED
      BY <3>1 DEF Offsets
  <2> QED
    BY <2>1, <2>3 DEF Apart
<1> QED
  BY <1>4, <1>5 DEF Agrees

LEMMA FieldedIn == TypeOK => Fielded(types)
<1> SUFFICES ASSUME TypeOK PROVE Fielded(types)
  OBVIOUS
<1>1. Ids = 1..Len(types)
  BY DEF TypeOK, Ids
<1>2. \A d \in Ids : /\ types[d].base # None => types[types[d].base].kind = "class"
                     /\ Len(types[d].names) =
                          (IF types[d].kind \in {"struct", "class"} THEN Len(types[d].parts) ELSE 0)
  BY DEF TypeOK
<1> QED
  BY <1>1, <1>2 DEF Fielded

LEMMA ViewsAgree == IInv => FlattenedViewAgrees
<1> SUFFICES ASSUME IInv PROVE FlattenedViewAgrees
  OBVIOUS
<1>1. WellFormed(types) /\ DOMAIN types = 1..Len(types) /\ Fielded(types)
  BY FieldedIn DEF IInv, WellFormed
<1>2. ASSUME NEW c \in OfKind("class"), NEW s, s = Reverse(Chain(types, c))
      PROVE  Agrees(types, c, Len(s), FlattenSeq([i \in DOMAIN s |-> types[s[i]].names]),
                                      FlattenSeq([i \in DOMAIN s |-> types[s[i]].parts]))
  <2>1. c \in 1..Len(types) /\ types[c].kind = "class"
    BY <1>1 DEF OfKind, Ids
  <2> PICK N, T, k : /\ N = FlattenSeq([i \in DOMAIN s |-> types[s[i]].names]) /\ k = Len(s)
                     /\ T = FlattenSeq([i \in DOMAIN s |-> types[s[i]].parts])
    OBVIOUS
  <2>2. /\ N = Flattened(types, Named(types), c) /\ T = Flattened(types, Typed(types), c)
        /\ k = Len(Chain(types, c))
    BY <1>1, <1>2, <2>1, ViewIs
  <2>3. Agrees(types, c, k, N, T)
    BY <1>1, <2>1, <2>2, ViewAgrees
  <2> QED
    BY <2>3
<1> QED
  BY <1>2 DEF FlattenedViewAgrees, Agrees, Size

\* The fields of a struct and the flattened fields of a class lie within what is
\* reserved for them, one behind the other, and the index and the type that the
\* checker tells of a field are those of the flattened view, in hierarchies of
\* any depth (the offsets of classes: with a single base).
THEOREM SpecLayoutsFit == Spec => []LayoutsFit
<1>1. IInv => LayoutsFit
  BY FieldsFitIn, ViewsAgree DEF LayoutsFit
<1> QED
  BY <1>1, InitIInv, NextIInv, PTL DEF Spec

=============================================================================
