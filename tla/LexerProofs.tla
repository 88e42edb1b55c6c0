---------------------------- MODULE LexerProofs ----------------------------
(***************************************************************************)
(* Proofs about Lexer, for texts of any length, included to any depth, and *)
(* literals of any width: what is stored is well typed, an integer is what *)
(* its digits say or the largest, looking ahead in a string agrees with    *)
(* the scan, the contexts of interpolated strings are the nesting of their *)
(* tokens, and every token takes some of the text.                         *)
(***************************************************************************)
EXTENDS Lexer, FiniteSetTheorems, SequenceTheorems, WellFoundedInduction, TLAPS

-----------------------------------------------------------------------------
(* Induction over the natural numbers, about a set: the numbers for which  *)
(* a claim holds.  (The library's is about an operator P(_), which the     *)
(* provers cannot instantiate.)                                            *)

\* A set of natural numbers that is not empty has a least member.
LEMMA LeastNatural ==
    ASSUME NEW S \in SUBSET Nat, S # {}
    PROVE  \E n \in S : \A m \in S : n <= m
<1>1. PICK n \in S : \A m \in S : <<m, n>> \notin OpToRel(<, Nat)
  BY NatLessThanWellFounded, WFMin, Zenon
<1>2. \A m \in S : ~ (m < n)
  BY <1>1, Zenon DEF OpToRel
<1> QED
  BY <1>2

\* A set that has 0 and with each natural number the next has them all.
LEMMA SimpleInduction ==
    ASSUME NEW S, 0 \in S, \A n \in Nat : n \in S => n + 1 \in S
    PROVE  Nat \subseteq S
<1> SUFFICES ASSUME Nat \ S # {}
             PROVE  FALSE
  OBVIOUS
<1>1. PICK n \in Nat \ S : \A m \in Nat \ S : n <= m
  BY LeastNatural
<1>2. n # 0 /\ n - 1 \in Nat
  OBVIOUS
<1> QED
  BY <1>1, <1>2

\* A set that has a natural number whenever it has all smaller ones has them all.
LEMMA StrongInduction ==
    ASSUME NEW S, \A n \in Nat : (\A m \in 0 .. n - 1 : m \in S) => n \in S
    PROVE  Nat \subseteq S
<1> SUFFICES ASSUME Nat \ S # {}
             PROVE  FALSE
  OBVIOUS
<1>1. PICK n \in Nat \ S : \A m \in Nat \ S : n <= m
  BY LeastNatural
<1> QED
  BY <1>1

\* The same from the end of an interval to its beginning
LEMMA DownwardInduction ==
    ASSUME NEW lo \in Nat, NEW hi \in Nat, NEW S,
           \A j \in lo .. hi : (\A k \in j + 1 .. hi : k \in S) => j \in S
    PROVE  lo .. hi \subseteq S
<1> DEFINE R == {n \in Nat : n <= hi - lo => hi - n \in S}
<1>1. ASSUME NEW n \in Nat, \A m \in 0 .. n - 1 : m \in R
      PROVE  n \in R
  <2> SUFFICES ASSUME n <= hi - lo PROVE hi - n \in S
    OBVIOUS
  <2>1. hi - n \in lo .. hi
    OBVIOUS
  <2>2. ASSUME NEW k \in hi - n + 1 .. hi
        PROVE  k \in S
    <3>1. hi - k \in 0 .. n - 1 /\ hi - (hi - k) = k
      OBVIOUS
    <3>2. hi - k \in R
      BY <1>1, <3>1
    <3> QED
      BY <3>1, <3>2
  <2> QED
    BY <2>1, <2>2
<1>2. Nat \subseteq R
  <2> HIDE DEF R
  <2> QED
    BY <1>1, StrongInduction
<1> SUFFICES ASSUME NEW j \in lo .. hi PROVE j \in S
  OBVIOUS
<1>3. hi - j \in Nat /\ hi - (hi - j) = j /\ hi - j <= hi - lo
  OBVIOUS
<1> QED
  BY <1>2, <1>3

-----------------------------------------------------------------------------
(* A recursion that goes on at one other place, and gets nearer to its end *)
(* at each: from x in D it goes on at nxt[x], where it does not stop with  *)
(* val[x].  How far it is from its end is m[x].                            *)

GoesOn(f, D, Stop, val, nxt) == f = [x \in D |-> IF x \in Stop THEN val[x] ELSE f[nxt[x]]]

LEMMA RecursionExists ==
    ASSUME NEW D, NEW Stop, NEW val, NEW nxt, NEW m, NEW M \in Nat,
           \A x \in D : m[x] \in 0 .. M,
           \A x \in D \ Stop : nxt[x] \in D /\ m[nxt[x]] < m[x]
    PROVE  \E f : GoesOn(f, D, Stop, val, nxt)
<1> DEFINE Within(n) == {x \in D : m[x] < n}
           S == {n \in Nat : \E f : GoesOn(f, Within(n), Stop, val, nxt)}
<1>1. 0 \in S
  <2> DEFINE f == [x \in Within(0) |-> val[x]]
  <2>1. Within(0) = {}
    OBVIOUS
  <2>2. GoesOn(f, Within(0), Stop, val, nxt)
    BY <2>1 DEF GoesOn
  <2> QED
    BY <2>2
<1>2. ASSUME NEW n \in Nat, n \in S
      PROVE  n + 1 \in S
  <2>1. PICK f : GoesOn(f, Within(n), Stop, val, nxt)
    BY <1>2
  <2> DEFINE value(g, x) == IF x \in Stop THEN val[x] ELSE g[nxt[x]]
             u == [x \in Within(n + 1) |-> value(f, x)]
  <2>2. \A x \in Within(n + 1) : x \in Stop \/ nxt[x] \in Within(n)
    OBVIOUS
  <2>3. \A x \in Within(n) : f[x] = value(f, x)
    <3>1. f = [x \in Within(n) |-> value(f, x)]
      BY <2>1 DEF GoesOn
    <3> DEFINE w == [x \in Within(n) |-> value(f, x)]
    <3>2. \A x \in Within(n) : w[x] = value(f, x)
      OBVIOUS
    <3> HIDE DEF w, value, Within
    <3>3. f = w
      BY <3>1 DEF w
    <3> QED
      BY <3>2, <3>3
  <2>4. \A x \in Within(n) : x \in Within(n + 1)
    OBVIOUS
  <2>5. \A x \in Within(n + 1) : u[x] = value(f, x)
    OBVIOUS
  <2>6. \A x \in Within(n + 1) : value(f, x) = value(u, x)
    <3> TAKE x \in Within(n + 1)
    <3>1. CASE x \in Stop
      BY <3>1
    <3>2. CASE x \notin Stop
      <4>1. nxt[x] \in Within(n)
        BY <2>2, <3>2
      <4>2. u[nxt[x]] = f[nxt[x]]
        <5> HIDE DEF u, value, Within
        <5> QED
          BY <2>3, <2>4, <2>5, <4>1
      <4> HIDE DEF u, Within
      <4> QED
        BY <3>2, <4>2
    <3> QED
      BY <3>1, <3>2
  <2>7. u = [x \in Within(n + 1) |-> value(u, x)]
    <3> DEFINE w == [x \in Within(n + 1) |-> value(u, x)]
    <3> SUFFICES u = w
      OBVIOUS
    <3> HIDE DEF Within, value
    <3> QED
      BY <2>6
  <2>8. GoesOn(u, Within(n + 1), Stop, val, nxt)
    BY <2>7 DEF GoesOn
  <2> HIDE DEF u
  <2> QED
    BY <2>8
<1>3. M + 1 \in S
  <2> HIDE DEF S
  <2> QED
    BY <1>1, <1>2, SimpleInduction
<1>4. Within(M + 1) = D
  OBVIOUS
<1> QED
  BY <1>3, <1>4

LEMMA GoingOn ==
    ASSUME NEW f, NEW D, NEW Stop, NEW val, NEW nxt, GoesOn(f, D, Stop, val, nxt)
    PROVE  \A x \in D : f[x] = IF x \in Stop THEN val[x] ELSE f[nxt[x]]
<1> DEFINE w == [x \in D |-> IF x \in Stop THEN val[x] ELSE f[nxt[x]]]
<1>1. \A x \in D : w[x] = IF x \in Stop THEN val[x] ELSE f[nxt[x]]
  OBVIOUS
<1>2. f = w
  BY DEF GoesOn
<1> HIDE DEF w
<1> QED
  BY <1>1, <1>2

\* Such a recursion stops somewhere, nowhere farther from its end.
LEMMA RecursionEnds ==
    ASSUME NEW f, NEW D, NEW Stop, NEW val, NEW nxt, NEW m, NEW M \in Nat,
           GoesOn(f, D, Stop, val, nxt),
           \A x \in D : m[x] \in 0 .. M,
           \A x \in D \ Stop : nxt[x] \in D /\ m[nxt[x]] < m[x]
    PROVE  \A x \in D : \E y \in D \cap Stop : f[x] = val[y] /\ m[y] <= m[x]
<1> DEFINE Ends(x) == \E y \in D \cap Stop : f[x] = val[y] /\ m[y] <= m[x]
           S == {n \in Nat : \A x \in D : m[x] = n => Ends(x)}
<1>1. ASSUME NEW n \in Nat, \A k \in 0 .. n - 1 : k \in S
      PROVE  n \in S
  <2> SUFFICES ASSUME NEW x \in D, m[x] = n PROVE Ends(x)
    OBVIOUS
  <2>1. f[x] = IF x \in Stop THEN val[x] ELSE f[nxt[x]]
    BY GoingOn
  <2>2. CASE x \in Stop
    BY <2>1, <2>2
  <2>3. CASE x \notin Stop
    <3>1. nxt[x] \in D /\ m[nxt[x]] \in 0 .. n - 1
      BY <2>3
    <3>2. Ends(nxt[x])
      <4>1. m[nxt[x]] \in S
        BY <1>1, <3>1
      <4> HIDE DEF Ends
      <4> QED
        BY <3>1, <4>1
    <3>3. PICK y \in D \cap Stop : f[nxt[x]] = val[y] /\ m[y] <= m[nxt[x]]
      BY <3>2
    <3>4. m[y] <= m[x]
      BY <3>1, <3>3
    <3> QED
      BY <2>1, <2>3, <3>3, <3>4
  <2> QED
    BY <2>2, <2>3
<1>2. Nat \subseteq S
  <2> HIDE DEF S
  <2> QED
    BY <1>1, StrongInduction
<1> SUFFICES ASSUME NEW x \in D PROVE Ends(x)
  OBVIOUS
<1> HIDE DEF Ends
<1> QED
  BY <1>2

-----------------------------------------------------------------------------
(* A recursion from one number to the next: what it finds at i is made from *)
(* what it found at i - 1 by step[i].                                       *)

Follows(f, lo, hi, v, step) == \A i \in lo .. hi : f[i] = IF i = lo THEN v ELSE step[i][f[i - 1]]

LEMMA StepsExist ==
    ASSUME NEW lo \in Nat, NEW hi \in Nat, lo <= hi, NEW V, NEW v \in V, NEW step,
           \A i \in lo + 1 .. hi : \A w \in V : step[i][w] \in V
    PROVE  \E f \in [lo .. hi -> V] : Follows(f, lo, hi, v, step)
<1> DEFINE S == {n \in Nat : lo + n <= hi =>
                    \E f \in [lo .. lo + n -> V] : Follows(f, lo, lo + n, v, step)}
<1>1. 0 \in S
  <2> DEFINE f == [i \in lo .. lo + 0 |-> v]
  <2>1. f \in [lo .. lo + 0 -> V] /\ Follows(f, lo, lo + 0, v, step)
    BY DEF Follows
  <2> QED
    BY <2>1
<1>2. ASSUME NEW n \in Nat, n \in S
      PROVE  n + 1 \in S
  <2> SUFFICES ASSUME lo + (n + 1) <= hi
               PROVE  \E f \in [lo .. lo + (n + 1) -> V] : Follows(f, lo, lo + (n + 1), v, step)
    OBVIOUS
  <2>1. PICK f \in [lo .. lo + n -> V] : Follows(f, lo, lo + n, v, step)
    BY <1>2
  <2> DEFINE k == lo + n
             u == [i \in lo .. k + 1 |-> IF i <= k THEN f[i] ELSE step[k + 1][f[k]]]
  <2>2. k \in lo .. k /\ k + 1 \in lo + 1 .. hi /\ k \in Nat /\ lo + (n + 1) = k + 1
    OBVIOUS
  <2>3. u \in [lo .. k + 1 -> V]
    BY <2>2
  <2>4. u[k + 1] = step[k + 1][f[k]] /\ \A i \in lo .. k : u[i] = f[i]
    OBVIOUS
  <2>5. Follows(u, lo, k + 1, v, step)
    <3> SUFFICES ASSUME NEW i \in lo .. k + 1
                 PROVE  u[i] = IF i = lo THEN v ELSE step[i][u[i - 1]]
      BY DEF Follows
    <3> HIDE DEF u
    <3>1. CASE i <= k
      <4>1. i \in lo .. k /\ (i # lo => i - 1 \in lo .. k)
        BY <2>2, <3>1
      <4>2. f[i] = IF i = lo THEN v ELSE step[i][f[i - 1]]
        BY <2>1, <4>1 DEF Follows
      <4> QED
        BY <2>4, <4>1, <4>2
    <3>2. CASE i = k + 1
      <4>1. i # lo /\ i - 1 = k
        BY <2>2, <3>2
      <4> QED
        BY <2>2, <2>4, <3>2, <4>1
    <3> QED
      BY <2>2, <3>1, <3>2
  <2> HIDE DEF u, k
  <2> QED
    BY <2>2, <2>3, <2>5
<1>3. Nat \subseteq S
  <2> HIDE DEF S
  <2> QED
    BY <1>1, <1>2, SimpleInduction
<1>4. hi - lo \in Nat /\ lo + (hi - lo) = hi
  OBVIOUS
<1> DEFINE n == hi - lo
<1>5. n \in S
  BY <1>3, <1>4
<1> HIDE DEF n
<1>6. lo + n <= hi /\ lo + n = hi
  BY <1>4 DEF n
<1>7. \E f \in [lo .. lo + n -> V] : Follows(f, lo, lo + n, v, step)
  BY <1>5, <1>6
<1> QED
  BY <1>6, <1>7

-----------------------------------------------------------------------------
(* Sums of the first values of a function.                                 *)

IsSum(t, g, k) == t = [i \in 0 .. k |-> IF i = 0 THEN 0 ELSE t[i - 1] + g[i]]

Total(g, k) == (CHOOSE t : IsSum(t, g, k))[k]

LEMMA SumAt ==
    ASSUME NEW t, NEW g, NEW k \in Nat, IsSum(t, g, k)
    PROVE  \A i \in 0 .. k : t[i] = IF i = 0 THEN 0 ELSE t[i - 1] + g[i]
<1> DEFINE u == [i \in 0 .. k |-> IF i = 0 THEN 0 ELSE t[i - 1] + g[i]]
<1>1. t = u
  BY DEF IsSum
<1>2. \A i \in 0 .. k : u[i] = IF i = 0 THEN 0 ELSE t[i - 1] + g[i]
  OBVIOUS
<1> HIDE DEF u
<1> QED
  BY <1>1, <1>2

LEMMA SumsExist ==
    ASSUME NEW g
    PROVE  \A k \in Nat : \E t : IsSum(t, g, k)
<1> DEFINE S == {k \in Nat : \E t : IsSum(t, g, k)}
<1>1. 0 \in S
  <2> DEFINE t == [i \in 0 .. 0 |-> 0]
  <2>1. IsSum(t, g, 0)
    BY DEF IsSum
  <2> QED
    BY <2>1
<1>2. ASSUME NEW k \in Nat, k \in S
      PROVE  k + 1 \in S
  <2>1. PICK t : IsSum(t, g, k)
    BY <1>2
  <2> DEFINE u == [i \in 0 .. k + 1 |-> IF i <= k THEN t[i] ELSE t[k] + g[k + 1]]
  <2>2. u[k + 1] = t[k] + g[k + 1] /\ \A i \in 0 .. k : u[i] = t[i]
    OBVIOUS
  <2>3. \A i \in 0 .. k : t[i] = IF i = 0 THEN 0 ELSE t[i - 1] + g[i]
    BY <2>1, SumAt
  <2>4. \A i \in 0 .. k + 1 : u[i] = IF i = 0 THEN 0 ELSE u[i - 1] + g[i]
    <3> TAKE i \in 0 .. k + 1
    <3> HIDE DEF u
    <3>1. CASE i <= k
      <4>1. i \in 0 .. k /\ (i # 0 => i - 1 \in 0 .. k)
        BY <3>1
      <4> QED
        BY <2>2, <2>3, <4>1
    <3>2. CASE i = k + 1
      <4>1. i # 0 /\ i - 1 = k /\ k \in 0 .. k
        BY <3>2
      <4> QED
        BY <2>2, <3>2, <4>1
    <3> QED
      BY <3>1, <3>2
  <2>5. IsSum(u, g, k + 1)
    BY <2>4 DEF IsSum
  <2> HIDE DEF u
  <2> QED
    BY <2>5
<1> HIDE DEF S
<1>3. Nat \subseteq S
  BY <1>1, <1>2, SimpleInduction
<1> QED
  BY <1>3 DEF S

LEMMA SumsAgree ==
    ASSUME NEW g, NEW t, NEW u, NEW k \in Nat, NEW l \in Nat, k <= l,
           IsSum(t, g, k), IsSum(u, g, l)
    PROVE  \A i \in 0 .. k : t[i] = u[i]
<1> DEFINE R == {i \in Nat : i <= k => t[i] = u[i]}
<1>1. 0 \in R
  BY SumAt
<1>2. ASSUME NEW i \in Nat, i \in R
      PROVE  i + 1 \in R
  <2> SUFFICES ASSUME i + 1 <= k PROVE t[i + 1] = u[i + 1]
    OBVIOUS
  <2>1. t[i] = u[i]
    BY <1>2
  <2>2. i + 1 \in 0 .. k /\ i + 1 \in 0 .. l /\ i + 1 # 0 /\ (i + 1) - 1 = i
    OBVIOUS
  <2> HIDE DEF R
  <2>3. t[i + 1] = t[(i + 1) - 1] + g[i + 1]
    BY <2>2, SumAt
  <2>4. u[i + 1] = u[(i + 1) - 1] + g[i + 1]
    BY <2>2, SumAt
  <2> QED
    BY <2>1, <2>2, <2>3, <2>4
<1>3. Nat \subseteq R
  <2> HIDE DEF R
  <2> QED
    BY <1>1, <1>2, SimpleInduction
<1> QED
  BY <1>3

LEMMA TotalIs ==
    ASSUME NEW g, NEW k \in Nat, NEW t, IsSum(t, g, k)
    PROVE  Total(g, k) = t[k]
<1> DEFINE u == CHOOSE v : IsSum(v, g, k)
<1>1. IsSum(u, g, k)
  BY SumsExist
<1>2. Total(g, k) = u[k]
  BY DEF Total
<1> HIDE DEF u
<1> QED
  BY <1>1, <1>2, SumsAgree

\* The recursion of a sum
LEMMA TotalStep ==
    ASSUME NEW g
    PROVE  Total(g, 0) = 0 /\ \A k \in Nat : Total(g, k + 1) = Total(g, k) + g[k + 1]
<1>1. Total(g, 0) = 0
  <2>1. PICK t : IsSum(t, g, 0)
    BY SumsExist
  <2> QED
    BY <2>1, TotalIs, SumAt
<1>2. ASSUME NEW k \in Nat
      PROVE  Total(g, k + 1) = Total(g, k) + g[k + 1]
  <2>1. PICK t : IsSum(t, g, k)
    BY SumsExist
  <2>2. PICK u : IsSum(u, g, k + 1)
    BY SumsExist
  <2>3. Total(g, k) = t[k] /\ Total(g, k + 1) = u[k + 1]
    BY <2>1, <2>2, TotalIs
  <2>4. k \in 0 .. k /\ k + 1 \in Nat /\ k <= k + 1
    OBVIOUS
  <2>5. t[k] = u[k]
    BY <2>1, <2>2, <2>4, SumsAgree
  <2>6. k + 1 \in 0 .. k + 1 /\ k + 1 # 0 /\ (k + 1) - 1 = k
    OBVIOUS
  <2>7. u[k + 1] = u[k] + g[k + 1]
    BY <2>2, <2>6, SumAt
  <2> QED
    BY <2>3, <2>5, <2>7
<1> QED
  BY <1>1, <1>2

\* Where each value is at most the other, so is the sum.
LEMMA TotalsCompare ==
    ASSUME NEW g, NEW h, NEW n \in Nat,
           \A i \in 1 .. n : g[i] \in Nat /\ h[i] \in Nat /\ g[i] <= h[i]
    PROVE  Total(g, n) \in Nat /\ Total(h, n) \in Nat /\ Total(g, n) <= Total(h, n)
<1> DEFINE S == {k \in Nat : k <= n => /\ Total(g, k) \in Nat /\ Total(h, k) \in Nat
                                       /\ Total(g, k) <= Total(h, k)}
<1>1. 0 \in S
  BY TotalStep
<1>2. ASSUME NEW k \in Nat, k \in S
      PROVE  k + 1 \in S
  <2> SUFFICES ASSUME k + 1 <= n
               PROVE  /\ Total(g, k + 1) \in Nat /\ Total(h, k + 1) \in Nat
                      /\ Total(g, k + 1) <= Total(h, k + 1)
    OBVIOUS
  <2>1. /\ Total(g, k) \in Nat /\ Total(h, k) \in Nat /\ Total(g, k) <= Total(h, k)
        /\ g[k + 1] \in Nat /\ h[k + 1] \in Nat /\ g[k + 1] <= h[k + 1]
    BY <1>2
  <2>2. /\ Total(g, k + 1) = Total(g, k) + g[k + 1]
        /\ Total(h, k + 1) = Total(h, k) + h[k + 1]
    BY TotalStep
  <2> QED
    BY <2>1, <2>2
<1>3. Nat \subseteq S
  <2> HIDE DEF S
  <2> QED
    BY <1>1, <1>2, SimpleInduction
<1> QED
  BY <1>3

LEMMA TotalNat ==
    ASSUME NEW g, NEW n \in Nat, \A i \in 1 .. n : g[i] \in Nat
    PROVE  Total(g, n) \in Nat
BY TotalsCompare

\* Fewer values have a smaller sum.
LEMMA TotalOfFewer ==
    ASSUME NEW g, NEW n \in Nat, \A i \in 1 .. n : g[i] \in Nat, NEW k \in 0 .. n
    PROVE  Total(g, k) <= Total(g, n)
<1> DEFINE S == {d \in Nat : k + d <= n => Total(g, k) <= Total(g, k + d)}
<1>1. 0 \in S
  BY TotalNat
<1>2. ASSUME NEW d \in Nat, d \in S
      PROVE  d + 1 \in S
  <2> SUFFICES ASSUME k + (d + 1) <= n
               PROVE  Total(g, k) <= Total(g, k + (d + 1))
    OBVIOUS
  <2>1. k + d \in Nat /\ k + d <= n /\ k + (d + 1) = (k + d) + 1
    OBVIOUS
  <2>2. Total(g, k) <= Total(g, k + d) /\ g[(k + d) + 1] \in Nat
    BY <1>2, <2>1
  <2>3. Total(g, (k + d) + 1) = Total(g, k + d) + g[(k + d) + 1]
    BY <2>1, TotalStep
  <2>4. Total(g, k) \in Nat /\ Total(g, k + d) \in Nat
    BY <2>1, TotalNat
  <2> QED
    BY <2>1, <2>2, <2>3, <2>4
<1>3. Nat \subseteq S
  <2> HIDE DEF S
  <2> QED
    BY <1>1, <1>2, SimpleInduction
<1>4. n - k \in Nat /\ k + (n - k) = n
  OBVIOUS
<1> QED
  BY <1>3, <1>4

\* A sum grows with its values.
LEMMA TotalScaled ==
    ASSUME NEW g, NEW h, NEW b \in {2, 8, 10, 16}, NEW n \in Nat,
           \A i \in 1 .. n : g[i] \in Nat /\ h[i] = b * g[i]
    PROVE  Total(h, n) = b * Total(g, n)
<1> DEFINE S == {k \in Nat : k <= n => Total(g, k) \in Nat /\ Total(h, k) = b * Total(g, k)}
<1>1. 0 \in S
  BY TotalStep
<1>2. ASSUME NEW k \in Nat, k \in S
      PROVE  k + 1 \in S
  <2> SUFFICES ASSUME k + 1 <= n
               PROVE  Total(g, k + 1) \in Nat /\ Total(h, k + 1) = b * Total(g, k + 1)
    OBVIOUS
  <2>1. /\ Total(g, k) \in Nat /\ Total(h, k) = b * Total(g, k)
        /\ g[k + 1] \in Nat /\ h[k + 1] = b * g[k + 1]
    BY <1>2
  <2>2. /\ Total(g, k + 1) = Total(g, k) + g[k + 1]
        /\ Total(h, k + 1) = Total(h, k) + h[k + 1]
    BY TotalStep
  <2> QED
    BY <2>1, <2>2
<1>3. Nat \subseteq S
  <2> HIDE DEF S
  <2> QED
    BY <1>1, <1>2, SimpleInduction
<1> QED
  BY <1>3

\* The recursion of a weight
LEMMA WeightStep ==
    ASSUME NEW b \in Nat
    PROVE  /\ \A n \in Nat : Weight(b, n) \in Nat
           /\ Weight(b, 0) = 1
           /\ \A n \in Nat : Weight(b, n + 1) = b * Weight(b, n)
<1> DEFINE Body(p, n) == [k \in 0 .. n |-> IF k = 0 THEN 1 ELSE b * p[k - 1]]
           Power(p, n) == p = Body(p, n)
           step == [i \in Nat |-> [w \in Nat |-> b * w]]
<1>1. ASSUME NEW n \in Nat, NEW p, Power(p, n)
      PROVE  \A k \in 0 .. n : p[k] = IF k = 0 THEN 1 ELSE b * p[k - 1]
  <2>1. \A k \in 0 .. n : Body(p, n)[k] = IF k = 0 THEN 1 ELSE b * p[k - 1]
    OBVIOUS
  <2>2. p = Body(p, n)
    BY <1>1
  <2> HIDE DEF Body
  <2> QED
    BY <2>1, <2>2
<1>2. ASSUME NEW n \in Nat
      PROVE  \E p : Power(p, n)
  <2>1. \A i \in 0 + 1 .. n : \A w \in Nat : step[i][w] \in Nat
    OBVIOUS
  <2>2. 0 \in Nat /\ 0 <= n /\ 1 \in Nat
    OBVIOUS
  <2>3. PICK f \in [0 .. n -> Nat] : Follows(f, 0, n, 1, step)
    <3> HIDE DEF step
    <3> QED
      BY <2>1, <2>2, StepsExist
  <2>4. \A k \in 0 .. n : f[k] = IF k = 0 THEN 1 ELSE b * f[k - 1]
    <3> TAKE k \in 0 .. n
    <3>1. f[k] = IF k = 0 THEN 1 ELSE step[k][f[k - 1]]
      BY <2>3 DEF Follows
    <3>2. CASE k # 0
      <4>1. k \in Nat /\ f[k - 1] \in Nat
        BY <3>2
      <4>2. step[k][f[k - 1]] = b * f[k - 1]
        BY <4>1
      <4> HIDE DEF step
      <4> QED
        BY <3>1, <3>2, <4>2
    <3> QED
      BY <3>1, <3>2
  <2>5. f = Body(f, n)
    BY <2>4
  <2> QED
    BY <2>5
<1> HIDE DEF Power
<1>3. ASSUME NEW n \in Nat, NEW m \in Nat, NEW p, NEW q, Power(p, n), Power(q, m), m <= n
      PROVE  \A k \in Nat : k <= m => p[k] = q[k] /\ p[k] \in Nat
  <2> DEFINE S == {k \in Nat : k <= m => p[k] = q[k] /\ p[k] \in Nat}
  <2>0. /\ \A k \in 0 .. n : p[k] = IF k = 0 THEN 1 ELSE b * p[k - 1]
        /\ \A k \in 0 .. m : q[k] = IF k = 0 THEN 1 ELSE b * q[k - 1]
    BY <1>1, <1>3
  <2>1. 0 \in S
    <3>1. 0 \in 0 .. n /\ 0 \in 0 .. m
      OBVIOUS
    <3> QED
      BY <2>0, <3>1
  <2>2. ASSUME NEW k \in Nat, k \in S
        PROVE  k + 1 \in S
    <3> SUFFICES ASSUME k + 1 <= m PROVE p[k + 1] = q[k + 1] /\ p[k + 1] \in Nat
      OBVIOUS
    <3>1. k + 1 \in 0 .. n /\ k + 1 \in 0 .. m /\ k + 1 # 0 /\ (k + 1) - 1 = k
      BY <1>3
    <3>2. p[k + 1] = b * p[k] /\ q[k + 1] = b * q[k]
      BY <2>0, <3>1
    <3>3. p[k] = q[k] /\ p[k] \in Nat
      BY <2>2
    <3> QED
      BY <3>2, <3>3
  <2>3. Nat \subseteq S
    <3> HIDE DEF S
    <3> QED
      BY <2>1, <2>2, SimpleInduction
  <2> QED
    BY <2>3
<1>4. ASSUME NEW n \in Nat
      PROVE  \E p : Power(p, n) /\ Weight(b, n) = p[n]
  <2> DEFINE p == CHOOSE q : Power(q, n)
  <2>1. Power(p, n)
    BY <1>2
  <2>2. Weight(b, n) = p[n]
    BY DEF Weight, Power
  <2> HIDE DEF p
  <2> QED
    BY <2>1, <2>2
<1>5. ASSUME NEW n \in Nat
      PROVE  Weight(b, n) \in Nat
  <2>1. PICK p : Power(p, n) /\ Weight(b, n) = p[n]
    BY <1>4
  <2> QED
    BY <1>3, <2>1
<1>6. Weight(b, 0) = 1
  <2>1. PICK p : Power(p, 0) /\ Weight(b, 0) = p[0]
    BY <1>4
  <2>2. 0 \in 0 .. 0
    OBVIOUS
  <2> QED
    BY <1>1, <2>1, <2>2
<1>7. ASSUME NEW n \in Nat
      PROVE  Weight(b, n + 1) = b * Weight(b, n)
  <2>1. PICK p : Power(p, n + 1) /\ Weight(b, n + 1) = p[n + 1]
    BY <1>4
  <2>2. PICK q : Power(q, n) /\ Weight(b, n) = q[n]
    BY <1>4
  <2>3. n + 1 \in 0 .. n + 1 /\ n + 1 # 0 /\ (n + 1) - 1 = n /\ n + 1 \in Nat
    OBVIOUS
  <2>4. p[n + 1] = b * p[n]
    BY <1>1, <2>1, <2>3
  <2>5. p[n] = q[n]
    <3>1. n <= n + 1 /\ n <= n
      OBVIOUS
    <3> QED
      BY <1>3, <2>1, <2>2, <2>3, <3>1
  <2> QED
    BY <2>1, <2>2, <2>4, <2>5
<1> QED
  BY <1>5, <1>6, <1>7

\* A function with gaps, as values that are 0 in them
Padded(g, n) == [i \in 1 .. n |-> IF i \in DOMAIN g THEN g[i] ELSE 0]

\* What the library sums in an order that it does not say is the sum in the
\* order of the positions.
LEMMA SumIsTotal ==
    ASSUME NEW n \in Nat, NEW D \in SUBSET (1 .. n), NEW g \in [D -> Nat]
    PROVE  SumFunction(g) = Total(Padded(g, n), n)
<1> DEFINE In(s) == [i \in 1 .. n |-> IF i \in s THEN g[i] ELSE 0]
           T(s) == Total(In(s), n)
           One(s) == CHOOSE x \in s : TRUE
           Sum(f, s) == IF s = {} THEN 0 ELSE g[One(s)] + f[s \ {One(s)}]
           P(f) == f = [s \in SUBSET D |-> Sum(f, s)]
           iter == CHOOSE f : P(f)
           h == [s \in SUBSET D |-> T(s)]
<1>1. SumFunction(g) = iter[D]
  <2>1. DOMAIN g = D
    OBVIOUS
  <2> QED
    BY <2>1 DEF SumFunction, SumFunctionOnSet, FoldFunctionOnSet, MapThenFoldSet
<1>2. ASSUME NEW s \in SUBSET D
      PROVE  \A i \in 1 .. n : In(s)[i] \in Nat
  OBVIOUS
<1>3. T({}) = 0
  <2> DEFINE S == {k \in Nat : k <= n => Total(In({}), k) = 0}
  <2>1. 0 \in S
    BY TotalStep
  <2>2. ASSUME NEW k \in Nat, k \in S
        PROVE  k + 1 \in S
    <3> SUFFICES ASSUME k + 1 <= n PROVE Total(In({}), k + 1) = 0
      OBVIOUS
    <3>1. k + 1 \in 1 .. n /\ Total(In({}), k) = 0
      BY <2>2
    <3>2. In({})[k + 1] = 0
      BY <3>1
    <3> HIDE DEF In
    <3>3. Total(In({}), k + 1) = Total(In({}), k) + In({})[k + 1]
      BY TotalStep
    <3> QED
      BY <3>1, <3>2, <3>3
  <2>3. Nat \subseteq S
    <3> HIDE DEF S
    <3> QED
      BY <2>1, <2>2, SimpleInduction
  <2> HIDE DEF In
  <2> QED
    BY <2>3
<1>4. ASSUME NEW s \in SUBSET D, NEW x \in s
      PROVE  T(s) = g[x] + T(s \ {x})
  <2> DEFINE u == In(s)
             w == In(s \ {x})
             S == {k \in Nat : k <= n =>
                      /\ Total(w, k) \in Nat
                      /\ Total(u, k) = (IF x <= k THEN g[x] ELSE 0) + Total(w, k)}
  <2>0. x \in 1 .. n /\ x \in Nat /\ g[x] \in Nat
    OBVIOUS
  <2>1. \A i \in 1 .. n : /\ w[i] \in Nat
                          /\ u[i] = (IF i = x THEN g[x] ELSE 0) + w[i]
    OBVIOUS
  <2> HIDE DEF u, w
  <2>2. 0 \in S
    BY <2>0, TotalStep
  <2>3. ASSUME NEW k \in Nat, k \in S
        PROVE  k + 1 \in S
    <3> SUFFICES ASSUME k + 1 <= n
                 PROVE  /\ Total(w, k + 1) \in Nat
                        /\ Total(u, k + 1) = (IF x <= k + 1 THEN g[x] ELSE 0) + Total(w, k + 1)
      OBVIOUS
    <3>1. /\ Total(w, k) \in Nat
          /\ Total(u, k) = (IF x <= k THEN g[x] ELSE 0) + Total(w, k)
      BY <2>3
    <3>2. w[k + 1] \in Nat /\ u[k + 1] = (IF k + 1 = x THEN g[x] ELSE 0) + w[k + 1]
      BY <2>1
    <3>3. /\ Total(u, k + 1) = Total(u, k) + u[k + 1]
          /\ Total(w, k + 1) = Total(w, k) + w[k + 1]
      BY TotalStep
    <3> QED
      BY <2>0, <3>1, <3>2, <3>3
  <2>4. Nat \subseteq S
    <3> HIDE DEF S
    <3> QED
      BY <2>2, <2>3, SimpleInduction
  <2>5. Total(u, n) = (IF x <= n THEN g[x] ELSE 0) + Total(w, n)
    BY <2>4
  <2> QED
    BY <2>0, <2>5 DEF u, w
<1> HIDE DEF T
<1>5. \A s \in SUBSET D : T(s) = Sum(h, s)
  <2> TAKE s \in SUBSET D
  <2>1. CASE s = {}
    BY <1>3, <2>1
  <2>2. CASE s # {}
    <3>1. One(s) \in s /\ s \ {One(s)} \in SUBSET D
      BY <2>2
    <3> HIDE DEF One
    <3> QED
      BY <1>4, <2>2, <3>1
  <2> QED
    BY <2>1, <2>2
<1>6. P(iter)
  <2>1. P(h)
    <3> HIDE DEF Sum
    <3> QED
      BY <1>5
  <2> HIDE DEF P
  <2> QED
    BY <2>1
<1>7. \A s \in SUBSET D : iter[s] = Sum(iter, s)
  <2> HIDE DEF iter, Sum
  <2> QED
    BY <1>6
<1> HIDE DEF iter, P, h
<1> DEFINE R == {m \in Nat : \A s \in SUBSET D : Cardinality(s) = m => iter[s] = T(s)}
<1>8. IsFiniteSet(D) /\ \A s \in SUBSET D : IsFiniteSet(s)
  <2>1. IsFiniteSet(1 .. n)
    BY FS_Interval
  <2> QED
    BY <2>1, FS_Subset
<1>9. ASSUME NEW m \in Nat, \A k \in 0 .. m - 1 : k \in R
      PROVE  m \in R
  <2> SUFFICES ASSUME NEW s \in SUBSET D, Cardinality(s) = m PROVE iter[s] = T(s)
    OBVIOUS
  <2>1. CASE s = {}
    BY <1>3, <1>7, <2>1
  <2>2. CASE s # {}
    <3> DEFINE x == One(s)
    <3>1. x \in s /\ s \ {x} \in SUBSET D
      BY <2>2
    <3>2. iter[s] = g[x] + iter[s \ {x}]
      BY <1>7, <2>2
    <3> HIDE DEF x
    <3>3. Cardinality(s \ {x}) = m - 1
      BY <1>8, <3>1, FS_RemoveElement
    <3>4. m - 1 \in 0 .. m - 1
      <4>1. m # 0
        BY <1>8, <2>2, FS_EmptySet
      <4> QED
        BY <4>1
    <3>5. iter[s \ {x}] = T(s \ {x})
      BY <1>9, <3>1, <3>3, <3>4
    <3>6. T(s) = g[x] + T(s \ {x})
      BY <1>4, <3>1
    <3> QED
      BY <3>2, <3>5, <3>6
  <2> QED
    BY <2>1, <2>2
<1>10. Nat \subseteq R
  <2> HIDE DEF R
  <2> QED
    BY <1>9, StrongInduction
<1>11. iter[D] = T(D)
  <2>1. Cardinality(D) \in Nat /\ D \in SUBSET D
    BY <1>8, FS_CardinalityType
  <2> QED
    BY <1>10, <2>1
<1>12. T(D) = Total(Padded(g, n), n)
  BY DEF T, Padded
<1> QED
  BY <1>1, <1>11, <1>12

-----------------------------------------------------------------------------
(* Texts and positions in them.                                            *)

LEMMA EndIsNoCharacter == End \notin Chars
<1>1. DOMAIN DigitValue = {"0", "1", "8", "9", "a", "b", "d", "e", "f"}
  BY DEF DigitValue
<1>2. Digits(16) \subseteq {"0", "1", "8", "9", "a", "b", "d", "e", "f"}
  BY <1>1 DEF Digits
<1> QED
  BY <1>2 DEF End, Chars, White, WordStart, Letters, SymbolStart, Quote, Backslash, Apostrophe,
              Underscore, LeftBrace, RightBrace, Others

LEMMA TextIs ==
    ASSUME NEW s \in Seq(Chars)
    PROVE  /\ Len(s) \in Nat /\ DOMAIN s = 1 .. Len(s)
           /\ \A i \in 1 .. Len(s) : At(s, i) = s[i] /\ At(s, i) \in Chars
           /\ \A i : At(s, i) # End => i \in 1 .. Len(s)
           /\ \A i : i \notin 1 .. Len(s) => At(s, i) = End
           /\ \A i \in 1 .. Len(s) : At(s, i) # End
<1>1. Len(s) \in Nat /\ DOMAIN s = 1 .. Len(s)
  BY LenProperties
<1>2. \A i \in 1 .. Len(s) : s[i] \in Chars
  BY ElementOfSeq
<1> QED
  BY <1>1, <1>2, EndIsNoCharacter DEF At

LEMMA LeastIsMin ==
    ASSUME NEW S, S \subseteq Nat, S # {}
    PROVE  Min(S) \in S /\ \A x \in S : Min(S) <= x
<1>1. \E x \in S : \A y \in S : x <= y
  BY LeastNatural
<1> QED
  BY <1>1 DEF Min

LEMMA GreatestIsMax ==
    ASSUME NEW n \in Nat, NEW S, S \subseteq 0 .. n, S # {}
    PROVE  Max(S) \in S /\ \A x \in S : x <= Max(S)
<1> DEFINE R == {k \in Nat : n - k \in S}
<1>1. PICK y \in S : TRUE
  OBVIOUS
<1>2. n - y \in Nat /\ n - (n - y) = y
  OBVIOUS
<1>3. R # {}
  BY <1>1, <1>2
<1>4. PICK k \in R : \A l \in R : k <= l
  BY <1>3, LeastNatural
<1>5. n - k \in S /\ \A x \in S : x <= n - k
  <2> SUFFICES ASSUME NEW x \in S PROVE x <= n - k
    BY <1>4
  <2>1. x \in 0 .. n /\ n - x \in Nat /\ n - (n - x) = x
    OBVIOUS
  <2>2. k <= n - x
    BY <1>4, <2>1
  <2> QED
    BY <1>4, <2>1, <2>2
<1>6. \E x \in S : \A z \in S : z <= x
  BY <1>5
<1> QED
  BY <1>6 DEF Max

LEMMA PastIs ==
    ASSUME NEW s \in Seq(Chars), NEW i \in 1 .. Len(s) + 1, NEW C, End \notin C
    PROVE  /\ Past(s, i, C) \in i .. Len(s) + 1
           /\ At(s, Past(s, i, C)) \notin C
           /\ \A j \in i .. Past(s, i, C) - 1 : At(s, j) \in C
<1> DEFINE S == {j \in i .. Len(s) + 1 : At(s, j) \notin C}
<1>1. Len(s) \in Nat /\ At(s, Len(s) + 1) = End
  BY TextIs
<1>2. S \subseteq Nat /\ Len(s) + 1 \in S
  BY <1>1
<1>3. Min(S) \in S /\ \A x \in S : Min(S) <= x
  <2> HIDE DEF S
  <2> QED
    BY <1>2, LeastIsMin
<1> DEFINE p == Min(S)
<1>4. Past(s, i, C) = p
  BY DEF Past
<1>5. p \in i .. Len(s) + 1 /\ At(s, p) \notin C
  BY <1>3
<1>6. \A j \in i .. p - 1 : At(s, j) \in C
  <2> SUFFICES ASSUME NEW j \in i .. p - 1, At(s, j) \notin C PROVE FALSE
    OBVIOUS
  <2>1. j \in S
    BY <1>1, <1>5
  <2> QED
    BY <1>1, <1>3, <1>5, <2>1
<1> HIDE DEF p
<1> QED
  BY <1>4, <1>5, <1>6

LEMMA UptoIs ==
    ASSUME NEW s \in Seq(Chars), NEW i \in 1 .. Len(s) + 1, NEW C
    PROVE  /\ Upto(s, i, C) \in i .. Len(s) + 1
           /\ At(s, Upto(s, i, C)) \in C \cup {End}
<1> DEFINE S == {j \in i .. Len(s) + 1 : At(s, j) \in C \cup {End}}
<1>1. Len(s) \in Nat /\ At(s, Len(s) + 1) = End
  BY TextIs
<1>2. S \subseteq Nat /\ Len(s) + 1 \in S
  BY <1>1
<1>3. Min(S) \in S
  <2> HIDE DEF S
  <2> QED
    BY <1>2, LeastIsMin
<1> QED
  BY <1>3 DEF Upto

-----------------------------------------------------------------------------
(* The scans of strings.                                                   *)

\* What the scan of a string finds from each position on
Scan(f, s, i, C) ==
    \A j \in i .. Len(s) + 2 :
        f[j] = IF j > Len(s) THEN Len(s) + 1
               ELSE IF At(s, j) \in C THEN j
               ELSE IF At(s, j) = Backslash THEN f[j + 2] ELSE f[j + 1]

LEMMA UnescapedScans ==
    ASSUME NEW s \in Seq(Chars), NEW i \in 1 .. Len(s) + 2, NEW C, Backslash \notin C
    PROVE  \E f : Unescaped(s, i, C) = f[i] /\ Scan(f, s, i, C)
<1> DEFINE D == i .. Len(s) + 2
           Body(f) == [j \in D |->
                         CASE j > Len(s) -> Len(s) + 1
                           [] j <= Len(s) /\ At(s, j) \in C -> j
                           [] j <= Len(s) /\ At(s, j) = Backslash -> f[j + 2]
                           [] OTHER -> f[j + 1]]
           P(f) == f = Body(f)
           scan == CHOOSE f : P(f)
           Stop == {j \in D : j > Len(s) \/ At(s, j) \in C}
           val == [j \in D |-> IF j > Len(s) THEN Len(s) + 1 ELSE j]
           nxt == [j \in D |-> IF At(s, j) = Backslash THEN j + 2 ELSE j + 1]
           m == [j \in D |-> Len(s) + 2 - j]
           M == Len(s) + 2 - i
<1>1. Len(s) \in Nat /\ M \in Nat
  BY TextIs
<1>2. /\ \A j \in D : m[j] \in 0 .. M
      /\ \A j \in D \ Stop : nxt[j] \in D /\ m[nxt[j]] < m[j]
  BY <1>1
<1>3. PICK f : GoesOn(f, D, Stop, val, nxt)
  <2> HIDE DEF D, Stop, val, nxt, m, M
  <2> QED
    BY <1>1, <1>2, RecursionExists
<1>4. P(f)
  <2> DEFINE g == [j \in D |-> IF j \in Stop THEN val[j] ELSE f[nxt[j]]]
  <2>1. f = g
    BY <1>3 DEF GoesOn
  <2>2. \A j \in D : (IF j \in Stop THEN val[j] ELSE f[nxt[j]]) = Body(f)[j]
    BY <1>1
  <2>3. g = Body(f)
    <3> HIDE DEF Stop, val, nxt
    <3> QED
      BY <2>2
  <2> HIDE DEF g
  <2> QED
    BY <2>1, <2>3
<1>5. Unescaped(s, i, C) = scan[i]
  BY DEF Unescaped
<1> HIDE DEF P
<1>6. P(scan)
  BY <1>4
<1> HIDE DEF scan
<1>7. \A j \in D : scan[j] = Body(scan)[j]
  BY <1>6 DEF P
<1>8. Scan(scan, s, i, C)
  <2> SUFFICES ASSUME NEW j \in D
               PROVE  scan[j] = IF j > Len(s) THEN Len(s) + 1
                                ELSE IF At(s, j) \in C THEN j
                                ELSE IF At(s, j) = Backslash THEN scan[j + 2] ELSE scan[j + 1]
    BY DEF Scan
  <2>1. scan[j] = Body(scan)[j]
    BY <1>7
  <2> QED
    BY <1>1, <2>1
<1> QED
  BY <1>5, <1>8

LEMMA UnescapedIs ==
    ASSUME NEW s \in Seq(Chars), NEW i \in 1 .. Len(s) + 1, NEW C, Backslash \notin C
    PROVE  /\ Unescaped(s, i, C) \in i .. Len(s) + 1
           /\ At(s, Unescaped(s, i, C)) \in C \cup {End}
<1>1. PICK f : Unescaped(s, i, C) = f[i] /\ Scan(f, s, i, C)
  BY UnescapedScans, TextIs
<1>2. Len(s) \in Nat /\ At(s, Len(s) + 1) = End
  BY TextIs
<1> DEFINE n == Len(s) + 2
           S == {j \in i .. n : /\ f[j] \in i .. Len(s) + 1 /\ (j <= Len(s) => j <= f[j])
                                /\ At(s, f[j]) \in C \cup {End}}
<1>3. ASSUME NEW j \in i .. n, \A k \in j + 1 .. n : k \in S
      PROVE  j \in S
  <2>1. f[j] = IF j > Len(s) THEN Len(s) + 1
               ELSE IF At(s, j) \in C THEN j
               ELSE IF At(s, j) = Backslash THEN f[j + 2] ELSE f[j + 1]
    BY <1>1 DEF Scan
  <2>2. CASE j > Len(s)
    BY <1>2, <2>1, <2>2
  <2>3. CASE j <= Len(s) /\ At(s, j) \in C
    BY <1>2, <2>1, <2>3
  <2>4. CASE j <= Len(s) /\ At(s, j) \notin C
    <3>1. \E k \in {j + 1, j + 2} : f[j] = f[k] /\ k \in S
      <4>1. j + 1 \in j + 1 .. n /\ j + 2 \in j + 1 .. n
        BY <1>2, <2>4
      <4>2. j + 1 \in S /\ j + 2 \in S
        BY <1>3, <4>1
      <4> HIDE DEF S
      <4> QED
        BY <1>2, <2>1, <2>4, <4>2
    <3>2. PICK k \in {j + 1, j + 2} : f[j] = f[k] /\ k \in S
      BY <3>1
    <3>3. j <= f[k]
      BY <1>1, <1>2, <2>4, <3>2 DEF Scan
    <3> QED
      BY <1>2, <2>4, <3>2, <3>3
  <2> QED
    BY <1>2, <2>2, <2>3, <2>4
<1>4. i .. n \subseteq S
  <2>1. i \in Nat /\ n \in Nat
    BY <1>2
  <2> HIDE DEF S, n
  <2> QED
    BY <1>3, <2>1, DownwardInduction
<1> QED
  BY <1>1, <1>2, <1>4

\* At j the escape of a code point with its opening brace
BracedEscape(s, j) == At(s, j) = Backslash /\ At(s, j + 1) = "u" /\ At(s, j + 2) = LeftBrace

\* Where looking ahead in a string stops from each position on
Look(f, s, i) ==
    \A j \in i .. Len(s) + 2 :
        f[j] = IF j > Len(s) THEN Len(s) + 1
               ELSE IF At(s, j) \in {Quote, LeftBrace} THEN j
               ELSE IF BracedEscape(s, j) THEN f[Upto(s, j + 3, {RightBrace}) + 1]
               ELSE IF At(s, j) = Backslash THEN f[j + 2] ELSE f[j + 1]

LEMMA InterpolationLooks ==
    ASSUME NEW s \in Seq(Chars), NEW i \in 1 .. Len(s) + 2
    PROVE  \E f : HasInterpolation(s, i) = (At(s, f[i]) = LeftBrace) /\ Look(f, s, i)
<1> DEFINE D == i .. Len(s) + 2
           Body(f) == [j \in D |->
              CASE j > Len(s) -> Len(s) + 1
                [] j <= Len(s) /\ At(s, j) \in {Quote, LeftBrace} -> j
                [] At(s, j) = Backslash /\ At(s, j + 1) = "u" /\ At(s, j + 2) = LeftBrace ->
                     f[Upto(s, j + 3, {RightBrace}) + 1]
                [] At(s, j) = Backslash /\ ~(At(s, j + 1) = "u" /\ At(s, j + 2) = LeftBrace) ->
                     f[j + 2]
                [] OTHER -> f[j + 1]]
           P(f) == f = Body(f)
           look == CHOOSE f : P(f)
           Stop == {j \in D : j > Len(s) \/ At(s, j) \in {Quote, LeftBrace}}
           val == [j \in D |-> IF j > Len(s) THEN Len(s) + 1 ELSE j]
           nxt == [j \in D |-> IF BracedEscape(s, j) THEN Upto(s, j + 3, {RightBrace}) + 1
                               ELSE IF At(s, j) = Backslash THEN j + 2 ELSE j + 1]
           m == [j \in D |-> Len(s) + 2 - j]
           M == Len(s) + 2 - i
<1>1. Len(s) \in Nat /\ M \in Nat
  BY TextIs
<1>a. \A j \in Nat : At(s, j) # End => j <= Len(s)
  BY TextIs
<1>c. \A j \in Nat : j > Len(s) => At(s, j) = End
  BY TextIs
<1>b. /\ Quote # LeftBrace /\ Backslash # Quote /\ Backslash # LeftBrace
      /\ Quote # End /\ Backslash # End /\ LeftBrace # End
  BY DEF Quote, Backslash, LeftBrace, End
<1>2. ASSUME NEW j \in D \ Stop
      PROVE  nxt[j] \in D /\ m[nxt[j]] < m[j]
  <2>1. j \in i .. Len(s) /\ nxt[j] = IF BracedEscape(s, j) THEN Upto(s, j + 3, {RightBrace}) + 1
                                      ELSE IF At(s, j) = Backslash THEN j + 2 ELSE j + 1
    BY <1>1
  <2>2. CASE BracedEscape(s, j)
    <3>1. j + 2 <= Len(s)
      <4>1. j + 2 \in Nat
        BY <1>1, <2>1
      <4> QED
        BY <1>a, <1>b, <2>2, <4>1 DEF BracedEscape
    <3>2. j + 3 \in 1 .. Len(s) + 1
      BY <1>1, <2>1, <3>1
    <3>3. Upto(s, j + 3, {RightBrace}) \in j + 3 .. Len(s) + 1
      BY <3>2, UptoIs
    <3> DEFINE u == Upto(s, j + 3, {RightBrace})
    <3> HIDE DEF u
    <3>4. u \in j + 3 .. Len(s) + 1 /\ nxt[j] = u + 1
      BY <2>1, <2>2, <3>3 DEF u
    <3> HIDE DEF nxt
    <3> QED
      BY <1>1, <2>1, <3>4
  <2>3. CASE ~BracedEscape(s, j)
    <3>1. nxt[j] \in {j + 1, j + 2}
      BY <2>1, <2>3
    <3> HIDE DEF nxt
    <3> QED
      BY <1>1, <2>1, <3>1
  <2> QED
    BY <2>2, <2>3
<1>3. PICK f : GoesOn(f, D, Stop, val, nxt)
  <2>1. \A j \in D : m[j] \in 0 .. M
    BY <1>1
  <2> HIDE DEF D, Stop, val, nxt, m, M
  <2> QED
    BY <1>1, <1>2, <2>1, RecursionExists
<1>4. P(f)
  <2> DEFINE g == [j \in D |-> IF j \in Stop THEN val[j] ELSE f[nxt[j]]]
  <2>1. f = g
    BY <1>3 DEF GoesOn
  <2>2. \A j \in D : (IF j \in Stop THEN val[j] ELSE f[nxt[j]]) = Body(f)[j]
    <3> SUFFICES ASSUME NEW j \in D
                 PROVE  (IF j \in Stop THEN val[j] ELSE f[nxt[j]]) = Body(f)[j]
      OBVIOUS
    <3>1. j > Len(s) => At(s, j) # Backslash
      BY <1>1, <1>b, <1>c
    <3>2. CASE j > Len(s)
      BY <1>1, <3>1, <3>2
    <3>3. CASE j <= Len(s) /\ At(s, j) \in {Quote, LeftBrace}
      BY <1>1, <1>b, <3>3
    <3>4. CASE j <= Len(s) /\ At(s, j) \notin {Quote, LeftBrace}
      BY <1>1, <1>b, <3>4 DEF BracedEscape
    <3> QED
      BY <1>1, <3>2, <3>3, <3>4
  <2>3. g = Body(f)
    <3> HIDE DEF Stop, val, nxt
    <3> QED
      BY <2>2
  <2> HIDE DEF g
  <2> QED
    BY <2>1, <2>3
<1>5. HasInterpolation(s, i) = (At(s, look[i]) = LeftBrace)
  BY DEF HasInterpolation
<1> HIDE DEF P
<1>6. P(look)
  BY <1>4
<1> HIDE DEF look
<1>7. \A j \in D : look[j] = Body(look)[j]
  BY <1>6 DEF P
<1>8. Look(look, s, i)
  <2> SUFFICES ASSUME NEW j \in D
               PROVE  look[j] = IF j > Len(s) THEN Len(s) + 1
                                ELSE IF At(s, j) \in {Quote, LeftBrace} THEN j
                                ELSE IF BracedEscape(s, j)
                                     THEN look[Upto(s, j + 3, {RightBrace}) + 1]
                                ELSE IF At(s, j) = Backslash THEN look[j + 2] ELSE look[j + 1]
    BY DEF Look
  <2>1. look[j] = Body(look)[j]
    BY <1>7
  <2>2. j > Len(s) => At(s, j) # Backslash
    BY <1>1, <1>b, <1>c
  <2>3. CASE j > Len(s)
    BY <1>1, <2>1, <2>2, <2>3
  <2>4. CASE j <= Len(s) /\ At(s, j) \in {Quote, LeftBrace}
    BY <1>1, <1>b, <2>1, <2>4
  <2>5. CASE j <= Len(s) /\ At(s, j) \notin {Quote, LeftBrace}
    BY <1>1, <1>b, <2>1, <2>5 DEF BracedEscape
  <2> QED
    BY <1>1, <2>3, <2>4, <2>5
<1> QED
  BY <1>5, <1>8

\* The two loops agree where they begin at the same position.
LEMMA LoopsAgree ==
    ASSUME NEW s \in Seq(Chars), NEW i \in 1 .. Len(s) + 1
    PROVE  LET stop == Unescaped(s, i, {Quote, LeftBrace})
           IN  /\ HasInterpolation(s, i) => At(s, stop) = LeftBrace
               /\ At(s, stop) = LeftBrace
                    /\ (stop >= i + 2 => ~(At(s, stop - 2) = Backslash /\ At(s, stop - 1) = "u"))
                  => HasInterpolation(s, i)
<1> DEFINE C == {Quote, LeftBrace}
           n == Len(s) + 2
<1>1. PICK f : Unescaped(s, i, C) = f[i] /\ Scan(f, s, i, C)
  BY UnescapedScans, TextIs DEF Backslash, Quote, LeftBrace
<1>2. PICK g : HasInterpolation(s, i) = (At(s, g[i]) = LeftBrace) /\ Look(g, s, i)
  BY InterpolationLooks, TextIs
<1>3. /\ Quote # LeftBrace /\ Backslash # Quote /\ Backslash # LeftBrace
      /\ Quote # End /\ Backslash # End /\ LeftBrace # End
  BY DEF Quote, Backslash, LeftBrace, End
<1>a. \A j \in Nat : At(s, j) # End => j <= Len(s)
  BY TextIs
<1>b. Len(s) \in Nat /\ At(s, Len(s) + 1) = End /\ n \in Nat /\ i \in Nat
  BY TextIs
<1> DEFINE Plain(j) == ~(At(s, f[j] - 2) = Backslash /\ At(s, f[j] - 1) = "u")
           S == {j \in i .. n : /\ f[j] \in Nat /\ (j <= Len(s) => j <= f[j])
                                /\ At(s, g[j]) = LeftBrace => At(s, f[j]) = LeftBrace
                                /\ At(s, f[j]) = LeftBrace /\ (f[j] >= j + 2 => Plain(j))
                                     => At(s, g[j]) = LeftBrace}
<1>4. ASSUME NEW j \in i .. n, \A k \in j + 1 .. n : k \in S
      PROVE  j \in S
  <2>1. f[j] = IF j > Len(s) THEN Len(s) + 1
               ELSE IF At(s, j) \in C THEN j
               ELSE IF At(s, j) = Backslash THEN f[j + 2] ELSE f[j + 1]
    BY <1>1 DEF Scan
  <2>2. g[j] = IF j > Len(s) THEN Len(s) + 1
               ELSE IF At(s, j) \in C THEN j
               ELSE IF BracedEscape(s, j) THEN g[Upto(s, j + 3, {RightBrace}) + 1]
               ELSE IF At(s, j) = Backslash THEN g[j + 2] ELSE g[j + 1]
    BY <1>2 DEF Look
  <2>3. CASE j > Len(s)
    <3>1. f[j] = Len(s) + 1 /\ g[j] = Len(s) + 1
      BY <2>1, <2>2, <2>3
    <3> HIDE DEF Plain
    <3> QED
      BY <1>3, <1>b, <2>3, <3>1
  <2>4. CASE j <= Len(s) /\ At(s, j) \in C
    <3>1. f[j] = j /\ g[j] = j
      BY <1>b, <2>1, <2>2, <2>4
    <3> HIDE DEF Plain
    <3> QED
      BY <1>3, <1>b, <2>4, <3>1
  <2>5. CASE j <= Len(s) /\ At(s, j) \notin C /\ BracedEscape(s, j)
    <3>1. j + 2 <= Len(s) /\ At(s, j) = Backslash /\ At(s, j + 1) = "u"
          /\ At(s, j + 2) = LeftBrace
      <4>1. j + 2 \in Nat
        BY <1>b
      <4> QED
        BY <1>3, <1>a, <2>5, <4>1 DEF BracedEscape
    <3>2. f[j + 2] = j + 2 /\ f[j] = j + 2
      <4>1. j + 2 \in i .. n /\ ~(j + 2 > Len(s))
        BY <1>3, <1>b, <3>1
      <4> QED
        BY <1>1, <1>3, <1>b, <2>1, <2>5, <3>1, <4>1 DEF Scan
    <3>3. ~Plain(j) /\ f[j] >= j + 2
      <4>1. (j + 2) - 2 = j /\ (j + 2) - 1 = j + 1
        BY <1>b
      <4> QED
        BY <1>3, <1>b, <3>1, <3>2, <4>1
    <3> HIDE DEF Plain
    <3> QED
      BY <1>3, <1>b, <3>1, <3>2, <3>3
  <2>6. CASE j <= Len(s) /\ At(s, j) \notin C /\ ~BracedEscape(s, j)
    <3>1. \E k \in {j + 1, j + 2} : f[j] = f[k] /\ g[j] = g[k] /\ k \in S
      <4>1. j + 1 \in j + 1 .. n /\ j + 2 \in j + 1 .. n
        BY <1>3, <1>b, <2>6
      <4>2. j + 1 \in S /\ j + 2 \in S
        BY <1>4, <4>1
      <4> HIDE DEF S
      <4> QED
        BY <1>3, <1>b, <2>1, <2>2, <2>6, <4>2
    <3>2. PICK k \in {j + 1, j + 2} : f[j] = f[k] /\ g[j] = g[k] /\ k \in S
      BY <3>1
    <3>3. /\ f[k] \in Nat /\ (k <= Len(s) => k <= f[k])
          /\ At(s, g[k]) = LeftBrace => At(s, f[k]) = LeftBrace
          /\ At(s, f[k]) = LeftBrace /\ (f[k] >= k + 2 => Plain(k)) => At(s, g[k]) = LeftBrace
      BY <3>2
    <3>4. j <= f[k] /\ (f[k] >= k + 2 => f[k] >= j + 2)
      <4>1. k > Len(s) => f[k] = Len(s) + 1
        BY <1>1, <1>3, <1>b, <2>6, <3>2 DEF Scan
      <4> QED
        BY <1>3, <1>b, <2>6, <3>2, <3>3, <4>1
    <3>5. Plain(j) <=> Plain(k)
      BY <3>2
    <3> HIDE DEF Plain
    <3> QED
      BY <1>3, <1>b, <3>2, <3>3, <3>4, <3>5
  <2> QED
    BY <1>3, <1>b, <2>3, <2>4, <2>5, <2>6
<1>5. i .. n \subseteq S
  <2>1. i \in Nat /\ n \in Nat
    BY <1>b
  <2> HIDE DEF S, n
  <2> QED
    BY <1>4, <2>1, DownwardInduction
<1>6. i \in S
  BY <1>3, <1>b, <1>5
<1> QED
  BY <1>1, <1>2, <1>6

-----------------------------------------------------------------------------
(* What nextToken skips.                                                   *)

LEMMA CommentEndIs ==
    ASSUME NEW s \in Seq(Chars), NEW i \in 1 .. Len(s) + 1
    PROVE  CommentEnd(s, i).to \in i .. Len(s) + 1
<1> DEFINE D == [to : i .. Len(s) + 1, depth : Nat]
           next(p) == <<At(s, p.to), At(s, p.to + 1)>>
           Body(f) == [p \in D |->
              CASE p.depth = 0 \/ p.to > Len(s) -> p
                [] p.depth > 0 /\ next(p) = <<"/", "*">> ->
                     f[[to |-> p.to + 2, depth |-> p.depth + 1]]
                [] p.depth > 0 /\ next(p) = <<"*", "/">> ->
                     f[[to |-> p.to + 2, depth |-> p.depth - 1]]
                [] OTHER -> f[[to |-> p.to + 1, depth |-> p.depth]]]
           P(f) == f = Body(f)
           end == CHOOSE f : P(f)
           Stop == {p \in D : p.depth = 0 \/ p.to > Len(s)}
           val == [p \in D |-> p]
           nxt == [p \in D |->
                     IF next(p) = <<"/", "*">> THEN [to |-> p.to + 2, depth |-> p.depth + 1]
                     ELSE IF next(p) = <<"*", "/">> THEN [to |-> p.to + 2, depth |-> p.depth - 1]
                     ELSE [to |-> p.to + 1, depth |-> p.depth]]
           m == [p \in D |-> Len(s) + 1 - p.to]
           M == Len(s) + 1 - i
<1>1. Len(s) \in Nat /\ M \in Nat
  BY TextIs
<1>2. \A p \in D : next(p) \in {<<"/", "*">>, <<"*", "/">>} => p.to + 1 <= Len(s)
  <2> SUFFICES ASSUME NEW p \in D, next(p) \in {<<"/", "*">>, <<"*", "/">>}
               PROVE  p.to + 1 <= Len(s)
    OBVIOUS
  <2>1. At(s, p.to + 1) \in {"/", "*"}
    OBVIOUS
  <2>2. At(s, p.to + 1) # End
    BY <2>1 DEF End
  <2> QED
    BY <2>2, TextIs
<1> HIDE DEF next
<1>3. /\ \A p \in D : m[p] \in 0 .. M
      /\ \A p \in D \ Stop : nxt[p] \in D /\ m[nxt[p]] < m[p]
  <2>1. \A p \in D : m[p] = Len(s) + 1 - p.to /\ p.to \in i .. Len(s) + 1 /\ p.depth \in Nat
    OBVIOUS
  <2>2. ASSUME NEW p \in D \ Stop
        PROVE  nxt[p] \in D /\ nxt[p].to > p.to
    <3>1. p.to <= Len(s) /\ p.depth - 1 \in Nat /\ p.depth + 1 \in Nat
      BY <1>1
    <3>2. CASE next(p) = <<"/", "*">>
      <4>1. nxt[p] = [to |-> p.to + 2, depth |-> p.depth + 1]
        BY <3>2
      <4>2. p.to + 2 \in i .. Len(s) + 1 /\ p.to + 2 > p.to
        BY <1>1, <1>2, <3>1, <3>2
      <4> HIDE DEF nxt
      <4> QED
        BY <3>1, <4>1, <4>2
    <3>3. CASE next(p) # <<"/", "*">> /\ next(p) = <<"*", "/">>
      <4>1. nxt[p] = [to |-> p.to + 2, depth |-> p.depth - 1]
        BY <3>3
      <4>2. p.to + 2 \in i .. Len(s) + 1 /\ p.to + 2 > p.to
        BY <1>1, <1>2, <3>1, <3>3
      <4> HIDE DEF nxt
      <4> QED
        BY <3>1, <4>1, <4>2
    <3>4. CASE next(p) \notin {<<"/", "*">>, <<"*", "/">>}
      <4>1. nxt[p] = [to |-> p.to + 1, depth |-> p.depth]
        BY <3>4
      <4>2. p.to + 1 \in i .. Len(s) + 1 /\ p.to + 1 > p.to
        BY <1>1, <3>1
      <4> HIDE DEF nxt
      <4> QED
        BY <3>1, <4>1, <4>2
    <3> QED
      BY <3>2, <3>3, <3>4
  <2> HIDE DEF m, nxt, Stop, D
  <2>3. \A p \in D : m[p] \in 0 .. M
    BY <1>1, <2>1
  <2>4. \A p \in D \ Stop : m[nxt[p]] < m[p]
    BY <1>1, <2>1, <2>2
  <2> QED
    BY <2>2, <2>3, <2>4
<1>4. PICK f : GoesOn(f, D, Stop, val, nxt)
  <2> HIDE DEF D, Stop, val, nxt, m, M
  <2> QED
    BY <1>1, <1>3, RecursionExists
<1>5. \A f1 : \A p \in D :
         (IF p \in Stop THEN val[p] ELSE f1[nxt[p]]) = Body(f1)[p]
  <2> SUFFICES ASSUME NEW f1, NEW p \in D
               PROVE  (IF p \in Stop THEN val[p] ELSE f1[nxt[p]]) = Body(f1)[p]
    OBVIOUS
  <2>2. CASE p \in Stop
    BY <1>1, <1>2, <2>2
  <2>3. CASE p \notin Stop
    <3>1. p.depth > 0 /\ ~(p.depth = 0 \/ p.to > Len(s))
      BY <1>1, <2>3
    <3>2. <<"/", "*">> # <<"*", "/">>
      OBVIOUS
    <3> QED
      BY <2>3, <3>1, <3>2
  <2> QED
    BY <2>2, <2>3
<1>6. P(f)
  <2> DEFINE g == [p \in D |-> IF p \in Stop THEN val[p] ELSE f[nxt[p]]]
  <2>1. f = g
    BY <1>4 DEF GoesOn
  <2>2. g = Body(f)
    <3>1. \A p \in D : (IF p \in Stop THEN val[p] ELSE f[nxt[p]]) = Body(f)[p]
      BY <1>5
    <3> HIDE DEF Stop, val, nxt, D
    <3> QED
      BY <3>1
  <2> HIDE DEF g
  <2> QED
    BY <2>1, <2>2
<1>7. CommentEnd(s, i) = end[[to |-> i, depth |-> 1]]
  BY DEF CommentEnd, next
<1> HIDE DEF P
<1>8. P(end)
  BY Zenon, <1>6
<1> HIDE DEF end
<1>9. GoesOn(end, D, Stop, val, nxt)
  <2> DEFINE g == [p \in D |-> IF p \in Stop THEN val[p] ELSE end[nxt[p]]]
  <2>1. end = Body(end)
    BY <1>8 DEF P
  <2>2. g = Body(end)
    <3>1. \A p \in D : (IF p \in Stop THEN val[p] ELSE end[nxt[p]]) = Body(end)[p]
      BY <1>5
    <3> HIDE DEF Stop, val, nxt, D
    <3> QED
      BY <3>1
  <2>3. end = g
    <3> HIDE DEF g, Body
    <3> QED
      BY <2>1, <2>2
  <2> QED
    BY <2>3 DEF GoesOn
<1>10. \A x \in D : \E y \in D \cap Stop : end[x] = val[y] /\ m[y] <= m[x]
  <2> HIDE DEF D, Stop, val, nxt, m, M
  <2> QED
    BY <1>1, <1>3, <1>9, RecursionEnds
<1>11. [to |-> i, depth |-> 1] \in D
  BY <1>1
<1>12. PICK y \in D : end[[to |-> i, depth |-> 1]] = val[y]
  BY <1>10, <1>11
<1> QED
  BY <1>7, <1>12

LEMMA TriviaIs ==
    ASSUME NEW s \in Seq(Chars)
    PROVE  Trivia(s).to \in 1 .. Len(s) + 1
<1> DEFINE D == 1 .. Len(s) + 1
           Line(j) == At(s, j) = "/" /\ At(s, j + 1) = "/"
           Block(j) == At(s, j) = "/" /\ At(s, j + 1) = "*"
           end(j) == CommentEnd(s, j + 2)
           Body(f) == [j \in D |->
              CASE At(s, j) \in White -> f[j + 1]
                [] Line(j) -> f[Upto(s, j + 2, {"nl"})]
                [] Block(j) ->
                     IF end(j).depth > 0 THEN [to |-> end(j).to, open |-> TRUE] ELSE f[end(j).to]
                [] OTHER -> [to |-> j, open |-> FALSE]]
           P(f) == f = Body(f)
           skip == CHOOSE f : P(f)
           Goes(j) == At(s, j) \in White \/ Line(j) \/ (Block(j) /\ ~(end(j).depth > 0))
           Stop == {j \in D : ~Goes(j)}
           val == [j \in D |-> IF Block(j) THEN [to |-> end(j).to, open |-> TRUE]
                                           ELSE [to |-> j, open |-> FALSE]]
           nxt == [j \in D |-> IF At(s, j) \in White THEN j + 1
                               ELSE IF Line(j) THEN Upto(s, j + 2, {"nl"}) ELSE end(j).to]
           m == [j \in D |-> Len(s) + 1 - j]
           M == Len(s)
<1>1. Len(s) \in Nat /\ M \in Nat
  BY TextIs
<1>2. \A j \in D : At(s, j) \in White => j <= Len(s)
  <2>1. End \notin White
    BY DEF End, White
  <2> QED
    BY <1>1, <2>1, TextIs
<1>3. \A j \in D : Line(j) \/ Block(j) => j + 2 \in 1 .. Len(s) + 1
  <2> SUFFICES ASSUME NEW j \in D, At(s, j + 1) \in {"/", "*"}
               PROVE  j + 2 \in 1 .. Len(s) + 1
    OBVIOUS
  <2>1. At(s, j + 1) # End
    BY DEF End
  <2> QED
    BY <1>1, <2>1, TextIs
<1>4. /\ \A j \in D : Line(j) => Upto(s, j + 2, {"nl"}) \in j + 2 .. Len(s) + 1
      /\ \A j \in D : Block(j) => end(j).to \in j + 2 .. Len(s) + 1
  BY <1>3, UptoIs, CommentEndIs
<1>5. \A j : ~(At(s, j) \in White /\ (Line(j) \/ Block(j))) /\ ~(Line(j) /\ Block(j))
  BY DEF White
<1> HIDE DEF Line, Block, end
<1>6. /\ \A j \in D : m[j] \in 0 .. M
      /\ \A j \in D \ Stop : nxt[j] \in D /\ m[nxt[j]] < m[j]
  BY <1>1, <1>2, <1>4
<1>7. PICK f : GoesOn(f, D, Stop, val, nxt)
  <2> HIDE DEF D, Stop, val, nxt, m, M
  <2> QED
    BY <1>1, <1>6, RecursionExists
<1>8. \A f1 : \A j \in D : (IF j \in Stop THEN val[j] ELSE f1[nxt[j]]) = Body(f1)[j]
  <2> SUFFICES ASSUME NEW f1, NEW j \in D
               PROVE  (IF j \in Stop THEN val[j] ELSE f1[nxt[j]]) = Body(f1)[j]
    OBVIOUS
  <2> HIDE DEF D
  <2>1. CASE At(s, j) \in White
    <3>a. ~Line(j) /\ ~Block(j)
      BY <1>5, <2>1
    <3>1. ~Line(j) /\ ~Block(j) /\ j \notin Stop
      BY <2>1, <3>a
    <3>2. Body(f1)[j] = f1[j + 1] /\ nxt[j] = j + 1
      BY <2>1, <3>1
    <3> QED
      BY <3>1, <3>2
  <2>2. CASE Line(j)
    <3>a. At(s, j) \notin White /\ ~Block(j)
      BY <1>5, <2>2
    <3>1. At(s, j) \notin White /\ ~Block(j) /\ j \notin Stop
      BY <2>2, <3>a
    <3>2. Body(f1)[j] = f1[Upto(s, j + 2, {"nl"})] /\ nxt[j] = Upto(s, j + 2, {"nl"})
      BY <2>2, <3>1
    <3> QED
      BY <3>1, <3>2
  <2>3. CASE Block(j) /\ end(j).depth > 0
    BY <1>5, <2>3
  <2>4. CASE Block(j) /\ ~(end(j).depth > 0)
    BY <1>5, <2>4
  <2>5. CASE At(s, j) \notin White /\ ~Line(j) /\ ~Block(j)
    BY <2>5
  <2> QED
    BY <2>1, <2>2, <2>3, <2>4, <2>5
<1>9. P(f)
  <2> DEFINE g == [j \in D |-> IF j \in Stop THEN val[j] ELSE f[nxt[j]]]
  <2>1. f = g
    BY <1>7 DEF GoesOn
  <2>2. g = Body(f)
    <3>1. \A j \in D : (IF j \in Stop THEN val[j] ELSE f[nxt[j]]) = Body(f)[j]
      BY <1>8
    <3> HIDE DEF Stop, val, nxt, D
    <3> QED
      BY <3>1
  <2> HIDE DEF g
  <2> QED
    BY <2>1, <2>2
<1>10. Trivia(s) = skip[1]
  BY DEF Trivia, Line, Block, end
<1> HIDE DEF P
<1>11. P(skip)
  BY <1>9
<1> HIDE DEF skip
<1>12. GoesOn(skip, D, Stop, val, nxt)
  <2> DEFINE g == [j \in D |-> IF j \in Stop THEN val[j] ELSE skip[nxt[j]]]
  <2>1. skip = Body(skip)
    BY <1>11 DEF P
  <2>2. g = Body(skip)
    <3>1. \A j \in D : (IF j \in Stop THEN val[j] ELSE skip[nxt[j]]) = Body(skip)[j]
      BY <1>8
    <3> HIDE DEF Stop, val, nxt, D
    <3> QED
      BY <3>1
  <2>3. skip = g
    <3> HIDE DEF g, Body
    <3> QED
      BY <2>1, <2>2
  <2> QED
    BY <2>3 DEF GoesOn
<1>13. \A x \in D : \E y \in D \cap Stop : skip[x] = val[y] /\ m[y] <= m[x]
  <2> HIDE DEF D, Stop, val, nxt, m, M
  <2> QED
    BY <1>1, <1>6, <1>12, RecursionEnds
<1>14. PICK y \in D : skip[1] = val[y]
  <2>1. 1 \in D
    BY <1>1
  <2> HIDE DEF D, val, m
  <2> QED
    BY <1>13, <2>1
<1>15. val[y].to \in 1 .. Len(s) + 1
  BY <1>1, <1>4
<1> QED
  BY <1>10, <1>14, <1>15

-----------------------------------------------------------------------------
(* The scanning functions find tokens, or errors, that are not empty.      *)

PlainKinds == {"Error", "Word", "Symbol", "Integer", "Float", "Character", "String"}

\* A token that is no part of an interpolated string, made of some of s
IsToken(s, lex) ==
    /\ lex.kind \in PlainKinds
    /\ lex.value \in 0 .. IntegerMax
    /\ lex.to \in 2 .. Len(s) + 1
    /\ lex.errors \subseteq Errors

LEMMA LexemeIs ==
    ASSUME NEW s \in Seq(Chars), NEW kind \in PlainKinds, NEW to \in 2 .. Len(s) + 1,
           NEW errs, errs \subseteq Errors
    PROVE  IsToken(s, Lexeme(kind, to, errs))
BY WidthsAssumption DEF IsToken, Lexeme

LEMMA EndIsNot ==
    /\ \A c \in Chars : c # End
    /\ End \notin WordStart /\ End \notin SymbolStart /\ End \notin Letters
    /\ \A b : End \notin Digits(b)
    /\ End # Quote /\ End # Backslash /\ End # Apostrophe /\ End # LeftBrace
<1>1. DOMAIN DigitValue = {"0", "1", "8", "9", "a", "b", "d", "e", "f"}
  BY DEF DigitValue
<1>2. \A b : Digits(b) \subseteq {"0", "1", "8", "9", "a", "b", "d", "e", "f"}
  BY <1>1 DEF Digits
<1>3. End \notin WordStart /\ End \notin SymbolStart /\ End \notin Letters
  BY DEF End, WordStart, SymbolStart, Letters, Underscore
<1>4. \A b : End \notin Digits(b)
  BY <1>2 DEF End
<1>5. End # Quote /\ End # Backslash /\ End # Apostrophe /\ End # LeftBrace
  BY DEF End, Quote, Backslash, Apostrophe, LeftBrace
<1> QED
  BY <1>3, <1>4, <1>5, EndIsNoCharacter

LEMMA WordIs ==
    ASSUME NEW s \in Seq(Chars), At(s, 1) \in WordStart
    PROVE  IsToken(s, Word(s))
<1> DEFINE C == WordStart \cup Digits(10)
           to == Past(s, 1, C)
<1>1. End \notin C /\ 1 \in 1 .. Len(s) + 1 /\ Len(s) \in Nat
  BY EndIsNot, TextIs
<1>2. to \in 1 .. Len(s) + 1 /\ At(s, to) \notin C
  <2> HIDE DEF C
  <2> QED
    BY <1>1, PastIs
<1>3. to \in 2 .. Len(s) + 1
  <2>1. to # 1
    BY <1>2
  <2> HIDE DEF to
  <2> QED
    BY <1>1, <1>2, <2>1
<1> HIDE DEF to
<1>4. IsToken(s, Lexeme("Word", to, {}))
  BY <1>3, LexemeIs DEF PlainKinds
<1> QED
  BY <1>4 DEF Word, to

LEMMA SymbolIs ==
    ASSUME NEW s \in Seq(Chars), At(s, 1) \in SymbolStart, NEW b \in BOOLEAN
    PROVE  IsToken(s, Symbol(s, b))
<1> DEFINE found == {sym \in Symbols : IsPrefix(sym, s)
                                         /\ (b => ~IsPrefix(<<">", ">">>, sym))}
           lengths == {Len(sym) : sym \in found}
<1>1. Len(s) \in Nat \ {0} /\ s[1] = At(s, 1)
  BY TextIs, EndIsNot
<1>2. \A sym \in Symbols : Len(sym) \in {1, 2, 3}
  BY DEF Symbols
<1>3. \A sym \in found : Len(sym) \in 1 .. Len(s)
  BY <1>1, <1>2 DEF IsPrefix
<1>4. <<s[1]>> \in found
  <2>1. <<s[1]>> \in Symbols
    BY <1>1 DEF Symbols
  <2>2. IsPrefix(<<s[1]>>, s)
    BY <1>1 DEF IsPrefix
  <2>3. ~IsPrefix(<<">", ">">>, <<s[1]>>)
    BY DEF IsPrefix
  <2> QED
    BY <2>1, <2>2, <2>3
<1>5. lengths \subseteq 0 .. Len(s) /\ lengths # {} /\ \A x \in lengths : x >= 1
  <2> HIDE DEF found
  <2>1. Len(<<s[1]>>) \in lengths
    BY <1>4
  <2>2. \A x \in lengths : x \in 1 .. Len(s)
    BY <1>3
  <2> HIDE DEF lengths
  <2> QED
    BY <1>1, <2>1, <2>2
<1>6. Max(lengths) \in lengths
  <2> HIDE DEF lengths
  <2> QED
    BY <1>1, <1>5, GreatestIsMax
<1> DEFINE max == Max(lengths)
<1>7. max + 1 \in 2 .. Len(s) + 1
  <2> HIDE DEF lengths
  <2>1. max \in 0 .. Len(s) /\ max >= 1
    BY <1>5, <1>6
  <2> HIDE DEF max
  <2> QED
    BY <1>1, <2>1
<1> HIDE DEF max
<1>8. IsToken(s, Lexeme("Symbol", max + 1, {}))
  BY <1>7, LexemeIs DEF PlainKinds
<1> QED
  BY <1>8 DEF Symbol, max

LEMMA RawStringIs ==
    ASSUME NEW s \in Seq(Chars), At(s, 1) = "r", At(s, 2) = Quote
    PROVE  IsToken(s, RawString(s))
<1> DEFINE end == Upto(s, 3, {Quote})
           errs == When("cont" \in Range(SubSeq(s, 3, end - 1)), "utf8")
<1>1. Len(s) \in Nat /\ 3 \in 1 .. Len(s) + 1
  BY TextIs, EndIsNot
<1>2. end \in 3 .. Len(s) + 1 /\ (At(s, end) # End => end \in 1 .. Len(s))
  BY <1>1, UptoIs, TextIs
<1>3. errs \subseteq Errors /\ errs \cup {"string"} \subseteq Errors
  BY DEF When, Errors
<1> HIDE DEF end, errs
<1>4. CASE At(s, end) = End
  <2>1. IsToken(s, Lexeme("Error", end, errs \cup {"string"}))
    BY <1>1, <1>2, <1>3, LexemeIs DEF PlainKinds
  <2> QED
    BY <1>4, <2>1 DEF RawString, end, errs
<1>5. CASE At(s, end) # End
  <2>1. IsToken(s, Lexeme("String", end + 1, errs))
    BY <1>1, <1>2, <1>3, <1>5, LexemeIs DEF PlainKinds
  <2> QED
    BY <1>5, <2>1 DEF RawString, end, errs
<1> QED
  BY <1>4, <1>5

LEMMA RegularStringIs ==
    ASSUME NEW s \in Seq(Chars), At(s, 1) = Quote
    PROVE  IsToken(s, RegularString(s))
<1> DEFINE end == Unescaped(s, 2, {Quote})
<1>1. Len(s) \in Nat /\ 2 \in 1 .. Len(s) + 1
  BY TextIs, EndIsNot
<1>2. end \in 2 .. Len(s) + 1 /\ (At(s, end) # End => end \in 1 .. Len(s))
  BY <1>1, UnescapedIs, TextIs DEF Backslash, Quote
<1> HIDE DEF end
<1>3. CASE At(s, end) = End
  <2>1. IsToken(s, Lexeme("Error", end, {"string"}))
    BY <1>2, LexemeIs DEF PlainKinds, Errors
  <2> QED
    BY <1>3, <2>1 DEF RegularString, end
<1>4. CASE At(s, end) # End
  <2>1. IsToken(s, Lexeme("String", end + 1, {}))
    BY <1>1, <1>2, <1>4, LexemeIs DEF PlainKinds
  <2> QED
    BY <1>4, <2>1 DEF RegularString, end
<1> QED
  BY <1>3, <1>4

-----------------------------------------------------------------------------
(* Numbers.                                                                *)

LEMMA DigitsAre ==
    /\ \A c \in DOMAIN DigitValue : DigitValue[c] \in Nat
    /\ Digits(10) \subseteq {"0", "1", "8", "9"} /\ "0" \in Digits(8)
<1>1. DOMAIN DigitValue = {"0", "1", "8", "9", "a", "b", "d", "e", "f"}
  BY DEF DigitValue
<1>2. /\ DigitValue["0"] = 0 /\ DigitValue["1"] = 1 /\ DigitValue["8"] = 8
      /\ DigitValue["9"] = 9 /\ DigitValue["a"] = 10 /\ DigitValue["b"] = 11
      /\ DigitValue["d"] = 13 /\ DigitValue["e"] = 14 /\ DigitValue["f"] = 15
  BY DEF DigitValue
<1> QED
  BY <1>1, <1>2 DEF Digits

\* The positions of the digits between two positions, and the value of each
DigitsIn(s, from, to) == {i \in from .. to - 1 : s[i] # Underscore}
Behind(digits, i) == {j \in digits : j > i}
Worth(s, digits, base) ==
    [i \in digits |-> DigitValue[s[i]] * Weight(base, Cardinality(Behind(digits, i)))]

LEMMA SaidIsWorth ==
    ASSUME NEW s, NEW from, NEW to, NEW base
    PROVE  NumberSaid(s, from, to, base)
             = SumFunction(Worth(s, DigitsIn(s, from, to), base))
BY DEF NumberSaid, Worth, DigitsIn, Behind

LEMMA WorthIsNatural ==
    ASSUME NEW s, NEW n \in Nat, NEW digits \in SUBSET (1 .. n), NEW base \in Nat,
           \A i \in digits : s[i] \in DOMAIN DigitValue
    PROVE  /\ Worth(s, digits, base) \in [digits -> Nat]
           /\ \A i \in digits : /\ Cardinality(Behind(digits, i)) \in Nat
                                /\ IsFiniteSet(Behind(digits, i))
                                /\ DigitValue[s[i]] \in Nat
<1>4. IsFiniteSet(1 .. n)
  <2>1. 1 \in Int /\ n \in Int
    OBVIOUS
  <2> QED
    BY <2>1, FS_Interval
<1>1. \A i \in digits : /\ Cardinality(Behind(digits, i)) \in Nat
                        /\ IsFiniteSet(Behind(digits, i))
  <2> TAKE i \in digits
  <2> DEFINE B == Behind(digits, i)
  <2>1. B \subseteq 1 .. n
    BY DEF Behind
  <2>2. IsFiniteSet(B)
    BY <1>4, <2>1, FS_Subset
  <2> HIDE DEF B
  <2>3. Cardinality(B) \in Nat
    BY <2>2, FS_CardinalityType
  <2> QED
    BY <2>2, <2>3 DEF B
<1>2. \A i \in digits : DigitValue[s[i]] \in Nat
  BY DigitsAre
<1>3. \A i \in digits :
         DigitValue[s[i]] * Weight(base, Cardinality(Behind(digits, i))) \in Nat
  <2> TAKE i \in digits
  <2> DEFINE c == Cardinality(Behind(digits, i))
             w == Weight(base, c)
             d == DigitValue[s[i]]
  <2>1. c \in Nat /\ d \in Nat
    BY <1>1, <1>2
  <2> HIDE DEF c, d
  <2>2. w \in Nat
    BY <2>1, WeightStep
  <2> HIDE DEF w
  <2>3. d * w \in Nat
    BY <2>1, <2>2
  <2> QED
    BY <2>3 DEF d, w, c
<1> QED
  BY <1>1, <1>2, <1>3 DEF Worth

\* One digit more multiplies what was said by the base; an underscore says
\* nothing.
LEMMA SaidStep ==
    ASSUME NEW s \in Seq(Chars), NEW from \in 1 .. Len(s) + 1, NEW to \in from .. Len(s) + 1,
           NEW base \in {2, 8, 10, 16},
           \A i \in from .. to - 1 : s[i] \in DOMAIN DigitValue \cup {Underscore}
    PROVE  /\ NumberSaid(s, from, from, base) = 0
           /\ NumberSaid(s, from, to, base) \in Nat
           /\ to > from /\ s[to - 1] = Underscore =>
                 NumberSaid(s, from, to, base) = NumberSaid(s, from, to - 1, base)
           /\ to > from /\ s[to - 1] # Underscore =>
                 NumberSaid(s, from, to, base)
                   = base * NumberSaid(s, from, to - 1, base) + DigitValue[s[to - 1]]
<1>1. from \in Nat \ {0} /\ to \in Nat /\ from <= to /\ base \in Nat /\ Len(s) \in Nat
  BY TextIs
<1>2. NumberSaid(s, from, from, base) = 0
  <2> DEFINE g == Worth(s, {}, base)
  <2>1. DigitsIn(s, from, from) = {}
    BY <1>1 DEF DigitsIn
  <2>2. g \in [{} -> Nat]
    BY DEF Worth
  <2> HIDE DEF g
  <2>3. {} \in SUBSET (1 .. 0)
    OBVIOUS
  <2>4. SumFunction(g) = Total(Padded(g, 0), 0)
    BY <2>2, <2>3, SumIsTotal
  <2>5. SumFunction(g) = 0
    BY <2>4, TotalStep
  <2> QED
    BY <2>1, <2>5, SaidIsWorth DEF g
<1> DEFINE n == to - 1
           D == DigitsIn(s, from, to)
           E == DigitsIn(s, from, n)
           h == Worth(s, D, base)
           g == Worth(s, E, base)
<1>3. /\ D \in SUBSET (1 .. n) /\ \A i \in D : s[i] \in DOMAIN DigitValue
      /\ n \in Nat
  BY <1>1 DEF DigitsIn
<1>4. h \in [D -> Nat]
  <2> HIDE DEF D, n
  <2> QED
    BY <1>1, <1>3, WorthIsNatural
<1>5. NumberSaid(s, from, to, base) = Total(Padded(h, n), n)
  <2> HIDE DEF D, n, h
  <2>1. SumFunction(h) = Total(Padded(h, n), n)
    BY <1>3, <1>4, SumIsTotal
  <2> QED
    BY <2>1, SaidIsWorth DEF h, D
<1>6. NumberSaid(s, from, to, base) \in Nat
  <2> HIDE DEF D, n, h
  <2>1. \A i \in 1 .. n : Padded(h, n)[i] \in Nat
    BY <1>4 DEF Padded
  <2> QED
    BY <1>3, <1>5, <2>1, TotalNat
<1>7. ASSUME to > from, s[n] = Underscore
      PROVE  NumberSaid(s, from, to, base) = NumberSaid(s, from, n, base)
  <2>1. D = E
    BY <1>1, <1>7 DEF DigitsIn
  <2> QED
    BY <2>1, SaidIsWorth
<1>8. ASSUME to > from, s[n] # Underscore
      PROVE  NumberSaid(s, from, to, base)
               = base * NumberSaid(s, from, n, base) + DigitValue[s[n]]
  <2>1. /\ D = E \cup {n} /\ E \in SUBSET (1 .. n - 1) /\ E \in SUBSET (1 .. n)
        /\ \A i \in E : s[i] \in DOMAIN DigitValue
        /\ n - 1 \in Nat /\ n \in D /\ n \notin E /\ n \in 1 .. n
    BY <1>1, <1>3, <1>8 DEF DigitsIn
  <2> HIDE DEF D, E, n
  <2>2. g \in [E -> Nat]
    BY <1>1, <2>1, WorthIsNatural
  <2>3. \A i \in D : h[i] = DigitValue[s[i]] * Weight(base, Cardinality(Behind(D, i)))
    BY DEF Worth
  <2>4. \A i \in E : g[i] = DigitValue[s[i]] * Weight(base, Cardinality(Behind(E, i)))
    BY DEF Worth
  <2>5. \A i \in E : h[i] = base * g[i]
    <3> TAKE i \in E
    <3> DEFINE B == Behind(E, i)
               c == Cardinality(B)
               d == DigitValue[s[i]]
               w == Weight(base, c)
    <3>1. IsFiniteSet(B) /\ c \in Nat /\ d \in Nat
      BY <1>1, <1>3, <2>1, WorthIsNatural
    <3>2. Behind(D, i) = B \cup {n} /\ n \notin B
      BY <1>3, <2>1 DEF Behind
    <3> HIDE DEF B
    <3>3. Cardinality(B \cup {n}) = c + 1
      BY <3>1, <3>2, FS_AddElement
    <3> HIDE DEF c
    <3>4. w \in Nat /\ Weight(base, c + 1) = base * w
      BY <1>1, <3>1, WeightStep
    <3>5. h[i] = d * Weight(base, c + 1)
      BY <2>1, <2>3, <3>2, <3>3
    <3>6. g[i] = d * w
      BY <2>4 DEF c, B
    <3> HIDE DEF d, w, g, h
    <3>7. d * (base * w) = base * (d * w)
      BY <3>1, <3>4
    <3> QED
      BY <3>4, <3>5, <3>6, <3>7
  <2>6. h[n] = DigitValue[s[n]]
    <3>1. Behind(D, n) = {}
      <4>1. \A j \in D : ~(j > n)
        BY <1>3
      <4> QED
        BY <4>1 DEF Behind
    <3>2. Cardinality(Behind(D, n)) = 0
      BY <3>1, FS_EmptySet
    <3>3. Weight(base, 0) = 1
      BY <1>1, WeightStep
    <3>4. DigitValue[s[n]] \in Nat
      BY <1>3, <2>1, DigitsAre
    <3>5. h[n] = DigitValue[s[n]] * 1
      BY <2>1, <2>3, <3>2, <3>3
    <3> QED
      BY <3>4, <3>5
  <2> HIDE DEF g, h
  <2>7. NumberSaid(s, from, n, base) = Total(Padded(g, n), n)
    <3>1. SumFunction(g) = Total(Padded(g, n), n)
      BY <1>3, <2>1, <2>2, SumIsTotal
    <3> QED
      BY <3>1, SaidIsWorth DEF g, E
  <2>8. Padded(g, n)[n] = 0 /\ Padded(h, n)[n] = DigitValue[s[n]]
    BY <1>4, <2>1, <2>2, <2>6 DEF Padded
  <2>9. \A i \in 1 .. n - 1 : /\ Padded(g, n)[i] \in Nat
                              /\ Padded(h, n)[i] = base * Padded(g, n)[i]
    <3> TAKE i \in 1 .. n - 1
    <3>1. i \in 1 .. n /\ i # n
      BY <1>3
    <3>2. CASE i \in E
      <4>1. Padded(g, n)[i] = g[i] /\ Padded(h, n)[i] = h[i] /\ g[i] \in Nat
        BY <1>4, <2>1, <2>2, <3>1, <3>2 DEF Padded
      <4> QED
        BY <2>5, <3>2, <4>1
    <3>3. CASE i \notin E
      <4>1. i \notin D
        BY <2>1, <3>1, <3>3
      <4>2. Padded(g, n)[i] = 0 /\ Padded(h, n)[i] = 0
        BY <1>4, <2>2, <3>1, <3>3, <4>1 DEF Padded
      <4> QED
        BY <4>2
    <3> QED
      BY <3>2, <3>3
  <2> DEFINE G == Padded(g, n)
             H == Padded(h, n)
             m == n - 1
  <2>10. m \in Nat /\ m + 1 = n
    BY <1>3, <2>1
  <2>11. \A i \in 1 .. m : G[i] \in Nat /\ H[i] = base * G[i]
    BY <2>9
  <2>12. G[n] = 0 /\ H[n] = DigitValue[s[n]]
    BY <2>8
  <2> HIDE DEF G, H, m
  <2>13. Total(H, m) = base * Total(G, m) /\ Total(G, m) \in Nat
    BY <2>10, <2>11, TotalScaled, TotalNat
  <2>14. Total(G, n) = Total(G, m) + 0 /\ Total(H, n) = Total(H, m) + DigitValue[s[n]]
    BY <2>10, <2>12, TotalStep
  <2>15. Total(H, n) = base * Total(G, n) + DigitValue[s[n]]
    BY <2>13, <2>14
  <2> QED
    BY <1>5, <2>7, <2>15 DEF G, H
<1> QED
  BY <1>2, <1>6, <1>7, <1>8

\* A number as the lexer stores it
Saturated(n) ==
    IF n > IntegerMax THEN [value |-> IntegerMax, overflow |-> TRUE]
                      ELSE [value |-> n, overflow |-> FALSE]

LEMMA AppendSaturates ==
    ASSUME NEW base \in {2, 8, 10, 16}, NEW n \in Nat, NEW d \in Nat
    PROVE  AppendDigit(base, Saturated(n), d) = Saturated(base * n + d)
<1> DEFINE M == IntegerMax
           full == [value |-> M, overflow |-> TRUE]
<1>1. M \in Nat \ {0}
  BY WidthsAssumption
<1> DEFINE r == Saturated(n)
<1>2. CASE n > M
  <2>1. M > M \div base /\ base * n + d > M
    BY <1>1, <1>2
  <2>2. r = full /\ Saturated(base * n + d) = full
    BY <1>2, <2>1 DEF Saturated
  <2> HIDE DEF r
  <2>3. r.value > M \div base
    BY <2>1, <2>2
  <2>4. AppendDigit(base, r, d) = full
    BY <2>3 DEF AppendDigit
  <2> QED
    BY <2>2, <2>4 DEF r
<1>3. CASE ~(n > M)
  <2>1. r = [value |-> n, overflow |-> FALSE]
    BY <1>3 DEF Saturated
  <2> HIDE DEF r
  <2>2. r.value = n
    BY <2>1
  <2>3. CASE n > M \div base \/ n * base > M - d
    <3>1. base * n + d > M
      BY <1>1, <2>3
    <3>2. Saturated(base * n + d) = full
      BY <3>1 DEF Saturated
    <3>3. AppendDigit(base, r, d) = full
      BY <2>2, <2>3 DEF AppendDigit
    <3> QED
      BY <3>2, <3>3 DEF r
  <2>4. CASE ~(n > M \div base \/ n * base > M - d)
    <3> DEFINE k == n * base + d
    <3>1. ~(k > M) /\ k = base * n + d /\ k \in Nat
      BY <1>1, <2>4
    <3>2. AppendDigit(base, r, d) = [r EXCEPT !.value = r.value * base + d]
      BY <2>2, <2>4 DEF AppendDigit
    <3> HIDE DEF k
    <3>3. Saturated(k) = [value |-> k, overflow |-> FALSE]
      BY <3>1 DEF Saturated
    <3>4. AppendDigit(base, r, d) = [r EXCEPT !.value = k]
      BY <2>2, <3>2 DEF k
    <3>5. [r EXCEPT !.value = k] = [value |-> k, overflow |-> r.overflow]
      <4>1. r \in [value : Nat, overflow : BOOLEAN]
        BY <2>1
      <4> QED
        BY <3>1, <4>1
    <3>6. [value |-> k, overflow |-> r.overflow] = [value |-> k, overflow |-> FALSE]
      BY <2>1
    <3>7. [r EXCEPT !.value = k] = [value |-> k, overflow |-> FALSE]
      BY <3>5, <3>6
    <3> QED
      BY <3>1, <3>3, <3>4, <3>7 DEF r
  <2> QED
    BY <2>3, <2>4
<1> QED
  BY <1>2, <1>3

\* Read one by one, the digits come to the number they say, or to the largest
\* that fits when that is larger, which is told.
LEMMA ReadDigitsSaturate ==
    ASSUME NEW s \in Seq(Chars), NEW from \in 1 .. Len(s) + 1, NEW to \in from .. Len(s) + 1,
           NEW base \in {2, 8, 10, 16},
           \A i \in from .. to - 1 : s[i] \in DOMAIN DigitValue \cup {Underscore}
    PROVE  /\ NumberSaid(s, from, to, base) \in Nat
           /\ ReadDigits(s, from, to, base) = Saturated(NumberSaid(s, from, to, base))
<1> DEFINE v == [value |-> 0, overflow |-> FALSE]
           lo == from - 1
           hi == to - 1
           Said(i) == NumberSaid(s, from, i + 1, base)
           Value(f, i) == IF i < from THEN v
                          ELSE IF s[i] = Underscore THEN f[i - 1]
                          ELSE AppendDigit(base, f[i - 1], DigitValue[s[i]])
           P(f) == f = [i \in lo .. hi |-> Value(f, i)]
           read == CHOOSE f : P(f)
           h == [i \in lo .. hi |-> Saturated(Said(i))]
<1>1. /\ Len(s) \in Nat /\ lo \in Nat /\ hi \in Nat /\ lo <= hi /\ from = lo + 1
      /\ hi + 1 = to
  BY TextIs
<1>2. ASSUME NEW i \in lo .. hi
      PROVE  /\ Said(i) \in Nat
             /\ i = lo => Said(i) = 0
             /\ i # lo /\ s[i] = Underscore => Said(i) = Said(i - 1)
             /\ i # lo /\ s[i] # Underscore =>
                   /\ Said(i) = base * Said(i - 1) + DigitValue[s[i]]
                   /\ Said(i - 1) \in Nat /\ DigitValue[s[i]] \in Nat
  <2> DEFINE t == i + 1
  <2>1. t \in from .. Len(s) + 1 /\ t - 1 = i /\ (i - 1) + 1 = i /\ (i # lo => t > from)
    BY <1>1
  <2>2. \A j \in from .. t - 1 : s[j] \in DOMAIN DigitValue \cup {Underscore}
    BY <1>1, <2>1
  <2> HIDE DEF t, lo
  <2>3. /\ NumberSaid(s, from, from, base) = 0
        /\ NumberSaid(s, from, t, base) \in Nat
        /\ t > from /\ s[t - 1] = Underscore =>
              NumberSaid(s, from, t, base) = NumberSaid(s, from, t - 1, base)
        /\ t > from /\ s[t - 1] # Underscore =>
              NumberSaid(s, from, t, base)
                = base * NumberSaid(s, from, t - 1, base) + DigitValue[s[t - 1]]
    BY <2>1, <2>2, SaidStep
  <2>4. i # lo => NumberSaid(s, from, i, base) \in Nat
    <3> SUFFICES ASSUME i # lo PROVE NumberSaid(s, from, i, base) \in Nat
      OBVIOUS
    <3>1. i \in from .. Len(s) + 1
      BY <1>1, <2>1
    <3>2. \A j \in from .. i - 1 : s[j] \in DOMAIN DigitValue \cup {Underscore}
      BY <1>1, <2>1, <2>2, <3>1
    <3> QED
      BY <3>1, <3>2, SaidStep
  <2>5. i # lo /\ s[i] # Underscore => DigitValue[s[i]] \in Nat
    BY <1>1, <2>1, <2>2, DigitsAre
  <2>6. i = lo => t = from
    BY <1>1 DEF t
  <2> QED
    BY <2>1, <2>3, <2>4, <2>5, <2>6 DEF t
<1> HIDE DEF Said
<1>3. Saturated(0) = v
  BY WidthsAssumption DEF Saturated
<1>4. ASSUME NEW f, NEW i \in lo .. hi, i # lo => f[i - 1] = Saturated(Said(i - 1))
      PROVE  Value(f, i) = Saturated(Said(i))
  <2>1. CASE i = lo
    <3>1. i < from /\ Said(i) = 0
      BY <1>1, <1>2, <2>1
    <3> QED
      BY <1>3, <3>1
  <2>2. CASE i # lo
    <3>1. ~(i < from) /\ f[i - 1] = Saturated(Said(i - 1))
      BY <1>1, <1>4, <2>2
    <3>2. CASE s[i] = Underscore
      BY <1>2, <2>2, <3>1, <3>2
    <3>3. CASE s[i] # Underscore
      <4>1. /\ Said(i) = base * Said(i - 1) + DigitValue[s[i]]
            /\ Said(i - 1) \in Nat /\ DigitValue[s[i]] \in Nat
        BY <1>2, <2>2, <3>3
      <4>2. AppendDigit(base, Saturated(Said(i - 1)), DigitValue[s[i]]) = Saturated(Said(i))
        <5> PICK n, d : n = Said(i - 1) /\ d = DigitValue[s[i]]
          OBVIOUS
        <5>1. n \in Nat /\ d \in Nat /\ Said(i) = base * n + d
          BY <4>1
        <5>2. AppendDigit(base, Saturated(n), d) = Saturated(base * n + d)
          BY <5>1, AppendSaturates
        <5> QED
          BY <5>1, <5>2
      <4> HIDE DEF v
      <4> QED
        BY <3>1, <3>3, <4>2
    <3> QED
      BY <3>2, <3>3
  <2> QED
    BY <2>1, <2>2
<1> HIDE DEF Value
<1>5. P(h)
  <2>1. \A i \in lo .. hi : i # lo => i - 1 \in lo .. hi
    BY <1>1
  <2>2. \A i \in lo .. hi : i # lo => h[i - 1] = Saturated(Said(i - 1))
    BY <2>1
  <2> HIDE DEF h
  <2>3. \A i \in lo .. hi : Value(h, i) = Saturated(Said(i))
    BY <1>4, <2>2
  <2> HIDE DEF lo, hi
  <2> QED
    BY <2>3 DEF h
<1>6. \A i \in lo .. hi : read[i] = Value(read, i)
  <2>1. P(read)
    <3> HIDE DEF P, h
    <3> QED
      BY <1>5
  <2> HIDE DEF read, lo, hi
  <2> QED
    BY <2>1
<1>7. ReadDigits(s, from, to, base) = read[hi]
  BY DEF ReadDigits, Value
<1> HIDE DEF read
<1> DEFINE S == {n \in Nat : lo + n <= hi => read[lo + n] = Saturated(Said(lo + n))}
<1>8. 0 \in S
  <2>1. lo \in lo .. hi /\ lo + 0 = lo
    BY <1>1
  <2> HIDE DEF lo, hi
  <2> QED
    BY <1>4, <1>6, <2>1
<1>9. ASSUME NEW n \in Nat, n \in S
      PROVE  n + 1 \in S
  <2> SUFFICES ASSUME lo + (n + 1) <= hi
               PROVE  read[lo + (n + 1)] = Saturated(Said(lo + (n + 1)))
    OBVIOUS
  <2> DEFINE i == lo + (n + 1)
  <2>1. i \in lo .. hi /\ i - 1 = lo + n /\ lo + n <= hi
    BY <1>1
  <2>2. read[i - 1] = Saturated(Said(i - 1))
    BY <1>9, <2>1
  <2> HIDE DEF i
  <2>3. read[i] = Saturated(Said(i))
    <3> HIDE DEF lo, hi
    <3> QED
      BY <1>4, <1>6, <2>1, <2>2
  <2> QED
    BY <2>3 DEF i
<1>10. Nat \subseteq S
  <2> HIDE DEF S
  <2> QED
    BY <1>8, <1>9, SimpleInduction
<1>11. read[hi] = Saturated(Said(hi))
  <2>1. hi - lo \in Nat /\ lo + (hi - lo) = hi
    BY <1>1
  <2>2. hi - lo \in S
    BY <1>10, <2>1
  <2> HIDE DEF lo, hi
  <2> QED
    BY <1>1, <2>1, <2>2
<1>12. hi \in lo .. hi
  BY <1>1
<1>13. Said(hi) \in Nat
  BY <1>2, <1>12
<1>14. Said(hi) = NumberSaid(s, from, to, base)
  BY <1>1 DEF Said
<1> QED
  BY <1>7, <1>11, <1>13, <1>14

LEMMA SuffixedIs ==
    ASSUME NEW s \in Seq(Chars), NEW i \in 2 .. Len(s) + 1, NEW kind \in PlainKinds,
           NEW suffixes, NEW errs, errs \subseteq Errors, NEW value \in 0 .. IntegerMax
    PROVE  IsToken(s, Suffixed(s, i, kind, suffixes, errs, value))
<1> DEFINE C == Letters \cup Digits(10)
           to == Past(s, i, C)
<1>1. End \notin C /\ i \in 1 .. Len(s) + 1 /\ Len(s) \in Nat
  BY EndIsNot, TextIs
<1>2. to \in i .. Len(s) + 1
  <2> HIDE DEF C
  <2> QED
    BY <1>1, PastIs
<1> HIDE DEF to
<1>3. errs \cup When(to > i /\ SubSeq(s, i, to - 1) \notin suffixes, "number") \subseteq Errors
  BY DEF When, Errors
<1>4. to \in 2 .. Len(s) + 1
  BY <1>1, <1>2
<1> QED
  BY <1>3, <1>4 DEF Suffixed, IsToken, to

LEMMA FloatIs ==
    ASSUME NEW s \in Seq(Chars), NEW base \in {2, 8, 10, 16}, NEW i \in 2 .. Len(s) + 1,
           NEW b \in BOOLEAN, NEW errs, errs \subseteq Errors
    PROVE  IsToken(s, Float(s, base, i, b, errs))
<1> DEFINE hasDecimalPart == At(s, i) = "."
           C(n) == Digits(n) \cup {Underscore}
           point == IF hasDecimalPart THEN Past(s, i + 1, C(base)) ELSE i
           hasExponent == At(s, point) = Exponent(base)
           signed == IF At(s, point + 1) \in {"+", "-"} THEN point + 2 ELSE point + 1
           to == IF hasExponent THEN Past(s, signed, C(10)) ELSE point
<1>1. Len(s) \in Nat /\ \A n : End \notin C(n)
  BY TextIs, EndIsNot DEF End, Underscore
<1> HIDE DEF C
<1>2. point \in i .. Len(s) + 1
  <2>1. CASE hasDecimalPart
    <3>1. At(s, i) # End
      BY <2>1 DEF End
    <3>2. i + 1 \in 1 .. Len(s) + 1
      BY <1>1, <3>1, TextIs
    <3>3. Past(s, i + 1, C(base)) \in i + 1 .. Len(s) + 1
      BY <1>1, <3>2, PastIs
    <3> QED
      BY <1>1, <2>1, <3>3
  <2>2. CASE ~hasDecimalPart
    BY <1>1, <2>2
  <2> QED
    BY <2>1, <2>2
<1> HIDE DEF point
<1>3. to \in i .. Len(s) + 1
  <2>1. CASE hasExponent
    <3>1. At(s, point) # End
      BY <2>1 DEF End, Exponent
    <3>2. point + 1 \in 1 .. Len(s) + 1
      BY <1>1, <1>2, <3>1, TextIs
    <3>3. At(s, point + 1) \in {"+", "-"} => point + 2 \in 1 .. Len(s) + 1
      <4>1. SUFFICES ASSUME At(s, point + 1) \in {"+", "-"}
                     PROVE  point + 2 \in 1 .. Len(s) + 1
        OBVIOUS
      <4>2. At(s, point + 1) # End
        BY <4>1 DEF End
      <4>3. point + 1 \in 1 .. Len(s)
        BY <4>2, TextIs
      <4> QED
        BY <1>1, <1>2, <4>3
    <3>4. signed \in 1 .. Len(s) + 1 /\ signed >= i
      BY <1>1, <1>2, <3>2, <3>3
    <3> HIDE DEF signed
    <3>5. Past(s, signed, C(10)) \in signed .. Len(s) + 1
      BY <1>1, <3>4, PastIs
    <3> QED
      BY <1>1, <2>1, <3>4, <3>5
  <2>2. CASE ~hasExponent
    BY <1>1, <1>2, <2>2
  <2> QED
    BY <2>1, <2>2
<1> HIDE DEF to, signed, hasExponent, hasDecimalPart
<1>4. to \in 2 .. Len(s) + 1
  BY <1>1, <1>3
<1>5. IsToken(s, Lexeme("Error", to, errs \cup {"number"}))
  BY <1>4, LexemeIs DEF PlainKinds, Errors
<1>6. IsToken(s, Suffixed(s, to, "Float", FloatSuffixes, errs, 0))
  <2>1. 0 \in 0 .. IntegerMax
    BY WidthsAssumption
  <2> QED
    BY <1>4, <2>1, SuffixedIs DEF PlainKinds
<1>7. Float(s, base, i, b, errs) \in {Lexeme("Error", to, errs \cup {"number"}),
                                      Suffixed(s, to, "Float", FloatSuffixes, errs, 0)}
  BY DEF Float, to, signed, hasExponent, hasDecimalPart, point, C
<1> QED
  BY <1>5, <1>6, <1>7

\* The characters of a number and where they end
NumberChars(s) == Digits(Base(s)) \cup {Underscore}
NumberStop(s) == Past(s, AfterPrefix(s), NumberChars(s))

LEMMA NumberDigits ==
    ASSUME NEW s \in Seq(Chars), At(s, 1) \in Digits(10)
    PROVE  /\ Base(s) \in {2, 8, 10, 16}
           /\ AfterPrefix(s) \in {1, 3} /\ AfterPrefix(s) \in 1 .. Len(s) + 1
           /\ NumberStop(s) \in AfterPrefix(s) .. Len(s) + 1
           /\ NumberStop(s) \in 2 .. Len(s) + 1
           /\ At(s, NumberStop(s)) \notin NumberChars(s)
           /\ \A j \in AfterPrefix(s) .. NumberStop(s) - 1 :
                 /\ At(s, j) \in NumberChars(s)
                 /\ s[j] \in DOMAIN DigitValue \cup {Underscore}
<1> DEFINE base == Base(s)
           C == NumberChars(s)
           from == AfterPrefix(s)
           stop == NumberStop(s)
<1>1. Len(s) \in Nat /\ 1 \in 1 .. Len(s) /\ s[1] = At(s, 1) /\ End \notin C
  BY TextIs, EndIsNot DEF End, Underscore, NumberChars
<1>2. base \in {2, 8, 10, 16}
  BY DEF Base
<1>3. from \in {1, 3} /\ (from = 3 => At(s, 2) \in {"x", "b", "o"})
  BY DEF AfterPrefix
<1>4. from = 1 => s[1] \in C
  <2> SUFFICES ASSUME from = 1 PROVE s[1] \in Digits(base)
    BY DEF NumberChars
  <2>1. ~(s[1] = "0" /\ At(s, 2) \in {"x", "b", "o"})
    BY DEF AfterPrefix
  <2>2. base = 10 \/ (base = 8 /\ s[1] = "0")
    BY <2>1 DEF Base
  <2> QED
    BY <1>1, <2>2, DigitsAre
<1>5. from \in 1 .. Len(s) + 1
  <2>1. CASE from = 3
    <3>1. At(s, 2) # End
      BY <1>3, <2>1 DEF End
    <3>2. 2 \in 1 .. Len(s)
      BY <3>1, TextIs
    <3> HIDE DEF from
    <3> QED
      BY <1>1, <2>1, <3>2
  <2>2. CASE from = 1
    <3> HIDE DEF from
    <3> QED
      BY <1>1, <2>2
  <2> QED
    BY <1>3, <2>1, <2>2
<1> HIDE DEF from, C
<1>6. /\ stop \in from .. Len(s) + 1 /\ At(s, stop) \notin C
      /\ \A j \in from .. stop - 1 : At(s, j) \in C
  BY <1>1, <1>5, PastIs DEF NumberStop, from, C
<1> HIDE DEF stop
<1>7. stop \in 2 .. Len(s) + 1
  <2>1. stop # 1
    BY <1>1, <1>3, <1>4, <1>6
  <2> QED
    BY <1>1, <1>3, <1>6, <2>1
<1>8. \A j \in from .. stop - 1 : s[j] \in DOMAIN DigitValue \cup {Underscore}
  <2> SUFFICES ASSUME NEW j \in from .. stop - 1
               PROVE  s[j] \in DOMAIN DigitValue \cup {Underscore}
    OBVIOUS
  <2>1. At(s, j) \in C
    BY <1>6
  <2>2. j \in 1 .. Len(s)
    BY <1>1, <1>5, <1>6
  <2>3. At(s, j) = s[j]
    BY <2>2, TextIs
  <2> QED
    BY <2>1, <2>3 DEF Digits, NumberChars, C
<1> QED
  BY <1>2, <1>3, <1>5, <1>6, <1>7, <1>8 DEF from, stop, C

LEMMA NumberCases ==
    ASSUME NEW s \in Seq(Chars), At(s, 1) \in Digits(10)
    PROVE  LET stop == NumberStop(s)
               int == ReadDigits(s, AfterPrefix(s), stop, Base(s))
               errs == When(int.overflow, "overflow")
           IN  \E b \in BOOLEAN :
                  Number(s) \in {Float(s, Base(s), stop, b, errs),
                                Lexeme("Error", stop, {"number"}),
                                Suffixed(s, stop, "Integer", IntegerSuffixes, errs, int.value)}
<1> DEFINE base == Base(s)
           stop == NumberStop(s)
           from == AfterPrefix(s)
           digits == DigitsOf(s, from, stop)
           int == ReadDigits(s, from, stop, base)
           errs == When(int.overflow, "overflow")
           b == digits # <<>>
<1>1. Number(s) = CASE IsFloatAt(s, stop, base) -> Float(s, base, stop, b, errs)
                    [] ~IsFloatAt(s, stop, base) /\ digits = <<>> ->
                         Lexeme("Error", stop, {"number"})
                    [] OTHER -> Suffixed(s, stop, "Integer", IntegerSuffixes, errs, int.value)
  BY DEF Number, NumberStop, NumberChars
<1>2. b \in BOOLEAN
  OBVIOUS
<1> HIDE DEF base, stop, from, digits, int, errs, b
<1>3. Number(s) \in {Float(s, base, stop, b, errs), Lexeme("Error", stop, {"number"}),
                     Suffixed(s, stop, "Integer", IntegerSuffixes, errs, int.value)}
  BY <1>1
<1> QED
  BY <1>2, <1>3 DEF errs, int, base, stop, from

LEMMA NumberIs ==
    ASSUME NEW s \in Seq(Chars), At(s, 1) \in Digits(10)
    PROVE  IsToken(s, Number(s))
<1> DEFINE base == Base(s)
           from == AfterPrefix(s)
           stop == NumberStop(s)
           int == ReadDigits(s, from, stop, base)
           errs == When(int.overflow, "overflow")
<1>1. /\ base \in {2, 8, 10, 16} /\ from \in 1 .. Len(s) + 1 /\ stop \in from .. Len(s) + 1
      /\ stop \in 2 .. Len(s) + 1
      /\ \A j \in from .. stop - 1 : s[j] \in DOMAIN DigitValue \cup {Underscore}
  BY NumberDigits
<1>2. PICK b \in BOOLEAN :
         Number(s) \in {Float(s, base, stop, b, errs), Lexeme("Error", stop, {"number"}),
                       Suffixed(s, stop, "Integer", IntegerSuffixes, errs, int.value)}
  BY NumberCases
<1> HIDE DEF base, from, stop
<1>3. int.value \in 0 .. IntegerMax
  <2>1. PICK n \in Nat : int = Saturated(n)
    BY <1>1, ReadDigitsSaturate
  <2>2. Saturated(n).value \in 0 .. IntegerMax
    BY WidthsAssumption DEF Saturated
  <2> QED
    BY <2>1, <2>2
<1> HIDE DEF int, errs
<1>4. errs \subseteq Errors /\ {"number"} \subseteq Errors
  BY DEF When, Errors, errs
<1>5. IsToken(s, Float(s, base, stop, b, errs))
  BY <1>1, <1>2, <1>4, FloatIs
<1>6. IsToken(s, Lexeme("Error", stop, {"number"}))
  BY <1>1, <1>4, LexemeIs DEF PlainKinds
<1>7. IsToken(s, Suffixed(s, stop, "Integer", IntegerSuffixes, errs, int.value))
  BY <1>1, <1>3, <1>4, SuffixedIs DEF PlainKinds
<1> QED
  BY <1>2, <1>5, <1>6, <1>7

\* The token of a number has the digits that the lexer read of what is ahead.
LEMMA NumberText ==
    ASSUME NEW s \in Seq(Chars), At(s, 1) \in Digits(10),
           NEW to \in NumberStop(s) .. Len(s) + 1,
           NumberStop(s) = 2 /\ At(s, 2) \in Letters \cup Digits(10) => to > 2,
           NEW text, text = SubSeq(s, 1, to - 1)
    PROVE  /\ Base(text) = Base(s) /\ AfterPrefix(text) = AfterPrefix(s)
           /\ NumberStop(text) = NumberStop(s)
           /\ NumberSaid(text, AfterPrefix(s), NumberStop(s), Base(s))
                = NumberSaid(s, AfterPrefix(s), NumberStop(s), Base(s))
<1> DEFINE base == Base(s)
           from == AfterPrefix(s)
           stop == NumberStop(s)
           C == NumberChars(s)
<1>1. /\ from \in {1, 3} /\ stop \in from .. Len(s) + 1 /\ stop \in 2 .. Len(s) + 1
      /\ At(s, stop) \notin C /\ \A j \in from .. stop - 1 : At(s, j) \in C
  BY NumberDigits
<1> HIDE DEF from, stop, C, base
<1>2. /\ Len(s) \in Nat /\ to \in 2 .. Len(s) + 1 /\ stop <= to
      /\ \A j \in 1 .. Len(s) : At(s, j) = s[j]
      /\ \A j \in 1 .. Len(s) : s[j] \in Chars
  <2>1. Len(s) \in Nat /\ \A j \in 1 .. Len(s) : At(s, j) = s[j] /\ At(s, j) \in Chars
    BY TextIs
  <2>2. to \in stop .. Len(s) + 1
    BY DEF stop
  <2> QED
    BY <1>1, <2>1, <2>2
<1>3. /\ text \in Seq(Chars) /\ Len(text) = to - 1
      /\ \A j \in 1 .. to - 1 : text[j] = s[j]
  <2>1. \A j \in 1 .. to - 1 : s[j] \in Chars
    BY <1>2
  <2>2. 1 \in Int /\ to - 1 \in Int
    BY <1>2
  <2>3. SubSeq(s, 1, to - 1) \in Seq(Chars)
    BY <2>1, <2>2, SubSeqProperties
  <2>4. Len(SubSeq(s, 1, to - 1)) = to - 1
    BY <1>2, <2>1, <2>2, SubSeqProperties
  <2>5. \A j \in 1 .. to - 1 : SubSeq(s, 1, to - 1)[j] = s[j]
    BY <1>2, <2>1, <2>2, SubSeqProperties
  <2> QED
    BY <2>3, <2>4, <2>5
<1>4. \A j \in 1 .. to - 1 : At(text, j) = At(s, j)
  <2> TAKE j \in 1 .. to - 1
  <2>1. j \in 1 .. Len(text) /\ j \in 1 .. Len(s)
    BY <1>2, <1>3
  <2>2. At(text, j) = text[j] /\ At(s, j) = s[j]
    BY <1>3, <2>1, TextIs
  <2> QED
    BY <1>3, <2>2
<1>5. /\ text[1] = s[1]
      /\ \/ At(text, 2) = At(s, 2)
         \/ /\ At(text, 2) = End /\ At(s, 2) \notin Letters \cup Digits(10)
  <2>1. 1 \in 1 .. to - 1
    BY <1>2
  <2>2. CASE to > 2
    <3>1. 2 \in 1 .. to - 1
      BY <1>2, <2>2
    <3> QED
      BY <1>3, <1>4, <2>1, <3>1
  <2>3. CASE ~(to > 2)
    <3>1. to = 2 /\ stop = 2
      BY <1>1, <1>2, <2>3
    <3>2. At(text, 2) = End
      <4>1. 2 \notin 1 .. Len(text)
        BY <1>3, <3>1
      <4> QED
        BY <1>3, <4>1, TextIs
    <3>3. At(s, 2) \notin Letters \cup Digits(10)
      BY <3>1 DEF stop
    <3> QED
      BY <1>3, <2>1, <3>2, <3>3
  <2> QED
    BY <2>2, <2>3
<1>6. Base(text) = Base(s) /\ AfterPrefix(text) = AfterPrefix(s)
  <2>1. CASE At(text, 2) = At(s, 2)
    BY <1>5, <2>1 DEF Base, AfterPrefix
  <2>2. CASE At(text, 2) = End /\ At(s, 2) \notin Letters \cup Digits(10)
    <3>1. /\ At(text, 2) \notin {"x", "b", "o"} \cup Digits(10)
          /\ At(s, 2) \notin {"x", "b", "o"} \cup Digits(10)
      BY <2>2, EndIsNot DEF End, Letters
    <3>2. At(text, 2) # "x" /\ At(text, 2) # "b" /\ At(text, 2) # "o"
      BY <3>1
    <3>3. At(s, 2) # "x" /\ At(s, 2) # "b" /\ At(s, 2) # "o"
      BY <3>1
    <3> QED
      BY <1>5, <3>1, <3>2, <3>3 DEF Base, AfterPrefix
  <2> QED
    BY <1>5, <2>1, <2>2
<1>7. NumberStop(text) = stop
  <2> DEFINE p == Past(text, from, C)
  <2>1. NumberStop(text) = p
    BY <1>6 DEF NumberStop, NumberChars, from, C
  <2>2. End \notin C
    BY EndIsNot DEF End, Underscore, NumberChars, C
  <2>3. from \in 1 .. Len(text) + 1
    BY <1>1, <1>2, <1>3
  <2>4. /\ p \in from .. Len(text) + 1 /\ At(text, p) \notin C
        /\ \A j \in from .. p - 1 : At(text, j) \in C
    BY <1>3, <2>2, <2>3, PastIs
  <2> HIDE DEF p
  <2>5. ~(p < stop)
    <3> SUFFICES ASSUME p < stop PROVE FALSE
      OBVIOUS
    <3>1. p \in 1 .. to - 1 /\ p \in from .. stop - 1
      BY <1>1, <1>2, <1>3, <2>4
    <3> QED
      BY <1>1, <1>4, <2>4, <3>1
  <2>6. ~(stop < p)
    <3> SUFFICES ASSUME stop < p PROVE FALSE
      OBVIOUS
    <3>1. stop \in 1 .. to - 1 /\ stop \in from .. p - 1
      BY <1>1, <1>2, <1>3, <2>4
    <3> QED
      BY <1>1, <1>4, <2>4, <3>1
  <2>7. p = stop
    BY <1>1, <1>2, <1>3, <2>4, <2>5, <2>6
  <2> QED
    BY <2>1, <2>7
<1>8. NumberSaid(text, from, stop, base) = NumberSaid(s, from, stop, base)
  <2>1. \A i \in from .. stop - 1 : text[i] = s[i]
    BY <1>1, <1>2, <1>3
  <2> DEFINE D == DigitsIn(s, from, stop)
  <2>2. DigitsIn(text, from, stop) = D
    BY <2>1 DEF DigitsIn
  <2>3. Worth(text, D, base) = Worth(s, D, base)
    <3>1. \A i \in D : text[i] = s[i]
      BY <2>1 DEF DigitsIn
    <3> HIDE DEF D
    <3> QED
      BY <3>1 DEF Worth
  <2> QED
    BY <2>2, <2>3, SaidIsWorth
<1> QED
  BY <1>6, <1>7, <1>8 DEF from, stop, base

\* What an integer token says
Says(text, value, errs) ==
    LET said == NumberSaid(text, AfterPrefix(text), NumberStop(text), Base(text))
    IN  value = Min({said, IntegerMax}) /\ (said > IntegerMax => "overflow" \in errs)

LEMMA NumberSays ==
    ASSUME NEW s \in Seq(Chars), At(s, 1) \in Digits(10), Number(s).kind = "Integer"
    PROVE  Says(SubSeq(s, 1, Number(s).to - 1), Number(s).value, Number(s).errors)
<1> DEFINE base == Base(s)
           from == AfterPrefix(s)
           stop == NumberStop(s)
           int == ReadDigits(s, from, stop, base)
           errs == When(int.overflow, "overflow")
           said == NumberSaid(s, from, stop, base)
           C == Letters \cup Digits(10)
           to == Past(s, stop, C)
           text == SubSeq(s, 1, to - 1)
<1>1. /\ base \in {2, 8, 10, 16} /\ from \in 1 .. Len(s) + 1 /\ stop \in from .. Len(s) + 1
      /\ stop \in 2 .. Len(s) + 1 /\ stop \in 1 .. Len(s) + 1
      /\ \A j \in from .. stop - 1 : s[j] \in DOMAIN DigitValue \cup {Underscore}
  BY NumberDigits
<1>2. PICK b \in BOOLEAN :
         Number(s) \in {Float(s, base, stop, b, errs), Lexeme("Error", stop, {"number"}),
                       Suffixed(s, stop, "Integer", IntegerSuffixes, errs, int.value)}
  BY NumberCases
<1> HIDE DEF base, from, stop, int, said, errs
<1>3. said \in Nat /\ int = Saturated(said)
  BY <1>1, ReadDigitsSaturate DEF int, said
<1>4. Number(s) = Suffixed(s, stop, "Integer", IntegerSuffixes, errs, int.value)
  <2>1. Float(s, base, stop, b, errs).kind \in {"Error", "Float"}
    BY DEF Float, Suffixed, Lexeme
  <2>2. Lexeme("Error", stop, {"number"}).kind = "Error"
    BY DEF Lexeme
  <2> QED
    BY <1>2, <2>1, <2>2
<1>5. Number(s).to = to /\ Number(s).value = int.value /\ errs \subseteq Number(s).errors
  BY <1>4 DEF Suffixed
<1>6. /\ to \in stop .. Len(s) + 1
      /\ stop = 2 /\ At(s, 2) \in C => to > 2
  <2>1. End \notin C
    BY EndIsNot
  <2> HIDE DEF C
  <2>2. to \in stop .. Len(s) + 1 /\ At(s, to) \notin C
    BY <1>1, <2>1, PastIs
  <2> HIDE DEF to
  <2> QED
    BY <1>1, <2>2
<1> HIDE DEF to
<1>7. /\ Base(text) = base /\ AfterPrefix(text) = from /\ NumberStop(text) = stop
      /\ NumberSaid(text, from, stop, base) = said
  BY <1>6, NumberText DEF base, from, stop, said
<1>8. int.value = Min({said, IntegerMax}) /\ (said > IntegerMax => int.overflow)
  <2> DEFINE S == {said, IntegerMax}
  <2>1. IntegerMax \in Nat /\ S \subseteq Nat /\ S # {}
    BY <1>3, WidthsAssumption
  <2>2. Min(S) \in S /\ \A x \in S : Min(S) <= x
    <3> HIDE DEF S
    <3> QED
      BY <2>1, LeastIsMin
  <2>3. /\ Min(S) \in {said, IntegerMax} /\ Min(S) <= said /\ Min(S) <= IntegerMax
    BY <2>2
  <2> DEFINE m == Min(S)
  <2>4. m = IF said > IntegerMax THEN IntegerMax ELSE said
    <3> HIDE DEF S
    <3> QED
      BY <1>3, <2>1, <2>3
  <2>5. int.value = IF said > IntegerMax THEN IntegerMax ELSE said
    BY <1>3 DEF Saturated
  <2>6. said > IntegerMax => int.overflow
    BY <1>3 DEF Saturated
  <2> HIDE DEF m
  <2> QED
    BY <2>4, <2>5, <2>6 DEF m
<1>9. said > IntegerMax => "overflow" \in Number(s).errors
  BY <1>5, <1>8 DEF When, errs
<1> QED
  BY <1>5, <1>7, <1>8, <1>9 DEF Says

-----------------------------------------------------------------------------
(* Characters.                                                             *)

LEMMA LeastOfTwo ==
    ASSUME NEW a \in Nat, NEW b \in Nat
    PROVE  Min({a, b}) \in Nat /\ Min({a, b}) <= a /\ Min({a, b}) <= b
<1> DEFINE S == {a, b}
<1>1. S \subseteq Nat /\ S # {} /\ a \in S /\ b \in S
  OBVIOUS
<1> HIDE DEF S
<1>2. Min(S) \in S /\ \A x \in S : Min(S) <= x
  BY <1>1, LeastIsMin
<1>3. Min(S) \in Nat /\ Min(S) <= a /\ Min(S) <= b
  BY <1>1, <1>2
<1> QED
  BY <1>3 DEF S

LEMMA UnicodeEscapeIs ==
    ASSUME NEW s \in Seq(Chars), NEW i \in 1 .. Len(s) + 1, NEW least \in Nat, NEW most \in Nat
    PROVE  UnicodeEscape(s, i, least, most).to \in i .. Len(s) + 1
<1> DEFINE past == Past(s, i, Digits(16))
           count == Min({most, past - i})
           tooLarge == {k \in 1 .. count : NumberOf(SubSeq(s, i, i + k - 1)) > CodeMax}
<1>1. past \in i .. Len(s) + 1 /\ Len(s) \in Nat
  <2>1. End \notin Digits(16)
    BY EndIsNot
  <2> QED
    BY <2>1, TextIs, PastIs
<1> HIDE DEF past
<1>2. past - i \in Nat
  BY <1>1
<1>3. count \in Nat /\ count <= past - i
  BY <1>2, LeastOfTwo
<1> HIDE DEF count
<1>4. i + count \in i .. Len(s) + 1
  BY <1>1, <1>3
<1>5. tooLarge # {} => i + Min(tooLarge) \in i .. Len(s) + 1
  <2> SUFFICES ASSUME tooLarge # {} PROVE i + Min(tooLarge) \in i .. Len(s) + 1
    OBVIOUS
  <2>1. tooLarge \subseteq 1 .. count
    OBVIOUS
  <2> HIDE DEF tooLarge
  <2>2. tooLarge \subseteq Nat
    BY <1>3, <2>1
  <2>3. Min(tooLarge) \in 1 .. count
    BY <2>1, <2>2, LeastIsMin
  <2> QED
    BY <1>1, <1>3, <2>3
<1> HIDE DEF tooLarge
<1>6. UnicodeEscape(s, i, least, most).to = IF tooLarge # {} THEN i + Min(tooLarge) ELSE i + count
  BY DEF UnicodeEscape, tooLarge, count, past
<1> QED
  BY <1>4, <1>5, <1>6

LEMMA EscapeIs ==
    ASSUME NEW s \in Seq(Chars), NEW i \in 1 .. Len(s)
    PROVE  Escape(s, i).to \in i .. Len(s) + 1
<1> DEFINE braced == UnicodeEscape(s, i + 2, 1, Len(s))
           closed == At(s, braced.to) = RightBrace
           hex == Min({2, Past(s, i + 1, Digits(16)) - (i + 1)})
           long == UnicodeEscape(s, i + 1, LongEscape, LongEscape)
           short == UnicodeEscape(s, i + 1, ShortEscape, ShortEscape)
<1>1. Len(s) \in Nat /\ i + 1 \in 1 .. Len(s) + 1 /\ {LongEscape, ShortEscape} \subseteq Nat
  BY TextIs, WidthsAssumption
<1>2. i + 1 + hex \in i .. Len(s) + 1
  <2> DEFINE past == Past(s, i + 1, Digits(16))
  <2>1. past \in i + 1 .. Len(s) + 1
    BY <1>1, EndIsNot, PastIs
  <2> HIDE DEF past
  <2>2. past - (i + 1) \in Nat
    BY <1>1, <2>1
  <2>3. Min({2, past - (i + 1)}) \in Nat /\ Min({2, past - (i + 1)}) <= past - (i + 1)
    BY <2>2, LeastOfTwo
  <2>4. hex \in Nat /\ hex <= past - (i + 1)
    BY <2>3 DEF past
  <2> HIDE DEF hex
  <2> QED
    BY <1>1, <2>1, <2>4
<1>3. At(s, i + 1) = LeftBrace =>
         (IF closed THEN braced.to + 1 ELSE braced.to) \in i .. Len(s) + 1
  <2> SUFFICES ASSUME At(s, i + 1) = LeftBrace
               PROVE  (IF closed THEN braced.to + 1 ELSE braced.to) \in i .. Len(s) + 1
    OBVIOUS
  <2>1. i + 1 \in 1 .. Len(s)
    BY EndIsNot, TextIs
  <2>2. i + 2 \in 1 .. Len(s) + 1
    BY <1>1, <2>1
  <2>3. braced.to \in i + 2 .. Len(s) + 1
    BY <1>1, <2>2, UnicodeEscapeIs
  <2>4. closed => braced.to \in 1 .. Len(s)
    <3>1. RightBrace # End
      BY DEF RightBrace, End
    <3> HIDE DEF braced
    <3> QED
      BY <3>1, TextIs
  <2> HIDE DEF braced, closed
  <2> QED
    BY <1>1, <2>3, <2>4
<1>4. long.to \in i + 1 .. Len(s) + 1 /\ short.to \in i + 1 .. Len(s) + 1
  BY <1>1, UnicodeEscapeIs
<1> HIDE DEF braced, closed, hex, long, short
<1>5. \/ Escape(s, i).to = i + 1 + hex
      \/ At(s, i + 1) = LeftBrace
         /\ Escape(s, i).to = IF closed THEN braced.to + 1 ELSE braced.to
      \/ Escape(s, i) \in {short, long}
      \/ Escape(s, i).to = i + 1
  <2>1. CASE At(s, i) = "x"
    BY <2>1 DEF Escape, hex
  <2>2. CASE At(s, i) = "u" /\ At(s, i + 1) = LeftBrace
    BY <2>2 DEF Escape, braced, closed
  <2>3. CASE At(s, i) = "u" /\ At(s, i + 1) # LeftBrace
    BY <2>3 DEF Escape, short
  <2>4. CASE At(s, i) = "U"
    BY <2>4 DEF Escape, long
  <2>5. CASE At(s, i) \notin {"x", "u", "U"}
    BY <2>5 DEF Escape
  <2> QED
    BY <2>1, <2>2, <2>3, <2>4, <2>5
<1> QED
  BY <1>1, <1>2, <1>3, <1>4, <1>5

LEMMA UTF8Is ==
    ASSUME NEW s \in Seq(Chars), NEW i \in 1 .. Len(s)
    PROVE  UTF8(s, i).to \in i .. Len(s) + 1
<1>1. Len(s) \in Nat
  BY TextIs
<1>2. At(s, i + 1) = "cont" => i + 1 \in 1 .. Len(s)
  <2>1. "cont" # End
    BY DEF End
  <2> QED
    BY <2>1, TextIs
<1>3. UTF8(s, i).to = i + 1 \/ (At(s, i + 1) = "cont" /\ UTF8(s, i).to = i + 2)
  BY DEF UTF8
<1> QED
  BY <1>1, <1>2, <1>3

LEMMA CharacterIs ==
    ASSUME NEW s \in Seq(Chars), At(s, 1) = Apostrophe
    PROVE  IsToken(s, Character(s))
<1> DEFINE escaped == At(s, 2) = Backslash
           code == IF escaped THEN Escape(s, 3) ELSE UTF8(s, 2)
           ends == At(s, code.to) = Apostrophe
           Bad(to) == Lexeme("Error", to, {"character"})
<1>1. Len(s) \in Nat /\ 1 \in 1 .. Len(s)
  BY TextIs, EndIsNot
<1>2. \A to \in 2 .. Len(s) + 1 : IsToken(s, Bad(to)) /\ IsToken(s, Lexeme("Character", to, {}))
  BY LexemeIs DEF PlainKinds, Errors
<1>3. ASSUME NEW to \in 2 .. Len(s) + 1, At(s, to) = Apostrophe
      PROVE  to + 1 \in 2 .. Len(s) + 1
  <2>1. to \in 1 .. Len(s)
    BY <1>3, TextIs, EndIsNot
  <2> QED
    BY <1>1, <2>1
<1> HIDE DEF Bad
<1>4. CASE At(s, 2) \in {End, "nl"}
  <2>1. ~escaped
    BY <1>4, EndIsNot DEF Backslash
  <2>2. Character(s) = Bad(2)
    BY <1>4, <2>1 DEF Character, Bad
  <2> QED
    BY <1>1, <1>2, <2>2
<1>5. CASE escaped /\ At(s, 3) = End
  <2>1. 2 \in 1 .. Len(s) /\ At(s, 2) \notin {End, "nl"}
    BY <1>5, TextIs, EndIsNot DEF Backslash
  <2>2. Character(s) = Bad(3)
    BY <1>5, <2>1 DEF Character, Bad
  <2> QED
    BY <1>1, <1>2, <2>1, <2>2
<1>6. CASE escaped /\ At(s, 3) # End
  <2>1. 3 \in 1 .. Len(s) /\ At(s, 2) \notin {End, "nl"}
    BY <1>6, TextIs, EndIsNot DEF Backslash
  <2>2. code.to \in 2 .. Len(s) + 1
    <3>1. Escape(s, 3).to \in 3 .. Len(s) + 1
      BY <2>1, EscapeIs
    <3> QED
      BY <1>1, <1>6, <3>1
  <2>3. \/ Character(s) \in {Bad(code.to), Lexeme("Character", code.to + 1, {}), Bad(code.to + 1)}
           /\ At(s, code.to) = Apostrophe
        \/ Character(s) = Bad(code.to)
    <3> HIDE DEF ends, code
    <3>1. \/ Character(s) = Bad(IF ends THEN code.to + 1 ELSE code.to)
          \/ Character(s) = IF ends THEN Lexeme("Character", code.to + 1, {}) ELSE Bad(code.to)
      BY <1>6, <2>1 DEF Character, Bad, ends, code
    <3> QED
      BY <3>1 DEF ends
  <2> HIDE DEF code
  <2> QED
    BY <1>2, <1>3, <2>2, <2>3
<1>7. CASE ~escaped /\ At(s, 2) \notin {End, "nl"}
  <2>1. 2 \in 1 .. Len(s)
    BY <1>7, TextIs
  <2>2. code.to \in 2 .. Len(s) + 1
    BY <1>7, <2>1, UTF8Is
  <2>3. \/ Character(s) = Bad(code.to)
        \/ Character(s) = Lexeme("Character", code.to + 1, {}) /\ At(s, code.to) = Apostrophe
    <3> HIDE DEF ends, code
    <3>1. \/ Character(s) = Bad(code.to)
          \/ Character(s) = IF ends THEN Lexeme("Character", code.to + 1, {}) ELSE Bad(code.to)
      BY <1>7 DEF Character, Bad, ends, code
    <3> QED
      BY <3>1 DEF ends
  <2> HIDE DEF code
  <2> QED
    BY <1>2, <1>3, <2>2, <2>3
<1> QED
  BY <1>4, <1>5, <1>6, <1>7

-----------------------------------------------------------------------------
(* Where the next token is.                                                *)

Buffer == [file : {Main} \cup DOMAIN Files, rest : Seq(Chars)]

LEMMA ReachedIs ==
    ASSUME TypeOK
    PROVE  /\ Reached \in 1 .. Len(buffers) /\ buffers[Reached] \in Buffer
           /\ Starts[Reached].to \in 1 .. Len(buffers[Reached].rest) + 1
           /\ Starts[Reached].to > Len(buffers[Reached].rest) => Reached = 1
<1> DEFINE n == Len(buffers)
           S == {1} \cup {i \in DOMAIN buffers : Starts[i].to <= Len(buffers[i].rest)}
<1>1. buffers \in Seq(Buffer) /\ n \in Nat \ {0} /\ DOMAIN buffers = 1 .. n
  BY DEF TypeOK, Buffer
<1>2. \A i \in 1 .. n : buffers[i] \in Buffer
  BY <1>1, ElementOfSeq
<1>3. \A i \in 1 .. n : /\ Starts[i] = Trivia(buffers[i].rest)
                        /\ Starts[i].to \in 1 .. Len(buffers[i].rest) + 1
  <2> SUFFICES ASSUME NEW i \in 1 .. n
               PROVE  /\ Starts[i] = Trivia(buffers[i].rest)
                      /\ Starts[i].to \in 1 .. Len(buffers[i].rest) + 1
    OBVIOUS
  <2>1. Starts[i] = Trivia(buffers[i].rest)
    BY <1>1 DEF Starts
  <2>2. buffers[i].rest \in Seq(Chars)
    BY <1>2 DEF Buffer
  <2>3. Trivia(buffers[i].rest).to \in 1 .. Len(buffers[i].rest) + 1
    BY <2>2, TriviaIs
  <2> QED
    BY <2>1, <2>3
<1>4. S \subseteq 0 .. n /\ S \subseteq 1 .. n /\ S # {}
  BY <1>1
<1>5. Max(S) \in S
  <2> HIDE DEF S
  <2> QED
    BY <1>1, <1>4, GreatestIsMax
<1> DEFINE r == Max(S)
<1>6. Reached = r
  BY DEF Reached
<1>7. r \in 1 .. n /\ (Starts[r].to > Len(buffers[r].rest) => r = 1)
  <2>1. r \in 1 .. n
    <3> HIDE DEF S
    <3> QED
      BY <1>4, <1>5
  <2>2. r \in S
    BY <1>5
  <2> HIDE DEF r
  <2>3. Len(buffers[r].rest) \in Nat /\ Starts[r].to \in Nat
    <3>1. buffers[r].rest \in Seq(Chars)
      BY <1>2, <2>1 DEF Buffer
    <3>2. Len(buffers[r].rest) \in Nat
      BY <3>1
    <3> QED
      BY <1>3, <2>1, <3>2
  <2> QED
    BY <2>1, <2>2, <2>3
<1> HIDE DEF r
<1> QED
  BY <1>2, <1>3, <1>6, <1>7

LEMMA AheadIs ==
    ASSUME TypeOK
    PROVE  /\ Ahead \in Seq(Chars)
           /\ Len(Ahead) = Len(buffers[Reached].rest) - Starts[Reached].to + 1
           /\ Ahead = <<>> => Reached = 1
           /\ first = At(Ahead, 1)
<1> DEFINE rest == buffers[Reached].rest
           to == Starts[Reached].to
           n == Len(rest)
<1>1. rest \in Seq(Chars) /\ to \in 1 .. Len(rest) + 1 /\ (to > Len(rest) => Reached = 1)
  BY ReachedIs DEF Buffer
<1>2. Ahead = SubSeq(rest, to, Len(rest))
  BY DEF Ahead
<1> HIDE DEF rest, to
<1>3. n \in Nat
  BY <1>1
<1>4. SubSeq(rest, to, n) \in Seq(Chars) /\ Len(SubSeq(rest, to, n)) = n - to + 1
  <2>1. to \in Nat /\ 1 <= to /\ to <= n + 1 /\ to .. n \subseteq 1 .. n
    BY <1>1, <1>3
  <2> QED
    BY <1>1, <1>3, <2>1, SubSeqProperties
<1>5. Ahead = <<>> => to > n
  <2> SUFFICES ASSUME Ahead = <<>> PROVE to > n
    OBVIOUS
  <2>1. Len(Ahead) = n - to + 1 /\ Len(Ahead) = 0
    <3>1. Len(Ahead) = n - to + 1
      BY <1>2, <1>4
    <3>2. Len(<<>>) = 0
      OBVIOUS
    <3> QED
      BY <3>1, <3>2
  <2> QED
    BY <1>1, <1>3, <2>1
<1> QED
  BY <1>1, <1>2, <1>4, <1>5 DEF first, rest, to

-----------------------------------------------------------------------------
(* What is stored is well typed.                                           *)

LEMMA NestingAfterIs ==
    ASSUME nesting \in Seq(Int) \ {<<>>}, NEW kind
    PROVE  /\ NestingAfter(kind) \in Seq(Int) \ {<<>>}
           /\ kind \notin {"LString", "RString", LeftBrace, RightBrace}
                => NestingAfter(kind) = nesting
<1> DEFINE top == Head(nesting)
<1>1. /\ top \in Int /\ top + 1 \in Int /\ top - 1 \in Int /\ Tail(nesting) \in Seq(Int)
      /\ Len(nesting) \in Nat /\ Len(Tail(nesting)) = Len(nesting) - 1 /\ Len(nesting) # 0
  BY HeadTailProperties, EmptySeq
<1> HIDE DEF top
<1>2. \A x \in Int : \A q \in Seq(Int) : <<x>> \o q \in Seq(Int) \ {<<>>}
  <2> SUFFICES ASSUME NEW x \in Int, NEW q \in Seq(Int)
               PROVE  <<x>> \o q \in Seq(Int) \ {<<>>}
    OBVIOUS
  <2>1. <<x>> \in Seq(Int) /\ Len(<<x>>) = 1 /\ Len(q) \in Nat
    OBVIOUS
  <2>2. <<x>> \o q \in Seq(Int) /\ Len(<<x>> \o q) = 1 + Len(q)
    BY <2>1, ConcatProperties
  <2>3. Len(<<>>) = 0
    OBVIOUS
  <2> QED
    BY <2>1, <2>2, <2>3
<1>3. CASE kind = "LString"
  <2>1. NestingAfter(kind) = <<0>> \o nesting
    BY <1>3 DEF NestingAfter, LeftBrace, RightBrace
  <2>2. <<0>> \o nesting \in Seq(Int) \ {<<>>}
    BY <1>2
  <2> QED
    BY <1>3, <2>1, <2>2
<1>4. CASE kind = "RString"
  <2>1. NestingAfter(kind) = IF Len(nesting) = 1 THEN <<-1>> ELSE Tail(nesting)
    BY <1>4 DEF NestingAfter, LeftBrace, RightBrace
  <2>2. <<-1>> \in Seq(Int) \ {<<>>}
    OBVIOUS
  <2>3. Len(nesting) # 1 => Tail(nesting) # <<>>
    <3>1. Len(nesting) # 1 => Len(Tail(nesting)) # 0
      BY <1>1
    <3>2. Tail(nesting) = <<>> => Len(Tail(nesting)) = 0
      BY EmptySeq
    <3> QED
      BY <3>1, <3>2
  <2> QED
    BY <1>1, <1>4, <2>1, <2>2, <2>3
<1>5. CASE kind = LeftBrace
  <2>1. NestingAfter(kind) = <<top + 1>> \o Tail(nesting)
    BY <1>5 DEF NestingAfter, top, LeftBrace, RightBrace
  <2> QED
    BY <1>1, <1>2, <1>5, <2>1
<1>6. CASE kind = RightBrace
  <2>1. NestingAfter(kind) = IF Len(nesting) = 1 /\ top = 0 THEN nesting
                                                          ELSE <<top - 1>> \o Tail(nesting)
    BY <1>6 DEF NestingAfter, top, LeftBrace, RightBrace
  <2> QED
    BY <1>1, <1>2, <1>6, <2>1
<1>7. CASE kind \notin {"LString", "RString", LeftBrace, RightBrace}
  <2>1. NestingAfter(kind) = nesting
    BY <1>7 DEF NestingAfter
  <2> QED
    BY <2>1
<1> QED
  BY <1>3, <1>4, <1>5, <1>6, <1>7

\* What a call of nextToken may return
Fits(s, lex) ==
    /\ lex.kind \in Kinds /\ lex.value \in 0 .. IntegerMax
    /\ lex.to \in 1 .. Len(s) + 1 /\ lex.errors \subseteq Errors

LEMMA TokensFit ==
    ASSUME NEW s \in Seq(Chars), NEW lex, IsToken(s, lex)
    PROVE  Fits(s, lex)
<1>1. Len(s) \in Nat
  BY TextIs
<1> QED
  BY <1>1 DEF IsToken, Fits, PlainKinds, Kinds

LEMMA LexemeFits ==
    ASSUME NEW s \in Seq(Chars), NEW kind \in Kinds, NEW to \in 1 .. Len(s) + 1,
           NEW errs, errs \subseteq Errors
    PROVE  Fits(s, Lexeme(kind, to, errs))
BY WidthsAssumption DEF Fits, Lexeme

\* The stack of buffers behind the token
Rest(lex) == SubSeq(Ahead, lex.to, Len(Ahead))

LEMMA PartOfAhead ==
    ASSUME TypeOK, NEW from \in 1 .. Len(Ahead) + 1
    PROVE  /\ SubSeq(Ahead, from, Len(Ahead)) \in Seq(Chars)
           /\ Len(SubSeq(Ahead, from, Len(Ahead))) = Len(Ahead) - from + 1
           /\ SubSeq(Ahead, 1, from - 1) \in Seq(Chars)
<1> DEFINE s == Ahead
           n == Len(s)
<1>1. s \in Seq(Chars) /\ n \in Nat /\ \A i \in 1 .. n : s[i] \in Chars
  BY AheadIs, LenProperties, ElementOfSeq
<1> HIDE DEF s
<1>2. from \in 1 .. n + 1
  BY DEF s
<1> HIDE DEF n
<1>3. \A i \in from .. n : s[i] \in Chars
  BY <1>1, <1>2
<1>4. \A i \in 1 .. from - 1 : s[i] \in Chars
  BY <1>1, <1>2
<1>5. SubSeq(s, from, n) \in Seq(Chars) /\ Len(SubSeq(s, from, n)) = n - from + 1
  BY <1>1, <1>2, <1>3, SubSeqProperties
<1>6. SubSeq(s, 1, from - 1) \in Seq(Chars)
  BY <1>1, <1>2, <1>4, SubSeqProperties
<1> QED
  BY <1>5, <1>6 DEF s, n

LEMMA BuffersLeft ==
    ASSUME TypeOK, NEW rest \in Seq(Chars), NEW bs,
           bs = [SubSeq(buffers, 1, Reached) EXCEPT ![Reached].rest = rest]
    PROVE  /\ bs \in Seq(Buffer) \ {<<>>} /\ Len(bs) = Reached
           /\ bs[Reached].rest = rest
           /\ \A i \in 1 .. Reached - 1 : bs[i] = buffers[i]
<1> DEFINE r == Reached
           part == SubSeq(buffers, 1, r)
<1>1. /\ buffers \in Seq(Buffer) /\ r \in 1 .. Len(buffers) /\ Len(buffers) \in Nat
      /\ buffers[r] \in Buffer
  BY ReachedIs DEF TypeOK, Buffer
<1> HIDE DEF r
<1>2. \A i \in 1 .. r : buffers[i] \in Buffer
  BY <1>1, ElementOfSeq
<1>3. /\ part \in Seq(Buffer) /\ Len(part) = r
      /\ \A i \in 1 .. r : part[i] = buffers[i]
  <2>1. /\ part \in Seq(Buffer) /\ Len(part) = r
        /\ \A i \in 1 .. r - 1 + 1 : part[i] = buffers[1 + i - 1]
    BY <1>1, <1>2, SubSeqProperties
  <2> HIDE DEF part
  <2>2. \A i \in 1 .. r : i \in 1 .. r - 1 + 1 /\ 1 + i - 1 = i
    BY <1>1
  <2> QED
    BY <2>1, <2>2
<1> HIDE DEF part
<1>4. bs = [part EXCEPT ![r].rest = rest]
  BY DEF part, r
<1>5. r \in 1 .. Len(part) /\ DOMAIN part = 1 .. r
  BY <1>1, <1>3, LenProperties
<1>6. [part[r] EXCEPT !.rest = rest] \in Buffer
  BY <1>1, <1>3, <1>5 DEF Buffer
<1> DEFINE item == [part[r] EXCEPT !.rest = rest]
           new == [part EXCEPT ![r] = item]
<1>7. bs = new
  BY <1>4
<1>10. item.rest = rest
  BY <1>1, <1>3, <1>5 DEF Buffer
<1> HIDE DEF item
<1>8. new \in Seq(Buffer) /\ Len(new) = r
  BY <1>3, <1>5, <1>6, ExceptSeq DEF item
<1>9. new[r] = item /\ \A i \in 1 .. r : i # r => new[i] = part[i]
  BY <1>5
<1> HIDE DEF new
<1>11. \A i \in 1 .. r - 1 : bs[i] = buffers[i]
  <2>1. \A i \in 1 .. r - 1 : i \in 1 .. r /\ i # r
    BY <1>1
  <2> QED
    BY <1>3, <1>7, <1>9, <2>1
<1>12. bs # <<>>
  <2>1. Len(<<>>) = 0 /\ r # 0
    BY <1>1
  <2> QED
    BY <1>7, <1>8, <2>1
<1> QED
  BY <1>7, <1>8, <1>9, <1>10, <1>11, <1>12 DEF r

LEMMA ReturnTyped ==
    ASSUME TypeOK, NEW lex, Fits(Ahead, lex), NEW ctxs \in Seq(Context), Return(lex, ctxs)
    PROVE  TypeOK'
<1>1. /\ Ahead \in Seq(Chars) /\ lex.to \in 1 .. Len(Ahead) + 1
      /\ nesting \in Seq(Int) \ {<<>>}
  BY AheadIs DEF Fits, TypeOK
<1>2. /\ SubSeq(Ahead, lex.to, Len(Ahead)) \in Seq(Chars)
      /\ SubSeq(Ahead, 1, lex.to - 1) \in Seq(Chars)
  BY <1>1, PartOfAhead
<1>3. buffers' = [SubSeq(buffers, 1, Reached) EXCEPT
                     ![Reached].rest = SubSeq(Ahead, lex.to, Len(Ahead))]
  BY DEF Return
<1>4. buffers' \in Seq(Buffer) \ {<<>>}
  <2> DEFINE rest == SubSeq(Ahead, lex.to, Len(Ahead))
  <2>1. PICK bs : bs = buffers'
    OBVIOUS
  <2>2. rest \in Seq(Chars) /\ bs = [SubSeq(buffers, 1, Reached) EXCEPT ![Reached].rest = rest]
    BY <1>2, <1>3, <2>1
  <2> HIDE DEF rest
  <2>3. bs \in Seq(Buffer) \ {<<>>}
    BY <2>2, BuffersLeft
  <2> QED
    BY <2>1, <2>3
<1>5. token' \in [kind : Kinds, value : 0 .. IntegerMax, text : Seq(Chars)]
  <2>1. token' = [kind |-> lex.kind, value |-> lex.value, text |-> SubSeq(Ahead, 1, lex.to - 1)]
    BY DEF Return
  <2> QED
    BY <1>2, <2>1 DEF Fits
<1>6. errors' \subseteq Errors
  <2>1. OpenComments \subseteq Errors
    BY DEF OpenComments, When, Errors
  <2> QED
    BY <2>1 DEF Return, Fits, TypeOK
<1>7. nesting' \in Seq(Int) \ {<<>>}
  <2>1. nesting' = NestingAfter(lex.kind)
    BY DEF Return
  <2> QED
    BY <1>1, <2>1, NestingAfterIs
<1>8. contexts' = ctxs /\ caller' = caller /\ templateDepth' = templateDepth /\ includes' = includes
  BY DEF Return
<1> QED
  BY <1>4, <1>5, <1>6, <1>7, <1>8 DEF TypeOK, Buffer

-----------------------------------------------------------------------------
(* What a call of nextToken returns, and how it leaves the contexts.       *)

Begun == [inExpression |-> TRUE, braceDepth |-> 0]

\* The string before an expression or behind it was not ended by the text
Broken == {"string", "interpolation"}

\* The contexts that go with the token
LeftFor(lex, ctxs) ==
    \/ lex.kind \in PlainKinds \cup {"EoF"} /\ ctxs = contexts
    \/ lex.kind = LeftBrace /\ ctxs = IF InExpression THEN Braces(1) ELSE contexts
    \/ /\ lex.kind = RightBrace
       /\ InExpression => Last(contexts).braceDepth > 0
       /\ ctxs = IF InExpression THEN Braces(-1) ELSE contexts
    \/ Broken \cap lex.errors # {}
    \/ lex.kind = "LString" /\ ctxs = Append(contexts, Begun)
    \/ /\ InExpression /\ Last(contexts).braceDepth = 0
       /\ \/ lex.kind = "String" /\ ctxs = Append(Front(contexts), Begun)
          \/ lex.kind = "RString" /\ ctxs = Front(contexts)

Call(lex, ctxs) ==
    /\ Return(lex, ctxs)
    /\ Fits(Ahead, lex) /\ ctxs \in Seq(Context)
    /\ LeftFor(lex, ctxs)
    /\ \/ Ahead = <<>> /\ lex.kind = "EoF"
       \/ Ahead # <<>> /\ lex.to >= 2 /\ lex.kind # "EoF"

LEMMA PlainCall ==
    ASSUME TypeOK, Ahead # <<>>, NEW lex, IsToken(Ahead, lex), Return(lex, contexts)
    PROVE  Call(lex, contexts)
<1>1. Ahead \in Seq(Chars)
  BY AheadIs
<1>2. Fits(Ahead, lex)
  BY <1>1, TokensFit
<1>3. LeftFor(lex, contexts)
  BY DEF LeftFor, IsToken
<1>4. lex.to >= 2 /\ lex.kind # "EoF"
  <2>1. Len(Ahead) \in Nat
    BY <1>1, TextIs
  <2> QED
    BY <2>1 DEF IsToken, PlainKinds
<1> QED
  BY <1>2, <1>3, <1>4 DEF Call, TypeOK

\* The contexts around the innermost one
LEMMA OuterContexts ==
    ASSUME contexts \in Seq(Context), contexts # <<>>
    PROVE  /\ Len(contexts) \in Nat \ {0} /\ Last(contexts) \in Context
           /\ Front(contexts) \in Seq(Context) /\ Len(Front(contexts)) = Len(contexts) - 1
           /\ \A i \in 1 .. Len(contexts) - 1 : Front(contexts)[i] = contexts[i]
<1> DEFINE n == Len(contexts)
<1>1. n \in Nat \ {0}
  BY EmptySeq
<1>2. \A i \in 1 .. n : contexts[i] \in Context
  BY ElementOfSeq
<1>3. Last(contexts) = contexts[n] /\ Front(contexts) = SubSeq(contexts, 1, n - 1)
  BY DEF Last, Front
<1> HIDE DEF n
<1>4. /\ SubSeq(contexts, 1, n - 1) \in Seq(Context)
      /\ Len(SubSeq(contexts, 1, n - 1)) = n - 1
      /\ \A i \in 1 .. n - 1 : SubSeq(contexts, 1, n - 1)[i] = contexts[i]
  <2> DEFINE part == SubSeq(contexts, 1, n - 1)
  <2>1. \A i \in 1 .. n - 1 : contexts[i] \in Context
    BY <1>1, <1>2
  <2>2. /\ part \in Seq(Context) /\ Len(part) = IF 1 <= n - 1 THEN n - 1 - 1 + 1 ELSE 0
        /\ \A i \in 1 .. n - 1 - 1 + 1 : part[i] = contexts[1 + i - 1]
    BY <1>1, <2>1, SubSeqProperties
  <2> HIDE DEF part
  <2>3. \A i \in 1 .. n - 1 : i \in 1 .. n - 1 - 1 + 1 /\ 1 + i - 1 = i
    BY <1>1
  <2> QED
    BY <1>1, <2>2, <2>3 DEF part
<1>5. n \in 1 .. n
  BY <1>1
<1> QED
  BY <1>1, <1>2, <1>3, <1>4, <1>5 DEF n

LEMMA BracesTyped ==
    ASSUME contexts \in Seq(Context), InExpression, NEW d \in {1, -1},
           d = -1 => Last(contexts).braceDepth > 0
    PROVE  /\ Braces(d) \in Seq(Context) /\ Len(Braces(d)) = Len(contexts)
           /\ \A i \in 1 .. Len(contexts) - 1 : Braces(d)[i] = contexts[i]
           /\ Braces(d)[Len(contexts)].braceDepth = Last(contexts).braceDepth + d
           /\ Braces(d)[Len(contexts)].inExpression = Last(contexts).inExpression
<1> DEFINE n == Len(contexts)
           c == Last(contexts)
           item == [c EXCEPT !.braceDepth = @ + d]
           new == [contexts EXCEPT ![n] = item]
<1>1. n \in Nat \ {0} /\ c \in Context /\ contexts[n] = c
  BY OuterContexts DEF InExpression, Last
<1>2. DOMAIN contexts = 1 .. n
  BY LenProperties
<1>3. Braces(d) = new
  <2>1. Braces(d) = [contexts EXCEPT ![n].braceDepth = @ + d]
    BY DEF Braces
  <2> QED
    BY <1>1, <1>2, <2>1
<1> HIDE DEF n, c
<1>4. c.braceDepth + d \in Nat
  <2>1. c.braceDepth \in Nat /\ (d = -1 => c.braceDepth > 0)
    BY <1>1 DEF Context, c
  <2> QED
    BY <2>1
<1>5. item \in Context /\ item.braceDepth = c.braceDepth + d /\ item.inExpression = c.inExpression
  BY <1>1, <1>4 DEF Context
<1> HIDE DEF item
<1>6. n \in 1 .. n
  BY <1>1
<1>7. new \in Seq(Context) /\ Len(new) = n
  BY <1>5, <1>6, ExceptSeq DEF n
<1>8. new[n] = item /\ \A i \in 1 .. n - 1 : new[i] = contexts[i]
  <2>1. \A i \in 1 .. n - 1 : i \in 1 .. n /\ i # n
    BY <1>1
  <2> QED
    BY <1>2, <1>6, <2>1
<1> HIDE DEF new
<1> QED
  BY <1>3, <1>5, <1>7, <1>8 DEF n, c

LEMMA StringPartIs ==
    ASSUME TypeOK, At(Ahead, 1) # End, NEW outer \in Seq(Context),
           NEW kind \in {"LString", "String"}, StringPart(2, outer, kind)
    PROVE  \E lex, ctxs :
              /\ Return(lex, ctxs) /\ Fits(Ahead, lex) /\ ctxs \in Seq(Context)
              /\ lex.to >= 2 /\ lex.kind # "EoF"
              /\ \/ lex.kind = kind /\ ctxs = Append(outer, Begun)
                 \/ Broken \cap lex.errors # {}
                 \/ /\ At(Ahead, Unescaped(Ahead, 2, {Quote, LeftBrace})) = Quote
                    /\ lex.kind = "RString" /\ ctxs = outer
<1> DEFINE s == Ahead
           stop == Unescaped(s, 2, {Quote, LeftBrace})
           inner == Past(s, stop + 1, White)
           Inside(b) == Append(outer, [inExpression |-> b, braceDepth |-> 0])
<1>1. s \in Seq(Chars) /\ Len(s) \in Nat /\ 2 \in 1 .. Len(s) + 1
  BY AheadIs, TextIs
<1>2. /\ stop \in 2 .. Len(s) + 1 /\ At(s, stop) \in {Quote, LeftBrace, End}
      /\ At(s, stop) # End => stop \in 1 .. Len(s)
  <2>1. Backslash \notin {Quote, LeftBrace}
    BY DEF Backslash, Quote, LeftBrace
  <2>2. stop \in 2 .. Len(s) + 1 /\ At(s, stop) \in {Quote, LeftBrace} \cup {End}
    BY <1>1, <2>1, UnescapedIs
  <2> HIDE DEF stop, s
  <2> QED
    BY <1>1, <2>2, TextIs
<1>3. \A b \in BOOLEAN : Inside(b) \in Seq(Context)
  BY DEF Context
<1>4. LeftBrace # Quote /\ LeftBrace # End /\ Quote # End
  BY DEF LeftBrace, Quote, End
<1> HIDE DEF s
<1>5. CASE At(s, stop) = LeftBrace
  <2> DEFINE lex == IF At(s, inner) = RightBrace THEN Lexeme("Error", inner, {"interpolation"})
                                                 ELSE Lexeme(kind, inner, {})
  <2>1. Return(lex, Inside(TRUE))
    BY <1>4, <1>5 DEF StringPart, s
  <2>2. inner \in 2 .. Len(s) + 1
    <3>1. stop + 1 \in 1 .. Len(s) + 1 /\ stop \in Nat /\ stop >= 2
      BY <1>1, <1>2, <1>4, <1>5
    <3>2. End \notin White
      BY DEF End, White
    <3> HIDE DEF stop
    <3>3. inner \in stop + 1 .. Len(s) + 1
      BY <1>1, <3>1, <3>2, PastIs
    <3> HIDE DEF inner
    <3> QED
      BY <1>1, <3>1, <3>3
  <2> HIDE DEF inner, stop
  <2>3. lex.to = inner /\ lex.kind \in {kind, "Error"} /\ lex.value = 0
        /\ (lex.kind = kind \/ "interpolation" \in lex.errors)
        /\ lex.errors \subseteq {"interpolation"}
    BY DEF Lexeme
  <2> HIDE DEF lex
  <2>4. Fits(s, lex) /\ lex.to >= 2 /\ lex.kind # "EoF"
    BY <1>1, <2>2, <2>3, WidthsAssumption DEF Fits, Kinds, Errors
  <2>5. Inside(TRUE) = Append(outer, Begun) /\ Inside(TRUE) \in Seq(Context)
    BY <1>3 DEF Begun
  <2>6. lex.kind = kind \/ Broken \cap lex.errors # {}
    BY <2>3 DEF Broken
  <2> HIDE DEF Inside
  <2> QED
    BY <2>1, <2>4, <2>5, <2>6 DEF s
<1>6. CASE At(s, stop) = Quote
  <2> DEFINE lex == Lexeme("RString", stop + 1, {})
  <2>1. Return(lex, outer)
    BY <1>4, <1>6 DEF StringPart, s
  <2>2. stop + 1 \in 2 .. Len(s) + 1
    <3> HIDE DEF stop
    <3> QED
      BY <1>1, <1>2, <1>4, <1>6
  <2>3. lex.to = stop + 1 /\ lex.kind = "RString" /\ lex.value = 0 /\ lex.errors = {}
    BY DEF Lexeme
  <2> HIDE DEF lex
  <2>4. Fits(s, lex) /\ lex.to >= 2 /\ lex.kind # "EoF"
    <3> HIDE DEF stop
    <3> QED
      BY <1>1, <2>2, <2>3, WidthsAssumption DEF Fits, Kinds
  <2> QED
    BY <1>6, <2>1, <2>3, <2>4 DEF s
<1>7. CASE At(s, stop) = End
  <2> DEFINE lex == Lexeme("Error", stop, {"string"})
  <2>1. Return(lex, Inside(FALSE))
    BY <1>4, <1>7 DEF StringPart, s
  <2>2. lex.to = stop /\ lex.kind = "Error" /\ lex.value = 0 /\ lex.errors = {"string"}
    BY DEF Lexeme
  <2> HIDE DEF lex
  <2>3. Fits(s, lex) /\ lex.to >= 2 /\ lex.kind # "EoF"
    <3> HIDE DEF stop
    <3> QED
      BY <1>1, <1>2, <2>2, WidthsAssumption DEF Fits, Kinds, Errors
  <2>4. Broken \cap lex.errors # {}
    BY <2>2 DEF Broken
  <2> HIDE DEF Inside
  <2> QED
    BY <1>3, <2>1, <2>3, <2>4 DEF s
<1> QED
  BY <1>2, <1>5, <1>6, <1>7

LEMMA FirstIs ==
    ASSUME TypeOK
    PROVE  /\ first = At(Ahead, 1)
           /\ first # End => Ahead # <<>> /\ 2 \in 1 .. Len(Ahead) + 1
<1>1. Ahead \in Seq(Chars) /\ first = At(Ahead, 1)
  BY AheadIs
<1>2. first # End => 1 \in 1 .. Len(Ahead) /\ Len(Ahead) \in Nat
  BY <1>1, TextIs
<1>3. Len(<<>>) = 0
  BY EmptySeq
<1> QED
  BY <1>1, <1>2, <1>3

LEMMA ErrorCall ==
    ASSUME TypeOK, first \in Others \cup {Backslash},
           Return(Lexeme("Error", 2, {"unknown"}), contexts)
    PROVE  Call(Lexeme("Error", 2, {"unknown"}), contexts)
<1>1. first # End
  BY EndIsNot DEF Others, End
<1>2. Ahead # <<>> /\ 2 \in 2 .. Len(Ahead) + 1 /\ Ahead \in Seq(Chars)
  <2>1. Ahead # <<>> /\ 2 \in 1 .. Len(Ahead) + 1 /\ Ahead \in Seq(Chars)
    BY <1>1, FirstIs, AheadIs
  <2>2. Len(Ahead) \in Nat
    BY <2>1
  <2> QED
    BY <2>1, <2>2
<1>3. IsToken(Ahead, Lexeme("Error", 2, {"unknown"}))
  BY <1>2, LexemeIs DEF PlainKinds, Errors
<1> QED
  BY <1>2, <1>3, PlainCall

LEMMA BraceCall ==
    ASSUME TypeOK, NEW kind \in {LeftBrace, RightBrace}, first = kind, NEW d \in {1, -1},
           kind = LeftBrace => d = 1,
           kind = RightBrace => d = -1 /\ (InExpression => Last(contexts).braceDepth > 0),
           Return(Lexeme(kind, 2, {}), IF InExpression THEN Braces(d) ELSE contexts)
    PROVE  Call(Lexeme(kind, 2, {}), IF InExpression THEN Braces(d) ELSE contexts)
<1> DEFINE ctxs == IF InExpression THEN Braces(d) ELSE contexts
           lex == Lexeme(kind, 2, {})
<1>1. first # End
  BY DEF LeftBrace, RightBrace, End
<1>2. Ahead # <<>> /\ 2 \in 1 .. Len(Ahead) + 1 /\ Ahead \in Seq(Chars)
  BY <1>1, FirstIs, AheadIs
<1>3. contexts \in Seq(Context)
  BY DEF TypeOK
<1>4. ctxs \in Seq(Context)
  <2>1. CASE InExpression
    <3>1. d = -1 => Last(contexts).braceDepth > 0
      BY <2>1 DEF LeftBrace, RightBrace
    <3>2. Braces(d) \in Seq(Context)
      BY <1>3, <2>1, <3>1, BracesTyped
    <3> QED
      BY <2>1, <3>2
  <2>2. CASE ~InExpression
    BY <1>3, <2>2
  <2> QED
    BY <2>1, <2>2
<1>5. Fits(Ahead, lex)
  BY <1>2, LexemeFits DEF Kinds
<1>6. lex.kind = kind /\ lex.to = 2
  BY DEF Lexeme
<1>7. LeftFor(lex, ctxs)
  <2>1. CASE kind = LeftBrace
    BY <1>6, <2>1 DEF LeftFor
  <2>2. CASE kind = RightBrace
    BY <1>6, <2>2 DEF LeftFor
  <2> QED
    BY <2>1, <2>2
<1>8. lex.to >= 2 /\ lex.kind # "EoF"
  BY <1>6 DEF LeftBrace, RightBrace
<1> HIDE DEF lex, ctxs
<1>9. Return(lex, ctxs)
  BY DEF lex, ctxs
<1>10. Call(lex, ctxs)
  BY <1>2, <1>4, <1>5, <1>7, <1>8, <1>9 DEF Call
<1> QED
  BY <1>10 DEF lex, ctxs

LEMMA StringCall ==
    ASSUME TypeOK, LexString
    PROVE  \E lex, ctxs : Call(lex, ctxs)
<1>1. first = Quote /\ first # End /\ At(Ahead, 1) = Quote
  BY FirstIs, EndIsNot DEF LexString
<1>2. Ahead # <<>> /\ 2 \in 1 .. Len(Ahead) + 1 /\ Ahead \in Seq(Chars)
  BY <1>1, FirstIs, AheadIs
<1>3. CASE HasInterpolation(Ahead, 2)
  <2>1. StringPart(2, contexts, "LString") /\ contexts \in Seq(Context) /\ At(Ahead, 1) # End
    BY <1>1, <1>3 DEF LexString, TypeOK
  <2>2. At(Ahead, Unescaped(Ahead, 2, {Quote, LeftBrace})) = LeftBrace
    BY <1>2, <1>3, LoopsAgree
  <2>3. LeftBrace # Quote
    BY DEF LeftBrace, Quote
  <2>4. PICK lex, ctxs :
              /\ Return(lex, ctxs) /\ Fits(Ahead, lex) /\ ctxs \in Seq(Context)
              /\ lex.to >= 2 /\ lex.kind # "EoF"
              /\ \/ lex.kind = "LString" /\ ctxs = Append(contexts, Begun)
                 \/ Broken \cap lex.errors # {}
                 \/ /\ At(Ahead, Unescaped(Ahead, 2, {Quote, LeftBrace})) = Quote
                    /\ lex.kind = "RString" /\ ctxs = contexts
    BY <2>1, StringPartIs
  <2>5. LeftFor(lex, ctxs)
    BY <2>2, <2>3, <2>4 DEF LeftFor
  <2> QED
    BY <1>2, <2>4, <2>5 DEF Call
<1>4. CASE ~HasInterpolation(Ahead, 2)
  <2>1. Return(RegularString(Ahead), contexts)
    BY <1>4 DEF LexString
  <2>2. IsToken(Ahead, RegularString(Ahead))
    BY <1>1, <1>2, RegularStringIs
  <2> QED
    BY <1>2, <2>1, <2>2, PlainCall
<1> QED
  BY <1>3, <1>4

LEMMA StringAgainCall ==
    ASSUME TypeOK, LexStringAgain
    PROVE  \E lex, ctxs : Call(lex, ctxs)
<1>1. first = RightBrace /\ first # End /\ At(Ahead, 1) # End
  BY FirstIs DEF LexStringAgain, RightBrace, End
<1>2. Ahead # <<>>
  BY <1>1, FirstIs
<1>3. /\ contexts \in Seq(Context) /\ contexts # <<>>
      /\ InExpression /\ Last(contexts).braceDepth = 0
      /\ StringPart(2, Front(contexts), "String")
  BY DEF LexStringAgain, InExpression, TypeOK
<1>4. Front(contexts) \in Seq(Context)
  BY <1>3, OuterContexts
<1>5. PICK lex, ctxs :
            /\ Return(lex, ctxs) /\ Fits(Ahead, lex) /\ ctxs \in Seq(Context)
            /\ lex.to >= 2 /\ lex.kind # "EoF"
            /\ \/ lex.kind = "String" /\ ctxs = Append(Front(contexts), Begun)
               \/ Broken \cap lex.errors # {}
               \/ /\ At(Ahead, Unescaped(Ahead, 2, {Quote, LeftBrace})) = Quote
                  /\ lex.kind = "RString" /\ ctxs = Front(contexts)
  BY <1>1, <1>3, <1>4, StringPartIs
<1>6. LeftFor(lex, ctxs)
  BY <1>3, <1>5 DEF LeftFor
<1> QED
  BY <1>2, <1>5, <1>6 DEF Call

LEMMA NextTokenCalls ==
    ASSUME TypeOK, NextToken
    PROVE  \E lex, ctxs : Call(lex, ctxs)
<1> DEFINE s == Ahead
<1>1. s \in Seq(Chars) /\ first = At(s, 1) /\ (first # End => s # <<>>)
  BY AheadIs, FirstIs
<1>2. CASE EndOfText
  <2> DEFINE lex == Lexeme("EoF", 1, {})
  <2>1. s = <<>> /\ Return(lex, contexts) /\ contexts \in Seq(Context)
    BY <1>2 DEF EndOfText, TypeOK
  <2>2. lex.kind = "EoF" /\ Len(s) \in Nat
    BY <1>1 DEF Lexeme
  <2>3. Fits(s, lex)
    <3>1. 1 \in 1 .. Len(s) + 1
      BY <2>2
    <3> HIDE DEF s
    <3> QED
      BY <1>1, <3>1, LexemeFits DEF Kinds
  <2>4. LeftFor(lex, contexts)
    BY <2>2 DEF LeftFor
  <2> HIDE DEF lex
  <2>5. Call(lex, contexts)
    BY <2>1, <2>2, <2>3, <2>4 DEF Call
  <2> QED
    BY <2>5
<1> HIDE DEF s
<1>3. ASSUME NEW lex, IsToken(s, lex), Return(lex, contexts), first # End
      PROVE  Call(lex, contexts)
  BY <1>1, <1>3, PlainCall DEF s
<1>4. CASE LexWord
  <2>1. At(s, 1) \in WordStart /\ first # End /\ Return(Word(s), contexts)
    BY <1>1, <1>4, EndIsNot DEF LexWord, s
  <2> QED
    BY <1>1, <1>3, <2>1, WordIs
<1>5. CASE LexRawString
  <2>1. At(s, 1) = "r" /\ At(s, 2) = Quote /\ first # End /\ Return(RawString(s), contexts)
    BY <1>1, <1>5 DEF LexRawString, s, End
  <2> QED
    BY <1>1, <1>3, <2>1, RawStringIs
<1>6. CASE LexNumber
  <2>1. At(s, 1) \in Digits(10) /\ first # End /\ Return(Number(s), contexts)
    <3>1. End \notin Digits(10)
      BY EndIsNot
    <3> QED
      BY <1>1, <1>6, <3>1 DEF LexNumber, s
  <2> QED
    BY <1>1, <1>3, <2>1, NumberIs
<1>7. CASE LexCharacter
  <2>1. At(s, 1) = Apostrophe /\ first # End /\ Return(Character(s), contexts)
    BY <1>1, <1>7, EndIsNot DEF LexCharacter, s
  <2> QED
    BY <1>1, <1>3, <2>1, CharacterIs
<1>8. CASE LexSymbol
  <2>1. /\ At(s, 1) \in SymbolStart /\ first # End /\ (templateDepth > 0) \in BOOLEAN
        /\ Return(Symbol(s, templateDepth > 0), contexts)
    BY <1>1, <1>8, EndIsNot DEF LexSymbol, s
  <2> QED
    BY <1>1, <1>3, <2>1, SymbolIs
<1>9. CASE LexLeftBrace
  <2>1. Call(Lexeme(LeftBrace, 2, {}), IF InExpression THEN Braces(1) ELSE contexts)
    <3>1. LeftBrace # RightBrace
      BY DEF LeftBrace, RightBrace
    <3> QED
      BY <1>9, <3>1, BraceCall DEF LexLeftBrace
  <2> QED
    BY <2>1
<1>10. CASE LexRightBrace
  <2>1. Call(Lexeme(RightBrace, 2, {}), IF InExpression THEN Braces(-1) ELSE contexts)
    <3>1. LeftBrace # RightBrace
      BY DEF LeftBrace, RightBrace
    <3> QED
      BY <1>10, <3>1, BraceCall DEF LexRightBrace
  <2> QED
    BY <2>1
<1>11. CASE LexStringAgain
  BY <1>11, StringAgainCall
<1>12. CASE LexString
  BY <1>12, StringCall
<1>13. CASE LexUnknown
  BY <1>13, ErrorCall DEF LexUnknown
<1> QED
  BY <1>2, <1>4, <1>5, <1>6, <1>7, <1>8, <1>9, <1>10, <1>11, <1>12, <1>13 DEF NextToken

LEMMA TypesKept == TypeOK /\ [Next]_vars => TypeOK'
<1> SUFFICES ASSUME TypeOK, [Next]_vars PROVE TypeOK'
  OBVIOUS
<1>1. CASE NextToken
  <2>1. PICK lex, ctxs : Call(lex, ctxs)
    BY <1>1, NextTokenCalls
  <2> QED
    BY <2>1, ReturnTyped DEF Call
<1>2. CASE \E f \in DOMAIN Files : PushBuffer(f)
  <2>1. PICK f \in DOMAIN Files : PushBuffer(f)
    BY <1>2
  <2>2. CASE \E i \in DOMAIN buffers : buffers[i].file = f
    <3>1. /\ errors' = errors \cup {"include"} /\ includes' = includes + 1
          /\ UNCHANGED <<buffers, caller, contexts, templateDepth, token, nesting>>
      BY <2>1, <2>2 DEF PushBuffer
    <3>2. errors' \subseteq Errors /\ includes' \in Nat
      BY <3>1 DEF TypeOK, Errors
    <3> QED
      BY <3>1, <3>2 DEF TypeOK
  <2>3. CASE ~\E i \in DOMAIN buffers : buffers[i].file = f
    <3> DEFINE item == [file |-> f, rest |-> Files[f]]
    <3>1. item \in Buffer /\ buffers \in Seq(Buffer)
      BY FilesAssumption DEF Buffer, TypeOK
    <3>2. buffers' = Append(buffers, item) /\ errors' = errors /\ includes' = includes + 1
          /\ UNCHANGED <<caller, contexts, templateDepth, token, nesting>>
      BY <2>1, <2>3 DEF PushBuffer
    <3> HIDE DEF item
    <3>3. Append(buffers, item) \in Seq(Buffer) /\ Len(Append(buffers, item)) = Len(buffers) + 1
      BY <3>1, AppendProperties
    <3>4. Append(buffers, item) # <<>>
      <4>1. Len(<<>>) = 0 /\ Len(buffers) \in Nat
        BY <3>1, EmptySeq
      <4> QED
        BY <3>3, <4>1
    <3> QED
      BY SMTT(30), <3>2, <3>3, <3>4 DEF TypeOK, Buffer
  <2> QED
    BY <2>2, <2>3
<1>3. CASE EnterTemplateContext
  BY <1>3 DEF EnterTemplateContext, TypeOK
<1>4. CASE ExitTemplateContext
  BY <1>4 DEF ExitTemplateContext, TypeOK
<1>5. CASE UNCHANGED vars
  BY <1>5 DEF vars, TypeOK
<1> QED
  BY <1>1, <1>2, <1>3, <1>4, <1>5 DEF Next

LEMMA TypesBegin == Init => TypeOK
<1> SUFFICES ASSUME Init PROVE TypeOK
  OBVIOUS
<1>1. PICK c \in Callers : /\ caller = [includes |-> c.includes, templates |-> c.templates]
                          /\ \E text \in c.texts : buffers = <<[file |-> Main, rest |-> text]>>
  BY DEF Init
<1>2. PICK text \in c.texts : buffers = <<[file |-> Main, rest |-> text]>>
  BY <1>1
<1>3. c.includes \in Nat /\ c.templates \in Nat /\ text \in Seq(Chars)
  BY CallersAssumption
<1>4. [file |-> Main, rest |-> text] \in Buffer
  BY <1>3 DEF Buffer
<1>5. buffers \in Seq(Buffer) \ {<<>>}
  BY <1>2, <1>4
<1>6. token \in [kind : Kinds, value : 0 .. IntegerMax, text : Seq(Chars)]
  BY WidthsAssumption DEF Init, Kinds
<1>7. nesting \in Seq(Int) \ {<<>>}
  BY DEF Init
<1> QED
  BY <1>1, <1>3, <1>5, <1>6, <1>7 DEF Init, TypeOK, Buffer

\* What the lexer stores is well typed; in particular the depths of contexts
\* never fall below zero, and every integer literal fits (nextToken,
\* lexNumber).
THEOREM SpecTypeOK == Spec => []TypeOK
BY TypesBegin, TypesKept, PTL DEF Spec

-----------------------------------------------------------------------------
(* What the integer tokens say.                                            *)

\* No other action makes an integer.
LEMMA OthersSayNothing ==
    ASSUME NextToken, ~LexNumber
    PROVE  token'.kind # "Integer"
<1>1. ASSUME NEW lex, NEW ctxs, Return(lex, ctxs), lex.kind # "Integer"
      PROVE  token'.kind # "Integer"
  BY <1>1 DEF Return
<1>2. \A kind, to, errs : Lexeme(kind, to, errs).kind = kind
  BY DEF Lexeme
<1>3. CASE EndOfText
  BY <1>1, <1>2, <1>3 DEF EndOfText
<1>4. CASE LexWord
  <2>1. Word(Ahead).kind # "Integer"
    BY <1>2 DEF Word
  <2> QED
    BY <1>1, <1>4, <2>1 DEF LexWord
<1>5. CASE LexRawString
  <2>1. RawString(Ahead).kind # "Integer"
    BY <1>2 DEF RawString
  <2> QED
    BY <1>1, <1>5, <2>1 DEF LexRawString
<1>6. CASE LexCharacter
  <2>1. Character(Ahead).kind \in {"Error", "Character"}
    BY <1>2 DEF Character
  <2> QED
    BY <1>1, <1>6, <2>1 DEF LexCharacter
<1>7. CASE LexSymbol
  <2>1. Symbol(Ahead, templateDepth > 0).kind # "Integer"
    BY <1>2 DEF Symbol
  <2> QED
    BY <1>1, <1>7, <2>1 DEF LexSymbol
<1>8. CASE LexLeftBrace
  BY <1>1, <1>2, <1>8 DEF LexLeftBrace, LeftBrace
<1>9. CASE LexRightBrace
  BY <1>1, <1>2, <1>9 DEF LexRightBrace, RightBrace
<1>10. CASE LexUnknown
  BY <1>1, <1>2, <1>10 DEF LexUnknown
<1>11. ASSUME NEW from, NEW outer, NEW kind \in {"String", "LString"}, StringPart(from, outer, kind)
       PROVE  token'.kind # "Integer"
  <2> DEFINE stop == Unescaped(Ahead, from, {Quote, LeftBrace})
             inner == Past(Ahead, stop + 1, White)
             In(b) == Append(outer, [inExpression |-> b, braceDepth |-> 0])
             part == IF At(Ahead, inner) = RightBrace
                     THEN Lexeme("Error", inner, {"interpolation"})
                     ELSE Lexeme(kind, inner, {})
  <2>1. \/ Return(part, In(TRUE))
        \/ Return(Lexeme("RString", stop + 1, {}), outer)
        \/ Return(Lexeme("Error", stop, {"string"}), In(FALSE))
    BY <1>11 DEF StringPart
  <2>2. part.kind # "Integer"
    BY <1>2
  <2> HIDE DEF part, In, stop
  <2> QED
    BY <1>1, <1>2, <2>1, <2>2
<1>12. CASE LexStringAgain
  BY <1>11, <1>12 DEF LexStringAgain
<1>13. CASE LexString
  <2>1. RegularString(Ahead).kind # "Integer"
    BY <1>2 DEF RegularString
  <2>2. StringPart(2, contexts, "LString") \/ Return(RegularString(Ahead), contexts)
    BY <1>13 DEF LexString
  <2> QED
    BY <1>1, <1>11, <2>1, <2>2
<1> QED
  BY <1>3, <1>4, <1>5, <1>6, <1>7, <1>8, <1>9, <1>10, <1>12, <1>13 DEF NextToken

IntegerSays == token.kind = "Integer" => Says(token.text, token.value, errors)

LEMMA SaysSaturates == IntegerSays <=> IntegersSaturate
BY DEF IntegerSays, IntegersSaturate, Says, NumberStop, NumberChars

LEMMA IntegersBegin == Init => IntegerSays
BY DEF Init, IntegerSays

LEMMA IntegersKept == TypeOK /\ IntegerSays /\ [Next]_vars => IntegerSays'
<1> SUFFICES ASSUME TypeOK, IntegerSays, [Next]_vars PROVE IntegerSays'
  OBVIOUS
<1>1. CASE NextToken /\ ~LexNumber
  BY <1>1, OthersSayNothing DEF IntegerSays
<1>2. CASE LexNumber
  <2> SUFFICES ASSUME token'.kind = "Integer" PROVE Says(token'.text, token'.value, errors')
    BY DEF IntegerSays
  <2> DEFINE lex == Number(Ahead)
  <2>1. /\ token' = [kind |-> lex.kind, value |-> lex.value, text |-> SubSeq(Ahead, 1, lex.to - 1)]
        /\ lex.errors \subseteq errors'
    BY <1>2 DEF LexNumber, Return
  <2>2. Ahead \in Seq(Chars) /\ At(Ahead, 1) \in Digits(10)
    BY <1>2, AheadIs DEF LexNumber, first
  <2>3. Says(SubSeq(Ahead, 1, lex.to - 1), lex.value, lex.errors)
    BY <2>1, <2>2, NumberSays
  <2> HIDE DEF lex
  <2>4. Says(token'.text, token'.value, lex.errors)
    BY <2>1, <2>3
  <2> QED
    BY <2>1, <2>4 DEF Says
<1>3. CASE token' = token /\ errors \subseteq errors'
  BY <1>3 DEF IntegerSays, Says
<1>4. CASE \E f \in DOMAIN Files : PushBuffer(f)
  <2>1. token' = token /\ errors \subseteq errors'
    BY <1>4 DEF PushBuffer
  <2> QED
    BY <1>3, <2>1
<1>5. CASE EnterTemplateContext \/ ExitTemplateContext \/ UNCHANGED vars
  <2>1. token' = token /\ errors' = errors
    BY <1>5 DEF EnterTemplateContext, ExitTemplateContext, vars
  <2> QED
    BY <1>3, <2>1
<1> QED
  BY <1>1, <1>2, <1>4, <1>5 DEF Next

\* An integer literal has the value that its digits say, in its base and
\* without the underscores, or the largest that fits when that is larger; and
\* then the overflow is among the errors that were reported (lexNumber).
THEOREM SpecIntegersSaturate == Spec => []IntegersSaturate
<1>1. Spec => []IntegerSays
  BY SpecTypeOK, IntegersBegin, IntegersKept, PTL DEF Spec
<1> QED
  BY <1>1, SaysSaturates, PTL

-----------------------------------------------------------------------------
(* Looking ahead agrees with the scan.                                     *)

LEMMA TypedAgrees == TypeOK => LookaheadAgrees
<1> SUFFICES ASSUME TypeOK, first = Quote PROVE LookaheadAgrees
  BY DEF LookaheadAgrees
<1> DEFINE stop == Unescaped(Ahead, 2, {Quote, LeftBrace})
<1>1. Ahead \in Seq(Chars) /\ 2 \in 1 .. Len(Ahead) + 1 /\ Len(Ahead) \in Nat
  BY FirstIs, AheadIs, EndIsNot
<1>2. stop \in 2 .. Len(Ahead) + 1
  BY <1>1, UnescapedIs DEF Backslash, Quote, LeftBrace
<1>3. /\ HasInterpolation(Ahead, 2) => At(Ahead, stop) = LeftBrace
      /\ At(Ahead, stop) = LeftBrace
           /\ (stop >= 2 + 2 => ~(At(Ahead, stop - 2) = Backslash /\ At(Ahead, stop - 1) = "u"))
         => HasInterpolation(Ahead, 2)
  BY <1>1, LoopsAgree
<1> HIDE DEF stop
<1>4. stop > 3 /\ SubSeq(Ahead, stop - 2, stop - 1) # <<Backslash, "u">>
        => ~(At(Ahead, stop - 2) = Backslash /\ At(Ahead, stop - 1) = "u")
  <2> SUFFICES ASSUME stop > 3, At(Ahead, stop - 2) = Backslash, At(Ahead, stop - 1) = "u"
               PROVE  SubSeq(Ahead, stop - 2, stop - 1) = <<Backslash, "u">>
    OBVIOUS
  <2>1. stop - 2 \in 1 .. Len(Ahead) /\ stop - 1 \in 1 .. Len(Ahead)
    BY <1>1, <1>2
  <2>2. Ahead[stop - 2] = Backslash /\ Ahead[stop - 1] = "u"
    BY <1>1, <2>1, TextIs
  <2> DEFINE part == SubSeq(Ahead, stop - 2, stop - 1)
  <2>3. /\ part \in Seq(Chars) /\ Len(part) = 2
        /\ \A i \in 1 .. 2 : part[i] = Ahead[stop - 2 + i - 1]
    <3>1. \A i \in stop - 2 .. stop - 1 : Ahead[i] \in Chars
      <4>1. \A i \in stop - 2 .. stop - 1 : i \in 1 .. Len(Ahead)
        BY <1>1, <1>2, <2>1
      <4> QED
        BY <1>1, <4>1, TextIs
    <3>2. /\ part \in Seq(Chars)
          /\ Len(part) = IF stop - 2 <= stop - 1 THEN (stop - 1) - (stop - 2) + 1 ELSE 0
          /\ \A i \in 1 .. (stop - 1) - (stop - 2) + 1 : part[i] = Ahead[stop - 2 + i - 1]
      BY <1>2, <3>1, SubSeqProperties
    <3>3. (stop - 1) - (stop - 2) + 1 = 2 /\ stop - 2 <= stop - 1
      BY <1>2
    <3> HIDE DEF part
    <3> QED
      BY <3>2, <3>3
  <2> HIDE DEF part
  <2>4. part[1] = Backslash /\ part[2] = "u"
    <3>1. stop - 2 + 1 - 1 = stop - 2 /\ stop - 2 + 2 - 1 = stop - 1
      BY <1>2
    <3> QED
      BY <2>2, <2>3, <3>1
  <2>5. part = <<Backslash, "u">>
    BY <2>3, <2>4
  <2> QED
    BY <2>5 DEF part
<1>5. /\ HasInterpolation(Ahead, 2) => At(Ahead, stop) = LeftBrace
      /\ At(Ahead, stop) = LeftBrace
           /\ (stop > 3 => SubSeq(Ahead, stop - 2, stop - 1) # <<Backslash, "u">>)
         => HasInterpolation(Ahead, 2)
  BY <1>2, <1>3, <1>4
<1> QED
  BY <1>5 DEF LookaheadAgrees, stop

\* In every text hasInterpolation finds a brace only where the scan of the
\* string stops at one, and every such brace but that of a braced escape, so
\* that lexString chooses the right reading.
THEOREM SpecLookaheadAgrees == Spec => []LookaheadAgrees
BY SpecTypeOK, TypedAgrees, PTL

-----------------------------------------------------------------------------
(* The contexts are the nesting of the tokens.                             *)

\* One context for each level of the nesting but the outermost
Mirror(c, n) ==
    /\ Len(c) = Len(n) - 1
    /\ \A i \in 1 .. Len(c) : c[i].inExpression = TRUE /\ c[i].braceDepth = n[Len(n) - i]
    /\ n[Len(n)] >= 0

LEMMA NestIsMirror ==
    ASSUME TypeOK
    PROVE  StringTokensNest <=> (Broken \cap errors = {} => Mirror(contexts, nesting))
<1> DEFINE n == Len(nesting)
           m == [i \in 1 .. n - 1 |-> [inExpression |-> TRUE, braceDepth |-> nesting[n - i]]]
<1>1. /\ contexts \in Seq(Context) /\ n \in Nat \ {0} /\ DOMAIN contexts = 1 .. Len(contexts)
      /\ Len(contexts) \in Nat
  BY EmptySeq, LenProperties DEF TypeOK
<1>2. Last(nesting) = nesting[n]
  BY DEF Last
<1>3. \A i \in 1 .. Len(contexts) :
         contexts[i] = [inExpression |-> contexts[i].inExpression,
                        braceDepth |-> contexts[i].braceDepth]
  <2>1. \A i \in 1 .. Len(contexts) : contexts[i] \in Context
    BY <1>1, ElementOfSeq
  <2> QED
    BY <2>1 DEF Context
<1>4. contexts = m => Mirror(contexts, nesting) \/ ~(nesting[n] >= 0)
  <2> SUFFICES ASSUME contexts = m, nesting[n] >= 0 PROVE Mirror(contexts, nesting)
    OBVIOUS
  <2>1. DOMAIN contexts = 1 .. n - 1
    BY Zenon
  <2>2. \A i \in 1 .. n - 1 : /\ contexts[i].inExpression = TRUE
                              /\ contexts[i].braceDepth = nesting[n - i]
    OBVIOUS
  <2> HIDE DEF n
  <2>3. Len(contexts) = n - 1
    <3>1. n - 1 \in Nat
      BY <1>1
    <3> QED
      BY <1>1, <2>1, <3>1
  <2> QED
    BY <2>2, <2>3 DEF Mirror, n
<1>5. Mirror(contexts, nesting) => contexts = m /\ nesting[n] >= 0
  <2> SUFFICES ASSUME Mirror(contexts, nesting) PROVE contexts = m /\ nesting[n] >= 0
    OBVIOUS
  <2>1. /\ Len(contexts) = n - 1 /\ nesting[n] >= 0
        /\ \A i \in 1 .. n - 1 : /\ contexts[i].inExpression = TRUE
                                 /\ contexts[i].braceDepth = nesting[n - i]
    BY DEF Mirror
  <2>2. contexts = [i \in 1 .. n - 1 |-> contexts[i]]
    BY <1>1, <2>1
  <2>3. \A i \in 1 .. n - 1 : contexts[i] = m[i]
    BY <1>3, <2>1
  <2> HIDE DEF n
  <2> QED
    BY <2>1, <2>2, <2>3
<1>6. StringTokensNest <=> (Broken \cap errors = {} => contexts = m /\ Last(nesting) >= 0)
  BY DEF StringTokensNest, Broken
<1> HIDE DEF m
<1> QED
  BY <1>2, <1>4, <1>5, <1>6 DEF Mirror

\* A token that begins a string, and one that ends it
LEMMA MirrorDeeper ==
    ASSUME NEW c \in Seq(Context), NEW n \in Seq(Int) \ {<<>>}, Mirror(c, n)
    PROVE  Mirror(Append(c, Begun), <<0>> \o n)
<1> DEFINE k == Len(n)
           d == Append(c, Begun)
           p == <<0>> \o n
<1>1. k \in Nat \ {0} /\ Len(c) = k - 1 /\ n[k] >= 0
  BY EmptySeq DEF Mirror
<1>2. Begun \in Context
  BY DEF Begun, Context
<1>3. Len(d) = k /\ d[k] = Begun /\ \A i \in 1 .. k - 1 : d[i] = c[i]
  BY <1>1, <1>2, AppendProperties
<1>4. Len(p) = k + 1 /\ p[1] = 0 /\ \A i \in 1 .. k : p[i + 1] = n[i]
  <2>1. <<0>> \in Seq(Int) /\ Len(<<0>>) = 1 /\ <<0>>[1] = 0
    OBVIOUS
  <2>2. /\ Len(p) = 1 + k
        /\ \A i \in 1 .. 1 + k : p[i] = IF i <= 1 THEN <<0>>[i] ELSE n[i - 1]
    BY <2>1, ConcatProperties
  <2> HIDE DEF p, k
  <2>3. p[1] = 0
    BY <1>1, <2>1, <2>2
  <2>4. \A i \in 1 .. k : i + 1 \in 1 .. 1 + k /\ ~(i + 1 <= 1) /\ (i + 1) - 1 = i
    BY <1>1
  <2>5. \A i \in 1 .. k : p[i + 1] = n[i]
    BY <2>2, <2>4
  <2> QED
    BY <1>1, <2>2, <2>3, <2>5
<1>5. \A i \in 1 .. k - 1 : c[i].inExpression = TRUE /\ c[i].braceDepth = n[k - i]
  BY <1>1 DEF Mirror
<1> HIDE DEF d, p, k
<1>6. Len(d) = Len(p) - 1 /\ p[Len(p)] >= 0
  BY <1>1, <1>3, <1>4
<1>7. ASSUME NEW i \in 1 .. Len(d)
      PROVE  d[i].inExpression = TRUE /\ d[i].braceDepth = p[Len(p) - i]
  <2>1. CASE i = k
    <3>1. Len(p) - i = 1 /\ d[i] = Begun
      BY <1>1, <1>3, <1>4, <2>1
    <3> QED
      BY <1>4, <3>1 DEF Begun
  <2>2. CASE i # k
    <3>1. i \in 1 .. k - 1 /\ k - i \in 1 .. k /\ Len(p) - i = (k - i) + 1
      BY <1>1, <1>3, <1>4, <2>2
    <3>2. p[Len(p) - i] = n[k - i]
      BY <1>4, <3>1
    <3> QED
      BY <1>3, <1>5, <3>1, <3>2
  <2> QED
    BY <2>1, <2>2
<1>8. Mirror(d, p)
  BY <1>6, <1>7 DEF Mirror
<1> QED
  BY <1>8 DEF d, p

LEMMA MirrorOuter ==
    ASSUME NEW c \in Seq(Context), c # <<>>, NEW n \in Seq(Int) \ {<<>>}, Mirror(c, n)
    PROVE  /\ Len(n) >= 2 /\ Head(n) = Last(c).braceDepth /\ Last(c).inExpression = TRUE
           /\ \A f : f \in Seq(Context) /\ Len(f) = Len(c) - 1
                       /\ (\A i \in 1 .. Len(c) - 1 : f[i] = c[i]) => Mirror(f, Tail(n))
<1> DEFINE k == Len(n)
           p == Tail(n)
<1>1. k \in Nat /\ k >= 2 /\ Len(c) = k - 1 /\ n[k] >= 0 /\ Last(c) = c[k - 1]
  <2>1. Len(c) \in Nat \ {0} /\ k \in Nat \ {0}
    BY EmptySeq
  <2>2. Len(c) = k - 1 /\ n[k] >= 0 /\ Last(c) = c[Len(c)]
    BY DEF Mirror, Last
  <2> HIDE DEF k
  <2> QED
    BY <2>1, <2>2
<1>2. \A i \in 1 .. k - 1 : c[i].inExpression = TRUE /\ c[i].braceDepth = n[k - i]
  BY <1>1 DEF Mirror
<1>3. Head(n) = n[1] /\ Len(p) = k - 1 /\ \A i \in 1 .. k - 1 : p[i] = n[i + 1]
  BY HeadTailProperties
<1> HIDE DEF k, p
<1>4. Head(n) = Last(c).braceDepth /\ Last(c).inExpression = TRUE
  <2>1. k - 1 \in 1 .. k - 1 /\ k - (k - 1) = 1
    BY <1>1
  <2> QED
    BY <1>1, <1>2, <1>3, <2>1
<1>5. ASSUME NEW f, f \in Seq(Context), Len(f) = k - 2, \A i \in 1 .. k - 2 : f[i] = c[i]
      PROVE  Mirror(f, p)
  <2>1. Len(f) = Len(p) - 1 /\ p[Len(p)] >= 0
    <3>1. k - 1 \in 1 .. k - 1 /\ (k - 1) + 1 = k /\ k - 2 = (k - 1) - 1
      BY <1>1
    <3> QED
      BY <1>1, <1>3, <1>5, <3>1
  <2>2. ASSUME NEW i \in 1 .. k - 2
        PROVE  f[i].inExpression = TRUE /\ f[i].braceDepth = p[Len(p) - i]
    <3>1. i \in 1 .. k - 1 /\ (k - 1) - i \in 1 .. k - 1 /\ ((k - 1) - i) + 1 = k - i
      BY <1>1
    <3> QED
      BY ZenonT(60), <1>2, <1>3, <1>5, <3>1
  <2> QED
    BY <1>5, <2>1, <2>2 DEF Mirror
<1>6. Len(c) - 1 = k - 2
  BY <1>1
<1>7. \A f : f \in Seq(Context) /\ Len(f) = Len(c) - 1
               /\ (\A i \in 1 .. Len(c) - 1 : f[i] = c[i]) => Mirror(f, p)
  BY <1>5, <1>6
<1> QED
  BY <1>1, <1>4, <1>7 DEF k, p

\* A brace in an expression counts for the innermost string, and one outside
\* of strings for the text.
LEMMA MirrorCounts ==
    ASSUME NEW c \in Seq(Context), NEW n \in Seq(Int) \ {<<>>}, Mirror(c, n), NEW x \in Int,
           NEW b \in Seq(Context), Len(b) = Len(c), \A i \in 1 .. Len(c) - 1 : b[i] = c[i],
           c = <<>> => x >= 0,
           c # <<>> => b[Len(c)].inExpression = TRUE /\ b[Len(c)].braceDepth = x
    PROVE  Mirror(b, <<x>> \o Tail(n))
<1> DEFINE k == Len(n)
           p == <<x>> \o Tail(n)
<1>1. k \in Nat \ {0} /\ Len(c) = k - 1 /\ n[k] >= 0
  BY EmptySeq DEF Mirror
<1>2. \A i \in 1 .. k - 1 : c[i].inExpression = TRUE /\ c[i].braceDepth = n[k - i]
  BY <1>1 DEF Mirror
<1>3. Len(p) = k /\ p[1] = x /\ \A i \in 2 .. k : p[i] = n[i]
  <2> DEFINE q == Tail(n)
  <2>1. q \in Seq(Int) /\ Len(q) = k - 1 /\ \A i \in 1 .. k - 1 : q[i] = n[i + 1]
    BY HeadTailProperties
  <2> HIDE DEF q
  <2>2. <<x>> \in Seq(Int) /\ Len(<<x>>) = 1 /\ <<x>>[1] = x
    OBVIOUS
  <2>3. /\ Len(<<x>> \o q) = 1 + (k - 1)
        /\ \A i \in 1 .. 1 + (k - 1) : (<<x>> \o q)[i] = IF i <= 1 THEN <<x>>[i] ELSE q[i - 1]
    BY <2>1, <2>2, ConcatProperties
  <2>4. p = <<x>> \o q
    BY DEF q
  <2> HIDE DEF p, k
  <2>5. /\ 1 + (k - 1) = k /\ 1 \in 1 .. k
        /\ \A i \in 2 .. k : i \in 1 .. k /\ ~(i <= 1) /\ i - 1 \in 1 .. k - 1 /\ (i - 1) + 1 = i
    BY <1>1
  <2>6. \A i \in 1 .. k : p[i] = IF i <= 1 THEN <<x>>[i] ELSE q[i - 1]
    BY <2>3, <2>4, <2>5
  <2>7. p[1] = x
    BY <2>2, <2>5, <2>6
  <2>8. \A i \in 2 .. k : p[i] = n[i]
    BY <2>1, <2>5, <2>6
  <2> QED
    BY <2>3, <2>4, <2>5, <2>7, <2>8
<1>4. c = <<>> <=> k = 1
  <2>1. c = <<>> <=> Len(c) = 0
    BY EmptySeq
  <2> HIDE DEF k
  <2> QED
    BY <1>1, <2>1
<1> HIDE DEF k, p
<1>5. Len(b) = Len(p) - 1 /\ p[Len(p)] >= 0
  <2>1. CASE k = 1
    BY <1>1, <1>3, <1>4, <2>1
  <2>2. CASE k # 1
    <3>1. k \in 2 .. k
      BY <1>1, <2>2
    <3> QED
      BY <1>1, <1>3, <3>1
  <2> QED
    BY <2>1, <2>2
<1>6. ASSUME NEW i \in 1 .. Len(b)
      PROVE  b[i].inExpression = TRUE /\ b[i].braceDepth = p[Len(p) - i]
  <2>1. CASE i = k - 1
    <3>1. k # 1 /\ Len(p) - i = 1 /\ i = Len(c)
      BY <1>1, <1>3, <2>1
    <3> QED
      BY <1>3, <1>4, <3>1
  <2>2. CASE i # k - 1
    <3>1. i \in 1 .. Len(c) - 1 /\ i \in 1 .. k - 1 /\ k - i \in 2 .. k
      BY <1>1, <2>2
    <3> QED
      BY <1>2, <1>3, <3>1
  <2> QED
    BY <2>1, <2>2
<1>7. Mirror(b, p)
  BY <1>5, <1>6 DEF Mirror
<1> QED
  BY <1>7 DEF p

LEMMA CallMirrors ==
    ASSUME TypeOK, Mirror(contexts, nesting), NEW lex, NEW ctxs, Call(lex, ctxs),
           Broken \cap lex.errors = {}
    PROVE  Mirror(ctxs, NestingAfter(lex.kind))
<1> DEFINE k == Len(contexts)
           top == Head(nesting)
           c == Last(contexts)
<1>1. /\ contexts \in Seq(Context) /\ nesting \in Seq(Int) \ {<<>>}
      /\ ctxs \in Seq(Context) /\ LeftFor(lex, ctxs)
  BY DEF TypeOK, Call
<1>2. top \in Int /\ Len(nesting) \in Nat \ {0} /\ k \in Nat /\ k = Len(nesting) - 1
      /\ (contexts = <<>> <=> k = 0)
  <2>1. top \in Int /\ Len(nesting) \in Nat \ {0} /\ k \in Nat /\ k = Len(nesting) - 1
    BY <1>1, HeadTailProperties, EmptySeq DEF Mirror
  <2>2. contexts = <<>> <=> k = 0
    BY <1>1, EmptySeq
  <2> QED
    BY <2>1, <2>2
<1>3. contexts # <<>> => /\ top = c.braceDepth /\ c.inExpression = TRUE /\ InExpression
                         /\ Len(nesting) >= 2
  BY <1>1, MirrorOuter DEF InExpression
<1>4. CASE lex.kind \in PlainKinds \cup {"EoF"} /\ lex.kind # "String" /\ ctxs = contexts
  <2>1. lex.kind \notin {"LString", "RString", LeftBrace, RightBrace}
    BY <1>4 DEF PlainKinds, LeftBrace, RightBrace
  <2>2. NestingAfter(lex.kind) = nesting
    BY <1>1, <2>1, NestingAfterIs
  <2> QED
    BY <1>4, <2>2
<1>5. CASE lex.kind = "String"
  <2>1. lex.kind \notin {"LString", "RString", LeftBrace, RightBrace}
    BY <1>5 DEF LeftBrace, RightBrace
  <2>2. NestingAfter(lex.kind) = nesting
    BY <1>1, <2>1, NestingAfterIs
  <2>3. CASE ctxs = contexts
    BY <2>2, <2>3
  <2>4. CASE InExpression /\ c.braceDepth = 0 /\ ctxs = Append(Front(contexts), Begun)
    <3>1. contexts # <<>>
      BY <2>4 DEF InExpression
    <3>2. /\ k \in Nat \ {0} /\ Front(contexts) \in Seq(Context) /\ Len(Front(contexts)) = k - 1
          /\ \A i \in 1 .. k - 1 : Front(contexts)[i] = contexts[i]
      BY <1>1, <3>1, OuterContexts
    <3>3. /\ Len(ctxs) = k /\ ctxs[k] = Begun
          /\ \A i \in 1 .. k - 1 : ctxs[i] = contexts[i]
      <4> DEFINE f == Front(contexts)
      <4>1. Begun \in Context /\ f \in Seq(Context) /\ Len(f) = k - 1 /\ ctxs = Append(f, Begun)
        BY <2>4, <3>2 DEF Begun, Context
      <4> HIDE DEF f, k
      <4>2. /\ Len(ctxs) = k - 1 + 1 /\ ctxs[k - 1 + 1] = Begun
            /\ \A i \in 1 .. k - 1 : ctxs[i] = f[i]
        BY <4>1, AppendProperties
      <4>3. k - 1 + 1 = k
        BY <3>2
      <4> QED
        BY <3>2, <4>2, <4>3 DEF f
    <3>4. ctxs[k].inExpression = TRUE /\ ctxs[k].braceDepth = 0
      BY <3>3 DEF Begun
    <3>5. Mirror(ctxs, <<0>> \o Tail(nesting))
      <4> DEFINE x == 0
      <4>1. x \in Int /\ ctxs[k].braceDepth = x
        BY <3>4
      <4> HIDE DEF x
      <4>2. Mirror(ctxs, <<x>> \o Tail(nesting))
        BY <1>1, <3>1, <3>3, <3>4, <4>1, MirrorCounts
      <4> QED
        BY <4>2 DEF x
    <3>6. <<0>> \o Tail(nesting) = nesting
      <4>1. top = 0
        BY <1>3, <2>4, <3>1
      <4>2. <<top>> \o Tail(nesting) = nesting
        BY <1>1, HeadTailProperties
      <4> QED
        BY <4>1, <4>2
    <3> QED
      BY <2>2, <3>5, <3>6
  <2> QED
    BY <1>1, <1>5, <2>3, <2>4 DEF LeftFor, LeftBrace, RightBrace, c
<1>6. CASE lex.kind = LeftBrace
  <2>1. NestingAfter(lex.kind) = <<top + 1>> \o Tail(nesting)
    BY <1>6 DEF NestingAfter, LeftBrace, RightBrace
  <2>2. ctxs = IF InExpression THEN Braces(1) ELSE contexts
    BY <1>1, <1>6 DEF LeftFor, LeftBrace, RightBrace, PlainKinds
  <2>3. CASE contexts # <<>>
    <3>1. /\ Len(Braces(1)) = k /\ \A i \in 1 .. k - 1 : Braces(1)[i] = contexts[i]
          /\ Braces(1)[k].braceDepth = c.braceDepth + 1
          /\ Braces(1)[k].inExpression = c.inExpression
      BY <1>1, <1>3, <2>3, BracesTyped
    <3>2. top + 1 \in Int /\ ctxs = Braces(1)
      BY <1>2, <1>3, <2>2, <2>3
    <3> HIDE DEF top
    <3>3. Mirror(ctxs, <<top + 1>> \o Tail(nesting))
      BY <1>1, <1>3, <2>3, <3>1, <3>2, MirrorCounts
    <3> QED
      BY <2>1, <3>3
  <2>4. CASE contexts = <<>>
    <3>1. top >= 0
      <4>1. Len(nesting) = 1 /\ nesting[Len(nesting)] >= 0 /\ top = nesting[1]
        BY <1>1, <1>2, <2>4, HeadTailProperties DEF Mirror
      <4> QED
        BY <4>1
    <3>2. ctxs = contexts
      BY <2>2, <2>4 DEF InExpression
    <3>3. top + 1 \in Int /\ top + 1 >= 0
      BY <1>2, <3>1
    <3> HIDE DEF top
    <3>4. Mirror(ctxs, <<top + 1>> \o Tail(nesting))
      BY <1>1, <2>4, <3>2, <3>3, MirrorCounts
    <3> QED
      BY <2>1, <3>4
  <2> QED
    BY <2>3, <2>4
<1>7. CASE lex.kind = RightBrace
  <2>1. NestingAfter(lex.kind) = IF Len(nesting) = 1 /\ top = 0 THEN nesting
                                                          ELSE <<top - 1>> \o Tail(nesting)
    BY <1>7 DEF NestingAfter, LeftBrace, RightBrace
  <2>2. /\ InExpression => c.braceDepth > 0
        /\ ctxs = IF InExpression THEN Braces(-1) ELSE contexts
    BY <1>1, <1>7 DEF LeftFor, LeftBrace, RightBrace, PlainKinds
  <2>3. CASE contexts # <<>>
    <3>1. /\ Len(Braces(-1)) = k /\ \A i \in 1 .. k - 1 : Braces(-1)[i] = contexts[i]
          /\ Braces(-1)[k].braceDepth = c.braceDepth + (-1)
          /\ Braces(-1)[k].inExpression = c.inExpression
      BY <1>1, <1>3, <2>2, <2>3, BracesTyped
    <3>2. top - 1 \in Int /\ ctxs = Braces(-1) /\ top - 1 = c.braceDepth + (-1)
      BY <1>2, <1>3, <2>2, <2>3
    <3>3. NestingAfter(lex.kind) = <<top - 1>> \o Tail(nesting)
      <4>1. Len(nesting) # 1
        BY <1>2, <1>3, <2>3
      <4> QED
        BY <2>1, <4>1
    <3> HIDE DEF top
    <3>4. Mirror(ctxs, <<top - 1>> \o Tail(nesting))
      BY <1>1, <1>3, <2>3, <3>1, <3>2, MirrorCounts
    <3> QED
      BY <3>3, <3>4
  <2>4. CASE contexts = <<>>
    <3>1. Len(nesting) = 1 /\ top >= 0 /\ ctxs = contexts
      <4>1. Len(nesting) = 1 /\ nesting[Len(nesting)] >= 0 /\ top = nesting[1]
        BY <1>1, <1>2, <2>4, HeadTailProperties DEF Mirror
      <4> QED
        BY <2>2, <2>4, <4>1 DEF InExpression
    <3>2. CASE top = 0
      BY <2>1, <3>1, <3>2
    <3>3. CASE top # 0
      <4>1. top - 1 \in Int /\ top - 1 >= 0
        BY <1>2, <3>1, <3>3
      <4>2. NestingAfter(lex.kind) = <<top - 1>> \o Tail(nesting)
        BY <2>1, <3>3
      <4> HIDE DEF top
      <4>3. Mirror(ctxs, <<top - 1>> \o Tail(nesting))
        BY <1>1, <2>4, <3>1, <4>1, MirrorCounts
      <4> QED
        BY <4>2, <4>3
    <3> QED
      BY <3>2, <3>3
  <2> QED
    BY <2>3, <2>4
<1>8. CASE lex.kind = "LString" /\ ctxs = Append(contexts, Begun)
  <2>1. NestingAfter(lex.kind) = <<0>> \o nesting
    BY <1>8 DEF NestingAfter, LeftBrace, RightBrace
  <2> QED
    BY <1>1, <1>8, <2>1, MirrorDeeper
<1>9. CASE InExpression /\ lex.kind = "RString" /\ ctxs = Front(contexts)
  <2>1. contexts # <<>>
    BY <1>9 DEF InExpression
  <2>2. NestingAfter(lex.kind) = Tail(nesting)
    <3>1. Len(nesting) # 1
      BY <1>2, <1>3, <2>1
    <3> QED
      BY <1>9, <3>1 DEF NestingAfter, LeftBrace, RightBrace
  <2>3. /\ ctxs \in Seq(Context) /\ Len(ctxs) = Len(contexts) - 1
        /\ \A i \in 1 .. Len(contexts) - 1 : ctxs[i] = contexts[i]
    BY <1>1, <1>9, <2>1, OuterContexts
  <2>4. Mirror(ctxs, Tail(nesting))
    BY <1>1, <2>1, <2>3, MirrorOuter
  <2> QED
    BY <2>2, <2>4
<1>10. \/ lex.kind \in PlainKinds \cup {"EoF"} /\ ctxs = contexts
       \/ lex.kind \in {LeftBrace, RightBrace, "String"}
       \/ lex.kind = "LString" /\ ctxs = Append(contexts, Begun)
       \/ InExpression /\ lex.kind = "RString" /\ ctxs = Front(contexts)
  <2> HIDE DEF c, k, top
  <2> QED
    BY <1>1 DEF LeftFor
<1> QED
  BY <1>4, <1>5, <1>6, <1>7, <1>8, <1>9, <1>10

\* The invariant that is inductive
Mirrored == Broken \cap errors = {} => Mirror(contexts, nesting)

LEMMA MirrorBegins == Init => Mirrored
<1> SUFFICES ASSUME Init PROVE Mirror(contexts, nesting)
  BY DEF Mirrored
<1>1. contexts = <<>> /\ nesting = <<0>>
  BY DEF Init
<1> QED
  BY <1>1 DEF Mirror

LEMMA MirrorKept == TypeOK /\ Mirrored /\ [Next]_vars => Mirrored'
<1> SUFFICES ASSUME TypeOK, Mirrored, [Next]_vars PROVE Mirrored'
  OBVIOUS
<1>1. CASE NextToken
  <2>1. PICK lex, ctxs : Call(lex, ctxs)
    BY <1>1, NextTokenCalls
  <2>2. /\ contexts' = ctxs /\ nesting' = NestingAfter(lex.kind)
        /\ errors' = errors \cup lex.errors \cup OpenComments
    BY <2>1 DEF Call, Return
  <2>3. ASSUME Broken \cap errors' = {} PROVE Mirror(contexts', nesting')
    <3>1. Broken \cap errors = {} /\ Broken \cap lex.errors = {}
      BY <2>2, <2>3
    <3>2. Mirror(contexts, nesting)
      BY <3>1 DEF Mirrored
    <3> QED
      BY <2>1, <2>2, <3>1, <3>2, CallMirrors
  <2> QED
    BY <2>3 DEF Mirrored
<1>2. CASE \E f \in DOMAIN Files : PushBuffer(f)
  <2>1. UNCHANGED <<contexts, nesting>> /\ errors' \in {errors, errors \cup {"include"}}
    BY <1>2 DEF PushBuffer
  <2> QED
    BY <2>1 DEF Mirrored, Broken
<1>3. CASE EnterTemplateContext
  BY <1>3 DEF EnterTemplateContext, Mirrored
<1>4. CASE ExitTemplateContext
  BY <1>4 DEF ExitTemplateContext, Mirrored
<1>5. CASE UNCHANGED vars
  BY <1>5 DEF vars, Mirrored
<1> QED
  BY <1>1, <1>2, <1>3, <1>4, <1>5 DEF Next

LEMMA MirrorNests == TypeOK /\ Mirrored => StringTokensNest
BY NestIsMirror DEF Mirrored

\* Whatever text is read, with whatever included in between, as long as no
\* string broke off the contexts are the strings whose LString came without
\* its RString, each with the braces open in it (lexInterpolatedString,
\* continueStringAfterExpression, lexToken).
THEOREM SpecStringTokensNest == Spec => []StringTokensNest
<1>1. Init => Mirrored
  BY MirrorBegins
<1>2. TypeOK /\ Mirrored /\ [Next]_vars => Mirrored'
  BY MirrorKept
<1>3. TypeOK /\ Mirrored => StringTokensNest
  BY MirrorNests
<1> QED
  BY <1>1, <1>2, <1>3, SpecTypeOK, PTL DEF Spec

-----------------------------------------------------------------------------
(* Every token takes some of the text.                                     *)

LengthsOf(bs) == [i \in 1 .. Len(bs) |-> Len(bs[i].rest)]

LEMMA LeftIs ==
    ASSUME NEW bs \in Seq(Buffer)
    PROVE  /\ LeftIn(bs) = Total(LengthsOf(bs), Len(bs))
           /\ \A i \in 1 .. Len(bs) : LengthsOf(bs)[i] = Len(bs[i].rest) /\ LengthsOf(bs)[i] \in Nat
<1> DEFINE n == Len(bs)
           g == LengthsOf(bs)
           Step(f) == [i \in 0 .. n |-> IF i = 0 THEN 0 ELSE f[i - 1] + Len(bs[i].rest)]
           P(f) == f = Step(f)
           sum == CHOOSE f : P(f)
<1>1. n \in Nat /\ \A i \in 1 .. n : g[i] = Len(bs[i].rest)
  BY DEF LengthsOf
<1>2. \A i \in 1 .. n : g[i] \in Nat
  <2> SUFFICES ASSUME NEW i \in 1 .. n PROVE g[i] \in Nat
    OBVIOUS
  <2>1. bs[i] \in Buffer
    BY ElementOfSeq
  <2>2. Len(bs[i].rest) \in Nat
    BY <2>1 DEF Buffer
  <2> HIDE DEF g, n
  <2> QED
    BY <1>1, <2>2
<1>3. \A f : IsSum(f, g, n) <=> P(f)
  <2> TAKE f
  <2>1. \A i \in 0 .. n : i # 0 => g[i] = Len(bs[i].rest)
    BY <1>1
  <2> HIDE DEF g, n
  <2>2. [i \in 0 .. n |-> IF i = 0 THEN 0 ELSE f[i - 1] + g[i]]
        = [i \in 0 .. n |-> IF i = 0 THEN 0 ELSE f[i - 1] + Len(bs[i].rest)]
    BY <2>1
  <2> QED
    BY <2>2 DEF IsSum
<1>4. LeftIn(bs) = sum[n]
  BY DEF LeftIn
<1> HIDE DEF g, n, P
<1>5. P(sum)
  BY <1>1, <1>3, SumsExist
<1> HIDE DEF sum
<1>6. sum[n] = Total(g, n)
  BY <1>1, <1>3, <1>5, TotalIs
<1> QED
  BY <1>1, <1>2, <1>4, <1>6 DEF g, n

LEMMA TokenTakes ==
    ASSUME TypeOK, NEW lex, NEW ctxs, Call(lex, ctxs), NEW bs, bs = buffers'
    PROVE  \/ LeftIn(bs) < LeftIn(buffers) /\ lex.kind # "EoF"
           \/ LeftIn(bs) = 0 /\ lex.kind = "EoF" /\ Len(bs) = 1
<1> DEFINE r == Reached
           n == Len(buffers)
           g == LengthsOf(buffers)
           h == LengthsOf(bs)
           a == Len(Ahead)
<1>1. /\ buffers \in Seq(Buffer) /\ n \in Nat /\ r \in 1 .. n /\ r \in Nat
      /\ Starts[r].to \in Nat /\ Starts[r].to >= 1
  <2>1. buffers \in Seq(Buffer) /\ n \in Nat /\ r \in 1 .. n
    BY ReachedIs DEF TypeOK, Buffer
  <2>2. Starts[r].to \in 1 .. Len(buffers[r].rest) + 1 /\ Len(buffers[r].rest) \in Nat
    <3>1. buffers[r].rest \in Seq(Chars)
      BY ReachedIs DEF Buffer
    <3> QED
      BY <3>1, ReachedIs
  <2> HIDE DEF r, n
  <2> QED
    BY <2>1, <2>2
<1>2. /\ lex.to \in 1 .. a + 1 /\ a \in Nat
      /\ a = Len(buffers[r].rest) - Starts[r].to + 1
  BY AheadIs DEF Call, Fits
<1> DEFINE rest == Rest(lex)
<1>3. rest \in Seq(Chars) /\ Len(rest) = a - lex.to + 1
  BY <1>2, PartOfAhead DEF Rest
<1>4. bs = [SubSeq(buffers, 1, r) EXCEPT ![r].rest = rest]
  BY DEF Call, Return, Rest
<1> HIDE DEF rest
<1>5. bs \in Seq(Buffer) /\ Len(bs) = r /\ bs[r].rest = rest
      /\ \A i \in 1 .. r - 1 : bs[i] = buffers[i]
  <2>1. bs = [SubSeq(buffers, 1, Reached) EXCEPT ![Reached].rest = rest]
    BY <1>4
  <2> HIDE DEF r, n, g, h, a
  <2>2. /\ bs \in Seq(Buffer) \ {<<>>} /\ Len(bs) = Reached
        /\ bs[Reached].rest = rest
        /\ \A i \in 1 .. Reached - 1 : bs[i] = buffers[i]
    <3>1. rest \in Seq(Chars)
      BY <1>3
    <3>2. bs \in Seq(Buffer) \ {<<>>}
      BY <2>1, <3>1, BuffersLeft
    <3>3. Len(bs) = Reached
      BY <2>1, <3>1, BuffersLeft
    <3>4. bs[Reached].rest = rest
      BY <2>1, <3>1, BuffersLeft
    <3>5. \A i \in 1 .. Reached - 1 : bs[i] = buffers[i]
      BY <2>1, <3>1, BuffersLeft
    <3> QED
      BY <3>2, <3>3, <3>4, <3>5
  <2> QED
    BY <2>2 DEF r
<1>6. /\ LeftIn(buffers) = Total(g, n) /\ LeftIn(bs) = Total(h, r)
      /\ \A i \in 1 .. n : g[i] = Len(buffers[i].rest) /\ g[i] \in Nat
      /\ \A i \in 1 .. r : h[i] = Len(bs[i].rest) /\ h[i] \in Nat
  BY <1>1, <1>5, LeftIs
<1> HIDE DEF r, n, g, h, a
<1>7. CASE Ahead = <<>> /\ lex.kind = "EoF"
  <2>1. r = 1 /\ a = 0
    BY <1>7, AheadIs, EmptySeq DEF r, a
  <2>2. h[1] = 0 /\ 1 \in 1 .. r
    <3>1. Len(rest) = 0
      BY <1>2, <1>3, <2>1
    <3> QED
      BY <1>5, <1>6, <2>1, <3>1
  <2>3. Total(h, 0 + 1) = Total(h, 0) + h[0 + 1] /\ Total(h, 0) = 0
    BY TotalStep
  <2>4. Total(h, 1) = 0
    BY <2>2, <2>3
  <2> QED
    BY <1>5, <1>6, <1>7, <2>1, <2>4
<1>8. CASE Ahead # <<>> /\ lex.to >= 2 /\ lex.kind # "EoF"
  <2>1. r - 1 \in Nat /\ (r - 1) + 1 = r /\ r \in 0 .. n /\ r \in 1 .. r
    BY <1>1
  <2>2. h[r] < g[r]
    <3>1. h[r] = a - lex.to + 1 /\ g[r] = Len(buffers[r].rest) /\ g[r] \in Nat
      <4>1. h[r] = Len(bs[r].rest) /\ g[r] = Len(buffers[r].rest) /\ g[r] \in Nat
        BY <1>1, <1>6, <2>1
      <4> QED
        BY <1>3, <1>5, <4>1
    <3>2. PICK t \in Int, l \in Int, u \in Int :
             t = lex.to /\ l = Len(buffers[r].rest) /\ u = Starts[r].to
      BY SMTT(30), <1>1, <1>2, <3>1
    <3>3. h[r] = a - t + 1 /\ g[r] = l /\ a = l - u + 1 /\ t >= 2 /\ u >= 1
      BY <1>1, <1>2, <1>8, <3>1, <3>2
    <3>4. (l - u + 1) - t + 1 < l
      BY <3>3
    <3>5. h[r] = (l - u + 1) - t + 1
      BY <3>3
    <3> QED
      BY <3>3, <3>4, <3>5
  <2>3. \A i \in 1 .. r - 1 : h[i] \in Nat /\ g[i] \in Nat /\ h[i] <= g[i]
    <3> SUFFICES ASSUME NEW i \in 1 .. r - 1
                 PROVE  h[i] \in Nat /\ g[i] \in Nat /\ h[i] <= g[i]
      OBVIOUS
    <3>1. i \in 1 .. n /\ i \in 1 .. r
      BY <1>1
    <3>2. h[i] = g[i]
      BY <1>5, <1>6, <3>1
    <3> QED
      BY <1>6, <3>1, <3>2
  <2>4. Total(h, r - 1) \in Nat /\ Total(g, r - 1) \in Nat /\ Total(h, r - 1) <= Total(g, r - 1)
    BY <2>1, <2>3, TotalsCompare
  <2>5. Total(h, r) = Total(h, r - 1) + h[r] /\ Total(g, r) = Total(g, r - 1) + g[r]
    <3>1. Total(h, (r - 1) + 1) = Total(h, r - 1) + h[(r - 1) + 1]
      BY <2>1, TotalStep
    <3>2. Total(g, (r - 1) + 1) = Total(g, r - 1) + g[(r - 1) + 1]
      BY <2>1, TotalStep
    <3> QED
      BY <2>1, <3>1, <3>2
  <2>6. Total(g, r) <= Total(g, n) /\ Total(g, n) \in Nat
    BY <1>1, <1>6, <2>1, TotalOfFewer, TotalNat
  <2>7. h[r] \in Nat /\ g[r] \in Nat
    BY <1>1, <1>6, <2>1
  <2>8. Total(h, r) < Total(g, n)
    BY <2>2, <2>4, <2>5, <2>6, <2>7
  <2> QED
    BY <1>6, <1>8, <2>8
<1> QED
  BY <1>7, <1>8 DEF Call

\* Every call of nextToken takes at least one character of the text, whether
\* it makes a token or reports an error, or else is at the end of the main
\* text with nothing left of it or of an included one, so that a caller that
\* asks until the end gets there (nextToken).
THEOREM EveryTokenTakesSome == Spec => EveryTokenReadsOn
<1>1. TypeOK /\ [Next]_vars
        => [NextToken => \/ Left' < Left /\ token'.kind # "EoF"
                         \/ Left' = 0 /\ token'.kind = "EoF" /\ Len(buffers') = 1]_vars
  <2> SUFFICES ASSUME TypeOK, NextToken
               PROVE  \/ Left' < Left /\ token'.kind # "EoF"
                      \/ Left' = 0 /\ token'.kind = "EoF" /\ Len(buffers') = 1
    OBVIOUS
  <2>1. PICK lex, ctxs : Call(lex, ctxs)
    BY NextTokenCalls
  <2>2. PICK bs : bs = buffers'
    OBVIOUS
  <2>3. token'.kind = lex.kind
    BY <2>1 DEF Call, Return
  <2>4. \/ LeftIn(bs) < LeftIn(buffers) /\ lex.kind # "EoF"
        \/ LeftIn(bs) = 0 /\ lex.kind = "EoF" /\ Len(bs) = 1
    BY <2>1, <2>2, TokenTakes
  <2> QED
    BY <2>2, <2>3, <2>4 DEF Left
<1> QED
  BY <1>1, SpecTypeOK, PTL DEF Spec, EveryTokenReadsOn

=============================================================================
