------------------------ MODULE StackArenaProofs ------------------------
(***************************************************************************)
(* Proofs about StackArena, for any sizes and alignments, chains of any    *)
(* length and checkpoints and scopes in any number: what is stored is well *)
(* typed, live allocations keep their memory, and the offsets and          *)
(* statistics tell how full the blocks are.                                *)
(***************************************************************************)
EXTENDS StackArena, FiniteSetTheorems, SequenceTheorems, WellFoundedInduction, TLAPS

-----------------------------------------------------------------------------
(* Induction over the natural numbers, about a set: the numbers for which  *)
(* a claim holds.  (The library's is about an operator P(_), which the     *)
(* provers cannot instantiate.)                                            *)

\* A set of natural numbers that is not empty has a least member.
LEMMA LeastNatural ==
    ASSUME NEW S \in SUBSET Nat, S # {}
    PROVE  \E n \in S : \A m \in S : n <= m
<1>1. PICK n \in S : \A m \in S : <<m, n>> \notin OpToRel(<, Nat)
  BY NatLessThanWellFounded, WFMin, Zenon
<1>2. \A m \in S : ~ (m < n)
  BY <1>1, Zenon DEF OpToRel
<1> QED
  BY <1>2

\* A set that has 0 and with each natural number the next has them all.
LEMMA SimpleInduction ==
    ASSUME NEW S, 0 \in S, \A n \in Nat : n \in S => n + 1 \in S
    PROVE  Nat \subseteq S
<1> SUFFICES ASSUME Nat \ S # {}
             PROVE  FALSE
  OBVIOUS
<1>1. PICK n \in Nat \ S : \A m \in Nat \ S : n <= m
  BY LeastNatural
<1>2. n # 0 /\ n - 1 \in Nat
  OBVIOUS
<1> QED
  BY <1>1, <1>2

-----------------------------------------------------------------------------
(* Sums of the first values of a function.                                 *)

IsSum(t, g, k) == t = [i \in 0 .. k |-> IF i = 0 THEN 0 ELSE t[i - 1] + g[i]]

Total(g, k) == (CHOOSE t : IsSum(t, g, k))[k]

LEMMA SumAt ==
    ASSUME NEW t, NEW g, NEW k \in Nat, IsSum(t, g, k)
    PROVE  \A i \in 0 .. k : t[i] = IF i = 0 THEN 0 ELSE t[i - 1] + g[i]
<1> DEFINE u == [i \in 0 .. k |-> IF i = 0 THEN 0 ELSE t[i - 1] + g[i]]
<1>1. t = u
  BY DEF IsSum
<1>2. \A i \in 0 .. k : u[i] = IF i = 0 THEN 0 ELSE t[i - 1] + g[i]
  OBVIOUS
<1> HIDE DEF u
<1> QED
  BY <1>1, <1>2

LEMMA SumsExist ==
    ASSUME NEW g
    PROVE  \A k \in Nat : \E t : IsSum(t, g, k)
<1> DEFINE S == {k \in Nat : \E t : IsSum(t, g, k)}
<1>1. 0 \in S
  <2> DEFINE t == [i \in 0 .. 0 |-> 0]
  <2>1. IsSum(t, g, 0)
    BY DEF IsSum
  <2> QED
    BY <2>1
<1>2. ASSUME NEW k \in Nat, k \in S
      PROVE  k + 1 \in S
  <2>1. PICK t : IsSum(t, g, k)
    BY <1>2
  <2> DEFINE u == [i \in 0 .. k + 1 |-> IF i <= k THEN t[i] ELSE t[k] + g[k + 1]]
  <2>2. u[k + 1] = t[k] + g[k + 1] /\ \A i \in 0 .. k : u[i] = t[i]
    OBVIOUS
  <2>3. \A i \in 0 .. k : t[i] = IF i = 0 THEN 0 ELSE t[i - 1] + g[i]
    BY <2>1, SumAt
  <2>4. \A i \in 0 .. k + 1 : u[i] = IF i = 0 THEN 0 ELSE u[i - 1] + g[i]
    <3> TAKE i \in 0 .. k + 1
    <3> HIDE DEF u
    <3>1. CASE i <= k
      <4>1. i \in 0 .. k /\ (i # 0 => i - 1 \in 0 .. k)
        BY <3>1
      <4> QED
        BY <2>2, <2>3, <4>1
    <3>2. CASE i = k + 1
      <4>1. i # 0 /\ i - 1 = k /\ k \in 0 .. k
        BY <3>2
      <4> QED
        BY <2>2, <3>2, <4>1
    <3> QED
      BY <3>1, <3>2
  <2>5. IsSum(u, g, k + 1)
    BY <2>4 DEF IsSum
  <2> HIDE DEF u
  <2> QED
    BY <2>5
<1> HIDE DEF S
<1>3. Nat \subseteq S
  BY <1>1, <1>2, SimpleInduction
<1> QED
  BY <1>3 DEF S

LEMMA SumsAgree ==
    ASSUME NEW g, NEW t, NEW u, NEW k \in Nat, NEW l \in Nat, k <= l,
           IsSum(t, g, k), IsSum(u, g, l)
    PROVE  \A i \in 0 .. k : t[i] = u[i]
<1> DEFINE R == {i \in Nat : i <= k => t[i] = u[i]}
<1>1. 0 \in R
  BY SumAt
<1>2. ASSUME NEW i \in Nat, i \in R
      PROVE  i + 1 \in R
  <2> SUFFICES ASSUME i + 1 <= k PROVE t[i + 1] = u[i + 1]
    OBVIOUS
  <2>1. t[i] = u[i]
    BY <1>2
  <2>2. i + 1 \in 0 .. k /\ i + 1 \in 0 .. l /\ i + 1 # 0 /\ (i + 1) - 1 = i
    OBVIOUS
  <2> HIDE DEF R
  <2>3. t[i + 1] = t[(i + 1) - 1] + g[i + 1]
    BY <2>2, SumAt
  <2>4. u[i + 1] = u[(i + 1) - 1] + g[i + 1]
    BY <2>2, SumAt
  <2> QED
    BY <2>1, <2>2, <2>3, <2>4
<1>3. Nat \subseteq R
  <2> HIDE DEF R
  <2> QED
    BY <1>1, <1>2, SimpleInduction
<1> QED
  BY <1>3

LEMMA TotalIs ==
    ASSUME NEW g, NEW k \in Nat, NEW t, IsSum(t, g, k)
    PROVE  Total(g, k) = t[k]
<1> DEFINE u == CHOOSE v : IsSum(v, g, k)
<1>1. IsSum(u, g, k)
  BY SumsExist
<1>2. Total(g, k) = u[k]
  BY DEF Total
<1> HIDE DEF u
<1> QED
  BY <1>1, <1>2, SumsAgree

\* The recursion of a sum
LEMMA TotalStep ==
    ASSUME NEW g
    PROVE  Total(g, 0) = 0 /\ \A k \in Nat : Total(g, k + 1) = Total(g, k) + g[k + 1]
<1>1. Total(g, 0) = 0
  <2>1. PICK t : IsSum(t, g, 0)
    BY SumsExist
  <2> QED
    BY <2>1, TotalIs, SumAt
<1>2. ASSUME NEW k \in Nat
      PROVE  Total(g, k + 1) = Total(g, k) + g[k + 1]
  <2>1. PICK t : IsSum(t, g, k)
    BY SumsExist
  <2>2. PICK u : IsSum(u, g, k + 1)
    BY SumsExist
  <2>3. Total(g, k) = t[k] /\ Total(g, k + 1) = u[k + 1]
    BY <2>1, <2>2, TotalIs
  <2>4. k \in 0 .. k /\ k + 1 \in Nat /\ k <= k + 1
    OBVIOUS
  <2>5. t[k] = u[k]
    BY <2>1, <2>2, <2>4, SumsAgree
  <2>6. k + 1 \in 0 .. k + 1 /\ k + 1 # 0 /\ (k + 1) - 1 = k
    OBVIOUS
  <2>7. u[k + 1] = u[k] + g[k + 1]
    BY <2>2, <2>6, SumAt
  <2> QED
    BY <2>3, <2>5, <2>7
<1> QED
  BY <1>1, <1>2

\* Where each value is at most the other, so is the sum.
LEMMA TotalsCompare ==
    ASSUME NEW g, NEW h, NEW n \in Nat,
           \A i \in 1 .. n : g[i] \in Nat /\ h[i] \in Nat /\ g[i] <= h[i]
    PROVE  Total(g, n) \in Nat /\ Total(h, n) \in Nat /\ Total(g, n) <= Total(h, n)
<1> DEFINE S == {k \in Nat : k <= n => /\ Total(g, k) \in Nat /\ Total(h, k) \in Nat
                                       /\ Total(g, k) <= Total(h, k)}
<1>1. 0 \in S
  BY TotalStep
<1>2. ASSUME NEW k \in Nat, k \in S
      PROVE  k + 1 \in S
  <2> SUFFICES ASSUME k + 1 <= n
               PROVE  /\ Total(g, k + 1) \in Nat /\ Total(h, k + 1) \in Nat
                      /\ Total(g, k + 1) <= Total(h, k + 1)
    OBVIOUS
  <2>1. /\ Total(g, k) \in Nat /\ Total(h, k) \in Nat /\ Total(g, k) <= Total(h, k)
        /\ g[k + 1] \in Nat /\ h[k + 1] \in Nat /\ g[k + 1] <= h[k + 1]
    BY <1>2
  <2>2. /\ Total(g, k + 1) = Total(g, k) + g[k + 1]
        /\ Total(h, k + 1) = Total(h, k) + h[k + 1]
    BY TotalStep
  <2> QED
    BY <2>1, <2>2
<1>3. Nat \subseteq S
  <2> HIDE DEF S
  <2> QED
    BY <1>1, <1>2, SimpleInduction
<1> QED
  BY <1>3

LEMMA TotalNat ==
    ASSUME NEW g, NEW n \in Nat, \A i \in 1 .. n : g[i] \in Nat
    PROVE  Total(g, n) \in Nat
BY TotalsCompare

\* Fewer values have a smaller sum.
LEMMA TotalOfFewer ==
    ASSUME NEW g, NEW n \in Nat, \A i \in 1 .. n : g[i] \in Nat, NEW k \in 0 .. n
    PROVE  Total(g, k) <= Total(g, n)
<1> DEFINE S == {d \in Nat : k + d <= n => Total(g, k) <= Total(g, k + d)}
<1>1. 0 \in S
  BY TotalNat
<1>2. ASSUME NEW d \in Nat, d \in S
      PROVE  d + 1 \in S
  <2> SUFFICES ASSUME k + (d + 1) <= n
               PROVE  Total(g, k) <= Total(g, k + (d + 1))
    OBVIOUS
  <2>1. k + d \in Nat /\ k + d <= n /\ k + (d + 1) = (k + d) + 1
    OBVIOUS
  <2>2. Total(g, k) <= Total(g, k + d) /\ g[(k + d) + 1] \in Nat
    BY <1>2, <2>1
  <2>3. Total(g, (k + d) + 1) = Total(g, k + d) + g[(k + d) + 1]
    BY <2>1, TotalStep
  <2>4. Total(g, k) \in Nat /\ Total(g, k + d) \in Nat
    BY <2>1, TotalNat
  <2> QED
    BY <2>1, <2>2, <2>3, <2>4
<1>3. Nat \subseteq S
  <2> HIDE DEF S
  <2> QED
    BY <1>1, <1>2, SimpleInduction
<1>4. n - k \in Nat /\ k + (n - k) = n
  OBVIOUS
<1> QED
  BY <1>3, <1>4

\* A change of one value changes the sum by as much.
LEMMA TotalChanged ==
    ASSUME NEW g, NEW h, NEW n \in Nat, NEW b \in 1 .. n,
           \A i \in 1 .. n : g[i] \in Nat /\ h[i] \in Nat /\ (i # b => h[i] = g[i])
    PROVE  Total(h, n) + g[b] = Total(g, n) + h[b]
<1> DEFINE S == {k \in Nat : k <= n => Total(h, k) + (IF b <= k THEN g[b] ELSE 0)
                                       = Total(g, k) + (IF b <= k THEN h[b] ELSE 0)}
<1>1. 0 \in S
  BY TotalStep
<1>2. ASSUME NEW k \in Nat, k \in S
      PROVE  k + 1 \in S
  <2> SUFFICES ASSUME k + 1 <= n
               PROVE  Total(h, k + 1) + (IF b <= k + 1 THEN g[b] ELSE 0)
                      = Total(g, k + 1) + (IF b <= k + 1 THEN h[b] ELSE 0)
    OBVIOUS
  <2>1. Total(h, k) + (IF b <= k THEN g[b] ELSE 0) = Total(g, k) + (IF b <= k THEN h[b] ELSE 0)
    BY <1>2
  <2>2. /\ Total(g, k + 1) = Total(g, k) + g[k + 1]
        /\ Total(h, k + 1) = Total(h, k) + h[k + 1]
    BY TotalStep
  <2>3. Total(g, k) \in Nat /\ Total(h, k) \in Nat /\ g[b] \in Nat /\ h[b] \in Nat
        /\ g[k + 1] \in Nat /\ h[k + 1] \in Nat /\ (k + 1 # b => h[k + 1] = g[k + 1])
    BY TotalNat
  <2> QED
    BY <2>1, <2>2, <2>3
<1>3. Nat \subseteq S
  <2> HIDE DEF S
  <2> QED
    BY <1>1, <1>2, SimpleInduction
<1> QED
  BY <1>3

-----------------------------------------------------------------------------
(* Chains of blocks.                                                       *)

UsedOf(chain) == [b \in DOMAIN chain |-> chain[b].used]
SizeOf(chain) == [b \in DOMAIN chain |-> chain[b].size]

LEMMA ChainIs ==
    ASSUME NEW chain \in Seq(Block)
    PROVE  /\ Len(chain) \in Nat /\ DOMAIN chain = 1 .. Len(chain)
           /\ chain = [i \in 1 .. Len(chain) |-> chain[i]]
           /\ \A b \in 1 .. Len(chain) :
                 /\ chain[b] \in Block /\ chain[b].base \in Bases /\ chain[b].base \in Nat
                 /\ chain[b].size \in Nat /\ chain[b].used \in Nat
                 /\ UsedOf(chain)[b] = chain[b].used /\ SizeOf(chain)[b] = chain[b].size
<1>1. /\ Len(chain) \in Nat /\ DOMAIN chain = 1 .. Len(chain)
      /\ chain = [i \in 1 .. Len(chain) |-> chain[i]]
  BY LenProperties
<1>2. \A b \in 1 .. Len(chain) : chain[b] \in Block
  BY ElementOfSeq
<1> QED
  BY <1>1, <1>2, SizesAssumption DEF Block, UsedOf, SizeOf

LEMMA SumUsedIs ==
    ASSUME NEW chain \in Seq(Block)
    PROVE  SumUsed(chain) = Total(UsedOf(chain), Len(chain))
<1> DEFINE n == Len(chain)
           g == UsedOf(chain)
           Step(f) == [b \in 0 .. n |-> IF b = 0 THEN 0 ELSE f[b - 1] + chain[b].used]
           P(f) == f = Step(f)
           sum == CHOOSE f : P(f)
<1>1. n \in Nat /\ \A b \in 1 .. n : g[b] = chain[b].used
  BY ChainIs
<1>2. \A f : IsSum(f, g, n) <=> P(f)
  <2> TAKE f
  <2>1. \A b \in 0 .. n : b # 0 => g[b] = chain[b].used
    BY <1>1
  <2> HIDE DEF g, n
  <2>2. [b \in 0 .. n |-> IF b = 0 THEN 0 ELSE f[b - 1] + g[b]]
        = [b \in 0 .. n |-> IF b = 0 THEN 0 ELSE f[b - 1] + chain[b].used]
    BY <2>1
  <2> QED
    BY <2>2 DEF IsSum
<1>3. SumUsed(chain) = sum[n]
  BY DEF SumUsed
<1> HIDE DEF g, n, P
<1>4. P(sum)
  BY <1>1, <1>2, SumsExist
<1> HIDE DEF sum
<1>5. sum[n] = Total(g, n)
  BY <1>1, <1>2, <1>4, TotalIs
<1> QED
  BY <1>3, <1>5 DEF g, n

\* The blocks are those of chain, but for what is used of them.
SameBlocks(other, chain) ==
    /\ other \in Seq(Block) /\ Len(other) = Len(chain)
    /\ \A b \in 1 .. Len(chain) : other[b].size = chain[b].size

LEMMA SameSizes ==
    ASSUME NEW chain \in Seq(Block), NEW other, SameBlocks(other, chain)
    PROVE  Total(SizeOf(other), Len(other)) = Total(SizeOf(chain), Len(chain))
<1>1. SizeOf(other) = SizeOf(chain)
  <2>1. /\ Len(other) = Len(chain) /\ DOMAIN other = 1 .. Len(other)
        /\ DOMAIN chain = 1 .. Len(chain)
    BY ChainIs DEF SameBlocks
  <2> QED
    BY <2>1 DEF SizeOf, SameBlocks
<1> QED
  BY <1>1 DEF SameBlocks

LEMMA UsedSet ==
    ASSUME NEW chain \in Seq(Block), NEW b \in 1 .. Len(chain), NEW u \in Nat
    PROVE  /\ SameBlocks([chain EXCEPT ![b].used = u], chain)
           /\ [chain EXCEPT ![b].used = u][b].used = u
           /\ \A i \in 1 .. Len(chain) : i # b => [chain EXCEPT ![b].used = u][i] = chain[i]
<1> DEFINE r == [chain[b] EXCEPT !.used = u]
           other == [chain EXCEPT ![b] = r]
<1>1. /\ DOMAIN chain = 1 .. Len(chain) /\ chain[b] \in Block
  BY ChainIs
<1>2. r \in Block /\ r.used = u /\ r.size = chain[b].size
  BY <1>1 DEF Block
<1>3. [chain EXCEPT ![b].used = u] = other
  OBVIOUS
<1> HIDE DEF r
<1>4. /\ other \in Seq(Block) /\ Len(other) = Len(chain)
      /\ \A i \in 1 .. Len(chain) : other[i] = IF i = b THEN r ELSE chain[i]
  BY <1>2, ExceptSeq
<1> HIDE DEF other
<1> QED
  BY <1>2, <1>3, <1>4 DEF SameBlocks

-----------------------------------------------------------------------------
(* Addresses.                                                              *)

LEMMA Division ==
    ASSUME NEW x \in Nat, NEW a \in Nat \ {0}
    PROVE  (x \div a) \in Nat /\ x = a * (x \div a) + (x % a) /\ (x % a) \in 0 .. a - 1
OBVIOUS

LEMMA RoundedUp ==
    ASSUME NEW x \in Nat, NEW a \in Nat \ {0}
    PROVE  /\ ((x + a - 1) \div a) * a \in Nat
           /\ x <= ((x + a - 1) \div a) * a /\ ((x + a - 1) \div a) * a <= x + a - 1
<1> DEFINE y == x + a - 1
           q == y \div a
<1>1. y \in Nat /\ y = x + (a - 1)
  OBVIOUS
<1> HIDE DEF y
<1>2. q \in Nat /\ y = a * q + (y % a) /\ (y % a) \in 0 .. a - 1
  BY <1>1, Division
<1> HIDE DEF q
<1>3. a * q \in Nat /\ q * a = a * q
  BY <1>2
<1> DEFINE p == a * q
<1> HIDE DEF p
<1>4. p \in Nat /\ x <= p /\ p <= x + a - 1
  BY <1>1, <1>2, <1>3 DEF p
<1> QED
  BY <1>3, <1>4 DEF p, q, y

\* An aligned offset is behind what is used, by less than the alignment.
LEMMA AlignedBehind ==
    ASSUME NEW block, block.base \in Nat, block.used \in Nat, NEW alignment \in Nat \ {0}
    PROVE  /\ AlignedUsed(block, alignment) \in Nat
           /\ block.used <= AlignedUsed(block, alignment)
           /\ AlignedUsed(block, alignment) < block.used + alignment
<1> DEFINE x == block.base + block.used
           r == ((x + alignment - 1) \div alignment) * alignment
<1>1. x \in Nat
  OBVIOUS
<1>2. AlignedUsed(block, alignment) = r - block.base
  BY DEF AlignedUsed
<1>3. r \in Nat /\ x <= r /\ r <= x + alignment - 1
  <2> HIDE DEF x
  <2> QED
    BY <1>1, RoundedUp
<1> HIDE DEF r
<1> QED
  BY <1>1, <1>2, <1>3

-----------------------------------------------------------------------------
(* The invariant.                                                          *)

LiveOld == \A a \in live : a.time <= time

\* What is live since before a checkpoint lies before it.
Placed(cp) ==
    /\ cp.time <= time /\ cp.block <= Len(blocks)
    /\ cp.block # 0 => cp.offset <= blocks[cp.block].size
    /\ \A a \in live :
          a.time < cp.time => a.block < cp.block \/ (a.block = cp.block /\ a.to <= cp.offset)

CheckpointsPlaced == \A cp \in ToSet(checkpoints) \cup ToSet(scopes) : Placed(cp)

SizesCounted == totalAllocated = Total(SizeOf(blocks), Len(blocks))

IInv ==
    /\ TypeOK
    /\ LiveDisjoint
    /\ LiveInUse
    /\ BlocksFilledInOrder
    /\ totalUsed <= SumUsed(blocks)
    /\ SizesCounted
    /\ LiveOld
    /\ CheckpointsPlaced

LEMMA IInvBegins == Init => IInv
<1> SUFFICES ASSUME Init
             PROVE  IInv
  OBVIOUS
<1>1. /\ blocks = <<>> /\ currentBlock = 0 /\ totalAllocated = 0 /\ totalUsed = 0
      /\ checkpoints = <<>> /\ scopes = <<>> /\ live = {} /\ time = 0
  BY DEF Init
<1>2. blocks \in Seq(Block) /\ Len(blocks) = 0 /\ checkpoints \in Seq(Checkpoint)
      /\ scopes \in Seq(Checkpoint)
  BY <1>1, EmptySeq
<1>3. TypeOK
  BY <1>1, <1>2 DEF TypeOK
<1>4. SumUsed(blocks) = 0 /\ SizesCounted
  BY <1>1, <1>2, SumUsedIs, TotalStep DEF SizesCounted
<1>5. CheckpointsPlaced
  BY <1>1 DEF CheckpointsPlaced, ToSet
<1> QED
  BY <1>1, <1>3, <1>4, <1>5 DEF IInv, LiveDisjoint, LiveInUse, BlocksFilledInOrder, LiveOld

LEMMA MembersAre ==
    ASSUME NEW T, NEW s \in Seq(T)
    PROVE  ToSet(s) \subseteq T
BY LenProperties, ElementOfSeq DEF ToSet

\* What is known where the invariant holds
LEMMA TypesAre ==
    ASSUME IInv
    PROVE  /\ blocks \in Seq(Block) /\ Len(blocks) \in Nat /\ DOMAIN blocks = 1 .. Len(blocks)
           /\ currentBlock \in 0 .. Len(blocks) /\ totalAllocated \in Nat /\ totalUsed \in Nat
           /\ checkpoints \in Seq(Checkpoint) /\ scopes \in Seq(Checkpoint)
           /\ live \subseteq Allocation /\ time \in Nat
           /\ ToSet(checkpoints) \subseteq Checkpoint /\ ToSet(scopes) \subseteq Checkpoint
           /\ \A b \in 1 .. Len(blocks) :
                 /\ blocks[b].base \in Nat /\ blocks[b].size \in Nat /\ blocks[b].used \in Nat
                 /\ blocks[b].used <= blocks[b].size
           /\ \A a \in live : /\ a.block \in 1 .. currentBlock /\ a.block \in 1 .. Len(blocks)
                              /\ a.to \in Nat /\ a.time \in Nat /\ a.from \in Nat
                              /\ a.time <= time /\ a.to <= blocks[a.block].used
<1>1. /\ blocks \in Seq(Block) /\ currentBlock \in 0 .. Len(blocks) /\ totalAllocated \in Nat
      /\ totalUsed \in Nat /\ checkpoints \in Seq(Checkpoint) /\ scopes \in Seq(Checkpoint)
      /\ live \subseteq Allocation /\ time \in Nat
  BY DEF IInv, TypeOK
<1>2. Len(blocks) \in Nat /\ DOMAIN blocks = 1 .. Len(blocks)
      /\ \A b \in 1 .. Len(blocks) :
            blocks[b].base \in Nat /\ blocks[b].size \in Nat /\ blocks[b].used \in Nat
  BY <1>1, ChainIs
<1>3. \A b \in 1 .. Len(blocks) : blocks[b].used <= blocks[b].size
  BY <1>2 DEF IInv, BlocksFilledInOrder
<1>4. ToSet(checkpoints) \subseteq Checkpoint /\ ToSet(scopes) \subseteq Checkpoint
  BY <1>1, MembersAre
<1>5. ASSUME NEW a \in live
      PROVE  /\ a.block \in 1 .. currentBlock /\ a.block \in 1 .. Len(blocks)
             /\ a.to \in Nat /\ a.time \in Nat /\ a.from \in Nat
             /\ a.time <= time /\ a.to <= blocks[a.block].used
  <2>1. a.block \in Nat \ {0} /\ a.to \in Nat /\ a.time \in Nat /\ a.from \in Nat
    BY <1>1 DEF Allocation
  <2>2. a.block <= currentBlock /\ a.to <= blocks[a.block].used /\ a.time <= time
    BY DEF IInv, LiveInUse, LiveOld
  <2> QED
    BY <1>1, <1>2, <2>1, <2>2
<1> QED
  BY <1>1, <1>2, <1>3, <1>4, <1>5

-----------------------------------------------------------------------------
(* Every step keeps the invariant.                                         *)

\* A step that makes no allocation: the blocks stay as they are but for what is
\* used of them, and a checkpoint was there before, or is placed.
GivesBack ==
    /\ SameBlocks(blocks', blocks)
    /\ currentBlock' \in 0 .. Len(blocks)
    /\ \A b \in 1 .. Len(blocks) : /\ blocks'[b].used <= blocks[b].size
                                   /\ b > currentBlock' => blocks'[b].used = 0
    /\ live' \subseteq live
    /\ \A a \in live' : a.block <= currentBlock' /\ a.to <= blocks'[a.block].used
    /\ totalAllocated' = totalAllocated
    /\ totalUsed' \in Nat /\ totalUsed' <= SumUsed(blocks')
    /\ time' \in Nat /\ time <= time'
    /\ checkpoints' \in Seq(Checkpoint) /\ scopes' \in Seq(Checkpoint)
    /\ \A cp \in ToSet(checkpoints') \cup ToSet(scopes') :
          cp \in ToSet(checkpoints) \cup ToSet(scopes) \/ Placed(cp)'

LEMMA GivingBackKeeps ==
    ASSUME IInv, GivesBack
    PROVE  IInv'
<1>1. /\ blocks \in Seq(Block) /\ Len(blocks) \in Nat /\ DOMAIN blocks = 1 .. Len(blocks)
      /\ live \subseteq Allocation /\ time \in Nat /\ totalAllocated \in Nat
      /\ ToSet(checkpoints) \subseteq Checkpoint /\ ToSet(scopes) \subseteq Checkpoint
      /\ \A a \in live : a.time \in Nat /\ a.time <= time
  BY TypesAre
<1>2. /\ blocks' \in Seq(Block) /\ Len(blocks') = Len(blocks) /\ DOMAIN blocks' = 1 .. Len(blocks)
      /\ \A b \in 1 .. Len(blocks) : blocks'[b].size = blocks[b].size
  BY ChainIs DEF GivesBack, SameBlocks
<1>3. TypeOK'
  BY <1>1, <1>2 DEF GivesBack, TypeOK
<1>4. LiveDisjoint'
  BY DEF GivesBack, IInv, LiveDisjoint
<1>5. LiveInUse' /\ BlocksFilledInOrder' /\ (totalUsed <= SumUsed(blocks))'
  BY <1>2 DEF GivesBack, LiveInUse, BlocksFilledInOrder
<1>6. SizesCounted'
  <2>1. Total(SizeOf(blocks'), Len(blocks')) = Total(SizeOf(blocks), Len(blocks))
    BY <1>1, SameSizes DEF GivesBack
  <2> QED
    BY <2>1 DEF GivesBack, IInv, SizesCounted
<1>7. LiveOld'
  BY <1>1 DEF GivesBack, LiveOld
<1>8. CheckpointsPlaced'
  <2> SUFFICES ASSUME NEW cp \in ToSet(checkpoints') \cup ToSet(scopes')
               PROVE  Placed(cp)'
    BY DEF CheckpointsPlaced
  <2> SUFFICES ASSUME cp \in ToSet(checkpoints) \cup ToSet(scopes)
               PROVE  Placed(cp)'
    BY DEF GivesBack
  <2>1. Placed(cp) /\ cp.time \in Nat /\ cp.block \in Nat
    BY <1>1 DEF IInv, CheckpointsPlaced, Checkpoint
  <2>2. cp.time <= time'
    BY <1>1, <2>1 DEF GivesBack, Placed
  <2>3. cp.block # 0 => cp.offset <= blocks'[cp.block].size
    BY <1>1, <1>2, <2>1 DEF Placed
  <2> QED
    BY <1>2, <2>1, <2>2, <2>3 DEF GivesBack, Placed
<1> QED
  BY <1>3, <1>4, <1>5, <1>6, <1>7, <1>8 DEF IInv

LEMMA EmptiedIs ==
    ASSUME blocks \in Seq(Block), NEW b \in Nat
    PROVE  /\ SameBlocks(EmptiedFrom(b), blocks)
           /\ \A i \in 1 .. Len(blocks) :
                 EmptiedFrom(b)[i].used = IF i >= b THEN 0 ELSE blocks[i].used
<1> DEFINE n == Len(blocks)
           other == [i \in 1 .. n |-> IF i >= b THEN [blocks[i] EXCEPT !.used = 0]
                                                ELSE blocks[i]]
<1>1. n \in Nat /\ DOMAIN blocks = 1 .. n /\ \A i \in 1 .. n : blocks[i] \in Block
  BY ChainIs
<1>2. EmptiedFrom(b) = other
  BY <1>1 DEF EmptiedFrom
<1>3. \A i \in 1 .. n : /\ other[i] \in Block /\ other[i].size = blocks[i].size
                        /\ other[i].used = IF i >= b THEN 0 ELSE blocks[i].used
  BY <1>1 DEF Block
<1>4. DOMAIN other = 1 .. n /\ other = [i \in 1 .. n |-> other[i]]
  OBVIOUS
<1> HIDE DEF other
<1>5. other \in Seq(Block) /\ Len(other) = n
  <2>1. other \in [1 .. n -> Block]
    BY <1>3, <1>4
  <2> HIDE DEF n
  <2>2. other \in Seq(Block)
    BY <1>1, <2>1, SeqDef
  <2> QED
    BY <1>1, <1>4, <2>2, LenProperties
<1> QED
  BY <1>2, <1>3, <1>5 DEF SameBlocks

\* What the sum says after a step that keeps the blocks
LEMMA SumNat ==
    ASSUME NEW chain \in Seq(Block)
    PROVE  /\ SumUsed(chain) \in Nat
           /\ \A b \in 0 .. Len(chain) :
                 /\ SumUsed(SubSeq(chain, 1, b)) \in Nat
                 /\ SumUsed(SubSeq(chain, 1, b)) <= SumUsed(chain)
<1>1. Len(chain) \in Nat /\ \A i \in 1 .. Len(chain) : UsedOf(chain)[i] \in Nat
  BY ChainIs
<1>2. SumUsed(chain) \in Nat
  BY <1>1, SumUsedIs, TotalNat
<1>3. ASSUME NEW b \in 0 .. Len(chain)
      PROVE  /\ SumUsed(SubSeq(chain, 1, b)) \in Nat
             /\ SumUsed(SubSeq(chain, 1, b)) <= SumUsed(chain)
  <2> DEFINE part == SubSeq(chain, 1, b)
             g == UsedOf(part)
             h == UsedOf(chain)
  <2>1. part \in Seq(Block) /\ Len(part) = b /\ \A i \in 1 .. b : part[i] = chain[i]
    BY <1>1, SubSeqProperties
  <2>2. \A i \in 1 .. b : g[i] = h[i] /\ g[i] \in Nat
    <3> HIDE DEF part
    <3>1. \A i \in 1 .. b : g[i] = part[i].used
      BY <2>1, ChainIs
    <3>2. \A i \in 1 .. b : h[i] = chain[i].used /\ h[i] \in Nat
      BY <1>1, ChainIs
    <3> QED
      BY <2>1, <3>1, <3>2
  <2>3. SumUsed(part) = Total(g, b) /\ SumUsed(chain) = Total(h, Len(chain))
    BY <2>1, SumUsedIs
  <2>4. \A i \in 1 .. Len(chain) : h[i] \in Nat
    BY <1>1
  <2>5. b \in Nat /\ b <= Len(chain)
    BY <1>1
  <2> HIDE DEF part, g, h
  <2>6. Total(g, b) \in Nat /\ Total(h, b) \in Nat /\ Total(g, b) <= Total(h, b)
    <3>1. \A i \in 1 .. b : g[i] \in Nat /\ h[i] \in Nat /\ g[i] <= h[i]
      BY <2>2
    <3> QED
      BY <2>5, <3>1, TotalsCompare
  <2>7. Total(h, b) <= Total(h, Len(chain)) /\ Total(h, Len(chain)) \in Nat
    BY <1>1, <2>4, TotalOfFewer, TotalNat
  <2> QED
    BY <2>3, <2>6, <2>7 DEF part
<1> QED
  BY <1>2, <1>3

LEMMA UnchangedKeeps ==
    ASSUME IInv, UNCHANGED vars
    PROVE  IInv'
<1> QED
  BY DEF vars, arenaVars, IInv, TypeOK, LiveDisjoint, LiveInUse, BlocksFilledInOrder,
         SizesCounted, LiveOld, CheckpointsPlaced, Placed

\* Where the arena stands is a place for a checkpoint.
LEMMA PositionPlaced ==
    ASSUME IInv, UNCHANGED <<arenaVars, live>>, time' = time + 1, NEW p, p = Position
    PROVE  p \in Checkpoint /\ Placed(p)'
<1>1. /\ currentBlock \in 0 .. Len(blocks) /\ Len(blocks) \in Nat /\ time \in Nat
      /\ \A b \in 1 .. Len(blocks) : blocks[b].used \in Nat /\ blocks[b].used <= blocks[b].size
      /\ \A a \in live : a.block \in 1 .. currentBlock /\ a.to <= blocks[a.block].used
  BY TypesAre
<1>2. /\ p.block = currentBlock /\ p.time = time + 1
      /\ p.offset = IF currentBlock = 0 THEN 0 ELSE blocks[currentBlock].used
  BY DEF Position
<1>3. p.offset \in Nat /\ p \in Checkpoint
  BY <1>1, <1>2 DEF Position, Checkpoint
<1>4. Placed(p)'
  BY <1>1, <1>2 DEF Placed, arenaVars
<1> QED
  BY <1>3, <1>4

LEMMA AppendMembers ==
    ASSUME NEW T, NEW s \in Seq(T), NEW x \in T
    PROVE  Append(s, x) \in Seq(T) /\ ToSet(Append(s, x)) = ToSet(s) \cup {x}
<1> DEFINE u == Append(s, x)
<1>1. /\ u \in Seq(T) /\ Len(u) = Len(s) + 1 /\ u[Len(s) + 1] = x
      /\ \A i \in 1 .. Len(s) : u[i] = s[i]
  BY AppendProperties
<1>2. Len(s) \in Nat /\ DOMAIN s = 1 .. Len(s) /\ DOMAIN u = 1 .. Len(s) + 1
  BY <1>1, LenProperties
<1> HIDE DEF u
<1>3. ToSet(u) = ToSet(s) \cup {x}
  <2>1. \A i \in 1 .. Len(s) + 1 : i \in 1 .. Len(s) \/ i = Len(s) + 1
    BY <1>2
  <2> QED
    BY <1>1, <1>2, <2>1 DEF ToSet
<1> QED
  BY <1>1, <1>3 DEF u

\* A step that only saves a checkpoint, of a scope or not
LEMMA SavingKeeps ==
    ASSUME IInv, UNCHANGED <<arenaVars, live>>, time' = time + 1,
           checkpoints' = Append(checkpoints, Position),
           scopes' = scopes \/ scopes' = Append(scopes, Position)
    PROVE  IInv'
<1>1. /\ blocks \in Seq(Block) /\ Len(blocks) \in Nat /\ DOMAIN blocks = 1 .. Len(blocks)
      /\ currentBlock \in 0 .. Len(blocks) /\ totalUsed \in Nat /\ time \in Nat
      /\ checkpoints \in Seq(Checkpoint) /\ scopes \in Seq(Checkpoint)
      /\ \A b \in 1 .. Len(blocks) : blocks[b].used <= blocks[b].size
      /\ \A a \in live : a.block \in 1 .. currentBlock /\ a.to <= blocks[a.block].used
  BY TypesAre
<1>2. PICK p : p = Position
  OBVIOUS
<1>3. p \in Checkpoint /\ Placed(p)'
  BY <1>2, PositionPlaced
<1>4. /\ checkpoints' \in Seq(Checkpoint) /\ scopes' \in Seq(Checkpoint)
      /\ ToSet(checkpoints') = ToSet(checkpoints) \cup {p}
      /\ ToSet(scopes') \subseteq ToSet(scopes) \cup {p}
  <2>1. /\ Append(checkpoints, p) \in Seq(Checkpoint)
        /\ ToSet(Append(checkpoints, p)) = ToSet(checkpoints) \cup {p}
    BY <1>1, <1>3, AppendMembers
  <2>2. /\ Append(scopes, p) \in Seq(Checkpoint)
        /\ ToSet(Append(scopes, p)) = ToSet(scopes) \cup {p}
    BY <1>1, <1>3, AppendMembers
  <2>3. checkpoints' = Append(checkpoints, p) /\ (scopes' = scopes \/ scopes' = Append(scopes, p))
    BY <1>2
  <2> QED
    BY <1>1, <2>1, <2>2, <2>3
<1>5. SameBlocks(blocks, blocks)
  BY <1>1 DEF SameBlocks
<1>6. \A b \in 1 .. Len(blocks) : b > currentBlock => blocks[b].used = 0
  BY <1>1 DEF IInv, BlocksFilledInOrder
<1>7. totalUsed <= SumUsed(blocks)
  BY DEF IInv
<1>8. GivesBack
  BY <1>1, <1>3, <1>4, <1>5, <1>6, <1>7 DEF GivesBack, arenaVars
<1> QED
  BY <1>8, GivingBackKeeps

LEMMA ClearKeeps ==
    ASSUME IInv, Clear
    PROVE  IInv'
<1>1. /\ blocks' = <<>> /\ currentBlock' = 0 /\ totalAllocated' = 0 /\ totalUsed' = 0
      /\ checkpoints' = <<>> /\ scopes' = <<>> /\ live' = {} /\ time' = time /\ time \in Nat
  BY TypesAre DEF Clear
<1>2. blocks' \in Seq(Block) /\ Len(blocks') = 0 /\ checkpoints' \in Seq(Checkpoint)
      /\ scopes' \in Seq(Checkpoint)
  BY <1>1, EmptySeq
<1>3. TypeOK'
  BY <1>1, <1>2 DEF TypeOK
<1>4. SumUsed(blocks') = 0 /\ SizesCounted'
  BY <1>1, <1>2, SumUsedIs, TotalStep DEF SizesCounted
<1>5. CheckpointsPlaced'
  BY <1>1 DEF CheckpointsPlaced, ToSet
<1> QED
  BY <1>1, <1>3, <1>4, <1>5 DEF IInv, LiveDisjoint, LiveInUse, BlocksFilledInOrder, LiveOld

\* A step that empties every block, and may drop checkpoints
LEMMA ResettingKeeps ==
    ASSUME IInv, ResetBlocks, live' = {}, UNCHANGED <<totalAllocated, time>>,
           checkpoints' \in Seq(Checkpoint), scopes' \in Seq(Checkpoint),
           ToSet(checkpoints') \cup ToSet(scopes') \subseteq ToSet(checkpoints) \cup ToSet(scopes)
    PROVE  IInv'
<1>1. /\ blocks \in Seq(Block) /\ Len(blocks) \in Nat /\ time \in Nat
      /\ \A b \in 1 .. Len(blocks) : blocks[b].size \in Nat
  BY TypesAre
<1>2. /\ SameBlocks(blocks', blocks)
      /\ \A i \in 1 .. Len(blocks) : blocks'[i].used = 0
  BY <1>1, EmptiedIs DEF ResetBlocks
<1>3. currentBlock' \in 0 .. Len(blocks)
  <2>1. blocks # <<>> => Len(blocks) > 0
    BY <1>1, EmptySeq, LenProperties
  <2> QED
    BY <1>1, <2>1 DEF ResetBlocks
<1>4. totalUsed' = 0 /\ SumUsed(blocks') \in Nat
  BY <1>2, SumNat DEF ResetBlocks, SameBlocks
<1>5. GivesBack
  BY <1>1, <1>2, <1>3, <1>4 DEF GivesBack
<1> QED
  BY <1>5, GivingBackKeeps

LEMMA UpToPart ==
    ASSUME NEW cps \in Seq(Checkpoint), NEW cp
    PROVE  UpTo(cps, cp) \in Seq(Checkpoint) /\ ToSet(UpTo(cps, cp)) \subseteq ToSet(cps)
<1> DEFINE E == {i \in DOMAIN cps : Same(cps[i], cp)}
<1>1. Len(cps) \in Nat /\ DOMAIN cps = 1 .. Len(cps)
  BY LenProperties
<1>2. CASE E = {}
  BY <1>2 DEF UpTo
<1>3. CASE E # {}
  <2>1. E \subseteq Nat
    BY <1>1
  <2>2. Min(E) \in E
    <3> HIDE DEF E
    <3>1. \E x \in E : \A y \in E : x <= y
      BY <1>3, <2>1, LeastNatural
    <3> QED
      BY <3>1 DEF Min
  <2>3. UpTo(cps, cp) = SubSeq(cps, 1, Min(E))
    BY <1>3 DEF UpTo
  <2>4. Min(E) \in 1 .. Len(cps)
    BY <1>1, <2>2
  <2> HIDE DEF E
  <2> DEFINE k == Min(E)
             part == SubSeq(cps, 1, k)
  <2> HIDE DEF k
  <2>5. k \in 1 .. Len(cps)
    BY <2>4 DEF k
  <2>6. part \in Seq(Checkpoint) /\ Len(part) = k /\ \A i \in 1 .. k : part[i] = cps[i]
    BY <1>1, <2>5, SubSeqProperties
  <2>7. DOMAIN part = 1 .. k
    BY <2>6, LenProperties
  <2> HIDE DEF part
  <2>8. ToSet(part) \subseteq ToSet(cps)
    BY <1>1, <2>5, <2>6, <2>7 DEF ToSet
  <2> QED
    BY <2>3, <2>6, <2>8 DEF part, k
<1> QED
  BY <1>2, <1>3


\* Restoring a checkpoint the arena or a scope has
LEMMA RestoringKeeps ==
    ASSUME IInv, NEW cp \in ToSet(checkpoints) \cup ToSet(scopes),
           NEW cps \in Seq(Checkpoint), ToSet(cps) \subseteq ToSet(checkpoints),
           Restore(cp, cps),
           scopes' \in Seq(Checkpoint), ToSet(scopes') \subseteq ToSet(scopes)
    PROVE  IInv'
<1>1. /\ blocks \in Seq(Block) /\ Len(blocks) \in Nat /\ time \in Nat
      /\ \A b \in 1 .. Len(blocks) : /\ blocks[b].size \in Nat /\ blocks[b].used \in Nat
                                     /\ blocks[b].used <= blocks[b].size
      /\ \A a \in live : a.block \in 1 .. Len(blocks) /\ a.to <= blocks[a.block].used
      /\ ToSet(checkpoints) \subseteq Checkpoint /\ ToSet(scopes) \subseteq Checkpoint
  BY TypesAre
<1>2. /\ cp.block \in 0 .. Len(blocks) /\ cp.offset \in Nat /\ cp.time \in Nat
      /\ cp.block # 0 => cp.offset <= blocks[cp.block].size
      /\ \A a \in live : a.time < cp.time =>
                            a.block < cp.block \/ (a.block = cp.block /\ a.to <= cp.offset)
  <2>1. Placed(cp) /\ cp \in Checkpoint
    BY <1>1 DEF IInv, CheckpointsPlaced
  <2>2. cp.block \in Nat /\ cp.offset \in Nat /\ cp.time \in Nat
    BY <2>1 DEF Checkpoint
  <2> QED
    BY <1>1, <2>1, <2>2 DEF Placed
<1>3. checkpoints' \in Seq(Checkpoint) /\ ToSet(checkpoints') \subseteq ToSet(checkpoints)
  BY UpToPart DEF Restore
<1>4. /\ live' = {a \in live : a.time < cp.time}
      /\ totalAllocated' = totalAllocated /\ time' = time
  BY DEF Restore
<1>5. CASE cp.block = 0
  <2>1. ResetBlocks
    BY <1>5 DEF Restore
  <2>2. live' = {}
    BY <1>1, <1>2, <1>4, <1>5
  <2> QED
    BY <1>3, <1>4, <2>1, <2>2, ResettingKeeps
<1>6. CASE cp.block # 0
  <2> DEFINE b == cp.block
             E == EmptiedFrom(b + 1)
  <2>1. /\ blocks' = [E EXCEPT ![b].used = cp.offset] /\ currentBlock' = b
        /\ totalUsed' = SumUsed(SubSeq(blocks', 1, b))
    BY <1>6 DEF Restore
  <2>2. b \in 1 .. Len(blocks) /\ b + 1 \in Nat
    BY <1>1, <1>2, <1>6
  <2> HIDE DEF b
  <2>3. /\ SameBlocks(E, blocks)
        /\ \A i \in 1 .. Len(blocks) : E[i].used = IF i >= b + 1 THEN 0 ELSE blocks[i].used
    BY <1>1, <2>2, EmptiedIs
  <2> HIDE DEF E
  <2>4. E \in Seq(Block) /\ b \in 1 .. Len(E) /\ Len(E) = Len(blocks)
    BY <2>2, <2>3 DEF SameBlocks
  <2>5. /\ SameBlocks(blocks', E) /\ blocks'[b].used = cp.offset
        /\ \A i \in 1 .. Len(E) : i # b => blocks'[i] = E[i]
    <3> DEFINE u == cp.offset
    <3>1. u \in Nat
      BY <1>2
    <3>2. blocks' = [E EXCEPT ![b].used = u]
      BY <2>1
    <3> HIDE DEF u
    <3>3. /\ SameBlocks([E EXCEPT ![b].used = u], E)
          /\ [E EXCEPT ![b].used = u][b].used = u
          /\ \A i \in 1 .. Len(E) : i # b => [E EXCEPT ![b].used = u][i] = E[i]
      BY <2>4, <3>1, UsedSet
    <3> QED
      BY <3>2, <3>3 DEF u
  <2>6. SameBlocks(blocks', blocks)
    BY <2>3, <2>5 DEF SameBlocks
  <2>7. \A i \in 1 .. Len(blocks) :
           blocks'[i].used = IF i = b THEN cp.offset
                             ELSE IF i > b THEN 0 ELSE blocks[i].used
    BY <1>1, <2>2, <2>3, <2>4, <2>5
  <2>8. cp.offset <= blocks[b].size
    BY <1>2, <1>6 DEF b
  <2>9. \A i \in 1 .. Len(blocks) : /\ blocks'[i].used <= blocks[i].size
                                    /\ i > currentBlock' => blocks'[i].used = 0
    BY <1>1, <2>1, <2>2, <2>7, <2>8
  <2>10. \A a \in live' : a.block <= currentBlock' /\ a.to <= blocks'[a.block].used
    <3> SUFFICES ASSUME NEW a \in live'
                 PROVE  a.block <= currentBlock' /\ a.to <= blocks'[a.block].used
      OBVIOUS
    <3>1. /\ a.block \in 1 .. Len(blocks) /\ a.to <= blocks[a.block].used
          /\ a.block < b \/ (a.block = b /\ a.to <= cp.offset)
      BY <1>1, <1>2, <1>4 DEF b
    <3> QED
      BY <1>1, <2>1, <2>2, <2>7, <3>1
  <2>11. totalUsed' \in Nat /\ totalUsed' <= SumUsed(blocks')
    <3>1. blocks' \in Seq(Block) /\ b \in 0 .. Len(blocks')
      BY <2>2, <2>6 DEF SameBlocks
    <3> QED
      BY <2>1, <3>1, SumNat
  <2>12. GivesBack
    BY <1>1, <1>3, <1>4, <2>1, <2>2, <2>6, <2>9, <2>10, <2>11 DEF GivesBack
  <2> QED
    BY <2>12, GivingBackKeeps
<1> QED
  BY <1>5, <1>6

LEMMA EndMembers ==
    ASSUME NEW T, NEW s \in Seq(T), s # <<>>
    PROVE  /\ Last(s) \in ToSet(s)
           /\ Front(s) \in Seq(T) /\ ToSet(Front(s)) \subseteq ToSet(s)
<1>1. Len(s) \in Nat \ {0} /\ DOMAIN s = 1 .. Len(s)
  BY LenProperties, EmptySeq
<1>2. Last(s) \in ToSet(s)
  BY <1>1 DEF Last, ToSet
<1> DEFINE part == SubSeq(s, 1, Len(s) - 1)
<1>3. part \in Seq(T) /\ Len(part) = Len(s) - 1 /\ \A i \in 1 .. Len(s) - 1 : part[i] = s[i]
  BY <1>1, SubSeqProperties
<1>4. DOMAIN part = 1 .. Len(s) - 1
  BY <1>3, LenProperties
<1>5. Front(s) = part
  BY DEF Front
<1> HIDE DEF part
<1>6. ToSet(part) \subseteq ToSet(s)
  BY <1>1, <1>3, <1>4 DEF ToSet
<1> QED
  BY <1>2, <1>3, <1>5, <1>6

\* The chain to allocate in block b of: the blocks, or they and a new one
Chain(chain, b) ==
    /\ chain \in Seq(Block) /\ b \in 1 .. Len(chain) /\ currentBlock <= b
    /\ Len(blocks) <= Len(chain) /\ \A i \in 1 .. Len(blocks) : chain[i] = blocks[i]
    /\ \A i \in 1 .. Len(chain) : /\ chain[i].used <= chain[i].size
                                  /\ i > b => chain[i].used = 0
    /\ totalUsed <= SumUsed(chain)

LEMMA AllocatingKeeps ==
    ASSUME IInv, NEW chain, NEW b, Chain(chain, b),
           NEW size \in Nat, NEW alignment \in Nat \ {0},
           HasSpace(chain[b], size, alignment),
           AllocateIn(chain, b, size, alignment),
           totalAllocated' = Total(SizeOf(chain), Len(chain))
    PROVE  IInv'
<1> DEFINE from == AlignedUsed(chain[b], alignment)
           to == from + size
           new == [block |-> b, from |-> from, to |-> to, time |-> time + 1]
<1>1. /\ blocks \in Seq(Block) /\ Len(blocks) \in Nat /\ time \in Nat /\ totalUsed \in Nat
      /\ currentBlock \in 0 .. Len(blocks) /\ live \subseteq Allocation
      /\ checkpoints \in Seq(Checkpoint) /\ scopes \in Seq(Checkpoint)
      /\ ToSet(checkpoints) \subseteq Checkpoint /\ ToSet(scopes) \subseteq Checkpoint
      /\ \A a \in live : /\ a.block \in 1 .. currentBlock /\ a.block \in 1 .. Len(blocks)
                         /\ a.to \in Nat /\ a.time \in Nat /\ a.from \in Nat
                         /\ a.time <= time /\ a.to <= blocks[a.block].used
  BY TypesAre
<1>2. /\ Len(chain) \in Nat /\ DOMAIN chain = 1 .. Len(chain)
      /\ \A i \in 1 .. Len(chain) :
            /\ chain[i].base \in Nat /\ chain[i].size \in Nat /\ chain[i].used \in Nat
            /\ UsedOf(chain)[i] = chain[i].used /\ SizeOf(chain)[i] = chain[i].size
  BY ChainIs DEF Chain
<1>3. /\ from \in Nat /\ to \in Nat /\ chain[b].used <= from /\ from <= to
      /\ to <= chain[b].size /\ to >= chain[b].used + size
  <2>1. chain[b].base \in Nat /\ chain[b].used \in Nat /\ chain[b].size \in Nat
    BY <1>2 DEF Chain
  <2>2. from \in Nat /\ chain[b].used <= from
    BY <2>1, AlignedBehind
  <2>3. to <= chain[b].size
    BY DEF HasSpace
  <2> HIDE DEF from
  <2> QED
    BY <2>1, <2>2, <2>3
<1>4. /\ blocks' = [chain EXCEPT ![b].used = to] /\ currentBlock' = b
      /\ totalUsed' = totalUsed + size /\ live' = live \cup {new} /\ time' = time + 1
      /\ checkpoints' = checkpoints /\ scopes' = scopes
  BY DEF AllocateIn
<1>5. /\ new.block = b /\ new.from = from /\ new.to = to /\ new.time = time + 1
  OBVIOUS
<1> HIDE DEF from, to
<1>6. /\ SameBlocks(blocks', chain) /\ blocks'[b].used = to
      /\ \A i \in 1 .. Len(chain) : i # b => blocks'[i] = chain[i]
  <2>1. /\ SameBlocks([chain EXCEPT ![b].used = to], chain)
        /\ [chain EXCEPT ![b].used = to][b].used = to
        /\ \A i \in 1 .. Len(chain) : i # b => [chain EXCEPT ![b].used = to][i] = chain[i]
    BY <1>3, UsedSet DEF Chain
  <2> QED
    BY <1>4, <2>1
<1>7. /\ blocks' \in Seq(Block) /\ Len(blocks') = Len(chain) /\ DOMAIN blocks' = 1 .. Len(chain)
      /\ \A i \in 1 .. Len(chain) :
            blocks'[i].size = chain[i].size
            /\ blocks'[i].used = IF i = b THEN to ELSE chain[i].used
  BY <1>6, ChainIs DEF SameBlocks
<1>8. b \in 1 .. Len(chain) /\ b \in Nat \ {0} /\ currentBlock <= b
  BY <1>2 DEF Chain
<1>9. new \in Allocation
  BY <1>1, <1>3, <1>8 DEF Allocation
<1> HIDE DEF new
<1>10. TypeOK'
  <2>1. totalAllocated' \in Nat
    BY <1>2, TotalNat
  <2> QED
    <3>1. blocks' \in Seq(Block) /\ currentBlock' \in 0 .. Len(blocks')
      BY <1>4, <1>7, <1>8
    <3>2. totalUsed' \in Nat /\ time' \in Nat
      BY <1>1, <1>4
    <3>3. live' \subseteq Allocation
      BY <1>1, <1>4, <1>9
    <3> QED
      BY <1>1, <1>4, <2>1, <3>1, <3>2, <3>3 DEF TypeOK
\* The old allocations of the block end where it was filled to.
<1>11. \A a \in live : /\ a.block <= b /\ a.block \in 1 .. Len(chain)
                       /\ a.to <= chain[a.block].used
  BY <1>1, <1>8 DEF Chain
<1>12. LiveDisjoint'
  <2>1. \A a \in live : a.block = b => a.to <= from
    BY <1>1, <1>2, <1>3, <1>8, <1>11
  <2>2. \A a \in live' : a \in live \/ a = new
    BY <1>4
  <2> SUFFICES ASSUME NEW a1 \in live', NEW a2 \in live', a1 # a2, a1.block = a2.block
               PROVE  a1.to <= a2.from \/ a2.to <= a1.from
    BY DEF LiveDisjoint
  <2>3. CASE a1 \in live /\ a2 \in live
    BY <2>3 DEF IInv, LiveDisjoint
  <2>4. CASE a1 = new /\ a2 \in live
    BY <2>1, <2>4, <1>5
  <2>5. CASE a2 = new /\ a1 \in live
    BY <2>1, <2>5, <1>5
  <2> QED
    BY <2>2, <2>3, <2>4, <2>5
<1>13. LiveInUse'
  <2> SUFFICES ASSUME NEW a \in live'
               PROVE  a.block <= currentBlock' /\ a.to <= blocks'[a.block].used
    BY DEF LiveInUse
  <2>1. CASE a = new
    BY <1>3, <1>4, <1>5, <1>7, <1>8, <2>1
  <2>2. CASE a \in live
    <3>1. a.to <= chain[a.block].used /\ a.block \in 1 .. Len(chain) /\ a.block <= b
          /\ a.to \in Nat /\ chain[a.block].used \in Nat /\ chain[b].used \in Nat
      BY <1>1, <1>2, <1>8, <1>11, <2>2
    <3> QED
      BY <1>3, <1>4, <1>7, <3>1
  <2> QED
    BY <1>4, <2>1, <2>2
<1>14. BlocksFilledInOrder'
  BY <1>2, <1>3, <1>4, <1>7, <1>8 DEF BlocksFilledInOrder, Chain
<1>15. (totalUsed <= SumUsed(blocks))'
  <2> DEFINE g == UsedOf(chain)
             h == UsedOf(blocks')
             n == Len(chain)
  <2>1. SumUsed(chain) = Total(g, n) /\ SumUsed(blocks') = Total(h, n)
    BY <1>7, SumUsedIs DEF Chain
  <2>2. \A i \in 1 .. n : g[i] \in Nat /\ h[i] = (IF i = b THEN to ELSE g[i])
    BY <1>2, <1>7, ChainIs
  <2>3. n \in Nat /\ b \in 1 .. n /\ g[b] = chain[b].used
    BY <1>2, <1>8
  <2> HIDE DEF g, h, n
  <2>4. \A i \in 1 .. n : g[i] \in Nat /\ h[i] \in Nat /\ (i # b => h[i] = g[i])
    BY <1>3, <2>2
  <2>5. Total(h, n) + g[b] = Total(g, n) + h[b]
    BY <2>3, <2>4, TotalChanged
  <2>6. Total(g, n) \in Nat /\ Total(h, n) \in Nat /\ g[b] \in Nat /\ h[b] = to
    BY <2>2, <2>3, <2>4, TotalNat
  <2>7. totalUsed <= Total(g, n)
    BY <2>1 DEF Chain
  <2>8. to \in Nat /\ g[b] + size <= to
    BY <1>3, <2>3
  <2>9. totalUsed + size <= Total(h, n)
    BY <1>1, <2>5, <2>6, <2>7, <2>8
  <2> QED
    BY <1>4, <2>1, <2>9
<1>16. SizesCounted'
  <2>1. Total(SizeOf(blocks'), Len(blocks')) = Total(SizeOf(chain), Len(chain))
    BY <1>6, SameSizes DEF Chain
  <2> QED
    BY <2>1 DEF SizesCounted
<1>17. LiveOld'
  BY <1>1, <1>4, <1>5 DEF LiveOld
<1>18. CheckpointsPlaced'
  <2> SUFFICES ASSUME NEW cp \in ToSet(checkpoints) \cup ToSet(scopes)
               PROVE  Placed(cp)'
    BY <1>4 DEF CheckpointsPlaced
  <2>1. Placed(cp) /\ cp.time \in Nat /\ cp.block \in Nat
    BY <1>1 DEF IInv, CheckpointsPlaced, Checkpoint
  <2>2. cp.time <= time' /\ cp.block <= Len(blocks') /\ ~ (new.time < cp.time)
    BY <1>1, <1>2, <1>4, <1>5, <1>7, <2>1 DEF Placed, Chain
  <2>3. cp.block # 0 => cp.offset <= blocks'[cp.block].size
    BY <1>1, <1>2, <1>7, <2>1 DEF Placed, Chain
  <2> QED
    BY <1>4, <2>1, <2>2, <2>3 DEF Placed
<1> QED
  BY <1>10, <1>12, <1>13, <1>14, <1>15, <1>16, <1>17, <1>18 DEF IInv

LEMMA InCurrentKeeps ==
    ASSUME IInv, NEW size \in Nat, NEW alignment \in Nat \ {0},
           AllocateInCurrent(size, alignment)
    PROVE  IInv'
<1>1. PICK chain, b : chain = blocks /\ b = currentBlock
  OBVIOUS
<1>2. /\ chain \in Seq(Block) /\ Len(blocks) \in Nat /\ b \in 1 .. Len(chain)
  BY <1>1, TypesAre DEF AllocateInCurrent
<1>3. Chain(chain, b)
  <2>1. DOMAIN blocks = 1 .. Len(blocks) /\ currentBlock \in Nat
    BY TypesAre
  <2> QED
    BY <1>1, <1>2, <2>1 DEF Chain, IInv, BlocksFilledInOrder
<1>4. /\ HasSpace(chain[b], size, alignment)
      /\ AllocateIn(chain, b, size, alignment)
      /\ totalAllocated' = Total(SizeOf(chain), Len(chain))
  BY <1>1 DEF AllocateInCurrent, IInv, SizesCounted
<1> QED
  BY <1>3, <1>4, AllocatingKeeps

LEMMA InNewBlockKeeps ==
    ASSUME IInv, NEW size \in Nat, NEW alignment \in Nat \ {0},
           AllocateInNewBlock(size, alignment)
    PROVE  IInv'
<1>1. PICK base \in Bases :
         LET new == [base |-> base, size |-> NewBlockSize(size, alignment), used |-> 0]
         IN  /\ AllocateIn(Append(blocks, new), Len(blocks) + 1, size, alignment)
             /\ totalAllocated' = totalAllocated + new.size
  BY DEF AllocateInNewBlock
<1> DEFINE new == [base |-> base, size |-> NewBlockSize(size, alignment), used |-> 0]
<1>2. PICK chain, b : chain = Append(blocks, new) /\ b = Len(blocks) + 1
  OBVIOUS
<1>3. AllocateIn(chain, b, size, alignment) /\ totalAllocated' = totalAllocated + new.size
  BY <1>1, <1>2
<1>4. /\ blocks \in Seq(Block) /\ Len(blocks) \in Nat /\ DOMAIN blocks = 1 .. Len(blocks)
      /\ currentBlock \in 0 .. Len(blocks) /\ totalUsed \in Nat
      /\ \A i \in 1 .. Len(blocks) : /\ blocks[i].size \in Nat /\ blocks[i].used \in Nat
                                     /\ blocks[i].used <= blocks[i].size
  BY TypesAre
<1>5. /\ new \in Block /\ new.used = 0 /\ new.size \in Nat /\ size + alignment <= new.size
      /\ new.base \in Nat
  BY SizesAssumption DEF Block, NewBlockSize
<1> HIDE DEF new
<1>6. /\ chain \in Seq(Block) /\ Len(chain) = b /\ chain[b] = new
      /\ \A i \in 1 .. Len(blocks) : chain[i] = blocks[i]
  BY <1>2, <1>4, <1>5, AppendProperties
<1>7. Len(chain) \in Nat /\ b \in 1 .. Len(chain) /\ b \in Nat /\ b = Len(blocks) + 1
  BY <1>2, <1>4, <1>6
<1>8. ASSUME NEW i \in 1 .. Len(chain)
      PROVE  i = b \/ i \in 1 .. Len(blocks)
  BY <1>4, <1>6, <1>7
<1>9. SumUsed(chain) = SumUsed(blocks) + 0
  <2> DEFINE g == UsedOf(chain)
             h == UsedOf(blocks)
             n == Len(blocks)
  <2>1. SumUsed(chain) = Total(g, n + 1) /\ SumUsed(blocks) = Total(h, n) /\ n \in Nat
    BY <1>4, <1>6, <1>7, SumUsedIs
  <2>2. \A i \in 1 .. n : g[i] \in Nat /\ h[i] \in Nat /\ g[i] = h[i]
    <3>1. \A i \in 1 .. n : h[i] = blocks[i].used
      BY <1>4, ChainIs
    <3>2. \A i \in 1 .. n : g[i] = chain[i].used
      BY <1>4, <1>6, <1>7, ChainIs
    <3> QED
      BY <1>4, <1>6, <3>1, <3>2
  <2>3. g[n + 1] = 0
    BY <1>5, <1>6, <1>7, ChainIs
  <2> HIDE DEF g, h, n
  <2>4. Total(g, n + 1) = Total(g, n) + g[n + 1]
    BY <2>1, TotalStep
  <2>5. /\ \A i \in 1 .. n : g[i] \in Nat /\ h[i] \in Nat /\ g[i] <= h[i]
        /\ \A i \in 1 .. n : h[i] \in Nat /\ g[i] \in Nat /\ h[i] <= g[i]
    BY <2>2
  <2>6. /\ Total(g, n) \in Nat /\ Total(h, n) \in Nat
        /\ Total(g, n) <= Total(h, n) /\ Total(h, n) <= Total(g, n)
    BY <2>1, <2>5, TotalsCompare
  <2> QED
    BY <2>1, <2>3, <2>4, <2>6
<1>10. totalAllocated' = Total(SizeOf(chain), Len(chain))
  <2> DEFINE g == SizeOf(chain)
             h == SizeOf(blocks)
             n == Len(blocks)
  <2>1. totalAllocated = Total(h, n) /\ n \in Nat /\ Len(chain) = n + 1
    BY <1>4, <1>6, <1>7 DEF IInv, SizesCounted
  <2>2. \A i \in 1 .. n : g[i] \in Nat /\ h[i] \in Nat /\ g[i] = h[i]
    <3>1. \A i \in 1 .. n : h[i] = blocks[i].size
      BY <1>4, ChainIs
    <3>2. \A i \in 1 .. n : g[i] = chain[i].size
      BY <1>4, <1>6, <1>7, ChainIs
    <3> QED
      BY <1>4, <1>6, <3>1, <3>2
  <2>3. g[n + 1] = new.size
    BY <1>5, <1>6, <1>7, ChainIs
  <2> HIDE DEF g, h, n
  <2>4. Total(g, n + 1) = Total(g, n) + g[n + 1]
    BY <2>1, TotalStep
  <2>5. /\ \A i \in 1 .. n : g[i] \in Nat /\ h[i] \in Nat /\ g[i] <= h[i]
        /\ \A i \in 1 .. n : h[i] \in Nat /\ g[i] \in Nat /\ h[i] <= g[i]
    BY <2>2
  <2>6. /\ Total(g, n) \in Nat /\ Total(h, n) \in Nat
        /\ Total(g, n) <= Total(h, n) /\ Total(h, n) <= Total(g, n)
    BY <2>1, <2>5, TotalsCompare
  <2> QED
    BY <1>3, <2>1, <2>3, <2>4, <2>6 DEF g
<1>11. Chain(chain, b)
  <2>1. \A i \in 1 .. Len(chain) : /\ chain[i].used <= chain[i].size
                                   /\ i > b => chain[i].used = 0
    BY <1>4, <1>5, <1>6, <1>7, <1>8
  <2>2. totalUsed <= SumUsed(chain)
    <3>1. SumUsed(blocks) \in Nat /\ totalUsed <= SumUsed(blocks)
      BY <1>4, SumNat DEF IInv
    <3> QED
      BY <1>9, <3>1
  <2> QED
    BY <1>4, <1>6, <1>7, <2>1, <2>2 DEF Chain
\* The new block has room for the request, wherever it begins.
<1>12. HasSpace(chain[b], size, alignment)
  <2>1. /\ AlignedUsed(new, alignment) \in Nat
        /\ AlignedUsed(new, alignment) < new.used + alignment
    BY <1>5, AlignedBehind
  <2>2. AlignedUsed(new, alignment) + size <= new.size
    BY <1>5, <2>1
  <2> QED
    BY <1>6, <2>2 DEF HasSpace
<1> QED
  BY <1>3, <1>10, <1>11, <1>12, AllocatingKeeps

LEMMA NextKeeps ==
    ASSUME IInv, [Next]_vars
    PROVE  IInv'
<1>1. ASSUME NEW size \in Sizes, NEW alignment \in Alignments, Allocate(size, alignment)
      PROVE  IInv'
  <2>1. size \in Nat /\ alignment \in Nat \ {0}
    BY SizesAssumption
  <2> QED
    BY <1>1, <2>1, InCurrentKeeps, InNewBlockKeeps DEF Allocate
<1>2. CASE Reset
  <2>1. /\ ResetBlocks /\ live' = {} /\ UNCHANGED <<totalAllocated, time>>
        /\ checkpoints' = checkpoints /\ scopes' = scopes
    BY <1>2 DEF Reset
  <2>2. checkpoints \in Seq(Checkpoint) /\ scopes \in Seq(Checkpoint)
    BY TypesAre
  <2> QED
    BY <2>1, <2>2, ResettingKeeps
<1>3. CASE Clear
  BY <1>3, ClearKeeps
<1>4. CASE SaveCheckpoint
  BY <1>4, SavingKeeps DEF SaveCheckpoint
<1>5. ASSUME NEW i \in DOMAIN checkpoints, RestoreCheckpoint(i)
      PROVE  IInv'
  <2>1. PICK cp, cps : cp = checkpoints[i] /\ cps = checkpoints
    OBVIOUS
  <2>2. /\ cp \in ToSet(checkpoints) /\ cps \in Seq(Checkpoint) /\ scopes \in Seq(Checkpoint)
    BY <2>1, TypesAre DEF ToSet
  <2>3. Restore(cp, cps) /\ scopes' = scopes /\ ToSet(cps) \subseteq ToSet(checkpoints)
    BY <1>5, <2>1 DEF RestoreCheckpoint
  <2> QED
    BY <2>2, <2>3, RestoringKeeps
<1>6. CASE PopCheckpoint
  <2>1. PICK cp, cps : cp = Last(checkpoints) /\ cps = Front(checkpoints)
    OBVIOUS
  <2>2. checkpoints \in Seq(Checkpoint) /\ scopes \in Seq(Checkpoint) /\ checkpoints # <<>>
    BY <1>6, TypesAre DEF PopCheckpoint
  <2>3. /\ cp \in ToSet(checkpoints) /\ cps \in Seq(Checkpoint)
        /\ ToSet(cps) \subseteq ToSet(checkpoints)
    BY <2>1, <2>2, EndMembers
  <2>4. Restore(cp, cps) /\ scopes' = scopes
    BY <1>6, <2>1 DEF PopCheckpoint
  <2> QED
    BY <2>2, <2>3, <2>4, RestoringKeeps
<1>7. CASE OpenScope
  BY <1>7, SavingKeeps DEF OpenScope
<1>8. CASE CloseScope
  <2>1. PICK cp, cps : cp = Last(scopes) /\ cps = checkpoints
    OBVIOUS
  <2>2. checkpoints \in Seq(Checkpoint) /\ scopes \in Seq(Checkpoint) /\ scopes # <<>>
    BY <1>8, TypesAre DEF CloseScope
  <2>3. /\ cp \in ToSet(scopes) /\ Front(scopes) \in Seq(Checkpoint)
        /\ ToSet(Front(scopes)) \subseteq ToSet(scopes)
    BY <2>1, <2>2, EndMembers
  <2>4. Restore(cp, cps) /\ scopes' = Front(scopes) /\ ToSet(cps) \subseteq ToSet(checkpoints)
        /\ cps \in Seq(Checkpoint)
    BY <1>8, <2>1, <2>2 DEF CloseScope
  <2> QED
    BY <2>3, <2>4, RestoringKeeps
<1>9. CASE UNCHANGED vars
  BY <1>9, UnchangedKeeps
<1> QED
  BY <1>1, <1>2, <1>3, <1>4, <1>5, <1>6, <1>7, <1>8, <1>9 DEF Next

-----------------------------------------------------------------------------
(* The theorems.                                                           *)

LEMMA SpecIInv == Spec => []IInv
<1>1. Init => IInv
  BY IInvBegins
<1>2. IInv /\ [Next]_vars => IInv'
  BY NextKeeps
<1> QED
  BY <1>1, <1>2, PTL DEF Spec

\* The arena's variables are well typed: the current block is one of the chain,
\* or none (arena_allocator.hpp, currentBlock_).
THEOREM SpecTypeOK == Spec => []TypeOK
<1>1. IInv => TypeOK
  BY DEF IInv
<1> QED
  BY <1>1, SpecIInv, PTL

\* No allocation, reset, restored or popped checkpoint or closed scope, in any
\* order, hands out memory that is live: live allocations share no byte, and
\* lie where their block is in use.
THEOREM SpecLiveMemoryKept == Spec => []LiveMemoryKept
<1>1. IInv => LiveMemoryKept
  BY DEF IInv, LiveMemoryKept
<1> QED
  BY <1>1, SpecIInv, PTL

LEMMA StatisticsFollow ==
    ASSUME IInv
    PROVE  StatisticsInOrder
<1> DEFINE g == UsedOf(blocks)
           h == SizeOf(blocks)
           n == Len(blocks)
<1>1. SumUsed(blocks) = Total(g, n) /\ totalAllocated = Total(h, n) /\ n \in Nat
  BY TypesAre, SumUsedIs DEF IInv, SizesCounted
<1>2. \A i \in 1 .. n : g[i] \in Nat /\ h[i] \in Nat /\ g[i] <= h[i]
  BY TypesAre, ChainIs
<1> HIDE DEF g, h, n
<1>3. Total(g, n) <= Total(h, n)
  BY <1>1, <1>2, TotalsCompare
<1> QED
  BY <1>1, <1>3 DEF IInv, StatisticsInOrder

\* What is used of every block fits into it, blocks behind the current one are
\* empty, and the statistics never count more in use than the offsets do, nor
\* the offsets more than was allocated: "Should always succeed on new block"
\* (arena_allocator.cpp:146) always does.
THEOREM SpecFillingKnown == Spec => []FillingKnown
<1>1. IInv => FillingKnown
  BY StatisticsFollow DEF IInv, FillingKnown
<1> QED
  BY <1>1, SpecIInv, PTL

=============================================================================
