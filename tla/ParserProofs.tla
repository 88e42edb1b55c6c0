---------------------------- MODULE ParserProofs ----------------------------
(***************************************************************************)
(* Proofs about the parser, for texts of any length and nesting: what is   *)
(* stored is well typed, no text is dropped without an error, what is      *)
(* accepted without an error has its brackets balanced, and the template   *)
(* context of the lexer ends with the generic arguments.  The parse is a   *)
(* stack of steps.  A judgement tells from which spots to which a program  *)
(* leads; every parse function of the grammar is shown to have one.        *)
(***************************************************************************)
EXTENDS Parser, FiniteSetTheorems, SequenceTheorems, WellFoundedInduction, TLAPS

-----------------------------------------------------------------------------
(* Induction over the natural numbers, about a set: the numbers for which  *)
(* a claim holds.  (The library's is about an operator P(_), which the     *)
(* provers cannot instantiate.)                                            *)

\* A set of natural numbers that is not empty has a least member.
LEMMA LeastNatural ==
    ASSUME NEW S \in SUBSET Nat, S # {}
    PROVE  \E n \in S : \A m \in S : n <= m
<1>1. PICK n \in S : \A m \in S : <<m, n>> \notin OpToRel(<, Nat)
  BY NatLessThanWellFounded, WFMin, Zenon
<1>2. \A m \in S : ~ (m < n)
  BY <1>1, Zenon DEF OpToRel
<1> QED
  BY <1>2

\* A set that has 0 and with each natural number the next has them all.
LEMMA SimpleInduction ==
    ASSUME NEW S, 0 \in S, \A n \in Nat : n \in S => n + 1 \in S
    PROVE  Nat \subseteq S
<1> SUFFICES ASSUME Nat \ S # {}
             PROVE  FALSE
  OBVIOUS
<1>1. PICK n \in Nat \ S : \A m \in Nat \ S : n <= m
  BY LeastNatural
<1>2. n # 0 /\ n - 1 \in Nat
  OBVIOUS
<1> QED
  BY <1>1, <1>2

-----------------------------------------------------------------------------
(* What a program of steps does to the brackets and to the template        *)
(* context, as a judgement about where the parse is before and after it.   *)

Kinds == Tokens \cup {EOF}
All   == Kinds \cup {Unread}
Openers == {"(", "[", "LBrace", "LString"}

\* Where the parse is: whether an error has been reported, what the current
\* token and the one behind it may be, the brackets open, how often the
\* template context has been entered, and how often where a failure is caught.
Spot(ks, u, z) == [told |-> FALSE, now |-> ks, next |-> All, open |-> u,
                   level |-> z[1], base |-> z[2]]
Told(z) == [told |-> TRUE, now |-> {}, next |-> {}, open |-> <<>>,
            level |-> z[1], base |-> z[2]]
Home == <<0, 0>>
Done == Spot(All, <<>>, Home)

\* a allows no more than b does.
Even(a, b) == a.level = b.level /\ a.base = b.base
Below(a, b) ==
    /\ Even(a, b)
    /\ a.told \/ /\ ~ b.told /\ a.open = b.open
                 /\ a.now \subseteq b.now /\ a.next \subseteq b.next

\* Consuming k makes of the open brackets v the open brackets w.
Passes(k, v, w) ==
    \/ k \in Openers /\ w = <<k>> \o v
    \/ k \in Closers /\ v = <<Opener[k]>> \o w
    \/ k \notin Openers \cup Closers /\ w = v

Shifted(a, w) == [told |-> FALSE, now |-> a.next, next |-> All, open |-> w,
                  level |-> a.level, base |-> a.base]
Seeing(a, at, ks) ==
    [told |-> a.told, open |-> a.open, level |-> a.level, base |-> a.base,
     now |-> IF at = 1 THEN a.now \cap ks ELSE a.now,
     next |-> IF at = 1 THEN a.next ELSE a.next \cap ks]
Moved(a, n) == [told |-> a.told, now |-> a.now, next |-> a.next, open |-> a.open,
                level |-> n, base |-> a.base]
Inner(a)   == [told |-> a.told, now |-> a.now, next |-> a.next, open |-> a.open,
               level |-> a.level, base |-> a.level]
Caught(a)  == Told(<<a.level, a.base>>)

\* the parse functions that generic arguments may call, at any depth
DeepRules ==
    {"expression", "assignment", "conditional", "logicalOr", "logicalAnd", "bitwiseOr",
     "bitwiseXor", "bitwiseAnd", "equality", "relational", "range", "shift", "additive",
     "multiplicative", "cast", "unary", "postfix", "primary", "identifier",
     "literal", "literalToken", "macroCall", "arrayLiteral", "tupleOrGrouped",
     "typedStruct", "anonymousStruct", "interpolatedString", "type", "unionType",
     "primaryType", "arrayType", "referenceType", "pointerType", "optionalType",
     "resultType", "functionType", "tupleType", "qualifiedPath", "pathInExpression",
     "genericArguments", "argumentsInExpression"}

\* Steps that change nothing the judgement is about
Idle == {"mark", "clear"}

\* Step s leads from a to c, given what the programs in it do: W has a
\* program with where it starts and where it ends.
Leads(W, s, a, c) ==
    /\ s.op \in {"expect", "advance", "report", "fail", "synchronize", "enter", "exit", "call",
                 "select", "while", "until", "attempt", "catch", "mark", "clear", "marked"}
    /\ s.op \in {"expect", "fail", "call"} => a.level = a.base
    /\ s.op # "catch" => a.base = c.base
    /\ s.op = "mark" => s.flag \in Flags
    /\ s.op \in {"fail", "synchronize"} => a.told
    /\ s.op = "synchronize" => a.level = 0 /\ Even(a, c)
    /\ s.op \in {"expect", "advance", "report"} => Even(a, c)
    /\ s.op = "expect" =>
         a.told \/ \E w \in Seq(Openers) : Passes(s.kind, a.open, w) /\ Below(Shifted(a, w), c)
    /\ s.op = "advance" =>
         a.told \/ \A k \in a.now \cap Kinds :
                     \E w \in Seq(Openers) : Passes(k, a.open, w) /\ Below(Shifted(a, w), c)
    /\ s.op = "enter" => Below(Moved(a, a.level + 1), c)
    /\ s.op = "exit" => a.level > 0 /\ Below(Moved(a, a.level - 1), c)
    /\ s.op \in Idle => Below(a, c)
    /\ s.op = "call" =>
         /\ s.rule \in Rules \ {"compilationUnit"} /\ s.bare \in BOOLEAN
         /\ a.level = 0 \/ s.rule \in DeepRules
         /\ \E u \in Seq(Openers) : LET b == Spot(All, u, <<a.level, a.base>>)
                                   IN  Below(a, b) /\ Below(b, c)
    /\ s.op = "select" =>
         /\ s.at \in {1, 2} /\ (s.at = 2 => a.told \/ Unread \notin a.now)
         /\ DOMAIN s.cases \subseteq Nat
         /\ \A i \in DOMAIN s.cases :
              <<s.cases[i][2], Seeing(a, s.at, s.cases[i][1] \cap Kinds), c>> \in W
         /\ <<s.otherwise,
              Seeing(a, s.at, {k \in Kinds : \A i \in DOMAIN s.cases : k \notin s.cases[i][1]}),
              c>> \in W
    /\ s.op = "while" => /\ <<s.body, Seeing(a, 1, s.kinds \cap Kinds), a>> \in W
                         /\ Below(Seeing(a, 1, Kinds \ s.kinds), c)
    /\ s.op = "until" => /\ <<s.body, Seeing(a, 1, Kinds \ s.kinds), a>> \in W
                         /\ Below(Seeing(a, 1, s.kinds \cap Kinds), c)
    /\ s.op = "attempt" => /\ <<s.body, Inner(a), Inner(c)>> \in W
                           /\ <<s.handler, Caught(a), c>> \in W
                           /\ Even(a, c)
    /\ s.op = "catch" => /\ a.base = a.level /\ a.level = c.level /\ Below(a, Inner(c))
                         /\ <<s.handler, Caught(c), c>> \in W
    /\ s.op = "marked" => <<s.then, a, c>> \in W /\ <<s.otherwise, a, c>> \in W

\* W tells of each of its programs what its first step and the rest do.
Consistent(S, W) ==
    /\ \A x \in W : x = <<x[1], x[2], x[3]>> /\ x[1] \in Seq(S)
    /\ \A x \in W :
         IF x[1] = <<>> THEN Below(x[2], x[3])
         ELSE \E a, c : /\ Below(x[2], a) /\ Leads(W, Head(x[1]), a, c)
                        /\ <<Tail(x[1]), c, x[3]>> \in W

Known(W) == \E S : Consistent(S, W)

\* Program p leads from a to b.
Runs(p, a, b) == \E W : Known(W) /\ <<p, a, b>> \in W

-----------------------------------------------------------------------------
LEMMA BelowItself == \A a : Below(a, a)
  BY DEF Below, Even

LEMMA BelowBelow ==
  ASSUME NEW a, NEW b, NEW c, Below(a, b), Below(b, c)
  PROVE  Below(a, c)
  BY DEF Below, Even

LEMMA LeadsMore ==
  ASSUME NEW V, NEW W, V \subseteq W, NEW s, NEW a, NEW c, Leads(V, s, a, c)
  PROVE  Leads(W, s, a, c)
  BY DEF Leads

\* Judgements that hold hold together.
LEMMA Together ==
  ASSUME NEW X, \A x \in X : x = <<x[1], x[2], x[3]>> /\ Runs(x[1], x[2], x[3])
  PROVE  \E W : Known(W) /\ X \subseteq W
<1> DEFINE Of(x) == CHOOSE W : Known(W) /\ <<x[1], x[2], x[3]>> \in W
           In(W) == CHOOSE S : Consistent(S, W)
           Y == {Of(x) : x \in X}
           W == UNION Y
           S == UNION {In(V) : V \in Y}
<1>1. \A x \in X : Known(Of(x)) /\ x \in Of(x)
  <2> SUFFICES ASSUME NEW x \in X PROVE Known(Of(x)) /\ x \in Of(x)
    OBVIOUS
  <2>1. \E V : Known(V) /\ <<x[1], x[2], x[3]>> \in V
    BY DEF Runs
  <2>2. Known(Of(x)) /\ <<x[1], x[2], x[3]>> \in Of(x)
    BY <2>1
  <2> QED
    BY <2>2
<1>2. \A V \in Y : Consistent(In(V), V)
  <2> SUFFICES ASSUME NEW V \in Y PROVE Consistent(In(V), V)
    OBVIOUS
  <2>1. Known(V)
    BY <1>1
  <2>2. \E S2 : Consistent(S2, V)
    BY <2>1 DEF Known
  <2> QED
    BY <2>2
<1> HIDE DEF Of, In
<1>3. X \subseteq W
  BY <1>1
<1>4. Consistent(S, W)
  <2>1. ASSUME NEW x \in W
        PROVE  /\ x = <<x[1], x[2], x[3]>> /\ x[1] \in Seq(S)
               /\ IF x[1] = <<>> THEN Below(x[2], x[3])
                  ELSE \E a, c : /\ Below(x[2], a) /\ Leads(W, Head(x[1]), a, c)
                                 /\ <<Tail(x[1]), c, x[3]>> \in W
    <3>1. PICK V \in Y : x \in V
      OBVIOUS
    <3>2. V \subseteq W /\ In(V) \subseteq S
      OBVIOUS
    <3>3. Consistent(In(V), V)
      BY <1>2
    <3> HIDE DEF W, S, Y
    <3>4. x = <<x[1], x[2], x[3]>> /\ x[1] \in Seq(In(V))
      BY <3>1, <3>3 DEF Consistent
    <3>5. x[1] \in Seq(S)
      BY <3>2, <3>4, SeqMonotonic
    <3>6. CASE x[1] = <<>>
      BY <3>1, <3>3, <3>4, <3>5, <3>6 DEF Consistent
    <3>7. CASE x[1] # <<>>
      <4>1. PICK a, c : /\ Below(x[2], a) /\ Leads(V, Head(x[1]), a, c)
                        /\ <<Tail(x[1]), c, x[3]>> \in V
        BY <3>1, <3>3, <3>7 DEF Consistent
      <4>2. Leads(W, Head(x[1]), a, c)
        BY <3>2, <4>1, LeadsMore
      <4> QED
        BY <3>2, <3>4, <3>5, <3>7, <4>1, <4>2
    <3> QED
      BY <3>6, <3>7
  <2> HIDE DEF W, S
  <2> QED
    BY <2>1 DEF Consistent
<1> HIDE DEF W, S
<1> QED
  BY <1>3, <1>4 DEF Known

-----------------------------------------------------------------------------
(* Rules of the judgement.                                                 *)

LEMMA KnownRuns ==
  ASSUME NEW W, Known(W), NEW p, NEW a, NEW b, <<p, a, b>> \in W
  PROVE  Runs(p, a, b)
  BY DEF Runs

\* One more judgement that rests on known ones
LEMMA KnownMore ==
  ASSUME NEW W, Known(W), NEW X,
         \A x \in X : x = <<x[1], x[2], x[3]>>,
         NEW S, \A x \in X : x[1] \in Seq(S),
         \A x \in X :
           IF x[1] = <<>> THEN Below(x[2], x[3])
           ELSE \E a, c : /\ Below(x[2], a) /\ Leads(X \cup W, Head(x[1]), a, c)
                          /\ <<Tail(x[1]), c, x[3]>> \in X \cup W
  PROVE  Known(X \cup W)
<1>1. PICK R : Consistent(R, W)
  BY DEF Known
<1> DEFINE V == X \cup W
           T == R \cup S
<1>2. ASSUME NEW x \in V
      PROVE  /\ x = <<x[1], x[2], x[3]>> /\ x[1] \in Seq(T)
             /\ IF x[1] = <<>> THEN Below(x[2], x[3])
                ELSE \E a, c : /\ Below(x[2], a) /\ Leads(V, Head(x[1]), a, c)
                               /\ <<Tail(x[1]), c, x[3]>> \in V
  <2>1. CASE x \in X
    <3>1. x[1] \in Seq(T)
      <4>1. x[1] \in Seq(S)
        BY <2>1
      <4> QED
        BY <4>1, SeqMonotonic
    <3> QED
      BY <2>1, <3>1
  <2>2. CASE x \in W
    <3>1. x = <<x[1], x[2], x[3]>> /\ x[1] \in Seq(R)
      BY <1>1, <2>2 DEF Consistent
    <3>2. x[1] \in Seq(T)
      BY <3>1, SeqMonotonic
    <3>3. CASE x[1] = <<>>
      BY <1>1, <2>2, <3>1, <3>2, <3>3 DEF Consistent
    <3>4. CASE x[1] # <<>>
      <4>1. PICK a, c : /\ Below(x[2], a) /\ Leads(W, Head(x[1]), a, c)
                        /\ <<Tail(x[1]), c, x[3]>> \in W
        BY <1>1, <2>2, <3>4 DEF Consistent
      <4>2. W \subseteq V
        OBVIOUS
      <4> HIDE DEF V
      <4>3. Leads(V, Head(x[1]), a, c)
        BY <4>1, <4>2, LeadsMore
      <4> QED
        BY <3>1, <3>2, <3>4, <4>1, <4>2, <4>3
    <3> QED
      BY <3>3, <3>4
  <2> QED
    BY <2>1, <2>2
<1> HIDE DEF V, T
<1>3. Consistent(T, V)
  BY <1>2 DEF Consistent
<1> QED
  BY <1>3 DEF Known, V

LEMMA RunsNothing ==
  ASSUME NEW a, NEW b, Below(a, b)
  PROVE  Runs(<<>>, a, b)
<1> DEFINE X == {<<<<>>, a, b>>}
<1>1. Consistent({}, X)
  BY DEF Consistent
<1> QED
  BY <1>1 DEF Known, Runs

LEMMA StepRuns ==
  ASSUME NEW X, \A x \in X : x = <<x[1], x[2], x[3]>> /\ Runs(x[1], x[2], x[3]),
         NEW s, NEW a, NEW c, Leads(X, s, a, c)
  PROVE  Runs(<<s>>, a, c)
<1> DEFINE x0 == <<<<>>, c, c>>
           Y == X \cup {x0}
           Z == {<<<<s>>, a, c>>}
<1>1. PICK W : Known(W) /\ Y \subseteq W
  <2>1. \A x \in Y : x = <<x[1], x[2], x[3]>> /\ Runs(x[1], x[2], x[3])
    BY RunsNothing, BelowItself
  <2> HIDE DEF Y
  <2> QED
    BY <2>1, Together
<1>2. Leads(Z \cup W, s, a, c)
  <2>1. X \subseteq Z \cup W
    BY <1>1
  <2> HIDE DEF Z
  <2> QED
    BY <2>1, LeadsMore
<1>3. Known(Z \cup W)
  <2>1. ASSUME NEW x \in Z
        PROVE  /\ x = <<x[1], x[2], x[3]>> /\ x[1] \in Seq({s}) /\ x[1] # <<>>
               /\ Head(x[1]) = s /\ Tail(x[1]) = <<>> /\ x[2] = a /\ x[3] = c
    <3>1. x = <<<<s>>, a, c>>
      OBVIOUS
    <3> HIDE DEF Z
    <3>2. x[1] = <<s>> /\ x[2] = a /\ x[3] = c
      BY <3>1
    <3>3. <<s>> \in Seq({s}) /\ Head(<<s>>) = s /\ Tail(<<s>>) = <<>>
      OBVIOUS
    <3> QED
      BY <3>1, <3>2, <3>3
  <2>2. ASSUME NEW x \in Z
        PROVE  IF x[1] = <<>> THEN Below(x[2], x[3])
               ELSE \E d, e : /\ Below(x[2], d) /\ Leads(Z \cup W, Head(x[1]), d, e)
                              /\ <<Tail(x[1]), e, x[3]>> \in Z \cup W
    <3>1. <<Tail(x[1]), c, x[3]>> \in Z \cup W
      BY <1>1, <2>1
    <3> HIDE DEF Z
    <3>2. Below(x[2], a) /\ Leads(Z \cup W, Head(x[1]), a, c)
      BY <1>2, <2>1, BelowItself
    <3> QED
      BY <2>1, <3>1, <3>2
  <2> HIDE DEF Z
  <2> QED
    BY <1>1, <2>1, <2>2, KnownMore
<1>4. <<<<s>>, a, c>> \in Z \cup W
  OBVIOUS
<1> HIDE DEF Z
<1> QED
  BY <1>3, <1>4 DEF Runs

LEMMA RunsEarlier ==
  ASSUME NEW p, NEW a, NEW b, NEW d, Runs(p, a, b), Below(d, a)
  PROVE  Runs(p, d, b)
<1>1. PICK W : Known(W) /\ <<p, a, b>> \in W
  BY DEF Runs
<1>2. PICK S : Consistent(S, W)
  BY <1>1 DEF Known
<1> DEFINE X == {<<p, d, b>>}
<1>3. p \in Seq(S)
  BY <1>1, <1>2 DEF Consistent
<1>4. IF p = <<>> THEN Below(d, b)
      ELSE \E e, c : /\ Below(d, e) /\ Leads(X \cup W, Head(p), e, c)
                     /\ <<Tail(p), c, b>> \in X \cup W
  <2>1. CASE p = <<>>
    <3>1. Below(a, b)
      BY <1>1, <1>2, <2>1 DEF Consistent
    <3> QED
      BY <2>1, <3>1, BelowBelow
  <2>2. CASE p # <<>>
    <3>1. PICK e, c : /\ Below(a, e) /\ Leads(W, Head(p), e, c)
                      /\ <<Tail(p), c, b>> \in W
      BY <1>1, <1>2, <2>2 DEF Consistent
    <3>2. W \subseteq X \cup W
      OBVIOUS
    <3>3. <<Tail(p), c, b>> \in X \cup W
      BY <3>1
    <3> HIDE DEF X
    <3>4. Below(d, e) /\ Leads(X \cup W, Head(p), e, c)
      BY <3>1, <3>2, BelowBelow, LeadsMore
    <3> QED
      BY <2>2, <3>3, <3>4
  <2> QED
    BY <2>1, <2>2
<1>5. Known(X \cup W)
  <2>1. \A x \in X : x = <<x[1], x[2], x[3]>> /\ x[1] = p /\ x[2] = d /\ x[3] = b
    OBVIOUS
  <2> HIDE DEF X
  <2> QED
    BY <1>1, <1>3, <1>4, <2>1, KnownMore
<1> QED
  BY <1>5 DEF Runs

LEMMA RunsFurther ==
  ASSUME NEW p, NEW a, NEW b, NEW d, Runs(p, a, b), Below(b, d)
  PROVE  Runs(p, a, d)
<1>1. PICK W : Known(W) /\ <<p, a, b>> \in W
  BY DEF Runs
<1>2. PICK S : Consistent(S, W)
  BY <1>1 DEF Known
<1> DEFINE To(x) == <<x[1], x[2], d>>
           B == {x \in W : x[3] = b}
           X == {To(x) : x \in B}
<1>3. ASSUME NEW x \in X
      PROVE  /\ x = <<x[1], x[2], x[3]>> /\ x[1] \in Seq(S)
             /\ IF x[1] = <<>> THEN Below(x[2], x[3])
                ELSE \E e, c : /\ Below(x[2], e) /\ Leads(X \cup W, Head(x[1]), e, c)
                               /\ <<Tail(x[1]), c, x[3]>> \in X \cup W
  <2>1. PICK y \in B : x = To(y)
    OBVIOUS
  <2>2. x = <<x[1], x[2], x[3]>> /\ x[1] = y[1] /\ x[2] = y[2] /\ x[3] = d
    BY <2>1
  <2>3. y \in W /\ y[3] = b
    OBVIOUS
  <2>4. y[1] \in Seq(S)
    BY <1>2, <2>3 DEF Consistent
  <2>5. CASE x[1] = <<>>
    <3>1. Below(y[2], b)
      BY <1>2, <2>2, <2>3, <2>5 DEF Consistent
    <3> HIDE DEF X
    <3> QED
      BY <2>2, <2>4, <2>5, <3>1, BelowBelow
  <2>6. CASE x[1] # <<>>
    <3>1. PICK e, c : /\ Below(y[2], e) /\ Leads(W, Head(y[1]), e, c)
                      /\ <<Tail(y[1]), c, y[3]>> \in W
      BY <1>2, <2>2, <2>3, <2>6 DEF Consistent
    <3>2. <<Tail(y[1]), c, y[3]>> \in B
      BY <2>3, <3>1
    <3>3. To(<<Tail(y[1]), c, y[3]>>) = <<Tail(y[1]), c, d>>
      OBVIOUS
    <3>4. <<Tail(y[1]), c, d>> \in X \cup W /\ W \subseteq X \cup W
      BY <3>2, <3>3
    <3> HIDE DEF X
    <3>5. Leads(X \cup W, Head(y[1]), e, c)
      BY <3>1, <3>4, LeadsMore
    <3> QED
      BY <2>2, <2>4, <2>6, <3>1, <3>4, <3>5
  <2> QED
    BY <2>5, <2>6
<1>4. <<p, a, d>> \in X
  <2>1. <<p, a, b>> \in B /\ To(<<p, a, b>>) = <<p, a, d>>
    BY <1>1
  <2> QED
    BY <2>1
<1> HIDE DEF X
<1>5. Known(X \cup W)
  BY <1>1, <1>3, KnownMore
<1> QED
  BY <1>4, <1>5 DEF Runs

LEMMA HeadOfConcat ==
  ASSUME NEW S, NEW p \in Seq(S), NEW T, NEW q \in Seq(T), p # <<>>
  PROVE  /\ p \o q # <<>> /\ Head(p \o q) = Head(p) /\ Tail(p \o q) = Tail(p) \o q
         /\ Tail(p) \in Seq(S)
<1>1. p \in Seq(S \cup T) /\ q \in Seq(S \cup T)
  BY SeqMonotonic
<1> QED
  BY <1>1, HeadTailProperties, ConcatProperties

LEMMA RunsOn ==
  ASSUME NEW p, NEW q, NEW a, NEW b, NEW c, Runs(p, a, b), Runs(q, b, c)
  PROVE  Runs(p \o q, a, c)
<1>1. PICK W : Known(W) /\ <<p, a, b>> \in W
  BY DEF Runs
<1>2. PICK R : Consistent(R, W)
  BY <1>1 DEF Known
<1> DEFINE B == {x \in W : x[3] = b}
           After(x) == <<q, x[2], c>>
           Y == {After(x) : x \in {y \in B : y[1] = <<>>}}
           Z == W \cup Y \cup {<<q, b, c>>}
<1>3. PICK V : Known(V) /\ Z \subseteq V
  <2>1. ASSUME NEW x \in W
        PROVE  x = <<x[1], x[2], x[3]>> /\ Runs(x[1], x[2], x[3])
    BY <1>1, <1>2 DEF Consistent, Runs
  <2>2. ASSUME NEW x \in Y
        PROVE  x = <<x[1], x[2], x[3]>> /\ Runs(x[1], x[2], x[3])
    <3>1. PICK y \in B : y[1] = <<>> /\ x = After(y)
      OBVIOUS
    <3>2. Below(y[2], b)
      BY <1>2, <3>1 DEF Consistent
    <3>3. Runs(q, y[2], c)
      BY <3>2, RunsEarlier
    <3>4. x[1] = q /\ x[2] = y[2] /\ x[3] = c
      BY <3>1
    <3> QED
      BY <3>1, <3>3, <3>4
  <2>3. ASSUME NEW x \in {<<q, b, c>>}
        PROVE  x = <<x[1], x[2], x[3]>> /\ Runs(x[1], x[2], x[3])
    OBVIOUS
  <2>4. \A x \in Z : x = <<x[1], x[2], x[3]>> /\ Runs(x[1], x[2], x[3])
    BY <2>1, <2>2, <2>3
  <2> HIDE DEF Z
  <2> QED
    BY <2>4, Together
<1>4. PICK T : Consistent(T, V)
  BY <1>3 DEF Known
<1>5. q \in Seq(T)
  BY <1>3, <1>4 DEF Consistent
<1> DEFINE On(x) == <<x[1] \o q, x[2], c>>
           X == {On(x) : x \in {y \in B : y[1] # <<>>}}
<1>6. ASSUME NEW x \in X
      PROVE  /\ x = <<x[1], x[2], x[3]>> /\ x[1] \in Seq(R \cup T)
             /\ IF x[1] = <<>> THEN Below(x[2], x[3])
                ELSE \E e, d : /\ Below(x[2], e) /\ Leads(X \cup V, Head(x[1]), e, d)
                               /\ <<Tail(x[1]), d, x[3]>> \in X \cup V
  <2>1. PICK y \in B : y[1] # <<>> /\ x = On(y)
    OBVIOUS
  <2>2. x = <<x[1], x[2], x[3]>> /\ x[1] = y[1] \o q /\ x[2] = y[2] /\ x[3] = c
    BY <2>1
  <2>3. y \in W /\ y[3] = b
    OBVIOUS
  <2>4. y[1] \in Seq(R)
    BY <1>2, <2>3 DEF Consistent
  <2>5. /\ y[1] \o q # <<>> /\ Head(y[1] \o q) = Head(y[1])
        /\ Tail(y[1] \o q) = Tail(y[1]) \o q
    <3> DEFINE r == y[1]
    <3>1. r \in Seq(R) /\ r # <<>>
      BY <2>1, <2>4
    <3> HIDE DEF r
    <3>2. r \o q # <<>> /\ Head(r \o q) = Head(r) /\ Tail(r \o q) = Tail(r) \o q
      BY <1>5, <3>1, HeadOfConcat
    <3> QED
      BY <3>2 DEF r
  <2>6. y[1] \o q \in Seq(R \cup T)
    <3>1. y[1] \in Seq(R \cup T) /\ q \in Seq(R \cup T)
      BY <1>5, <2>4, SeqMonotonic
    <3> QED
      BY <3>1
  <2>7. PICK e, d : /\ Below(y[2], e) /\ Leads(W, Head(y[1]), e, d)
                    /\ <<Tail(y[1]), d, y[3]>> \in W
    BY <1>2, <2>1, <2>3 DEF Consistent
  <2>8. <<Tail(y[1]) \o q, d, c>> \in X \cup V
    <3> DEFINE y1 == <<Tail(y[1]), d, b>>
    <3>1. y1 \in B /\ y1[1] = Tail(y[1]) /\ y1[2] = d
      BY <2>3, <2>7
    <3>2. CASE Tail(y[1]) = <<>>
      <4>1. After(y1) = <<q, d, c>> /\ After(y1) \in Y
        BY <3>1, <3>2
      <4>2. <<>> \o q = q
        BY <1>5
      <4> QED
        BY <1>3, <3>2, <4>1, <4>2
    <3>3. CASE Tail(y[1]) # <<>>
      <4>1. On(y1) = <<Tail(y[1]) \o q, d, c>> /\ On(y1) \in X
        BY <3>1, <3>3
      <4> QED
        BY <4>1
    <3> QED
      BY <3>2, <3>3
  <2>9. W \subseteq X \cup V
    BY <1>3
  <2> HIDE DEF X
  <2>10. Leads(X \cup V, Head(y[1]), e, d)
    BY <2>7, <2>9, LeadsMore
  <2> QED
    BY <2>2, <2>5, <2>6, <2>7, <2>8, <2>10
<1>7. Known(X \cup V)
  <2> HIDE DEF X
  <2> QED
    BY <1>3, <1>6, KnownMore
<1>8. <<p \o q, a, c>> \in X \cup V
  <2> DEFINE y1 == <<p, a, b>>
  <2>1. y1 \in B /\ y1[1] = p /\ y1[2] = a
    BY <1>1
  <2>2. CASE p = <<>>
    <3>1. After(y1) = <<q, a, c>> /\ After(y1) \in Y
      BY <2>1, <2>2
    <3>2. p \o q = q
      BY <1>5, <2>2
    <3> QED
      BY <1>3, <3>1, <3>2
  <2>3. CASE p # <<>>
    <3>1. On(y1) = <<p \o q, a, c>> /\ On(y1) \in X
      BY <2>1, <2>3
    <3> QED
      BY <3>1
  <2> QED
    BY <2>2, <2>3
<1> HIDE DEF X
<1> QED
  BY <1>7, <1>8 DEF Runs

\* What a program that is not done does first, and then
LEMMA FirstStep ==
  ASSUME NEW p, NEW a, NEW b, Runs(p, a, b), p # <<>>
  PROVE  \E W, d, c : /\ Known(W) /\ Below(a, d) /\ Leads(W, Head(p), d, c)
                      /\ Runs(Tail(p), c, b)
<1>1. PICK W : Known(W) /\ <<p, a, b>> \in W
  BY DEF Runs
<1>2. PICK S : Consistent(S, W)
  BY <1>1 DEF Known
<1>3. PICK d, c : /\ Below(a, d) /\ Leads(W, Head(p), d, c)
                  /\ <<Tail(p), c, b>> \in W
  BY <1>1, <1>2 DEF Consistent
<1> QED
  BY <1>1, <1>3 DEF Runs

LEMMA RunsSequence ==
  ASSUME NEW p, NEW a, NEW b, Runs(p, a, b)
  PROVE  /\ \E S : p \in Seq(S)
         /\ p = <<>> => Below(a, b)
<1>1. PICK W : Known(W) /\ <<p, a, b>> \in W
  BY DEF Runs
<1>2. PICK S : Consistent(S, W)
  BY <1>1 DEF Known
<1> QED
  BY <1>1, <1>2 DEF Consistent

-----------------------------------------------------------------------------
(* What programs do to the innermost brackets, at some levels of the       *)
(* template context: how often it has been entered, and how often where a  *)
(* failure is caught.                                                      *)

Anywhere == {<<n, n>> : n \in Nat}
Outside  == {Home}
Within   == {<<n + 1, n>> : n \in Nat}

Levels == {<<n, m>> : n \in Nat, m \in Nat}

\* p makes of the brackets x the brackets y, at the levels L
Turns(L, p, x, y) ==
    \A u \in Seq(Openers), z \in L : Runs(p, Spot(All, x \o u, z), Spot(All, y \o u, z))

\* the same where the current token is known to be one of ks
Given(L, ks, p, x, y) ==
    \A u \in Seq(Openers), z \in L : Runs(p, Spot(ks \cap Kinds, x \o u, z),
                                          Spot(All, y \o u, z))

\* p goes on to anything where an error has been reported
Late(L, p) == \A z \in L : \A c : Even(Told(z), c) => Runs(p, Told(z), c)

LEMMA TurnsNothing ==
  ASSUME NEW L, NEW x
  PROVE  Turns(L, <<>>, x, x)
  BY RunsNothing, BelowItself DEF Turns

LEMMA TurnsOn ==
  ASSUME NEW L, NEW p, NEW q, NEW x, NEW y, NEW w, Turns(L, p, x, y), Turns(L, q, y, w)
  PROVE  Turns(L, p \o q, x, w)
  BY RunsOn DEF Turns

LEMMA GivenOn ==
  ASSUME NEW L, NEW ks, NEW p, NEW q, NEW x, NEW y, NEW w,
         Given(L, ks, p, x, y), Turns(L, q, y, w)
  PROVE  Given(L, ks, p \o q, x, w)
  BY RunsOn DEF Turns, Given

LEMMA SpotBelow ==
  ASSUME NEW ks, NEW js, ks \subseteq js, NEW v, NEW z
  PROVE  Below(Spot(ks, v, z), Spot(js, v, z)) /\ Even(Spot(ks, v, z), Spot(js, v, z))
  BY DEF Below, Even, Spot

LEMMA GivenAny ==
  ASSUME NEW L, NEW ks, NEW p, NEW x, NEW y, Turns(L, p, x, y)
  PROVE  Given(L, ks, p, x, y)
<1> SUFFICES ASSUME NEW u \in Seq(Openers), NEW z \in L
             PROVE  Runs(p, Spot(ks \cap Kinds, x \o u, z), Spot(All, y \o u, z))
  BY DEF Given
<1>1. Below(Spot(ks \cap Kinds, x \o u, z), Spot(All, x \o u, z))
  <2>1. ks \cap Kinds \subseteq All
    BY DEF All
  <2> QED
    BY <2>1, SpotBelow
<1>2. Runs(p, Spot(All, x \o u, z), Spot(All, y \o u, z))
  BY DEF Turns
<1> QED
  BY <1>1, <1>2, RunsEarlier

\* What keeps the brackets keeps more of them.
LEMMA TurnsInside ==
  ASSUME NEW L, NEW p, Turns(L, p, <<>>, <<>>), NEW x \in Seq(Openers)
  PROVE  Turns(L, p, x, x)
<1> SUFFICES ASSUME NEW u \in Seq(Openers), NEW z \in L
             PROVE  Runs(p, Spot(All, x \o u, z), Spot(All, x \o u, z))
  BY DEF Turns
<1> DEFINE v == x \o u
<1>1. v \in Seq(Openers)
  OBVIOUS
<1>2. <<>> \o v = v
  BY <1>1
<1> HIDE DEF v
<1>3. Runs(p, Spot(All, <<>> \o v, z), Spot(All, <<>> \o v, z))
  BY <1>1 DEF Turns
<1> QED
  BY <1>2, <1>3 DEF v

-----------------------------------------------------------------------------
(* The steps of programs.                                                  *)

LEMMA PassesInside ==
  ASSUME NEW k, NEW x \in Seq(Openers), NEW y \in Seq(Openers), Passes(k, x, y),
         NEW u \in Seq(Openers)
  PROVE  Passes(k, x \o u, y \o u) /\ y \o u \in Seq(Openers)
<1>1. y \o u \in Seq(Openers)
  OBVIOUS
<1>2. CASE k \in Openers /\ y = <<k>> \o x
  <2>1. (<<k>> \o x) \o u = <<k>> \o (x \o u)
    <3>1. <<k>> \in Seq(Openers)
      BY <1>2
    <3> QED
      BY <3>1, ConcatAssociative
  <2> QED
    BY <1>1, <1>2, <2>1 DEF Passes
<1>3. CASE k \in Closers /\ x = <<Opener[k]>> \o y
  <2>1. (<<Opener[k]>> \o y) \o u = <<Opener[k]>> \o (y \o u)
    <3>1. Opener[k] \in Openers
      BY <1>3 DEF Opener, Closers, Openers
    <3>2. <<Opener[k]>> \in Seq(Openers)
      BY <3>1
    <3> QED
      BY <3>2, ConcatAssociative
  <2> QED
    BY <1>1, <1>3, <2>1 DEF Passes
<1>4. CASE k \notin Openers \cup Closers /\ y = x
  BY <1>1, <1>4 DEF Passes
<1> QED
  BY <1>2, <1>3, <1>4 DEF Passes

LEMMA TurnsExpect ==
  ASSUME NEW L \in SUBSET Anywhere, NEW k, NEW x \in Seq(Openers), NEW y \in Seq(Openers),
         Passes(k, x, y)
  PROVE  Turns(L, Expect(k), x, y)
<1> SUFFICES ASSUME NEW u \in Seq(Openers), NEW z \in L
             PROVE  Runs(Expect(k), Spot(All, x \o u, z), Spot(All, y \o u, z))
  BY DEF Turns
<1> DEFINE s == [op |-> "expect", kind |-> k]
           a == Spot(All, x \o u, z)
           c == Spot(All, y \o u, z)
<1>1. Passes(k, x \o u, y \o u) /\ y \o u \in Seq(Openers)
  BY PassesInside
<1>2. Shifted(a, y \o u) = c
  BY DEF Shifted, Spot
<1>3. a.level = a.base /\ Even(a, c) /\ a.base = c.base /\ a.open = x \o u
  BY DEF Anywhere, Even, Spot
<1>4. Leads({}, s, a, c)
  <2>1. \E w \in Seq(Openers) : Passes(s.kind, a.open, w) /\ Below(Shifted(a, w), c)
    BY <1>1, <1>2, <1>3, BelowItself
  <2> HIDE DEF a, c
  <2> QED
    BY <1>3, <2>1 DEF Leads, Idle
<1> HIDE DEF a, c
<1>5. Runs(<<s>>, a, c)
  BY <1>4, StepRuns
<1> QED
  BY <1>5 DEF Expect, a, c

LEMMA GivenAdvance ==
  ASSUME NEW L, NEW ks, NEW x \in Seq(Openers), NEW y \in Seq(Openers),
         \A k \in ks : Passes(k, x, y)
  PROVE  Given(L, ks, Advance, x, y)
<1> SUFFICES ASSUME NEW u \in Seq(Openers), NEW z \in L
             PROVE  Runs(Advance, Spot(ks \cap Kinds, x \o u, z), Spot(All, y \o u, z))
  BY DEF Given
<1> DEFINE s == [op |-> "advance"]
           a == Spot(ks \cap Kinds, x \o u, z)
           c == Spot(All, y \o u, z)
<1>1. \A k \in ks : Passes(k, x \o u, y \o u) /\ y \o u \in Seq(Openers)
  BY PassesInside
<1>2. Shifted(a, y \o u) = c
  BY DEF Shifted, Spot
<1>3. Even(a, c) /\ a.base = c.base /\ a.open = x \o u /\ a.now = ks \cap Kinds
  BY DEF Even, Spot
<1>4. Leads({}, s, a, c)
  <2>1. \A k \in a.now \cap Kinds :
          \E w \in Seq(Openers) : Passes(k, a.open, w) /\ Below(Shifted(a, w), c)
    BY <1>1, <1>2, <1>3, BelowItself
  <2> HIDE DEF a, c
  <2> QED
    BY <1>3, <2>1 DEF Leads, Idle
<1> HIDE DEF a, c
<1>5. Runs(<<s>>, a, c)
  BY <1>4, StepRuns
<1> QED
  BY <1>5 DEF Advance, a, c

\* Once an error has been reported, any token may be passed.
LEMMA LateAdvance ==
  ASSUME NEW L
  PROVE  Late(L, Advance)
<1> SUFFICES ASSUME NEW z \in L, NEW c, Even(Told(z), c)
             PROVE  Runs(Advance, Told(z), c)
  BY DEF Late
<1> DEFINE s == [op |-> "advance"]
           a == Told(z)
<1>1. Leads({}, s, a, c)
  BY DEF Leads, Idle, Told, Even
<1> HIDE DEF a
<1>2. Runs(<<s>>, a, c)
  BY <1>1, StepRuns
<1> QED
  BY <1>2 DEF Advance, a

\* where a failure leads
LEMMA RunsFail ==
  ASSUME NEW z \in Anywhere, NEW c, c.base = z[2]
  PROVE  Runs(Fail, Told(z), c)
<1> DEFINE s == [op |-> "fail"]
           a == Told(z)
<1>1. Leads({}, s, a, c)
  BY DEF Leads, Idle, Told, Anywhere
<1> HIDE DEF a
<1>2. Runs(<<s>>, a, c)
  BY <1>1, StepRuns
<1> QED
  BY <1>2 DEF Fail, a

LEMMA RunsReport ==
  ASSUME NEW a
  PROVE  Runs(Report, a, Told(<<a.level, a.base>>))
<1> DEFINE s == [op |-> "report"]
           c == Told(<<a.level, a.base>>)
<1>1. Leads({}, s, a, c)
  BY DEF Leads, Idle, Told, Even
<1> HIDE DEF c
<1>2. Runs(<<s>>, a, c)
  BY <1>1, StepRuns
<1> QED
  BY <1>2 DEF Report, c

LEMMA LateSynchronize == Late(Outside, Synchronize)
<1> SUFFICES ASSUME NEW z \in Outside, NEW c, Even(Told(z), c)
             PROVE  Runs(Synchronize, Told(z), c)
  BY DEF Late
<1> DEFINE s == [op |-> "synchronize"]
           a == Told(z)
<1>1. Leads({}, s, a, c)
  BY DEF Leads, Idle, Told, Outside, Home, Even
<1> HIDE DEF a
<1>2. Runs(<<s>>, a, c)
  BY <1>1, StepRuns
<1> QED
  BY <1>2 DEF Synchronize, a

LEMMA LateNothing ==
  ASSUME NEW L
  PROVE  Late(L, <<>>)
  BY RunsNothing DEF Late, Below, Told

\* p reports an error and does not fail
Reports(L, p) == \A z \in L : \A a : Even(a, Told(z)) => Runs(p, a, Told(z))

LEMMA ReportReports ==
  ASSUME NEW L \in SUBSET Levels
  PROVE  Reports(L, Report)
<1> SUFFICES ASSUME NEW z \in L, NEW a, Even(a, Told(z))
             PROVE  Runs(Report, a, Told(z))
  BY DEF Reports
<1>1. z = <<z[1], z[2]>> /\ a.level = z[1] /\ a.base = z[2]
  BY DEF Levels, Even, Told
<1> QED
  BY <1>1, RunsReport

LEMMA ReportsOn ==
  ASSUME NEW L, NEW p, NEW q, Reports(L, p), Late(L, q)
  PROVE  Reports(L, p \o q)
<1>1. \A z : Even(Told(z), Told(z))
  BY DEF Even
<1> QED
  BY <1>1, RunsOn DEF Reports, Late

\* What begins with a report is late from there on.
LEMMA TurnsReport ==
  ASSUME NEW L, NEW p, NEW q, Reports(L, p), Late(L, q), NEW x, NEW y
  PROVE  Turns(L, p \o q, x, y) /\ Late(L, p \o q)
<1>1. ASSUME NEW a, NEW c, NEW z \in L, Even(a, Told(z)), Even(Told(z), c)
      PROVE  Runs(p \o q, a, c)
  BY <1>1, RunsOn DEF Reports, Late
<1>2. Turns(L, p \o q, x, y)
  <2> SUFFICES ASSUME NEW u \in Seq(Openers), NEW z \in L
               PROVE  Runs(p \o q, Spot(All, x \o u, z), Spot(All, y \o u, z))
    BY DEF Turns
  <2>1. Even(Spot(All, x \o u, z), Told(z)) /\ Even(Told(z), Spot(All, y \o u, z))
    BY DEF Even, Spot, Told
  <2> QED
    BY <1>1, <2>1
<1>3. Late(L, p \o q)
  <2>1. \A z : Even(Told(z), Told(z))
    BY DEF Even
  <2> QED
    BY <1>1, <2>1 DEF Late
<1> QED
  BY <1>2, <1>3

LEMMA TurnsError ==
  ASSUME NEW L \in SUBSET Anywhere, NEW x, NEW y
  PROVE  Turns(L, Error, x, y) /\ Late(L, Error)
<1>1. Late(L, Fail)
  BY RunsFail DEF Late, Even, Told
<1>2. L \subseteq Levels
  BY DEF Anywhere, Levels
<1> QED
  BY <1>1, <1>2, ReportReports, TurnsReport DEF Error

\* a parse function that may be called at the levels L
Called(L, r) == /\ L \subseteq Anywhere /\ r \in Rules \ {"compilationUnit"}
                /\ L \subseteq Outside \/ r \in DeepRules

LEMMA TurnsCall ==
  ASSUME NEW L, NEW r, Called(L, r), NEW bare \in BOOLEAN, NEW x \in Seq(Openers)
  PROVE  Turns(L, CallBare(r, bare), x, x)
<1> SUFFICES ASSUME NEW u \in Seq(Openers), NEW z \in L
             PROVE  Runs(CallBare(r, bare), Spot(All, x \o u, z), Spot(All, x \o u, z))
  BY DEF Turns
<1> DEFINE s == [op |-> "call", rule |-> r, bare |-> bare]
           a == Spot(All, x \o u, z)
<1>1. x \o u \in Seq(Openers)
  OBVIOUS
<1>2. a = Spot(All, x \o u, <<a.level, a.base>>) /\ a.level = a.base
  BY DEF Spot, Called, Anywhere
<1>3. a.level = 0 \/ r \in DeepRules
  BY DEF Called, Outside, Home, Spot
<1>4. \E v \in Seq(Openers) : LET b == Spot(All, v, <<a.level, a.base>>)
                              IN  Below(a, b) /\ Below(b, a)
  BY <1>1, <1>2, BelowItself
<1> HIDE DEF a
<1>5. Leads({}, s, a, a)
  BY <1>2, <1>3, <1>4 DEF Leads, Idle, Called
<1>6. Runs(<<s>>, a, a)
  BY <1>5, StepRuns
<1> QED
  BY <1>6 DEF CallBare, a

LEMMA TurnsCalls ==
  ASSUME NEW L, NEW r, Called(L, r), NEW x \in Seq(Openers)
  PROVE  Turns(L, Call(r), x, x)
<1>1. Call(r) = CallBare(r, FALSE)
  BY DEF Call, CallBare
<1> QED
  BY <1>1, TurnsCall

\* a choice by the current token: none of the cases leaves js of ks
LEMMA RunsSelect ==
  ASSUME NEW n \in Nat, NEW cases, DOMAIN cases = 1 .. n, NEW otherwise, NEW v, NEW z, NEW c,
         c.base = z[2],
         NEW ks, NEW js, \A k \in ks \cap Kinds : k \in js \/ \E i \in 1 .. n : k \in cases[i][1],
         \A i \in 1 .. n : Runs(cases[i][2], Spot(cases[i][1] \cap Kinds, v, z), c),
         Runs(otherwise, Spot(js, v, z), c)
  PROVE  Runs(Select(cases, otherwise), Spot(ks, v, z), c)
<1> DEFINE s == [op |-> "select", at |-> 1, cases |-> cases, otherwise |-> otherwise]
           a == Spot(ks, v, z)
           none == {k \in Kinds : \A i \in DOMAIN s.cases : k \notin s.cases[i][1]}
           Then(i) == <<cases[i][2], Seeing(a, 1, cases[i][1] \cap Kinds), c>>
           X == {Then(i) : i \in 1 .. n} \cup {<<otherwise, Seeing(a, 1, none), c>>}
<1>1. \A ls : Below(Seeing(a, 1, ls \cap Kinds), Spot(ls \cap Kinds, v, z))
  BY DEF Seeing, Spot, Below, Even
<1>2. Below(Seeing(a, 1, none), Spot(js, v, z))
  <2>1. none \cap ks \subseteq js
    OBVIOUS
  <2> HIDE DEF none
  <2> QED
    BY <2>1 DEF Seeing, Spot, Below, Even
<1>3. \A i \in 1 .. n : Runs(cases[i][2], Seeing(a, 1, cases[i][1] \cap Kinds), c)
  <2> HIDE DEF a
  <2> QED
    BY <1>1, RunsEarlier
<1>4. Runs(otherwise, Seeing(a, 1, none), c)
  <2> HIDE DEF a, none
  <2> QED
    BY <1>2, RunsEarlier
<1>5. \A w \in X : w = <<w[1], w[2], w[3]>> /\ Runs(w[1], w[2], w[3])
  <2>1. ASSUME NEW i \in 1 .. n
        PROVE  /\ Then(i) = <<Then(i)[1], Then(i)[2], Then(i)[3]>>
               /\ Runs(Then(i)[1], Then(i)[2], Then(i)[3])
    <3> HIDE DEF a
    <3> QED
      BY <1>3
  <2> HIDE DEF a, none, Then
  <2> QED
    BY <1>4, <2>1
<1>6. Leads(X, s, a, c)
  <2>1. \A i \in DOMAIN s.cases : Then(i) \in X
    OBVIOUS
  <2>2. <<otherwise, Seeing(a, 1, none), c>> \in X
    OBVIOUS
  <2>3. DOMAIN s.cases \subseteq Nat
    OBVIOUS
  <2>4. a.base = c.base
    BY DEF Spot
  <2> HIDE DEF a, X
  <2> QED
    BY <2>1, <2>2, <2>3, <2>4 DEF Leads, Idle
<1> HIDE DEF a, X
<1>7. Runs(<<s>>, a, c)
  BY <1>5, <1>6, StepRuns
<1> QED
  BY <1>7 DEF Select, Ahead, a

LEMMA TurnsSelect ==
  ASSUME NEW L, NEW n \in Nat, NEW cases, DOMAIN cases = 1 .. n, NEW otherwise, NEW x, NEW y,
         \A i \in 1 .. n : Given(L, cases[i][1], cases[i][2], x, y),
         Turns(L, otherwise, x, y)
  PROVE  Turns(L, Select(cases, otherwise), x, y)
<1> SUFFICES ASSUME NEW u \in Seq(Openers), NEW z \in L
             PROVE  Runs(Select(cases, otherwise), Spot(All, x \o u, z), Spot(All, y \o u, z))
  BY DEF Turns
<1> DEFINE c == Spot(All, y \o u, z)
<1>1. \A i \in 1 .. n : Runs(cases[i][2], Spot(cases[i][1] \cap Kinds, x \o u, z), c)
  BY DEF Given
<1>2. Runs(otherwise, Spot(All, x \o u, z), c)
  BY DEF Turns
<1>3. \A k \in All \cap Kinds : k \in All \/ \E i \in 1 .. n : k \in cases[i][1]
  OBVIOUS
<1>4. c.base = z[2]
  BY DEF Spot
<1> HIDE DEF c
<1> QED
  BY <1>1, <1>2, <1>3, <1>4, RunsSelect DEF c

LEMMA GivenSelect ==
  ASSUME NEW L, NEW n \in Nat, NEW cases, DOMAIN cases = 1 .. n, NEW otherwise, NEW x, NEW y,
         NEW ks, NEW js, \A k \in ks : k \in js \/ \E i \in 1 .. n : k \in cases[i][1],
         \A i \in 1 .. n : Given(L, cases[i][1], cases[i][2], x, y),
         Given(L, js, otherwise, x, y)
  PROVE  Given(L, ks, Select(cases, otherwise), x, y)
<1> SUFFICES ASSUME NEW u \in Seq(Openers), NEW z \in L
             PROVE  Runs(Select(cases, otherwise), Spot(ks \cap Kinds, x \o u, z),
                         Spot(All, y \o u, z))
  BY DEF Given
<1> DEFINE c == Spot(All, y \o u, z)
           ls == ks \cap Kinds
           hs == js \cap Kinds
<1>1. \A i \in 1 .. n : Runs(cases[i][2], Spot(cases[i][1] \cap Kinds, x \o u, z), c)
  BY DEF Given
<1>2. Runs(otherwise, Spot(hs, x \o u, z), c)
  BY DEF Given
<1>3. \A k \in ls \cap Kinds : k \in hs \/ \E i \in 1 .. n : k \in cases[i][1]
  OBVIOUS
<1>4. c.base = z[2]
  BY DEF Spot
<1> HIDE DEF c, ls, hs
<1> QED
  BY <1>1, <1>2, <1>3, <1>4, RunsSelect DEF c, ls

LEMMA TurnsIf ==
  ASSUME NEW L, NEW ks, NEW then, NEW otherwise, NEW x, NEW y,
         Given(L, ks, then, x, y), Turns(L, otherwise, x, y)
  PROVE  Turns(L, If(ks, then, otherwise), x, y)
<1> DEFINE cases == << <<ks, then>> >>
<1>1. DOMAIN cases = 1 .. 1 /\ cases[1][1] = ks /\ cases[1][2] = then
  OBVIOUS
<1> HIDE DEF cases
<1>2. Turns(L, Select(cases, otherwise), x, y)
  BY <1>1, TurnsSelect
<1> QED
  BY <1>2 DEF If, cases

\* the same by the token behind the current one
LEMMA GivenAhead ==
  ASSUME NEW L, NEW ks, NEW js, NEW then, NEW otherwise, NEW x, NEW y,
         \A u \in Seq(Openers), z \in L :
           Runs(then, [Spot(ks \cap Kinds, x \o u, z) EXCEPT !.next = js \cap Kinds],
                Spot(All, y \o u, z)),
         Given(L, ks, otherwise, x, y)
  PROVE  Given(L, ks, Ahead(2, << <<js, then>> >>, otherwise), x, y)
<1> DEFINE cases == << <<js, then>> >>
<1>1. DOMAIN cases = {1} /\ cases[1][1] = js /\ cases[1][2] = then
  OBVIOUS
<1> HIDE DEF cases
<1> SUFFICES ASSUME NEW u \in Seq(Openers), NEW z \in L
             PROVE  Runs(Ahead(2, cases, otherwise), Spot(ks \cap Kinds, x \o u, z),
                         Spot(All, y \o u, z))
  BY DEF Given, cases
<1> DEFINE s == [op |-> "select", at |-> 2, cases |-> cases, otherwise |-> otherwise]
           a == Spot(ks \cap Kinds, x \o u, z)
           b == [a EXCEPT !.next = js \cap Kinds]
           c == Spot(All, y \o u, z)
           none == {k \in Kinds : \A i \in DOMAIN s.cases : k \notin s.cases[i][1]}
           X == {<<then, Seeing(a, 2, js \cap Kinds), c>>,
                 <<otherwise, Seeing(a, 2, none), c>>}
<1>2. Below(Seeing(a, 2, js \cap Kinds), b)
  BY DEF Seeing, Spot, Below, Even
<1>3. Below(Seeing(a, 2, none), a)
  <2> HIDE DEF none
  <2> QED
    BY DEF Seeing, Spot, Below, Even
<1>4. Runs(then, Seeing(a, 2, js \cap Kinds), c)
  <2>1. Runs(then, b, c)
    OBVIOUS
  <2> HIDE DEF a, b, c
  <2> QED
    BY <1>2, <2>1, RunsEarlier
<1>5. Runs(otherwise, Seeing(a, 2, none), c)
  <2>1. Runs(otherwise, a, c)
    BY DEF Given
  <2> HIDE DEF a, c, none
  <2> QED
    BY <1>3, <2>1, RunsEarlier
<1>6. \A w \in X : w = <<w[1], w[2], w[3]>> /\ Runs(w[1], w[2], w[3])
  <2> HIDE DEF a, c, none
  <2> QED
    BY <1>4, <1>5
<1>7. Leads(X, s, a, c)
  <2>1. Unread \notin a.now
    BY DEF Spot, Kinds, Tokens, EOF, Unread
  <2>2. \A i \in DOMAIN s.cases :
          <<s.cases[i][2], Seeing(a, s.at, s.cases[i][1] \cap Kinds), c>> \in X
    BY <1>1
  <2>3. <<otherwise, Seeing(a, s.at, none), c>> \in X
    OBVIOUS
  <2>4. DOMAIN s.cases \subseteq Nat
    BY <1>1
  <2>5. a.base = c.base
    BY DEF Spot
  <2> HIDE DEF a, c, X
  <2> QED
    BY <2>1, <2>2, <2>3, <2>4, <2>5 DEF Leads, Idle
<1> HIDE DEF a, c, X
<1>8. Runs(<<s>>, a, c)
  BY <1>6, <1>7, StepRuns
<1> QED
  BY <1>8 DEF Ahead, a, c

LEMMA TurnsWhile ==
  ASSUME NEW L, NEW ks, NEW body, NEW x, Given(L, ks, body, x, x)
  PROVE  Turns(L, While(ks, body), x, x)
<1> SUFFICES ASSUME NEW u \in Seq(Openers), NEW z \in L
             PROVE  Runs(While(ks, body), Spot(All, x \o u, z), Spot(All, x \o u, z))
  BY DEF Turns
<1> DEFINE s == [op |-> "while", kinds |-> ks, body |-> body]
           a == Spot(All, x \o u, z)
           X == {<<body, Seeing(a, 1, ks \cap Kinds), a>>}
<1>1. Below(Seeing(a, 1, ks \cap Kinds), Spot(ks \cap Kinds, x \o u, z))
  BY DEF Seeing, Spot, Below, Even
<1>2. Below(Seeing(a, 1, Kinds \ ks), a)
  BY DEF Seeing, Spot, Below, Even
<1>3. Runs(body, Seeing(a, 1, ks \cap Kinds), a)
  <2>1. Runs(body, Spot(ks \cap Kinds, x \o u, z), a)
    BY DEF Given
  <2> HIDE DEF a
  <2> QED
    BY <1>1, <2>1, RunsEarlier
<1>4. Leads(X, s, a, a)
  <2>1. <<body, Seeing(a, 1, ks \cap Kinds), a>> \in X
    OBVIOUS
  <2> HIDE DEF a, X
  <2> QED
    BY <1>2, <2>1 DEF Leads, Idle
<1> HIDE DEF a
<1>5. \A w \in X : w = <<w[1], w[2], w[3]>> /\ Runs(w[1], w[2], w[3])
  BY <1>3
<1> HIDE DEF X
<1>6. Runs(<<s>>, a, a)
  BY <1>4, <1>5, StepRuns
<1> QED
  BY <1>6 DEF While, a

\* where the loop ends, the current token is one of ks
LEMMA RunsUntil ==
  ASSUME NEW L, NEW ks, NEW body, NEW x, Turns(L, body, x, x),
         NEW u \in Seq(Openers), NEW z \in L
  PROVE  Runs(Until(ks, body), Spot(All, x \o u, z), Spot(ks \cap Kinds, x \o u, z))
<1> DEFINE s == [op |-> "until", kinds |-> ks, body |-> body]
           a == Spot(All, x \o u, z)
           c == Spot(ks \cap Kinds, x \o u, z)
           X == {<<body, Seeing(a, 1, Kinds \ ks), a>>}
<1>1. Below(Seeing(a, 1, Kinds \ ks), a)
  BY DEF Seeing, Spot, Below, Even
<1>2. Below(Seeing(a, 1, ks \cap Kinds), c)
  BY DEF Seeing, Spot, Below, Even
<1>3. Runs(body, Seeing(a, 1, Kinds \ ks), a)
  <2>1. Runs(body, a, a)
    BY DEF Turns
  <2> HIDE DEF a
  <2> QED
    BY <1>1, <2>1, RunsEarlier
<1>4. Leads(X, s, a, c)
  <2>1. <<body, Seeing(a, 1, Kinds \ ks), a>> \in X
    OBVIOUS
  <2>2. a.base = c.base
    BY DEF Spot
  <2> HIDE DEF a, c, X
  <2> QED
    BY <1>2, <2>1, <2>2 DEF Leads, Idle
<1> HIDE DEF a, c
<1>5. \A w \in X : w = <<w[1], w[2], w[3]>> /\ Runs(w[1], w[2], w[3])
  BY <1>3
<1> HIDE DEF X
<1>6. Runs(<<s>>, a, c)
  BY <1>4, <1>5, StepRuns
<1> QED
  BY <1>6 DEF Until, a, c

LEMMA TurnsUntil ==
  ASSUME NEW L, NEW ks, NEW body, NEW x, Turns(L, body, x, x)
  PROVE  Turns(L, Until(ks, body), x, x)
<1> SUFFICES ASSUME NEW u \in Seq(Openers), NEW z \in L
             PROVE  Runs(Until(ks, body), Spot(All, x \o u, z), Spot(All, x \o u, z))
  BY DEF Turns
<1>1. Runs(Until(ks, body), Spot(All, x \o u, z), Spot(ks \cap Kinds, x \o u, z))
  BY RunsUntil
<1>2. Below(Spot(ks \cap Kinds, x \o u, z), Spot(All, x \o u, z))
  <2>1. ks \cap Kinds \subseteq All
    BY DEF All
  <2> QED
    BY <2>1, SpotBelow
<1> QED
  BY <1>1, <1>2, RunsFurther

\* at the levels L the calls that an attempt makes fail to it at the levels M
Catching(L, M) == L \subseteq Levels /\ \A z \in L : <<z[1], z[1]>> \in M

LEMMA InnerSpot ==
  ASSUME NEW ks, NEW v, NEW z
  PROVE  Inner(Spot(ks, v, z)) = Spot(ks, v, <<z[1], z[1]>>)
  BY DEF Inner, Spot

LEMMA TurnsAttempt ==
  ASSUME NEW L, NEW M, Catching(L, M), NEW body, NEW handler, NEW x, NEW y,
         Turns(M, body, x, y), Late(L, handler)
  PROVE  Turns(L, Attempt(body, handler), x, y)
<1> SUFFICES ASSUME NEW u \in Seq(Openers), NEW z \in L
             PROVE  Runs(Attempt(body, handler), Spot(All, x \o u, z), Spot(All, y \o u, z))
  BY DEF Turns
<1> DEFINE s == [op |-> "attempt", body |-> body, handler |-> handler]
           a == Spot(All, x \o u, z)
           c == Spot(All, y \o u, z)
           X == {<<body, Inner(a), Inner(c)>>, <<handler, Caught(a), c>>}
<1>1. Inner(a) = Spot(All, x \o u, <<z[1], z[1]>>) /\ Inner(c) = Spot(All, y \o u, <<z[1], z[1]>>)
  BY InnerSpot
<1>2. Runs(body, Inner(a), Inner(c))
  BY <1>1 DEF Turns, Catching
<1>3. Caught(a) = Told(z) /\ Even(Told(z), c) /\ Even(a, c)
  BY DEF Caught, Spot, Told, Even
<1>4. Runs(handler, Caught(a), c)
  BY <1>3 DEF Late
<1>5. Leads(X, s, a, c)
  <2>1. <<body, Inner(a), Inner(c)>> \in X /\ <<handler, Caught(a), c>> \in X
    OBVIOUS
  <2>2. a.base = c.base
    BY DEF Spot
  <2> HIDE DEF a, c, X
  <2> QED
    BY <1>3, <2>1, <2>2 DEF Leads, Idle
<1> HIDE DEF a, c
<1>6. \A w \in X : w = <<w[1], w[2], w[3]>> /\ Runs(w[1], w[2], w[3])
  BY <1>2, <1>4
<1> HIDE DEF X
<1>7. Runs(<<s>>, a, c)
  BY <1>5, <1>6, StepRuns
<1> QED
  BY <1>7 DEF Attempt, a, c

\* the flags of parse functions
LEMMA RunsIdle ==
  ASSUME NEW s, s.op \in Idle, s.op = "mark" => s.flag \in Flags, NEW a
  PROVE  Runs(<<s>>, a, a)
<1>1. Leads({}, s, a, a)
  BY BelowItself DEF Leads, Idle
<1> QED
  BY <1>1, StepRuns

LEMMA TurnsIdle ==
  ASSUME NEW L, NEW s, s.op \in Idle, s.op = "mark" => s.flag \in Flags, NEW x
  PROVE  Turns(L, <<s>>, x, x)
  BY RunsIdle DEF Turns

LEMMA TurnsFlag ==
  ASSUME NEW L, NEW x
  PROVE  /\ \A f \in Flags : Turns(L, Mark(f), x, x)
         /\ \A fs : Turns(L, Clear(fs), x, x)
  BY TurnsIdle DEF Mark, Clear, Idle

LEMMA TurnsIfMarked ==
  ASSUME NEW L, NEW f, NEW then, NEW otherwise, NEW x, NEW y,
         Turns(L, then, x, y), Turns(L, otherwise, x, y)
  PROVE  Turns(L, IfMarked(f, then, otherwise), x, y)
<1> SUFFICES ASSUME NEW u \in Seq(Openers), NEW z \in L
             PROVE  Runs(IfMarked(f, then, otherwise),
                         Spot(All, x \o u, z), Spot(All, y \o u, z))
  BY DEF Turns
<1> DEFINE s == [op |-> "marked", flag |-> f, then |-> then, otherwise |-> otherwise]
           a == Spot(All, x \o u, z)
           c == Spot(All, y \o u, z)
           X == {<<then, a, c>>, <<otherwise, a, c>>}
<1>1. Runs(then, a, c) /\ Runs(otherwise, a, c)
  BY DEF Turns
<1>0. a.base = c.base
  BY DEF Spot
<1> HIDE DEF a, c
<1>2. \A w \in X : w = <<w[1], w[2], w[3]>> /\ Runs(w[1], w[2], w[3])
  BY <1>1
<1>3. Leads(X, s, a, c)
  BY <1>0 DEF Leads, Idle
<1> HIDE DEF X
<1>4. Runs(<<s>>, a, c)
  BY <1>2, <1>3, StepRuns
<1> QED
  BY <1>4 DEF IfMarked, a, c

-----------------------------------------------------------------------------
(* Programs, from their parts.                                             *)

Brackets == {"(", "[", "LBrace", "LString", ")", "]", "RBrace", "RString"}

\* consuming one of ks changes no brackets
Plain(ks) == \A k \in ks : k \notin Brackets

LEMMA BracketsAre ==
  /\ Brackets = Openers \cup Closers
  /\ Openers \subseteq Brackets
  /\ Opener[")"] = "(" /\ Opener["]"] = "[" /\ Opener["RBrace"] = "LBrace"
  /\ Opener["RString"] = "LString"
  /\ Closers = {")", "]", "RBrace", "RString"}
  BY DEF Brackets, Openers, Closers, Opener

LEMMA OpenSeqs ==
  /\ <<>> \in Seq(Openers) /\ <<"(">> \in Seq(Openers) /\ <<"[">> \in Seq(Openers)
  /\ <<"LBrace">> \in Seq(Openers) /\ <<"LString">> \in Seq(Openers)
<1>1. \A o \in Openers : <<o>> \in Seq(Openers)
  OBVIOUS
<1> QED
  BY <1>1 DEF Openers

LEMMA RulesAre ==
  /\ DeepRules \subseteq Rules \ {"compilationUnit"}
  /\ {"stringLiteral", "statement", "break", "block", "defer", "return",
      "expressionStatement", "if", "while", "for", "switch", "case", "match", "matchCase",
      "moreNames", "variable", "externVariable", "conditionVariable", "declaration",
      "functionParam", "function", "externFunction", "attributeList", "attribute",
      "attributeArguments", "genericParameter", "genericParameters", "enum", "enumOption",
      "typeDeclaration", "import", "structOrClass", "member", "field", "annotation",
      "inheritance"} \subseteq Rules \ {"compilationUnit"}
  BY DEF DeepRules, Rules, NotBare, ExpressionRules, OtherRules

LEMMA DeepTurns ==
  ASSUME NEW L \in SUBSET Anywhere, NEW r \in DeepRules, NEW x \in Seq(Openers)
  PROVE  /\ Turns(L, Call(r), x, x)
         /\ \A bare \in BOOLEAN : Turns(L, CallBare(r, bare), x, x)
  BY RulesAre, TurnsCall, TurnsCalls DEF Called

LEMMA OutsideTurns ==
  ASSUME NEW r \in Rules \ {"compilationUnit"}, NEW x \in Seq(Openers)
  PROVE  /\ Turns(Outside, Call(r), x, x)
         /\ \A bare \in BOOLEAN : Turns(Outside, CallBare(r, bare), x, x)
  BY TurnsCall, TurnsCalls DEF Called, Outside, Home, Anywhere

\* Programs one after another
LEMMA KeepsThen ==
  ASSUME NEW L, NEW p, NEW q, NEW x, NEW y, Turns(L, p, x, x), Turns(L, q, x, y)
  PROVE  Turns(L, p \o q, x, y)
  BY TurnsOn

LEMMA ThenKeeps ==
  ASSUME NEW L, NEW p, NEW q, NEW x, NEW y, Turns(L, p, x, y), Turns(L, q, y, y)
  PROVE  Turns(L, p \o q, x, y)
  BY TurnsOn

LEMMA GivenThen ==
  ASSUME NEW L, NEW ks, NEW p, NEW q, NEW x, NEW y, Given(L, ks, p, x, x), Turns(L, q, x, y)
  PROVE  Given(L, ks, p \o q, x, y)
  BY GivenOn

LEMMA GivenKeeps ==
  ASSUME NEW L, NEW ks, NEW p, NEW q, NEW x, NEW y, Given(L, ks, p, x, y), Turns(L, q, y, y)
  PROVE  Given(L, ks, p \o q, x, y)
  BY GivenOn

\* between two brackets
LEMMA OpenThenClose ==
  ASSUME NEW L, NEW p, NEW q,
         \/ Turns(L, p, <<>>, <<"(">>) /\ Turns(L, q, <<"(">>, <<>>)
         \/ Turns(L, p, <<>>, <<"[">>) /\ Turns(L, q, <<"[">>, <<>>)
         \/ Turns(L, p, <<>>, <<"LBrace">>) /\ Turns(L, q, <<"LBrace">>, <<>>)
  PROVE  Turns(L, p \o q, <<>>, <<>>)
  BY TurnsOn

LEMMA GivenOpenThenClose ==
  ASSUME NEW L, NEW ks, NEW p, NEW q,
         \/ Given(L, ks, p, <<>>, <<"(">>) /\ Turns(L, q, <<"(">>, <<>>)
         \/ Given(L, ks, p, <<>>, <<"[">>) /\ Turns(L, q, <<"[">>, <<>>)
         \/ Given(L, ks, p, <<>>, <<"LBrace">>) /\ Turns(L, q, <<"LBrace">>, <<>>)
  PROVE  Given(L, ks, p \o q, <<>>, <<>>)
  BY GivenOn

LEMMA ExpectPlain ==
  ASSUME NEW L \in SUBSET Anywhere, NEW k, k \notin Brackets, NEW x \in Seq(Openers)
  PROVE  Turns(L, Expect(k), x, x)
  BY BracketsAre, TurnsExpect DEF Passes

LEMMA ExpectOpener ==
  ASSUME NEW L \in SUBSET Anywhere, NEW k \in Openers
  PROVE  Turns(L, Expect(k), <<>>, <<k>>)
<1>1. <<k>> \in Seq(Openers) /\ <<k>> \o <<>> = <<k>> /\ <<>> \in Seq(Openers)
  OBVIOUS
<1> QED
  BY <1>1, TurnsExpect DEF Passes

LEMMA ClosersPass ==
  /\ Passes(")", <<"(">>, <<>>)
  /\ Passes("]", <<"[">>, <<>>)
  /\ Passes("RBrace", <<"LBrace">>, <<>>)
  /\ Passes("RString", <<"LString">>, <<>>)
<1>1. \A o : <<o>> \o <<>> = <<o>>
  OBVIOUS
<1> QED
  BY <1>1, BracketsAre DEF Passes

LEMMA ExpectCloser ==
  ASSUME NEW L \in SUBSET Anywhere
  PROVE  /\ Turns(L, Expect(")"), <<"(">>, <<>>)
         /\ Turns(L, Expect("]"), <<"[">>, <<>>)
         /\ Turns(L, Expect("RBrace"), <<"LBrace">>, <<>>)
  BY OpenSeqs, ClosersPass, TurnsExpect

LEMMA AdvancePlain ==
  ASSUME NEW L, NEW ks, Plain(ks), NEW x \in Seq(Openers)
  PROVE  Given(L, ks, Advance, x, x)
  BY BracketsAre, GivenAdvance DEF Passes, Plain

LEMMA AdvanceOpener ==
  ASSUME NEW L, NEW k \in Openers
  PROVE  Given(L, {k}, Advance, <<>>, <<k>>)
<1>1. <<k>> \in Seq(Openers) /\ <<k>> \o <<>> = <<k>> /\ <<>> \in Seq(Openers)
  OBVIOUS
<1>2. Passes(k, <<>>, <<k>>)
  BY <1>1 DEF Passes
<1> QED
  BY <1>1, <1>2, GivenAdvance

LEMMA AdvanceCloser ==
  ASSUME NEW L
  PROVE  /\ Given(L, {")"}, Advance, <<"(">>, <<>>)
         /\ Given(L, {"]"}, Advance, <<"[">>, <<>>)
         /\ Given(L, {"RBrace"}, Advance, <<"LBrace">>, <<>>)
         /\ Given(L, {"RString"}, Advance, <<"LString">>, <<>>)
  BY OpenSeqs, ClosersPass, GivenAdvance

LEMMA TurnsWhen ==
  ASSUME NEW L, NEW ks, NEW p, NEW x, Given(L, ks, p, x, x)
  PROVE  Turns(L, When(ks, p), x, x)
  BY TurnsIf, TurnsNothing DEF When

LEMMA TurnsUnless ==
  ASSUME NEW L, NEW ks, NEW p, NEW x, Turns(L, p, x, x)
  PROVE  Turns(L, Unless(ks, p), x, x)
  BY TurnsIf, TurnsNothing, GivenAny DEF Unless

LEMMA TurnsOptional ==
  ASSUME NEW L, NEW k, k \notin Brackets, NEW x \in Seq(Openers)
  PROVE  Turns(L, Optional(k), x, x)
  BY TurnsWhen, AdvancePlain DEF Optional, Plain

LEMMA TurnsReject ==
  ASSUME NEW L \in SUBSET Anywhere, NEW ks, NEW x
  PROVE  Turns(L, Reject(ks), x, x)
  BY TurnsWhen, TurnsError, GivenAny DEF Reject

LEMMA TurnsRequire ==
  ASSUME NEW L \in SUBSET Anywhere, NEW b, NEW x
  PROVE  Turns(L, Require(b), x, x)
  BY TurnsNothing, TurnsError DEF Require

LEMMA TurnsConsume ==
  ASSUME NEW L \in SUBSET Anywhere, NEW ks, Plain(ks), NEW x \in Seq(Openers)
  PROVE  Turns(L, Consume(ks), x, x)
  BY TurnsIf, TurnsError, AdvancePlain DEF Consume

LEMMA TurnsTry ==
  ASSUME NEW L \in SUBSET Anywhere, NEW p, NEW x, NEW y, Turns(L, p, x, y),
         NEW handler, Late(L, handler)
  PROVE  Turns(L, Attempt(p, handler), x, y)
<1>1. Catching(L, L)
  BY DEF Catching, Anywhere, Levels
<1> QED
  BY <1>1, TurnsAttempt

LEMMA TurnsTrailingList ==
  ASSUME NEW L, NEW ks, NEW item, NEW x \in Seq(Openers), Turns(L, item, x, x)
  PROVE  Turns(L, TrailingList(ks, item), x, x)
<1>1. Given(L, {"Comma"}, Advance \o Unless(ks, item), x, x)
  BY AdvancePlain, TurnsUnless, GivenThen DEF Plain, Brackets
<1> QED
  BY <1>1, TurnsWhile, KeepsThen DEF TrailingList

LEMMA TurnsStrictList ==
  ASSUME NEW L \in SUBSET Anywhere, NEW k, NEW item, NEW x \in Seq(Openers),
         Turns(L, item, x, x)
  PROVE  Turns(L, StrictList(k, item), x, x)
<1>1. Given(L, {"Comma"}, (Advance \o Reject({k})) \o item, x, x)
  BY AdvancePlain, TurnsReject, GivenThen DEF Plain, Brackets
<1> QED
  BY <1>1, TurnsWhile, KeepsThen DEF StrictList

LEMMA TurnsSelectTwo ==
  ASSUME NEW L, NEW k1, NEW p1, NEW k2, NEW p2, NEW otherwise, NEW x, NEW y,
         Given(L, k1, p1, x, y), Given(L, k2, p2, x, y), Turns(L, otherwise, x, y)
  PROVE  Turns(L, Select(<< <<k1, p1>>, <<k2, p2>> >>, otherwise), x, y)
<1> DEFINE cases == << <<k1, p1>>, <<k2, p2>> >>
<1>1. /\ DOMAIN cases = 1 .. 2
      /\ \A i \in 1 .. 2 : Given(L, cases[i][1], cases[i][2], x, y)
  OBVIOUS
<1> HIDE DEF cases
<1>2. Turns(L, Select(cases, otherwise), x, y)
  BY <1>1, TurnsSelect
<1> QED
  BY <1>2 DEF cases

LEMMA TurnsSelectThree ==
  ASSUME NEW L, NEW k1, NEW p1, NEW k2, NEW p2, NEW k3, NEW p3, NEW otherwise, NEW x, NEW y,
         Given(L, k1, p1, x, y), Given(L, k2, p2, x, y), Given(L, k3, p3, x, y),
         Turns(L, otherwise, x, y)
  PROVE  Turns(L, Select(<< <<k1, p1>>, <<k2, p2>>, <<k3, p3>> >>, otherwise), x, y)
<1> DEFINE cases == << <<k1, p1>>, <<k2, p2>>, <<k3, p3>> >>
<1>1. /\ DOMAIN cases = 1 .. 3
      /\ \A i \in 1 .. 3 : Given(L, cases[i][1], cases[i][2], x, y)
  OBVIOUS
<1> HIDE DEF cases
<1>2. Turns(L, Select(cases, otherwise), x, y)
  BY <1>1, TurnsSelect
<1> QED
  BY <1>2 DEF cases

LEMMA GivenAheadAny ==
  ASSUME NEW L, NEW ks, NEW js, NEW then, NEW otherwise, NEW x, NEW y,
         Given(L, ks, then, x, y), Given(L, ks, otherwise, x, y)
  PROVE  Given(L, ks, Ahead(2, << <<js, then>> >>, otherwise), x, y)
<1>1. ASSUME NEW u \in Seq(Openers), NEW z \in L
      PROVE  Runs(then, [Spot(ks \cap Kinds, x \o u, z) EXCEPT !.next = js \cap Kinds],
                  Spot(All, y \o u, z))
  <2> DEFINE b == Spot(ks \cap Kinds, x \o u, z)
             a == [b EXCEPT !.next = js \cap Kinds]
  <2>1. Below(a, b)
    BY DEF Below, Even, Spot, All
  <2>2. Runs(then, b, Spot(All, y \o u, z))
    BY DEF Given
  <2> HIDE DEF a, b
  <2>3. Runs(then, a, Spot(All, y \o u, z))
    BY <2>1, <2>2, RunsEarlier
  <2> QED
    BY <2>3 DEF a, b
<1> QED
  BY <1>1, GivenAhead


-----------------------------------------------------------------------------
(* Expressions.                                                            *)

LEMMA TurnsLeftAssociative ==
  ASSUME NEW L \in SUBSET Anywhere, NEW r \in DeepRules, NEW ks, Plain(ks),
         NEW bare \in BOOLEAN
  PROVE  Turns(L, LeftAssociative(r, ks, bare), <<>>, <<>>)
  BY OpenSeqs, DeepTurns, TurnsWhile, AdvancePlain, GivenThen, KeepsThen DEF LeftAssociative

LEMMA BinaryExpressionsTurn ==
  ASSUME NEW L \in SUBSET Anywhere, NEW bare \in BOOLEAN
  PROVE  /\ Turns(L, ParseExpression(bare), <<>>, <<>>)
         /\ Turns(L, ParseAssignmentExpression(bare), <<>>, <<>>)
         /\ Turns(L, ParseConditionalExpression(bare), <<>>, <<>>)
         /\ Turns(L, ParseLogicalOrExpression(bare), <<>>, <<>>)
         /\ Turns(L, ParseLogicalAndExpression(bare), <<>>, <<>>)
         /\ Turns(L, ParseBitwiseOrExpression(bare), <<>>, <<>>)
         /\ Turns(L, ParseBitwiseXorExpression(bare), <<>>, <<>>)
         /\ Turns(L, ParseBitwiseAndExpression(bare), <<>>, <<>>)
         /\ Turns(L, ParseEqualityExpression(bare), <<>>, <<>>)
         /\ Turns(L, ParseRelationalExpression(bare), <<>>, <<>>)
         /\ Turns(L, ParseRangeExpression(bare), <<>>, <<>>)
         /\ Turns(L, ParseShiftExpression(bare), <<>>, <<>>)
         /\ Turns(L, ParseAdditiveExpression(bare), <<>>, <<>>)
         /\ Turns(L, ParseMultiplicativeExpression(bare), <<>>, <<>>)
<1> USE OpenSeqs, DeepTurns DEF DeepRules, Plain, Brackets
<1>1. Turns(L, ParseExpression(bare), <<>>, <<>>)
  BY DEF ParseExpression
<1>2. Turns(L, ParseAssignmentExpression(bare), <<>>, <<>>)
  BY TurnsWhen, AdvancePlain, GivenThen, KeepsThen
     DEF ParseAssignmentExpression, AssignmentOperator
<1>3. Turns(L, ParseConditionalExpression(bare), <<>>, <<>>)
  BY TurnsWhen, AdvancePlain, GivenThen, KeepsThen, ExpectPlain DEF ParseConditionalExpression
<1>4. /\ Turns(L, ParseLogicalOrExpression(bare), <<>>, <<>>)
      /\ Turns(L, ParseLogicalAndExpression(bare), <<>>, <<>>)
      /\ Turns(L, ParseBitwiseOrExpression(bare), <<>>, <<>>)
      /\ Turns(L, ParseBitwiseXorExpression(bare), <<>>, <<>>)
      /\ Turns(L, ParseBitwiseAndExpression(bare), <<>>, <<>>)
  BY TurnsLeftAssociative
     DEF ParseLogicalOrExpression, ParseLogicalAndExpression, ParseBitwiseOrExpression,
         ParseBitwiseXorExpression, ParseBitwiseAndExpression
<1>5. /\ Turns(L, ParseEqualityExpression(bare), <<>>, <<>>)
      /\ Turns(L, ParseRelationalExpression(bare), <<>>, <<>>)
      /\ Turns(L, ParseShiftExpression(bare), <<>>, <<>>)
      /\ Turns(L, ParseAdditiveExpression(bare), <<>>, <<>>)
      /\ Turns(L, ParseMultiplicativeExpression(bare), <<>>, <<>>)
  BY TurnsLeftAssociative
     DEF ParseEqualityExpression, ParseRelationalExpression, ParseShiftExpression,
         ParseAdditiveExpression, ParseMultiplicativeExpression
<1>6. Turns(L, RangeEnd(bare), <<>>, <<>>)
  BY TurnsSelectTwo, TurnsNothing, TurnsUnless, AdvancePlain, GivenThen DEF RangeEnd
<1>7. Turns(L, ParseRangeExpression(bare), <<>>, <<>>)
  BY <1>6, TurnsIf, GivenAny, KeepsThen DEF ParseRangeExpression
<1> QED
  BY <1>1, <1>2, <1>3, <1>4, <1>5, <1>7

LEMMA ArgumentsTurn ==
  ASSUME NEW L \in SUBSET Anywhere
  PROVE  Turns(L, Arguments, <<"(">>, <<>>)
<1>1. Turns(L, TrailingList({")"}, Call("expression")), <<"(">>, <<"(">>)
  BY OpenSeqs, DeepTurns, TurnsTrailingList DEF DeepRules
<1> QED
  BY <1>1, TurnsIf, AdvanceCloser, ExpectCloser, KeepsThen DEF Arguments

LEMMA UnaryExpressionsTurn ==
  ASSUME NEW L \in SUBSET Anywhere, NEW bare \in BOOLEAN
  PROVE  /\ Turns(L, ParseCastExpression(bare), <<>>, <<>>)
         /\ Turns(L, ParseUnaryExpression(bare), <<>>, <<>>)
         /\ Turns(L, ParsePostfixExpression(bare), <<>>, <<>>)
         /\ Turns(L, ParseIdentifierExpression(bare), <<>>, <<>>)
<1> USE OpenSeqs, DeepTurns DEF DeepRules, Plain, Brackets
<1>1. Turns(L, ParseCastExpression(bare), <<>>, <<>>)
  BY TurnsWhile, AdvancePlain, GivenThen, KeepsThen DEF ParseCastExpression
<1>2. Turns(L, ParseUnaryExpression(bare), <<>>, <<>>)
  BY TurnsIf, AdvancePlain, GivenThen DEF ParseUnaryExpression
<1>3. Turns(L, ParsePostfixExpression(bare), <<>>, <<>>)
  <2> DEFINE cases == << <<{"["}, Advance \o Call("expression") \o Expect("]")>>,
                         <<{"."}, Advance \o CallBare("primary", bare)>>,
                         <<{"&."}, Advance \o If({"ident"}, CallBare("identifier", TRUE), Error)>>,
                         <<{"("}, Advance \o Arguments>> >>
             Postfix == Select(cases, Advance)
             ks == {"++", "(", "[", ".", "&."}
  <2>1. Given(L, cases[1][1], cases[1][2], <<>>, <<>>)
    BY AdvanceOpener, ExpectCloser, GivenKeeps, GivenOpenThenClose DEF Openers
  <2>2. Given(L, cases[2][1], cases[2][2], <<>>, <<>>)
    BY AdvancePlain, GivenThen
  <2>3. Given(L, cases[3][1], cases[3][2], <<>>, <<>>)
    BY AdvancePlain, GivenAny, TurnsError, TurnsIf, GivenThen
  <2>4. Given(L, cases[4][1], cases[4][2], <<>>, <<>>)
    BY AdvanceOpener, ArgumentsTurn, GivenOpenThenClose DEF Openers
  <2>5. Given(L, {"++"}, Advance, <<>>, <<>>)
    BY AdvancePlain
  <2>6. \A k \in ks : k \in {"++"} \/ \E i \in 1 .. 4 : k \in cases[i][1]
    <3>1. /\ cases[1][1] = {"["} /\ cases[2][1] = {"."} /\ cases[3][1] = {"&."}
          /\ cases[4][1] = {"("}
      OBVIOUS
    <3> HIDE DEF cases
    <3> QED
      BY <3>1
  <2>7. DOMAIN cases = 1 .. 4
    OBVIOUS
  <2> HIDE DEF cases
  <2>8. \A i \in 1 .. 4 : Given(L, cases[i][1], cases[i][2], <<>>, <<>>)
    BY <2>1, <2>2, <2>3, <2>4
  <2>9. Given(L, ks, Postfix, <<>>, <<>>)
    BY <2>5, <2>6, <2>7, <2>8, GivenSelect
  <2> HIDE DEF ks, Postfix
  <2>10. Turns(L, CallBare("primary", bare) \o While(ks, Postfix), <<>>, <<>>)
    BY <2>9, TurnsWhile, KeepsThen
  <2> QED
    BY <2>10 DEF ParsePostfixExpression, Postfix, ks, cases
<1>4. Turns(L, ParseIdentifierExpression(bare), <<>>, <<>>)
  <2>1. CASE bare = TRUE
    BY <2>1, TurnsConsume, TurnsNothing, KeepsThen DEF ParseIdentifierExpression
  <2>2. CASE bare = FALSE
    BY <2>2, TurnsConsume, TurnsWhen, GivenAny, KeepsThen DEF ParseIdentifierExpression
  <2> QED
    BY <2>1, <2>2
<1> QED
  BY <1>1, <1>2, <1>3, <1>4

LEMMA OperandsTurn ==
  ASSUME NEW L \in SUBSET Anywhere
  PROVE  /\ Turns(L, ParseLiteralExpression, <<>>, <<>>)
         /\ Turns(L, ParseLiteralToken, <<>>, <<>>)
         /\ Turns(L, ParseStringLiteral, <<>>, <<>>)
         /\ Turns(L, ParseMacroCall, <<>>, <<>>)
         /\ Turns(L, ParseArrayLiteral, <<>>, <<>>)
         /\ Turns(L, ParseTupleOrGroupedExpression, <<>>, <<>>)
         /\ \A typed : Turns(L, ParseStructLiteral(typed), <<>>, <<>>)
<1> USE OpenSeqs, DeepTurns DEF DeepRules, Plain, Brackets
<1>1. Turns(L, ParseLiteralExpression, <<>>, <<>>)
  BY TurnsIf, GivenAny, TurnsError DEF ParseLiteralExpression
<1>2. Turns(L, ParseLiteralToken, <<>>, <<>>)
  BY TurnsConsume DEF ParseLiteralToken, Literal
<1>3. Turns(L, ParseStringLiteral, <<>>, <<>>)
  BY TurnsConsume DEF ParseStringLiteral
<1>4. Turns(L, ParseMacroCall, <<>>, <<>>)
  <2>1. Given(L, {"("}, Advance \o Arguments, <<>>, <<>>)
    BY ArgumentsTurn, AdvanceOpener, GivenOpenThenClose DEF Openers
  <2> QED
    BY <2>1, TurnsConsume, ExpectPlain, TurnsWhen, KeepsThen DEF ParseMacroCall
<1>5. Turns(L, ParseArrayLiteral, <<>>, <<>>)
  BY ExpectOpener, TurnsTrailingList, ExpectCloser, AdvanceCloser, TurnsIf, KeepsThen,
     OpenThenClose DEF ParseArrayLiteral, Openers
<1>6. Turns(L, ParseTupleOrGroupedExpression, <<>>, <<>>)
  BY ExpectOpener, TurnsReject, TurnsTrailingList, ExpectCloser, ThenKeeps,
     OpenThenClose DEF ParseTupleOrGroupedExpression, Openers
<1>7. ASSUME NEW typed
      PROVE  Turns(L, ParseStructLiteral(typed), <<>>, <<>>)
  <2> DEFINE Field == Consume({"ident"}) \o When({":"}, Advance \o Call("expression"))
  <2>1. Turns(L, Field, <<"LBrace">>, <<"LBrace">>)
    BY TurnsConsume, TurnsWhen, AdvancePlain, GivenThen, KeepsThen
  <2> HIDE DEF Field
  <2>2. Turns(L, If({"RBrace"}, Advance \o Require(typed),
                    TrailingList({"RBrace"}, Field) \o Expect("RBrace")), <<"LBrace">>, <<>>)
    BY <2>1, AdvanceCloser, TurnsRequire, TurnsTrailingList, ExpectCloser, TurnsIf,
       KeepsThen, GivenKeeps
  <2> QED
    BY <2>2, ExpectOpener, OpenThenClose DEF ParseStructLiteral, Openers, Field
<1> QED
  BY <1>1, <1>2, <1>3, <1>4, <1>5, <1>6, <1>7

LEMMA PrimaryExpressionTurns ==
  ASSUME NEW L \in SUBSET Anywhere, NEW bare \in BOOLEAN
  PROVE  Turns(L, ParsePrimaryExpression(bare), <<>>, <<>>)
<1> USE OpenSeqs, DeepTurns DEF DeepRules, Plain, Brackets
<1> DEFINE cases == << <<{"..."}, Advance \o Reject({"..."})
                             \o Attempt(CallBare("postfix", bare), Error)>>,
              <<{"["}, Call("arrayLiteral")>>,
              <<IF bare THEN {} ELSE {"LBrace"}, Call("anonymousStruct")>>,
              <<{"("}, Call("tupleOrGrouped")>>,
              <<Literal, Call("literal")>>,
              <<{"LString"}, Call("interpolatedString")>>,
              <<{"::"}, Advance \o If({"ident"}, Call("pathInExpression"), Error)>>,
              <<{"ident"}, Ahead(2, << <<{"!"}, Call("macroCall")>> >>,
                                 CallBare("identifier", bare))>> >>
<1>1. Given(L, cases[1][1], cases[1][2], <<>>, <<>>)
  BY AdvancePlain, TurnsReject, TurnsError, TurnsTry, GivenThen
<1>2. /\ Given(L, cases[2][1], cases[2][2], <<>>, <<>>)
      /\ Given(L, cases[3][1], cases[3][2], <<>>, <<>>)
      /\ Given(L, cases[4][1], cases[4][2], <<>>, <<>>)
      /\ Given(L, cases[5][1], cases[5][2], <<>>, <<>>)
      /\ Given(L, cases[6][1], cases[6][2], <<>>, <<>>)
  BY GivenAny
<1>3. Given(L, cases[7][1], cases[7][2], <<>>, <<>>)
  BY AdvancePlain, GivenAny, TurnsError, TurnsIf, GivenThen
<1>4. Given(L, cases[8][1], cases[8][2], <<>>, <<>>)
  BY GivenAny, GivenAheadAny
<1>5. DOMAIN cases = 1 .. 8
  OBVIOUS
<1> HIDE DEF cases
<1>6. \A i \in 1 .. 8 : Given(L, cases[i][1], cases[i][2], <<>>, <<>>)
  BY <1>1, <1>2, <1>3, <1>4
<1>7. Turns(L, Select(cases, Error), <<>>, <<>>)
  BY <1>5, <1>6, TurnsError, TurnsSelect
<1> QED
  BY <1>7 DEF ParsePrimaryExpression, cases

LEMMA InterpolatedStringTurns ==
  ASSUME NEW L \in SUBSET Anywhere
  PROVE  Turns(L, ParseInterpolatedString, <<>>, <<>>)
<1> USE OpenSeqs, DeepTurns DEF DeepRules, Plain, Brackets
<1> DEFINE o == <<"LString">>
           Piece == If({"string"}, Advance, Call("expression"))
<1>1. Turns(L, Consume({"LString"}), <<>>, o)
  BY AdvanceOpener, TurnsError, TurnsIf DEF Consume, Openers
<1>2. Turns(L, Piece, o, o)
  BY AdvancePlain, TurnsIf
<1> HIDE DEF Piece
<1>3. ASSUME NEW u \in Seq(Openers), NEW z \in L
      PROVE  Runs(Consume({"LString"}) \o Until({"RString"}, Piece) \o Advance,
                  Spot(All, <<>> \o u, z), Spot(All, <<>> \o u, z))
  <2>1. Runs(Consume({"LString"}), Spot(All, <<>> \o u, z), Spot(All, o \o u, z))
    BY <1>1 DEF Turns
  <2>2. Runs(Until({"RString"}, Piece), Spot(All, o \o u, z),
             Spot({"RString"} \cap Kinds, o \o u, z))
    BY <1>2, RunsUntil
  <2>3. Runs(Advance, Spot({"RString"} \cap Kinds, o \o u, z), Spot(All, <<>> \o u, z))
    BY AdvanceCloser DEF Given
  <2> QED
    BY <2>1, <2>2, <2>3, RunsOn
<1> QED
  BY <1>3 DEF Turns, ParseInterpolatedString, Piece

-----------------------------------------------------------------------------
(* Types.                                                                  *)

LEMMA TypesTurn ==
  ASSUME NEW L \in SUBSET Anywhere
  PROVE  /\ Turns(L, ParseTypeExpression, <<>>, <<>>)
         /\ Turns(L, ParseUnionType, <<>>, <<>>)
         /\ Turns(L, ParsePrimaryType, <<>>, <<>>)
         /\ Turns(L, ParseArrayType, <<>>, <<>>)
         /\ Turns(L, ParseReferenceType, <<>>, <<>>)
         /\ Turns(L, ParsePointerType, <<>>, <<>>)
         /\ Turns(L, ParseOptionalType, <<>>, <<>>)
         /\ Turns(L, ParseResultType, <<>>, <<>>)
         /\ Turns(L, ParseFunctionType, <<>>, <<>>)
         /\ Turns(L, ParseTupleType, <<>>, <<>>)
         /\ \A inExpression \in BOOLEAN : Turns(L, ParseQualifiedPath(inExpression), <<>>, <<>>)
<1> USE OpenSeqs, DeepTurns DEF DeepRules, Plain, Brackets
<1>1. Turns(L, ParseTypeExpression, <<>>, <<>>)
  BY DEF ParseTypeExpression
<1>2. Turns(L, ParseUnionType, <<>>, <<>>)
  BY TurnsWhile, AdvancePlain, GivenThen, KeepsThen DEF ParseUnionType
<1>3. Turns(L, ParsePrimaryType, <<>>, <<>>)
  <2> DEFINE cases ==
           << <<{"&"}, Call("referenceType")>>, <<{"*"}, Call("pointerType")>>,
              <<{"?"}, Call("optionalType")>>,  <<{"!"}, Call("resultType")>>,
              <<{"func"}, Call("functionType")>>, <<{"["}, Call("arrayType")>>,
              <<{"("}, Call("tupleType")>>, <<Primitive, Advance>>,
              <<{"ident"}, Ahead(2, << <<{".", "<"}, Call("qualifiedPath")>> >>,
                                 Advance)>> >>
  <2>1. /\ Given(L, cases[1][1], cases[1][2], <<>>, <<>>)
        /\ Given(L, cases[2][1], cases[2][2], <<>>, <<>>)
        /\ Given(L, cases[3][1], cases[3][2], <<>>, <<>>)
        /\ Given(L, cases[4][1], cases[4][2], <<>>, <<>>)
        /\ Given(L, cases[5][1], cases[5][2], <<>>, <<>>)
        /\ Given(L, cases[6][1], cases[6][2], <<>>, <<>>)
        /\ Given(L, cases[7][1], cases[7][2], <<>>, <<>>)
    BY GivenAny
  <2>2. Given(L, cases[8][1], cases[8][2], <<>>, <<>>)
    BY AdvancePlain DEF Primitive
  <2>3. Given(L, cases[9][1], cases[9][2], <<>>, <<>>)
    BY AdvancePlain, GivenAny, GivenAheadAny
  <2>4. DOMAIN cases = 1 .. 9
    OBVIOUS
  <2> HIDE DEF cases
  <2>5. \A i \in 1 .. 9 : Given(L, cases[i][1], cases[i][2], <<>>, <<>>)
    BY <2>1, <2>2, <2>3
  <2>6. Turns(L, Select(cases, Error), <<>>, <<>>)
    BY <2>4, <2>5, TurnsError, TurnsSelect
  <2> QED
    BY <2>6 DEF ParsePrimaryType, cases
<1>4. Turns(L, ParseArrayType, <<>>, <<>>)
  BY ExpectOpener, ExpectCloser, TurnsUnless, ThenKeeps, OpenThenClose DEF ParseArrayType, Openers
<1>5. /\ Turns(L, ParseReferenceType, <<>>, <<>>) /\ Turns(L, ParsePointerType, <<>>, <<>>)
      /\ Turns(L, ParseOptionalType, <<>>, <<>>) /\ Turns(L, ParseResultType, <<>>, <<>>)
  BY ExpectPlain, KeepsThen
     DEF ParseReferenceType, ParsePointerType, ParseOptionalType, ParseResultType
<1>6. Turns(L, ParseFunctionType, <<>>, <<>>)
  BY ExpectPlain, ExpectOpener, ExpectCloser, TurnsUnless, TurnsStrictList, KeepsThen, ThenKeeps,
     OpenThenClose DEF ParseFunctionType, Openers
<1>7. Turns(L, ParseTupleType, <<>>, <<>>)
  BY ExpectOpener, ExpectCloser, AdvanceCloser, TurnsIf, TurnsStrictList, KeepsThen,
     OpenThenClose DEF ParseTupleType, Openers
<1>8. ASSUME NEW inExpression \in BOOLEAN
      PROVE  Turns(L, ParseQualifiedPath(inExpression), <<>>, <<>>)
  <2> DEFINE r == IF inExpression THEN "argumentsInExpression" ELSE "genericArguments"
             Segment == Consume({"ident"}) \o When({"<"}, Call(r))
  <2>1. Turns(L, Call(r), <<>>, <<>>)
    <3>1. CASE inExpression = TRUE
      BY <3>1
    <3>2. CASE inExpression = FALSE
      BY <3>2
    <3> QED
      BY <3>1, <3>2
  <2> HIDE DEF r
  <2>2. Turns(L, Segment, <<>>, <<>>)
    BY <2>1, TurnsConsume, TurnsWhen, GivenAny, KeepsThen
  <2> HIDE DEF Segment
  <2>3. Turns(L, Segment \o While({"."}, Advance \o Segment), <<>>, <<>>)
    BY <2>2, TurnsWhile, AdvancePlain, GivenThen, KeepsThen
  <2> QED
    BY <2>3 DEF ParseQualifiedPath, Segment, r
<1> QED
  BY <1>1, <1>2, <1>3, <1>4, <1>5, <1>6, <1>7, <1>8

-----------------------------------------------------------------------------
(* Generic arguments: what fails within them leaves the template context.  *)

LEMMA LevelsAre ==
  /\ Anywhere \subseteq Levels /\ Within \subseteq Levels /\ Outside \subseteq Anywhere
  /\ Catching(Within, Anywhere)
<1>1. \A n \in Nat : <<n, n>> \in Anywhere /\ <<n, n>> \in Levels /\ <<n + 1, n>> \in Levels
  BY DEF Anywhere, Levels
<1>2. Anywhere \subseteq Levels /\ Within \subseteq Levels /\ Outside \subseteq Anywhere
  BY <1>1 DEF Anywhere, Within, Outside, Home
<1>3. ASSUME NEW z \in Within
      PROVE  <<z[1], z[1]>> \in Anywhere
  <2>1. PICK n \in Nat : z = <<n + 1, n>>
    BY DEF Within
  <2>2. z[1] = n + 1 /\ n + 1 \in Nat
    BY <2>1
  <2> QED
    BY <1>1, <2>2
<1> QED
  BY <1>2, <1>3 DEF Catching

LEMMA EnterRuns ==
  ASSUME NEW v, NEW n \in Nat
  PROVE  Runs(EnterTemplate, Spot(All, v, <<n, n>>), Spot(All, v, <<n + 1, n>>))
<1> DEFINE s == [op |-> "enter"]
           a == Spot(All, v, <<n, n>>)
           c == Spot(All, v, <<n + 1, n>>)
<1>1. Below(Moved(a, a.level + 1), c) /\ a.base = c.base
  BY DEF Spot, Below, Even, Moved
<1> HIDE DEF a, c
<1>2. Leads({}, s, a, c)
  BY <1>1 DEF Leads, Idle
<1>3. Runs(<<s>>, a, c)
  BY <1>2, StepRuns
<1> QED
  BY <1>3 DEF EnterTemplate, a, c

LEMMA ExitRuns ==
  ASSUME NEW n \in Nat
  PROVE  /\ \A v : Runs(ExitTemplate, Spot(All, v, <<n + 1, n>>), Spot(All, v, <<n, n>>))
         /\ Runs(ExitTemplate, Told(<<n + 1, n>>), Told(<<n, n>>))
<1> DEFINE s == [op |-> "exit"]
<1>1. ASSUME NEW a, NEW c, a.level > 0, a.base = c.base, Below(Moved(a, a.level - 1), c)
      PROVE  Runs(ExitTemplate, a, c)
  <2>1. Leads({}, s, a, c)
    BY <1>1 DEF Leads, Idle
  <2>2. Runs(<<s>>, a, c)
    BY <2>1, StepRuns
  <2> QED
    BY <2>2 DEF ExitTemplate
<1>2. ASSUME NEW v
      PROVE  Runs(ExitTemplate, Spot(All, v, <<n + 1, n>>), Spot(All, v, <<n, n>>))
  <2> DEFINE a == Spot(All, v, <<n + 1, n>>)
             c == Spot(All, v, <<n, n>>)
  <2>1. a.level > 0 /\ a.base = c.base /\ Below(Moved(a, a.level - 1), c)
    BY DEF Spot, Below, Even, Moved
  <2> HIDE DEF a, c
  <2>2. Runs(ExitTemplate, a, c)
    BY <1>1, <2>1
  <2> QED
    BY <2>2 DEF a, c
<1>3. Runs(ExitTemplate, Told(<<n + 1, n>>), Told(<<n, n>>))
  <2> DEFINE a == Told(<<n + 1, n>>)
             c == Told(<<n, n>>)
  <2>1. a.level > 0 /\ a.base = c.base /\ Below(Moved(a, a.level - 1), c)
    BY DEF Told, Below, Even, Moved
  <2> HIDE DEF a, c
  <2>2. Runs(ExitTemplate, a, c)
    BY <1>1, <2>1
  <2> QED
    BY <2>2 DEF a, c
<1> QED
  BY <1>2, <1>3

LEMMA LateLeave == Late(Within, ExitTemplate \o Fail)
<1> SUFFICES ASSUME NEW z \in Within, NEW c, Even(Told(z), c)
             PROVE  Runs(ExitTemplate \o Fail, Told(z), c)
  BY DEF Late
<1>1. PICK n \in Nat : z = <<n + 1, n>>
  BY DEF Within
<1>2. Runs(ExitTemplate, Told(z), Told(<<n, n>>))
  BY <1>1, ExitRuns
<1>3. Runs(Fail, Told(<<n, n>>), c)
  BY <1>1, RunsFail DEF Anywhere, Even, Told
<1> QED
  BY <1>2, <1>3, RunsOn

LEMMA GenericArgumentsTurn ==
  ASSUME NEW L \in SUBSET Anywhere, NEW inExpression \in BOOLEAN
  PROVE  Turns(L, ParseGenericArguments(inExpression), <<>>, <<>>)
<1> USE OpenSeqs DEF Plain, Brackets
<1> DEFINE Leave == ExitTemplate \o Fail
           ArgumentOf(rule) == Attempt(Call(rule), Leave)
           Argument == IF inExpression
                       THEN If({"::"}, Advance \o If({"ident"}, ArgumentOf("qualifiedPath"),
                                                     Report \o Leave),
                               ArgumentOf("type"))
                       ELSE ArgumentOf("type")
           Empty == When({">"}, Report \o Advance \o Leave)
           More  == While({"Comma"}, Advance \o When({">"}, Report \o Leave) \o Argument)
           Closer  == Attempt(Expect(">"), Leave)
<1>1. Late(Within, Leave)
  BY LateLeave
<1>2. Turns(Within, Report \o Leave, <<>>, <<>>)
  BY <1>1, LevelsAre, ReportReports, TurnsReport
<1>3. Turns(Within, Report \o Advance \o Leave, <<>>, <<>>)
  BY <1>1, LevelsAre, ReportReports, LateAdvance, ReportsOn, TurnsReport
<1> HIDE DEF Leave
<1>4. \A rule \in DeepRules : Turns(Within, ArgumentOf(rule), <<>>, <<>>)
  BY <1>1, LevelsAre, DeepTurns, TurnsAttempt
<1>5. Turns(Within, ArgumentOf("type"), <<>>, <<>>)
      /\ Turns(Within, ArgumentOf("qualifiedPath"), <<>>, <<>>)
  BY <1>4 DEF DeepRules
<1> HIDE DEF ArgumentOf
<1>6. Turns(Within, Argument, <<>>, <<>>)
  <2>1. CASE inExpression = TRUE
    BY <1>2, <1>5, <2>1, TurnsIf, AdvancePlain, GivenThen, GivenAny
  <2>2. CASE inExpression = FALSE
    BY <1>5, <2>2
  <2> QED
    BY <2>1, <2>2
<1> HIDE DEF Argument
<1>7. Turns(Within, Empty, <<>>, <<>>)
  BY <1>3, TurnsWhen, GivenAny
<1>8. Turns(Within, More, <<>>, <<>>)
  BY <1>2, <1>6, TurnsWhen, TurnsWhile, AdvancePlain, GivenThen, GivenAny
<1>9. Turns(Within, Closer, <<>>, <<>>)
  <2>1. Turns(Anywhere, Expect(">"), <<>>, <<>>)
    BY ExpectPlain
  <2> QED
    BY <1>1, <2>1, LevelsAre, TurnsAttempt
<1> HIDE DEF Empty, More, Closer
<1>10. ASSUME NEW u \in Seq(Openers), NEW z \in L
       PROVE  Runs(Expect("<") \o EnterTemplate \o Empty \o Argument \o More \o Closer
                     \o ExitTemplate, Spot(All, <<>> \o u, z), Spot(All, <<>> \o u, z))
  <2> DEFINE v == <<>> \o u
  <2>1. PICK n \in Nat : z = <<n, n>>
    BY DEF Anywhere
  <2>2. Runs(Expect("<"), Spot(All, v, z), Spot(All, v, z))
    BY ExpectPlain DEF Turns
  <2>3. /\ Runs(Empty, Spot(All, v, <<n + 1, n>>), Spot(All, v, <<n + 1, n>>))
        /\ Runs(Argument, Spot(All, v, <<n + 1, n>>), Spot(All, v, <<n + 1, n>>))
        /\ Runs(More, Spot(All, v, <<n + 1, n>>), Spot(All, v, <<n + 1, n>>))
        /\ Runs(Closer, Spot(All, v, <<n + 1, n>>), Spot(All, v, <<n + 1, n>>))
    <3>1. <<n + 1, n>> \in Within
      BY DEF Within
    <3> QED
      BY <1>6, <1>7, <1>8, <1>9, <3>1 DEF Turns
  <2> HIDE DEF v
  <2>4. /\ Runs(EnterTemplate, Spot(All, v, z), Spot(All, v, <<n + 1, n>>))
        /\ Runs(ExitTemplate, Spot(All, v, <<n + 1, n>>), Spot(All, v, z))
    BY <2>1, EnterRuns, ExitRuns
  <2>5. Runs(Expect("<") \o EnterTemplate \o Empty \o Argument \o More \o Closer,
             Spot(All, v, z), Spot(All, v, <<n + 1, n>>))
    BY <2>2, <2>3, <2>4, RunsOn
  <2> QED
    BY <2>4, <2>5, RunsOn DEF v
<1> QED
  BY <1>10 DEF Turns, ParseGenericArguments, Empty, Argument, More, Closer, ArgumentOf, Leave


-----------------------------------------------------------------------------
(* Statements.  They are parsed outside the template context, which is     *)
(* where the recovery may skip tokens.                                     *)

LEMMA OutsideIs == Outside \in SUBSET Anywhere
  BY DEF Outside, Home, Anywhere

LEMMA AllOutsideTurn ==
  ASSUME NEW x \in Seq(Openers)
  PROVE  /\ \A r \in DeepRules : /\ Turns(Outside, Call(r), x, x)
                                 /\ \A bare \in BOOLEAN : Turns(Outside, CallBare(r, bare), x, x)
         /\ \A r \in {"stringLiteral", "statement", "break", "block", "defer", "return",
              "expressionStatement", "if", "while", "for", "switch", "case", "match",
              "matchCase", "moreNames", "variable", "externVariable", "conditionVariable",
              "declaration", "functionParam", "function", "externFunction", "attributeList",
              "attribute", "attributeArguments", "genericParameter", "genericParameters",
              "enum", "enumOption", "typeDeclaration", "import", "structOrClass", "member",
              "field", "annotation", "inheritance"} : Turns(Outside, Call(r), x, x)
  BY RulesAre, OutsideTurns

LEMMA BodyTurns ==
  ASSUME NEW parenthesised \in BOOLEAN, NEW x \in Seq(Openers)
  PROVE  Turns(Outside, Body(parenthesised), x, x)
<1>1. CASE parenthesised = TRUE
  BY <1>1, AllOutsideTurn, TurnsIf, GivenAny DEF Body
<1>2. CASE parenthesised = FALSE
  BY <1>2, AllOutsideTurn, OutsideIs, TurnsError, TurnsIf, GivenAny DEF Body
<1> QED
  BY <1>1, <1>2

LEMMA ConditionTurns ==
  ASSUME NEW bare \in BOOLEAN, NEW x \in Seq(Openers)
  PROVE  Turns(Outside, Condition(bare), x, x)
  BY AllOutsideTurn, TurnsIf, GivenAny DEF Condition, DeepRules

LEMMA SimpleStatementsTurn ==
  /\ Turns(Outside, ParseStatement, <<>>, <<>>)
  /\ Turns(Outside, ParseBreakStatement, <<>>, <<>>)
  /\ Turns(Outside, ParseBlockStatement, <<>>, <<>>)
  /\ Turns(Outside, ParseDeferStatement, <<>>, <<>>)
  /\ Turns(Outside, ParseReturnStatement, <<>>, <<>>)
  /\ Turns(Outside, ParseExpressionStatement, <<>>, <<>>)
<1> USE OpenSeqs, AllOutsideTurn, OutsideIs DEF Plain, Brackets
<1>1. Turns(Outside, ParseStatement, <<>>, <<>>)
  <2> DEFINE cases ==
        << <<{"break"}, Call("break")>>, <<{"LBrace"}, Call("block")>>,
           <<{"defer"}, Call("defer")>>, <<{"return"}, Call("return")>>,
           <<{"var", "auto"}, Call("variable")>>, <<{"if"}, Call("if")>>,
           <<{"while"}, Call("while")>>, <<{"for"}, Call("for")>>,
           <<{"switch"}, Call("switch")>>, <<{"match"}, Call("match")>> >>
  <2>1. /\ Given(Outside, cases[1][1], cases[1][2], <<>>, <<>>)
        /\ Given(Outside, cases[2][1], cases[2][2], <<>>, <<>>)
        /\ Given(Outside, cases[3][1], cases[3][2], <<>>, <<>>)
        /\ Given(Outside, cases[4][1], cases[4][2], <<>>, <<>>)
        /\ Given(Outside, cases[5][1], cases[5][2], <<>>, <<>>)
    BY GivenAny
  <2>2. /\ Given(Outside, cases[6][1], cases[6][2], <<>>, <<>>)
        /\ Given(Outside, cases[7][1], cases[7][2], <<>>, <<>>)
        /\ Given(Outside, cases[8][1], cases[8][2], <<>>, <<>>)
        /\ Given(Outside, cases[9][1], cases[9][2], <<>>, <<>>)
        /\ Given(Outside, cases[10][1], cases[10][2], <<>>, <<>>)
    BY GivenAny
  <2>3. DOMAIN cases = 1 .. 10
    OBVIOUS
  <2> HIDE DEF cases
  <2>4. \A i \in 1 .. 10 : Given(Outside, cases[i][1], cases[i][2], <<>>, <<>>)
    BY <2>1, <2>2
  <2>5. Turns(Outside, Select(cases, Call("expressionStatement")), <<>>, <<>>)
    BY <2>3, <2>4, TurnsSelect
  <2>6. Turns(Outside, When({"@"}, Call("attributeList")), <<>>, <<>>)
    BY TurnsWhen, GivenAny
  <2> QED
    BY <2>5, <2>6, KeepsThen DEF ParseStatement, cases
<1>2. Turns(Outside, ParseBreakStatement, <<>>, <<>>)
  BY ExpectPlain, TurnsOptional, KeepsThen DEF ParseBreakStatement
<1>3. Turns(Outside, ParseBlockStatement, <<>>, <<>>)
  <2>1. Turns(Outside, Until({"RBrace", EOF}, Attempt(Call("statement"), Synchronize)),
              <<"LBrace">>, <<"LBrace">>)
    BY LateSynchronize, TurnsTry, TurnsUntil
  <2>2. Turns(Outside, Attempt(Expect("RBrace"), Error), <<"LBrace">>, <<>>)
    BY ExpectCloser, TurnsError, TurnsTry
  <2> QED
    BY <2>1, <2>2, ExpectOpener, ThenKeeps, OpenThenClose DEF ParseBlockStatement, Openers
<1>4. Turns(Outside, ParseDeferStatement, <<>>, <<>>)
  BY ExpectPlain, TurnsError, TurnsTry, KeepsThen DEF ParseDeferStatement
<1>5. Turns(Outside, ParseReturnStatement, <<>>, <<>>)
  BY ExpectPlain, TurnsUnless, LateNothing, TurnsTry, TurnsOptional, KeepsThen
     DEF ParseReturnStatement, DeepRules
<1>6. Turns(Outside, ParseExpressionStatement, <<>>, <<>>)
  BY TurnsOptional, KeepsThen DEF ParseExpressionStatement, DeepRules
<1> QED
  BY <1>1, <1>2, <1>3, <1>4, <1>5, <1>6

LEMMA CasesTurn ==
  ASSUME NEW r \in {"case", "matchCase"}
  PROVE  Turns(Outside, Cases(r), <<>>, <<>>)
<1> USE OpenSeqs, OutsideIs
<1>1. Turns(Outside, Call(r), <<"LBrace">>, <<"LBrace">>)
  BY AllOutsideTurn
<1>2. Turns(Outside, Until({"RBrace", EOF}, Call(r)), <<"LBrace">>, <<"LBrace">>)
  BY <1>1, TurnsUntil
<1>3. Turns(Outside, Attempt(Expect("LBrace"), Error), <<>>, <<"LBrace">>)
  BY ExpectOpener, TurnsError, TurnsTry DEF Openers
<1>4. Turns(Outside, Attempt(Expect("RBrace"), Error), <<"LBrace">>, <<>>)
  BY ExpectCloser, TurnsError, TurnsTry
<1> QED
  BY <1>2, <1>3, <1>4, ThenKeeps, OpenThenClose DEF Cases

LEMMA BranchesTurn ==
  /\ Turns(Outside, ParseIfStatement, <<>>, <<>>)
  /\ Turns(Outside, ParseWhileStatement, <<>>, <<>>)
  /\ Turns(Outside, ParseForStatement, <<>>, <<>>)
  /\ Turns(Outside, ParseSwitchStatement, <<>>, <<>>)
  /\ Turns(Outside, ParseCaseStatement, <<>>, <<>>)
  /\ Turns(Outside, ParseMatchStatement, <<>>, <<>>)
  /\ Turns(Outside, ParseMatchCaseStatement, <<>>, <<>>)
<1> USE OpenSeqs, AllOutsideTurn, OutsideIs DEF Plain, Brackets
<1>1. Given(Outside, {"("}, Advance \o Condition(FALSE) \o Expect(")"), <<>>, <<>>)
  BY ConditionTurns, AdvanceOpener, ExpectCloser, GivenKeeps, GivenOpenThenClose DEF Openers
<1>2. Turns(Outside, ParseIfStatement, <<>>, <<>>)
  <2> DEFINE Rest(p) == Body(p) \o When({"else"}, Advance \o If({"if"}, Call("if"), Body(p)))
  <2>1. ASSUME NEW p \in BOOLEAN
        PROVE  Turns(Outside, Rest(p), <<>>, <<>>)
    BY BodyTurns, TurnsIf, TurnsWhen, AdvancePlain, GivenAny, GivenThen, KeepsThen
  <2> HIDE DEF Rest
  <2>2. Given(Outside, {"("}, Advance \o Condition(FALSE) \o Expect(")") \o Rest(TRUE),
              <<>>, <<>>)
    BY <1>1, <2>1, GivenThen
  <2>3. Turns(Outside, Condition(TRUE) \o Rest(FALSE), <<>>, <<>>)
    BY <2>1, ConditionTurns, KeepsThen
  <2> QED
    BY <2>2, <2>3, ExpectPlain, TurnsIf, KeepsThen DEF ParseIfStatement, Rest
<1>3. Turns(Outside, ParseWhileStatement, <<>>, <<>>)
  <2>1. Given(Outside, {"("}, Advance \o Condition(FALSE) \o Expect(")") \o Body(TRUE),
              <<>>, <<>>)
    BY <1>1, BodyTurns, GivenThen
  <2> QED
    BY <2>1, BodyTurns, ConditionTurns, ExpectPlain, TurnsSelectTwo, GivenAny, KeepsThen
       DEF ParseWhileStatement
<1>4. Turns(Outside, ParseForStatement, <<>>, <<>>)
  <2> DEFINE Over(bare) == TrailingList({"in"}, Consume({"ident"}))
                             \o Attempt(Expect("in"), Error)
                             \o CallBare("expression", bare)
                             \o When({"Comma"}, Advance \o CallBare("expression", bare))
  <2>1. ASSUME NEW bare \in BOOLEAN, NEW x \in Seq(Openers)
        PROVE  Turns(Outside, Over(bare), x, x)
    <3>1. Turns(Outside, CallBare("expression", bare), x, x)
      BY DEF DeepRules
    <3>2. Turns(Outside, When({"Comma"}, Advance \o CallBare("expression", bare)), x, x)
      BY <3>1, TurnsWhen, AdvancePlain, GivenThen
    <3>3. Turns(Outside, TrailingList({"in"}, Consume({"ident"})), x, x)
      BY TurnsConsume, TurnsTrailingList
    <3>4. Turns(Outside, Attempt(Expect("in"), Error), x, x)
      BY ExpectPlain, TurnsError, TurnsTry
    <3> QED
      BY <3>1, <3>2, <3>3, <3>4, KeepsThen
  <2> HIDE DEF Over
  <2>2. Given(Outside, {"("}, Advance \o Over(FALSE) \o Expect(")") \o Body(TRUE), <<>>, <<>>)
    BY <2>1, BodyTurns, AdvanceOpener, ExpectCloser, GivenKeeps, GivenOpenThenClose, GivenThen
       DEF Openers
  <2> QED
    BY <2>1, <2>2, BodyTurns, ExpectPlain, TurnsIf, KeepsThen DEF ParseForStatement, Over
<1>5. Turns(Outside, ParseSwitchStatement, <<>>, <<>>)
  BY <1>1, ConditionTurns, CasesTurn, ExpectPlain, TurnsIf, KeepsThen DEF ParseSwitchStatement
<1>6. Turns(Outside, Attempt(Expect("=>"), Error), <<>>, <<>>)
  BY ExpectPlain, TurnsError, TurnsTry
<1>7. Turns(Outside, ParseCaseStatement, <<>>, <<>>)
  BY <1>6, BodyTurns, AdvancePlain, TurnsTrailingList, TurnsIf, KeepsThen
     DEF ParseCaseStatement, DeepRules
<1>8. Turns(Outside, ParseMatchStatement, <<>>, <<>>)
  <2>1. Given(Outside, {"("}, Advance \o Call("expression") \o Expect(")"), <<>>, <<>>)
    BY AdvanceOpener, ExpectCloser, GivenKeeps, GivenOpenThenClose DEF Openers, DeepRules
  <2> QED
    BY <2>1, CasesTurn, ExpectPlain, TurnsIf, KeepsThen DEF ParseMatchStatement, DeepRules
<1>9. Turns(Outside, ParseMatchCaseStatement, <<>>, <<>>)
  <2>1. Turns(Outside, If({"..."}, Advance, TrailingList({"as", "=>"}, Call("type"))),
              <<>>, <<>>)
    BY AdvancePlain, TurnsTrailingList, TurnsIf DEF DeepRules
  <2>2. Turns(Outside, When({"as"}, Advance \o If({"ident"}, Call("identifier"), Error)),
              <<>>, <<>>)
    BY AdvancePlain, TurnsError, TurnsIf, TurnsWhen, GivenAny, GivenThen DEF DeepRules
  <2> QED
    BY <1>6, <2>1, <2>2, BodyTurns, KeepsThen DEF ParseMatchCaseStatement
<1> QED
  BY <1>2, <1>3, <1>4, <1>5, <1>7, <1>8, <1>9


-----------------------------------------------------------------------------
(* Declarations.                                                           *)

LEMMA VariablesTurn ==
  /\ Turns(Outside, ParseMoreNames, <<>>, <<>>)
  /\ \A single, isExtern \in BOOLEAN :
       Turns(Outside, ParseVariableDeclaration(single, isExtern), <<>>, <<>>)
<1> USE OpenSeqs, AllOutsideTurn, OutsideIs DEF Plain, Brackets
<1>1. Turns(Outside, ParseMoreNames, <<>>, <<>>)
  BY TurnsWhen, AdvancePlain, GivenThen DEF ParseMoreNames
<1>2. ASSUME NEW single \in BOOLEAN, NEW isExtern \in BOOLEAN
      PROVE  Turns(Outside, ParseVariableDeclaration(single, isExtern), <<>>, <<>>)
  <2> DEFINE Initializer == Advance \o Call("expression") \o Require(~ isExtern)
             Names == IF single THEN Reject({"Comma"}) ELSE Call("moreNames")
             Typed == Advance \o Call("type") \o If({"="}, Initializer, Require(~ single))
  <2>1. Given(Outside, {"="}, Initializer, <<>>, <<>>)
    BY AdvancePlain, TurnsRequire, GivenThen DEF DeepRules
  <2>2. Turns(Outside, Names, <<>>, <<>>)
    <3>1. CASE single = TRUE
      BY <3>1, TurnsReject
    <3>2. CASE single = FALSE
      BY <3>2
    <3> QED
      BY <3>1, <3>2
  <2> HIDE DEF Initializer, Names
  <2>3. Given(Outside, {":"}, Typed, <<>>, <<>>)
    BY <2>1, AdvancePlain, TurnsRequire, TurnsIf, GivenThen DEF DeepRules
  <2> HIDE DEF Typed
  <2>4. Turns(Outside, If({":"}, Typed, If({"="}, Initializer, Error)), <<>>, <<>>)
    BY <2>1, <2>3, TurnsError, TurnsIf
  <2>5. /\ Turns(Outside, Consume({"var", "auto"}), <<>>, <<>>)
        /\ Turns(Outside, Consume({"ident"}), <<>>, <<>>)
        /\ Turns(Outside, Optional("Semicolon"), <<>>, <<>>)
    BY TurnsConsume, TurnsOptional
  <2>6. Turns(Outside, Consume({"var", "auto"}) \o Consume({"ident"}) \o Names
                         \o If({":"}, Typed, If({"="}, Initializer, Error))
                         \o Optional("Semicolon"), <<>>, <<>>)
    BY <2>2, <2>4, <2>5, KeepsThen
  <2> QED
    BY <2>6 DEF ParseVariableDeclaration, Names, Typed, Initializer
<1> QED
  BY <1>1, <1>2

LEMMA DeclarationTurns == Turns(Outside, ParseDeclaration, <<>>, <<>>)
<1> USE OpenSeqs, AllOutsideTurn, OutsideIs DEF Plain, Brackets
<1> DEFINE cases(isExtern) ==
        << <<{"var", "auto"}, Call(IF isExtern THEN "externVariable" ELSE "variable")>>,
           <<{"func"}, Call(IF isExtern THEN "externFunction" ELSE "function")>>,
           <<{"enum"}, Require(~ isExtern) \o Call("enum")>>,
           <<{"type"}, Require(~ isExtern) \o Call("typeDeclaration")>>,
           <<{"struct", "class"}, Require(~ isExtern) \o Call("structOrClass")>> >>
           Definition(isExtern) == Select(cases(isExtern), Error)
<1>1. ASSUME NEW isExtern \in BOOLEAN
      PROVE  Turns(Outside, Definition(isExtern), <<>>, <<>>)
  <2>1. Given(Outside, cases(isExtern)[1][1], cases(isExtern)[1][2], <<>>, <<>>)
    <3>1. CASE isExtern = TRUE
      BY <3>1, GivenAny
    <3>2. CASE isExtern = FALSE
      BY <3>2, GivenAny
    <3> QED
      BY <3>1, <3>2
  <2>2. Given(Outside, cases(isExtern)[2][1], cases(isExtern)[2][2], <<>>, <<>>)
    <3>1. CASE isExtern = TRUE
      BY <3>1, GivenAny
    <3>2. CASE isExtern = FALSE
      BY <3>2, GivenAny
    <3> QED
      BY <3>1, <3>2
  <2>3. Turns(Outside, Require(~ isExtern), <<>>, <<>>)
    BY TurnsRequire
  <2>4. /\ Given(Outside, cases(isExtern)[3][1], cases(isExtern)[3][2], <<>>, <<>>)
        /\ Given(Outside, cases(isExtern)[4][1], cases(isExtern)[4][2], <<>>, <<>>)
        /\ Given(Outside, cases(isExtern)[5][1], cases(isExtern)[5][2], <<>>, <<>>)
    BY <2>3, GivenAny, KeepsThen
  <2>5. DOMAIN cases(isExtern) = 1 .. 5
    OBVIOUS
  <2> HIDE DEF cases
  <2>6. \A i \in 1 .. 5 : Given(Outside, cases(isExtern)[i][1], cases(isExtern)[i][2],
                                <<>>, <<>>)
    BY <2>1, <2>2, <2>4
  <2> QED
    BY <2>5, <2>6, TurnsError, TurnsSelect
<1> HIDE DEF Definition
<1>2. Turns(Outside, Select(<< <<{"pub"}, Advance \o Definition(FALSE)>>,
                          <<{"extern"}, Advance \o Definition(TRUE)>> >>, Definition(FALSE)),
            <<>>, <<>>)
  BY <1>1, AdvancePlain, GivenThen, TurnsSelectTwo
<1>3. Turns(Outside, When({"@"}, Call("attributeList")), <<>>, <<>>)
  BY TurnsWhen, GivenAny
<1>4. Turns(Outside, If({"import"}, Call("import"),
           When({"@"}, Call("attributeList"))
             \o Select(<< <<{"pub"}, Advance \o Definition(FALSE)>>,
                          <<{"extern"}, Advance \o Definition(TRUE)>> >>, Definition(FALSE))),
            <<>>, <<>>)
  BY <1>2, <1>3, KeepsThen, GivenAny, TurnsIf
<1> QED
  BY <1>4 DEF ParseDeclaration, Definition, cases

\* parameters between their brackets, or between < and >, which are none here
LEMMA ParameterListTurns ==
  ASSUME NEW r \in Rules \ {"compilationUnit"}, NEW closer, NEW x \in Seq(Openers)
  PROVE  Turns(Outside, ParameterList(r, closer), x, x)
<1> USE OutsideIs DEF Plain, Brackets
<1> DEFINE p1 == IfMarked("variadic", Error, <<>>)
           p2 == When({"..."}, Mark("variadic"))
           p3 == Clear({"defaulted"})
           p4 == Call(r)
           p5 == IfMarked("defaulted", Mark("defaults"), IfMarked("defaults", Error, <<>>))
           p6 == Mark("parameters")
           p7 == Select(<< <<{"Comma"}, Advance>>, <<{closer}, <<>> >> >>, Error)
<1>1. Turns(Outside, p1, x, x)
  BY TurnsIfMarked, TurnsError, TurnsNothing
<1>2. Turns(Outside, p2, x, x)
  BY TurnsWhen, TurnsFlag, GivenAny DEF Flags, ListFlags
<1>3. Turns(Outside, p3, x, x) /\ Turns(Outside, p6, x, x)
  BY TurnsFlag DEF Flags, ListFlags
<1>4. Turns(Outside, p4, x, x)
  BY OutsideTurns
<1>5. Turns(Outside, p5, x, x)
  BY TurnsIfMarked, TurnsError, TurnsNothing, TurnsFlag DEF Flags, ListFlags
<1>6. Turns(Outside, p7, x, x)
  BY AdvancePlain, TurnsNothing, GivenAny, TurnsError, TurnsSelectTwo
<1> HIDE DEF p1, p2, p3, p4, p5, p6, p7
<1>7. Turns(Outside, p1 \o p2 \o p3 \o p4 \o p5 \o p6 \o p7, x, x)
  BY <1>1, <1>2, <1>3, <1>4, <1>5, <1>6, KeepsThen
<1>8. Turns(Outside, Until({closer, EOF}, p1 \o p2 \o p3 \o p4 \o p5 \o p6 \o p7), x, x)
  BY <1>7, TurnsUntil
<1> QED
  BY <1>8 DEF ParameterList, p1, p2, p3, p4, p5, p6, p7

LEMMA ParametersTurn ==
  /\ Turns(Outside, ParseFunctionParamDeclaration, <<>>, <<>>)
  /\ Turns(Outside, ParseGenericParameter, <<>>, <<>>)
  /\ Turns(Outside, ParseGenericParameters, <<>>, <<>>)
<1> USE OpenSeqs, AllOutsideTurn, OutsideIs DEF Plain, Brackets
<1>1. Turns(Outside, Optional("...") \o Consume({"ident"}), <<>>, <<>>)
  BY TurnsOptional, TurnsConsume, KeepsThen
<1>2. /\ Turns(Outside, When({"="}, Advance \o Call("expression") \o Mark("defaulted")), <<>>, <<>>)
      /\ Turns(Outside, When({"="}, Advance \o Call("type") \o Mark("defaulted")), <<>>, <<>>)
  BY AdvancePlain, TurnsFlag, GivenThen, TurnsWhen DEF DeepRules, Flags, ListFlags
<1>3. Turns(Outside, ParseFunctionParamDeclaration, <<>>, <<>>)
  BY <1>1, <1>2, TurnsError, TurnsTry, KeepsThen DEF ParseFunctionParamDeclaration, DeepRules
<1>4. Turns(Outside, When({":"}, Advance \o Call("type")), <<>>, <<>>)
  BY AdvancePlain, GivenThen, TurnsWhen DEF DeepRules
<1>5. Turns(Outside, ParseGenericParameter, <<>>, <<>>)
  BY <1>1, <1>2, <1>4, KeepsThen DEF ParseGenericParameter
<1>6. Turns(Outside, ParameterList("genericParameter", ">"), <<>>, <<>>)
  <2>1. "genericParameter" \in Rules \ {"compilationUnit"}
    BY RulesAre
  <2> QED
    BY <2>1, ParameterListTurns
<1>7. Turns(Outside, ParseGenericParameters, <<>>, <<>>)
  BY <1>6, ExpectPlain, TurnsFlag, TurnsReject, KeepsThen DEF ParseGenericParameters
<1> QED
  BY <1>3, <1>5, <1>7

LEMMA RunsAdvance ==
  ASSUME NEW ks, NEW js, NEW v, NEW w \in Seq(Openers), NEW z, \A k \in ks : Passes(k, v, w)
  PROVE  Runs(Advance, [Spot(ks, v, z) EXCEPT !.next = js], Spot(js, w, z))
<1> DEFINE s == [op |-> "advance"]
           a == [Spot(ks, v, z) EXCEPT !.next = js]
           c == Spot(js, w, z)
<1>1. /\ Below(Shifted(a, w), c) /\ a.now = ks /\ a.open = v /\ Even(a, c) /\ a.base = c.base
  BY DEF Below, Even, Shifted, Spot
<1>2. \A k \in a.now \cap Kinds :
        \E y \in Seq(Openers) : Passes(k, a.open, y) /\ Below(Shifted(a, y), c)
  BY <1>1
<1> HIDE DEF a, c
<1>3. Leads({}, s, a, c)
  BY <1>1, <1>2 DEF Leads, Idle
<1>4. Runs(<<s>>, a, c)
  BY <1>3, StepRuns
<1> QED
  BY <1>4 DEF Advance, a, c

LEMMA OverloadedOperatorTurns == Turns(Outside, OverloadedOperator, <<>>, <<>>)
<1> USE OpenSeqs, OutsideIs DEF Plain, Brackets
<1> DEFINE cases == << <<{"("}, Ahead(2, << <<{")"}, Advance \o Advance>> >>, Error)>>,
              <<{"["}, Advance \o If({"]"}, Advance \o Optional("="), Error)>>,
              <<{"&", "^", "&&"}, Advance \o Mark("prefix")>>,
              <<{"&.", "..", "bool", "++"} \cup BinaryOperator, Advance>> >>
<1>1. Given(Outside, cases[1][1], cases[1][2], <<>>, <<>>)
  <2>1. ASSUME NEW u \in Seq(Openers), NEW z \in Outside
        PROVE  Runs(Advance \o Advance,
                    [Spot({"("} \cap Kinds, <<>> \o u, z) EXCEPT !.next = {")"} \cap Kinds],
                    Spot(All, <<>> \o u, z))
    <3> DEFINE v == <<>> \o u
               w == <<"(">> \o v
    <3>1. v \in Seq(Openers)
      OBVIOUS
    <3>2. w \in Seq(Openers) /\ v = u
      BY <3>1
    <3>3. \A k \in {"("} \cap Kinds : Passes(k, v, w)
      BY DEF Passes, Openers
    <3> HIDE DEF v
    <3>4. Runs(Advance, [Spot({"("} \cap Kinds, v, z) EXCEPT !.next = {")"} \cap Kinds],
               Spot({")"} \cap Kinds, w, z))
      <4> HIDE DEF w
      <4> QED
        BY <3>1, <3>2, <3>3, RunsAdvance
    <3>5. Runs(Advance, Spot({")"} \cap Kinds, w, z), Spot(All, v, z))
      <4>1. Given(Outside, {")"}, Advance, <<"(">>, <<>>)
        BY AdvanceCloser
      <4>2. Runs(Advance, Spot({")"} \cap Kinds, <<"(">> \o v, z), Spot(All, <<>> \o v, z))
        BY <3>1, <4>1 DEF Given
      <4>3. <<>> \o v = v
        BY <3>1
      <4> QED
        BY <4>2, <4>3
    <3> HIDE DEF w
    <3> QED
      BY <3>4, <3>5, RunsOn DEF v
  <2>2. Given(Outside, {"("}, Error, <<>>, <<>>)
    BY TurnsError, GivenAny
  <2> QED
    BY <2>1, <2>2, GivenAhead
<1>2. Given(Outside, cases[2][1], cases[2][2], <<>>, <<>>)
  <2>1. Turns(Outside, If({"]"}, Advance \o Optional("="), Error), <<"[">>, <<>>)
    BY AdvanceCloser, TurnsOptional, GivenKeeps, TurnsError, TurnsIf
  <2> QED
    BY <2>1, AdvanceOpener, GivenOpenThenClose DEF Openers
<1>3. Given(Outside, cases[3][1], cases[3][2], <<>>, <<>>)
  BY AdvancePlain, TurnsFlag, GivenThen DEF Flags, ListFlags
<1>4. Given(Outside, cases[4][1], cases[4][2], <<>>, <<>>)
  BY AdvancePlain DEF BinaryOperator
<1>5. DOMAIN cases = 1 .. 4
  OBVIOUS
<1> HIDE DEF cases
<1>6. \A i \in 1 .. 4 : Given(Outside, cases[i][1], cases[i][2], <<>>, <<>>)
  BY <1>1, <1>2, <1>3, <1>4
<1>7. Turns(Outside, Select(cases, Error), <<>>, <<>>)
  BY <1>5, <1>6, TurnsError, TurnsSelect
<1> QED
  BY <1>7 DEF OverloadedOperator, cases

\* A choice of what to do after an error
LEMMA LateIf ==
  ASSUME NEW z, NEW c, Even(Told(z), c), NEW ks, NEW p, NEW q,
         Runs(p, Told(z), c), Runs(q, Told(z), c)
  PROVE  Runs(If(ks, p, q), Told(z), c)
<1> DEFINE cases == << <<ks, p>> >>
           s == [op |-> "select", at |-> 1, cases |-> cases, otherwise |-> q]
           a == Told(z)
           none == {k \in Kinds : \A i \in DOMAIN s.cases : k \notin s.cases[i][1]}
           X == {<<p, Seeing(a, 1, ks \cap Kinds), c>>, <<q, Seeing(a, 1, none), c>>}
<1>1. \A js : Below(Seeing(a, 1, js), a)
  BY DEF Seeing, Told, Below, Even
<1>2. Runs(p, Seeing(a, 1, ks \cap Kinds), c) /\ Runs(q, Seeing(a, 1, none), c)
  <2> HIDE DEF none
  <2> QED
    BY <1>1, RunsEarlier
<1>3. \A w \in X : w = <<w[1], w[2], w[3]>> /\ Runs(w[1], w[2], w[3])
  <2> HIDE DEF a, none
  <2> QED
    BY <1>2
<1>4. Leads(X, s, a, c)
  <2>1. DOMAIN cases = {1} /\ cases[1][1] = ks /\ cases[1][2] = p
    OBVIOUS
  <2>2. /\ <<p, Seeing(a, 1, ks \cap Kinds), c>> \in X
        /\ <<q, Seeing(a, 1, none), c>> \in X
    OBVIOUS
  <2>4. a.base = c.base
    BY DEF Told, Even
  <2> HIDE DEF a, X, cases
  <2>3. \A i \in DOMAIN s.cases :
          <<s.cases[i][2], Seeing(a, 1, s.cases[i][1] \cap Kinds), c>> \in X
    BY <2>1, <2>2
  <2> QED
    BY <2>1, <2>2, <2>3, <2>4 DEF Leads, Idle
<1> HIDE DEF a, X
<1>5. Runs(<<s>>, a, c)
  BY <1>3, <1>4, StepRuns
<1> QED
  BY <1>5 DEF If, Select, Ahead, a, cases

LEMMA LateWhen ==
  ASSUME NEW L, NEW ks, NEW p, Late(L, p)
  PROVE  Late(L, When(ks, p))
  BY LateNothing, LateIf DEF Late, When

\* what an extern declaration may not have
LEMMA GivenRequired ==
  ASSUME NEW b \in BOOLEAN, NEW ks, Plain(ks), NEW x \in Seq(Openers)
  PROVE  Given(Outside, ks, Require(b) \o Advance, x, x)
<1>1. CASE b = TRUE
  <2>1. Require(b) \o Advance = Advance
    BY <1>1 DEF Require, Advance
  <2> QED
    BY <2>1, AdvancePlain
<1>2. CASE b = FALSE
  <2>1. Late(Outside, Fail) /\ Outside \in SUBSET Levels
    BY OutsideIs, RunsFail DEF Late, Anywhere, Levels, Even, Told
  <2>2. Reports(Outside, Error)
    BY <2>1, ReportReports, ReportsOn DEF Error
  <2> QED
    BY <1>2, <2>2, LateAdvance, TurnsReport, GivenAny DEF Require
<1> QED
  BY <1>1, <1>2

LEMMA FunctionTurns ==
  ASSUME NEW isExtern \in BOOLEAN
  PROVE  Turns(Outside, ParseFunctionDeclaration(isExtern), <<>>, <<>>)
<1> USE OpenSeqs, AllOutsideTurn, OutsideIs DEF Plain, Brackets
<1> DEFINE Internal == Require(~ isExtern)
           ReturnType == If({"=>", "LBrace", EOF}, Require(~ isExtern), Call("type"))
           Name == Select(<< <<{"quote"}, Advance \o OverloadedOperator \o Expect("quote")>>,
                       <<{"ident"}, Advance>> >>, Error)
           Generics == When({"<"}, Internal \o Attempt(Call("genericParameters"),
                                                       When({">"}, Fail)))
           Parameters == When({"("}, Advance \o ParameterList("functionParam", ")")
                                             \o Expect(")"))
           Definition == Select(<< <<{"=>"}, Internal \o Advance \o Call("expression")>>,
                       <<{"LBrace"}, Internal \o Call("block")>> >>, <<>>)
           Prefix == IfMarked("prefix", IfMarked("parameters", <<>>, Error), <<>>)
<1>1. Turns(Outside, Internal, <<>>, <<>>)
  BY TurnsRequire
<1>2. Given(Outside, {"=>"}, Internal \o Advance, <<>>, <<>>)
  BY GivenRequired
<1> HIDE DEF Internal
<1>3. Turns(Outside, ReturnType, <<>>, <<>>)
  BY TurnsRequire, TurnsIf, GivenAny DEF DeepRules
<1>4. Turns(Outside, Name, <<>>, <<>>)
  BY OverloadedOperatorTurns, AdvancePlain, ExpectPlain, GivenThen, TurnsError, TurnsSelectTwo
<1>5. Turns(Outside, Generics, <<>>, <<>>)
  <2>1. Late(Outside, Fail)
    BY RunsFail DEF Late, Even, Told
  <2>2. Turns(Outside, Attempt(Call("genericParameters"), When({">"}, Fail)), <<>>, <<>>)
    BY <2>1, LateWhen, TurnsTry
  <2> QED
    BY <1>1, <2>2, KeepsThen, GivenAny, TurnsWhen
<1>6. Turns(Outside, Parameters, <<>>, <<>>)
  <2>1. Turns(Outside, ParameterList("functionParam", ")"), <<"(">>, <<"(">>)
    BY RulesAre, ParameterListTurns
  <2> QED
    BY <2>1, AdvanceOpener, ExpectCloser, GivenKeeps, GivenOpenThenClose, TurnsWhen DEF Openers
<1>7. Turns(Outside, Definition, <<>>, <<>>)
  BY <1>1, <1>2, GivenThen, KeepsThen, GivenAny, TurnsNothing, TurnsSelectTwo DEF DeepRules
<1>8. Turns(Outside, Prefix, <<>>, <<>>)
  BY TurnsError, TurnsNothing, TurnsIfMarked
<1>9. /\ Turns(Outside, Clear({"prefix"}), <<>>, <<>>)
      /\ Turns(Outside, Clear(ListFlags), <<>>, <<>>)
      /\ Turns(Outside, Expect("func"), <<>>, <<>>)
  BY TurnsFlag, ExpectPlain
<1> HIDE DEF ReturnType, Name, Generics, Parameters, Definition, Prefix
<1>10. Turns(Outside, Expect("func") \o Clear({"prefix"}) \o Name \o Generics
                        \o Clear(ListFlags) \o Parameters \o ReturnType \o Definition
                        \o Prefix, <<>>, <<>>)
  BY <1>3, <1>4, <1>5, <1>6, <1>7, <1>8, <1>9, KeepsThen
<1> QED
  BY <1>10 DEF ParseFunctionDeclaration, Internal, ReturnType, Name, Generics, Parameters,
               Definition, Prefix

LEMMA AttributesTurn ==
  /\ Turns(Outside, ParseAttributeList, <<>>, <<>>)
  /\ Turns(Outside, ParseAttribute, <<>>, <<>>)
  /\ Turns(Outside, ParseAttributeArguments, <<>>, <<>>)
<1> USE OpenSeqs, AllOutsideTurn, OutsideIs DEF Plain, Brackets
<1>1. Turns(Outside, ParseAttributeList, <<>>, <<>>)
  <2>1. Turns(Outside, Attempt(Expect("]"), Error), <<"[">>, <<>>)
    BY ExpectCloser, TurnsError, TurnsTry
  <2>2. Turns(Outside, TrailingList({"]"}, Call("attribute")), <<"[">>, <<"[">>)
    BY TurnsTrailingList
  <2>3. Given(Outside, {"["}, Advance \o TrailingList({"]"}, Call("attribute"))
                             \o Attempt(Expect("]"), Error), <<>>, <<>>)
    BY <2>1, <2>2, AdvanceOpener, GivenKeeps, GivenOpenThenClose DEF Openers
  <2> QED
    BY <2>3, AdvancePlain, KeepsThen, GivenThen, TurnsIf, TurnsWhen DEF ParseAttributeList
<1>2. Turns(Outside, ParseAttribute, <<>>, <<>>)
  BY TurnsConsume, GivenAny, TurnsWhen, KeepsThen DEF ParseAttribute
<1>3. Turns(Outside, ParseAttributeArguments, <<>>, <<>>)
  <2> DEFINE Value == Attempt(Call("literal"), Error)
             Positional == IfMarked("named", Error, Value)
             Named == Mark("named") \o Advance \o Advance \o Value
             Argument == If({"ident"}, Ahead(2, << <<{":"}, Named>> >>, Positional), Positional)
             x == <<"(">>
  <2>1. Turns(Outside, Value, x, x)
    BY TurnsError, TurnsTry DEF DeepRules
  <2> HIDE DEF Value
  <2>2. Turns(Outside, Positional, x, x)
    BY <2>1, TurnsError, TurnsIfMarked
  <2> HIDE DEF Positional
  <2>3. ASSUME NEW u \in Seq(Openers), NEW z \in Outside
        PROVE  Runs(Named, [Spot({"ident"} \cap Kinds, x \o u, z) EXCEPT !.next = {":"} \cap Kinds],
                    Spot(All, x \o u, z))
    <3> DEFINE v == x \o u
               a == [Spot({"ident"} \cap Kinds, v, z) EXCEPT !.next = {":"} \cap Kinds]
    <3>1. v \in Seq(Openers)
      OBVIOUS
    <3>2. Runs(Mark("named"), a, a)
      BY RunsIdle DEF Mark, Idle, Flags, ListFlags
    <3>3. Runs(Advance, a, Spot({":"} \cap Kinds, v, z))
      <4>1. \A k \in {"ident"} \cap Kinds : Passes(k, v, v)
        BY BracketsAre DEF Passes
      <4> HIDE DEF v
      <4> QED
        BY <3>1, <4>1, RunsAdvance
    <3>4. Runs(Advance, Spot({":"} \cap Kinds, v, z), Spot(All, v, z))
      BY AdvancePlain DEF Given
    <3>5. Runs(Value, Spot(All, v, z), Spot(All, v, z))
      BY <2>1 DEF Turns
    <3> HIDE DEF a, v
    <3>6. Runs(Mark("named") \o Advance \o Advance \o Value, a, Spot(All, v, z))
      BY <3>2, <3>3, <3>4, <3>5, RunsOn
    <3> QED
      BY <3>6 DEF a, v
  <2>4. Turns(Outside, Argument, x, x)
    <3> HIDE DEF Named, x
    <3>1. Given(Outside, {"ident"}, Positional, x, x)
      BY <2>2, GivenAny
    <3> QED
      BY <2>2, <2>3, <3>1, GivenAhead, TurnsIf
  <2> HIDE DEF Argument
  <2>5. Turns(Outside, TrailingList({")"}, Argument) \o Attempt(Expect(")"), Error), x, <<>>)
    <3>1. Turns(Outside, Attempt(Expect(")"), Error), x, <<>>)
      BY ExpectCloser, TurnsError, TurnsTry
    <3> QED
      BY <2>4, <3>1, TurnsTrailingList, KeepsThen
  <2>6. Turns(Outside, If({")"}, Advance, TrailingList({")"}, Argument)
                                            \o Attempt(Expect(")"), Error)), x, <<>>)
    BY <2>5, AdvanceCloser, TurnsIf
  <2>7. Turns(Outside, Expect("(") \o Clear({"named"}), <<>>, x)
    BY ExpectOpener, TurnsFlag, ThenKeeps DEF Openers
  <2>8. Turns(Outside, Expect("(") \o Clear({"named"})
                         \o If({")"}, Advance, TrailingList({")"}, Argument)
                                                  \o Attempt(Expect(")"), Error)), <<>>, <<>>)
    BY <2>6, <2>7, TurnsOn
  <2> QED
    BY <2>8 DEF ParseAttributeArguments, Argument, Named, Positional, Value
<1> QED
  BY <1>1, <1>2, <1>3

LEMMA OtherDeclarationsTurn ==
  /\ Turns(Outside, ParseEnumDeclaration, <<>>, <<>>)
  /\ Turns(Outside, ParseEnumOption, <<>>, <<>>)
  /\ Turns(Outside, ParseTypeDeclaration, <<>>, <<>>)
  /\ Turns(Outside, ParseImportDeclaration, <<>>, <<>>)
<1> USE OpenSeqs, AllOutsideTurn, OutsideIs DEF Plain, Brackets
<1>1. Turns(Outside, ParseEnumDeclaration, <<>>, <<>>)
  <2>1. Turns(Outside, Expect("enum") \o Consume({"ident"}) \o When({":"}, Advance \o Call("type")),
              <<>>, <<>>)
    BY ExpectPlain, TurnsConsume, AdvancePlain, GivenThen, TurnsWhen, KeepsThen DEF DeepRules
  <2>2. Turns(Outside, Call("enumOption")
                         \o Select(<< <<{"Comma"}, Advance>>, <<{"RBrace"}, <<>> >> >>, Error),
              <<"LBrace">>, <<"LBrace">>)
    BY AdvancePlain, TurnsNothing, GivenAny, TurnsError, TurnsSelectTwo, KeepsThen
  <2>3. Turns(Outside, Until({"RBrace", EOF}, Call("enumOption")
                         \o Select(<< <<{"Comma"}, Advance>>, <<{"RBrace"}, <<>> >> >>, Error)),
              <<"LBrace">>, <<"LBrace">>)
    BY <2>2, TurnsUntil
  <2> QED
    BY <2>1, <2>3, ExpectOpener, ExpectCloser, KeepsThen, ThenKeeps, OpenThenClose
       DEF ParseEnumDeclaration, Openers
<1>2. Turns(Outside, ParseEnumOption, <<>>, <<>>)
  BY GivenAny, TurnsWhen, TurnsConsume, AdvancePlain, GivenThen, KeepsThen
     DEF ParseEnumOption, DeepRules
<1>3. Turns(Outside, ParseTypeDeclaration, <<>>, <<>>)
  BY ExpectPlain, TurnsConsume, GivenAny, TurnsWhen, TurnsError, TurnsTry, KeepsThen
     DEF ParseTypeDeclaration, DeepRules
<1>4. Turns(Outside, ParseImportDeclaration, <<>>, <<>>)
  <2> DEFINE Alias == When({"as"}, Advance \o Consume({"ident"}))
             From  == Expect("from") \o If({"string"}, Call("stringLiteral"), Error)
             Names == TrailingList({"RBrace"}, Consume({"ident"}) \o Alias)
  <2>1. ASSUME NEW x \in Seq(Openers)
        PROVE  Turns(Outside, Alias, x, x)
    BY TurnsConsume, AdvancePlain, GivenThen, TurnsWhen
  <2>2. Turns(Outside, From, <<>>, <<>>)
    BY ExpectPlain, GivenAny, TurnsError, TurnsIf, KeepsThen
  <2> HIDE DEF Alias, From
  <2>3. Turns(Outside, Names, <<"LBrace">>, <<"LBrace">>)
    BY <2>1, TurnsConsume, KeepsThen, TurnsTrailingList
  <2> HIDE DEF Names
  <2>4. Given(Outside, {"LBrace"}, Advance \o Reject({"RBrace"}) \o Names \o Expect("RBrace")
                                    \o From, <<>>, <<>>)
    BY <2>2, <2>3, AdvanceOpener, TurnsReject, ExpectCloser, GivenKeeps, GivenOpenThenClose
       DEF Openers
  <2>5. Given(Outside, {"string"}, Call("stringLiteral") \o Alias, <<>>, <<>>)
    BY <2>1, KeepsThen, GivenAny
  <2>6. Given(Outside, {"ident"}, Advance \o Alias \o From, <<>>, <<>>)
    BY <2>1, <2>2, AdvancePlain, GivenThen
  <2>7. Turns(Outside, Expect("import") \o Optional("test"), <<>>, <<>>)
    BY ExpectPlain, TurnsOptional, KeepsThen
  <2> QED
    BY <2>4, <2>5, <2>6, <2>7, TurnsError, TurnsSelectThree, KeepsThen
       DEF ParseImportDeclaration, Alias, From, Names
<1> QED
  BY <1>1, <1>2, <1>3, <1>4

LEMMA StructuresTurn ==
  /\ Turns(Outside, ParseStructOrClassDeclaration, <<>>, <<>>)
  /\ Turns(Outside, ParseStructOrClassMember, <<>>, <<>>)
  /\ Turns(Outside, ParseFieldDeclaration, <<>>, <<>>)
  /\ Turns(Outside, ParseAnnotationDeclaration, <<>>, <<>>)
  /\ Turns(Outside, ParseInheritanceClause, <<>>, <<>>)
<1> USE OpenSeqs, AllOutsideTurn, OutsideIs DEF Plain, Brackets
<1>1. Turns(Outside, ParseStructOrClassDeclaration, <<>>, <<>>)
  <2>1. Turns(Outside, Consume({"struct", "class"}) \o Consume({"ident"})
                         \o When({"<"}, Call("genericParameters"))
                         \o When({":"}, Call("inheritance")), <<>>, <<>>)
    BY TurnsConsume, GivenAny, TurnsWhen, KeepsThen
  <2>2. /\ Turns(Outside, While({"quote"}, Call("annotation")), <<"LBrace">>, <<"LBrace">>)
        /\ Turns(Outside, Until({"RBrace", EOF}, Call("member")), <<"LBrace">>, <<"LBrace">>)
    BY GivenAny, TurnsWhile, TurnsUntil
  <2> QED
    BY <2>1, <2>2, ExpectOpener, ExpectCloser, KeepsThen, ThenKeeps, OpenThenClose
       DEF ParseStructOrClassDeclaration, Openers
<1>2. Turns(Outside, ParseStructOrClassMember, <<>>, <<>>)
  BY GivenAny, TurnsWhen, TurnsOptional, TurnsError, TurnsSelectTwo, KeepsThen
     DEF ParseStructOrClassMember
<1>3. Turns(Outside, ParseFieldDeclaration, <<>>, <<>>)
  <2> DEFINE Value == Advance \o Call("expression")
  <2>1. Given(Outside, {"="}, Value, <<>>, <<>>)
    BY AdvancePlain, GivenThen DEF DeepRules
  <2> HIDE DEF Value
  <2>2. Turns(Outside, Call("type") \o When({"="}, Value), <<>>, <<>>)
    BY <2>1, TurnsWhen, KeepsThen DEF DeepRules
  <2> QED
    BY <2>1, <2>2, TurnsConsume, TurnsIf, TurnsOptional, KeepsThen
       DEF ParseFieldDeclaration, Value
<1>4. Turns(Outside, ParseAnnotationDeclaration, <<>>, <<>>)
  BY ExpectPlain, TurnsConsume, KeepsThen DEF ParseAnnotationDeclaration, DeepRules
<1>5. Turns(Outside, ParseInheritanceClause, <<>>, <<>>)
  BY ExpectPlain, TurnsError, TurnsTry, KeepsThen DEF ParseInheritanceClause, DeepRules
<1> QED
  BY <1>1, <1>2, <1>3, <1>4, <1>5


-----------------------------------------------------------------------------
(* Every parse function keeps the brackets.                                *)

LEMMA ExpressionProgramsTurn ==
  ASSUME NEW L \in SUBSET Anywhere, NEW bare \in BOOLEAN, NEW r \in DOMAIN ExpressionRules(bare)
  PROVE  Turns(L, ExpressionRules(bare)[r], <<>>, <<>>)
<1> DEFINE Fine(n) == Turns(L, ExpressionRules(bare)[n], <<>>, <<>>)
<1>1. /\ Fine("expression") /\ Fine("assignment") /\ Fine("conditional") /\ Fine("logicalOr")
      /\ Fine("logicalAnd") /\ Fine("bitwiseOr") /\ Fine("bitwiseXor") /\ Fine("bitwiseAnd")
      /\ Fine("equality") /\ Fine("relational") /\ Fine("range") /\ Fine("shift")
      /\ Fine("additive") /\ Fine("multiplicative") /\ Fine("cast") /\ Fine("unary")
      /\ Fine("postfix") /\ Fine("primary") /\ Fine("identifier")
  BY BinaryExpressionsTurn, UnaryExpressionsTurn, PrimaryExpressionTurns DEF ExpressionRules
<1>2. r \in {"expression", "assignment", "conditional", "logicalOr", "logicalAnd", "bitwiseOr",
             "bitwiseXor", "bitwiseAnd", "equality", "relational", "range", "shift", "additive",
             "multiplicative", "cast", "unary", "postfix", "primary", "identifier"}
  BY DEF ExpressionRules
<1> HIDE DEF Fine
<1>3. Fine(r)
  BY <1>1, <1>2
<1> QED
  BY <1>3 DEF Fine

DeepPrograms ==
    {"literal", "literalToken", "macroCall", "arrayLiteral", "tupleOrGrouped",
     "typedStruct", "anonymousStruct", "interpolatedString", "type", "unionType",
     "primaryType", "arrayType", "referenceType", "pointerType", "optionalType",
     "resultType", "functionType", "tupleType", "qualifiedPath", "pathInExpression",
     "genericArguments", "argumentsInExpression"}

LEMMA DeepProgramsTurn ==
  ASSUME NEW L \in SUBSET Anywhere, NEW r \in DeepPrograms
  PROVE  Turns(L, OtherRules[r], <<>>, <<>>)
<1> DEFINE Fine(n) == Turns(L, OtherRules[n], <<>>, <<>>)
<1>1. /\ Fine("literal") /\ Fine("literalToken") /\ Fine("macroCall") /\ Fine("arrayLiteral")
      /\ Fine("tupleOrGrouped") /\ Fine("typedStruct") /\ Fine("anonymousStruct")
      /\ Fine("interpolatedString")
  BY OperandsTurn, InterpolatedStringTurns DEF OtherRules
<1>2. /\ Fine("type") /\ Fine("unionType") /\ Fine("primaryType") /\ Fine("arrayType")
      /\ Fine("referenceType") /\ Fine("pointerType") /\ Fine("optionalType")
      /\ Fine("resultType") /\ Fine("functionType") /\ Fine("tupleType")
      /\ Fine("qualifiedPath") /\ Fine("pathInExpression")
  BY TypesTurn DEF OtherRules
<1>3. Fine("genericArguments") /\ Fine("argumentsInExpression")
  BY GenericArgumentsTurn DEF OtherRules
<1> HIDE DEF Fine
<1>4. Fine(r)
  BY <1>1, <1>2, <1>3 DEF DeepPrograms
<1> QED
  BY <1>4 DEF Fine

LEMMA OtherProgramsTurn ==
  ASSUME NEW r \in DOMAIN OtherRules \ (DeepPrograms \cup {"compilationUnit"})
  PROVE  Turns(Outside, OtherRules[r], <<>>, <<>>)
<1> DEFINE Fine(n) == Turns(Outside, OtherRules[n], <<>>, <<>>)
<1>1. /\ Fine("stringLiteral") /\ Fine("statement") /\ Fine("break") /\ Fine("block")
      /\ Fine("defer") /\ Fine("return") /\ Fine("expressionStatement")
  BY OutsideIs, OperandsTurn, SimpleStatementsTurn DEF OtherRules
<1>2. /\ Fine("if") /\ Fine("while") /\ Fine("for") /\ Fine("switch") /\ Fine("case")
      /\ Fine("match") /\ Fine("matchCase")
  BY BranchesTurn DEF OtherRules
<1>3. /\ Fine("moreNames") /\ Fine("variable") /\ Fine("externVariable")
      /\ Fine("conditionVariable") /\ Fine("declaration") /\ Fine("functionParam")
      /\ Fine("genericParameter") /\ Fine("genericParameters")
  BY VariablesTurn, DeclarationTurns, ParametersTurn DEF OtherRules
<1>4. /\ Fine("function") /\ Fine("externFunction") /\ Fine("attributeList")
      /\ Fine("attribute") /\ Fine("attributeArguments")
  BY FunctionTurns, AttributesTurn DEF OtherRules
<1>5. /\ Fine("enum") /\ Fine("enumOption") /\ Fine("typeDeclaration") /\ Fine("import")
      /\ Fine("structOrClass") /\ Fine("member") /\ Fine("field") /\ Fine("annotation")
      /\ Fine("inheritance")
  BY OtherDeclarationsTurn, StructuresTurn DEF OtherRules
<1> HIDE DEF Fine
<1>6. Fine(r)
  BY <1>1, <1>2, <1>3, <1>4, <1>5 DEF OtherRules, DeepPrograms
<1> QED
  BY <1>6 DEF Fine

LEMMA RuleTurns ==
  ASSUME NEW r \in Rules \ {"compilationUnit"}, NEW bare \in BOOLEAN
  PROVE  /\ Turns(Outside, ProgramOf(r, bare), <<>>, <<>>)
         /\ r \in DeepRules => Turns(Anywhere, ProgramOf(r, bare), <<>>, <<>>)
<1>1. CASE r \in DOMAIN OtherRules
  <2>1. ProgramOf(r, bare) = OtherRules[r]
    BY <1>1 DEF ProgramOf
  <2>2. CASE r \in DeepPrograms
    BY <2>1, <2>2, OutsideIs, DeepProgramsTurn
  <2>3. CASE r \notin DeepPrograms
    <3>1. Turns(Outside, OtherRules[r], <<>>, <<>>)
      BY <1>1, <2>3, OtherProgramsTurn
    <3>2. r \notin DeepRules
      BY <1>1, <2>3 DEF DeepRules, DeepPrograms, OtherRules
    <3> QED
      BY <2>1, <3>1, <3>2
  <2> QED
    BY <2>2, <2>3
<1>2. CASE r \notin DOMAIN OtherRules
  <2>1. r \in DOMAIN NotBare /\ DOMAIN NotBare = DOMAIN Bare
    BY <1>2 DEF Rules, NotBare, Bare, ExpressionRules
  <2>2. ProgramOf(r, bare) = ExpressionRules(bare)[r] /\ r \in DOMAIN ExpressionRules(bare)
    <3>1. CASE bare = TRUE
      BY <1>2, <2>1, <3>1 DEF ProgramOf, Bare
    <3>2. CASE bare = FALSE
      BY <1>2, <2>1, <3>2 DEF ProgramOf, NotBare
    <3> QED
      BY <3>1, <3>2
  <2> QED
    BY <2>2, OutsideIs, ExpressionProgramsTurn
<1> QED
  BY <1>1, <1>2


-----------------------------------------------------------------------------
(* Along a stack of steps.                                                 *)

\* what is left of p from its i-th step on leads to b, and up to its first
\* catch a failure is caught where it is caught at the beginning
Along(p, a, b, i) ==
    \E d : /\ Runs(SubSeq(p, i, Len(p)), d, b)
           /\ (\A j \in 1 .. i - 1 : p[j].op # "catch") => d.base = a.base

LEMMA RestOf ==
  ASSUME NEW S, NEW p \in Seq(S), NEW i \in 1 .. Len(p)
  PROVE  /\ SubSeq(p, i, Len(p)) # <<>>
         /\ Head(SubSeq(p, i, Len(p))) = p[i]
         /\ Tail(SubSeq(p, i, Len(p))) = SubSeq(p, i + 1, Len(p))
<1>1. Len(p) \in Nat /\ Len(p) \in i .. Len(p)
  OBVIOUS
<1>2. \A j \in i .. Len(p) : p[j] \in S
  OBVIOUS
<1>3. Len(SubSeq(p, i, Len(p))) = Len(p) - i + 1
  BY <1>1, <1>2, SubSeqProperties
<1>4. SubSeq(p, i, Len(p)) # <<>>
  <2> SUFFICES ASSUME SubSeq(p, i, Len(p)) = <<>>
               PROVE  FALSE
    OBVIOUS
  <2>1. Len(SubSeq(p, i, Len(p))) = 0
    OBVIOUS
  <2> QED
    BY <1>1, <1>3, <2>1
<1> QED
  BY <1>1, <1>4, HeadTailOfSubSeq

LEMMA RunsAlong ==
  ASSUME NEW p, NEW a, NEW b, Runs(p, a, b), NEW i \in 1 .. Len(p) + 1
  PROVE  Along(p, a, b, i)
<1>1. PICK S : p \in Seq(S)
  BY RunsSequence
<1> DEFINE N == {n \in Nat : n \in 1 .. Len(p) + 1 => Along(p, a, b, n)}
<1>2. Len(p) \in Nat
  BY <1>1
<1>3. 0 \in N
  OBVIOUS
<1>4. ASSUME NEW n \in Nat, n \in N
      PROVE  n + 1 \in N
  <2> SUFFICES ASSUME n + 1 \in 1 .. Len(p) + 1
               PROVE  Along(p, a, b, n + 1)
    OBVIOUS
  <2>1. CASE n = 0
    <3>1. SubSeq(p, 1, Len(p)) = p
      BY <1>1, SubSeqFull
    <3>2. n + 1 = 1
      BY <2>1
    <3> QED
      BY <3>1, <3>2 DEF Along
  <2>2. CASE n # 0
    <3>1. n \in 1 .. Len(p)
      BY <1>2, <2>2
    <3>2. PICK d : /\ Runs(SubSeq(p, n, Len(p)), d, b)
                   /\ (\A j \in 1 .. n - 1 : p[j].op # "catch") => d.base = a.base
      <4>1. n \in 1 .. Len(p) + 1
        BY <1>2, <3>1
      <4>2. Along(p, a, b, n)
        BY <1>4, <4>1
      <4> QED
        BY <4>2 DEF Along
    <3> DEFINE q == SubSeq(p, n, Len(p))
    <3>3. q # <<>> /\ Head(q) = p[n] /\ Tail(q) = SubSeq(p, n + 1, Len(p))
      BY <1>1, <3>1, RestOf
    <3> HIDE DEF q
    <3>4. PICK W, e, c : /\ Known(W) /\ Below(d, e) /\ Leads(W, Head(q), e, c)
                         /\ Runs(Tail(q), c, b)
      BY <3>2, <3>3, FirstStep DEF q
    <3>5. (\A j \in 1 .. n : p[j].op # "catch") => c.base = a.base
      <4> SUFFICES ASSUME \A j \in 1 .. n : p[j].op # "catch"
                   PROVE  c.base = a.base
        OBVIOUS
      <4>1. e.base = c.base
        BY <3>1, <3>3, <3>4 DEF Leads
      <4>2. d.base = a.base
        BY <3>1, <3>2
      <4>3. d.base = e.base
        BY <3>4 DEF Below, Even
      <4> QED
        BY <4>1, <4>2, <4>3
    <3>6. (n + 1) - 1 = n
      OBVIOUS
    <3> QED
      BY <3>3, <3>4, <3>5, <3>6 DEF Along
  <2> QED
    BY <2>1, <2>2
<1> HIDE DEF N
<1>5. Nat \subseteq N
  BY <1>3, <1>4, SimpleInduction
<1>6. i \in Nat
  BY <1>2
<1> QED
  BY <1>5, <1>6 DEF N

LEMMA EachLeads ==
  ASSUME NEW p, NEW a, NEW b, Runs(p, a, b), NEW i \in DOMAIN p
  PROVE  \E W, d, c : /\ Known(W) /\ Leads(W, p[i], d, c)
                      /\ Runs(SubSeq(p, i + 1, Len(p)), c, b)
                      /\ (\A j \in 1 .. i - 1 : p[j].op # "catch") => d.base = a.base
<1>1. PICK S : p \in Seq(S)
  BY RunsSequence
<1>2. i \in 1 .. Len(p) /\ Len(p) \in Nat
  BY <1>1
<1>3. PICK e : /\ Runs(SubSeq(p, i, Len(p)), e, b)
               /\ (\A j \in 1 .. i - 1 : p[j].op # "catch") => e.base = a.base
  BY <1>2, RunsAlong DEF Along
<1> DEFINE q == SubSeq(p, i, Len(p))
<1>4. q # <<>> /\ Head(q) = p[i] /\ Tail(q) = SubSeq(p, i + 1, Len(p))
  BY <1>1, <1>2, RestOf
<1> HIDE DEF q
<1>5. PICK W, d, c : /\ Known(W) /\ Below(e, d) /\ Leads(W, Head(q), d, c)
                     /\ Runs(Tail(q), c, b)
  BY <1>3, <1>4, FirstStep DEF q
<1>6. e.base = d.base
  BY <1>5 DEF Below, Even
<1> QED
  BY <1>3, <1>4, <1>5, <1>6

\* where a failure ends
LEMMA FailureCaught ==
  ASSUME NEW p, NEW a, NEW b, Runs(p, a, b), NEW i \in DOMAIN p, p[i].op = "catch",
         \A j \in DOMAIN p : p[j].op = "catch" => i <= j
  PROVE  \E c : /\ c.level = a.base /\ Runs(p[i].handler, Caught(c), c)
               /\ Runs(p[i].handler \o SubSeq(p, i + 1, Len(p)), Caught(c), b)
<1>1. PICK S : p \in Seq(S)
  BY RunsSequence
<1>2. \A j \in 1 .. i - 1 : p[j].op # "catch"
  BY <1>1
<1>3. PICK W, d, c : /\ Known(W) /\ Leads(W, p[i], d, c)
                     /\ Runs(SubSeq(p, i + 1, Len(p)), c, b)
                     /\ d.base = a.base
  BY <1>2, EachLeads
<1>4. c.level = a.base /\ <<p[i].handler, Caught(c), c>> \in W
  BY <1>3 DEF Leads
<1>5. Runs(p[i].handler, Caught(c), c)
  BY <1>3, <1>4, KnownRuns
<1> QED
  BY <1>3, <1>4, <1>5, RunsOn

LEMMA FailureEnds ==
  ASSUME NEW p, NEW a, NEW b, Runs(p, a, b), \A i \in DOMAIN p : p[i].op # "catch"
  PROVE  a.base = b.base
<1>1. PICK S : p \in Seq(S)
  BY RunsSequence
<1>2. Len(p) \in Nat /\ \A j \in 1 .. (Len(p) + 1) - 1 : j \in DOMAIN p
  BY <1>1
<1>3. PICK d : Runs(SubSeq(p, Len(p) + 1, Len(p)), d, b) /\ d.base = a.base
  BY <1>2, RunsAlong DEF Along
<1>4. SubSeq(p, Len(p) + 1, Len(p)) = <<>>
  BY <1>1, <1>2, SubSeqEmpty
<1>5. Below(d, b)
  BY <1>3, <1>4, RunsSequence
<1> QED
  BY <1>3, <1>5 DEF Below, Even
-----------------------------------------------------------------------------
(* The parser while it runs a program that the judgement is about.         *)

\* The window and the brackets are what a says.
Sits(a) ==
    /\ ~ a.told
    /\ window[1].kind \in a.now /\ window[2].kind \in a.next
    /\ window[1].kind = Unread => All \subseteq a.now /\ All \subseteq a.next
    /\ window[2].kind = Unread => All \subseteq a.next
    /\ open = a.open

At(a) == depth = a.level /\ (errors \/ Sits(a))

\* The stack is such a program, with rest behind it.
Parsing(rest) == \E q, a : stack = q \o rest /\ Runs(q, a, Done) /\ At(a)

\* the loop of the compilation unit
UnitBody == If(Separator, Advance, Attempt(Call("declaration"), Synchronize))
UnitLoop == Until({EOF}, UnitBody)
Rests == {<<>>, UnitLoop}

\* The next step is the first one of q and leads from a to c.
Stepping(rest, q, W, a, c) ==
    /\ rest \in Rests /\ q # <<>> /\ \E S : q \in Seq(S)
    /\ stack = q \o rest
    /\ Known(W) /\ Leads(W, Head(q), a, c) /\ Runs(Tail(q), c, Done) /\ Runs(q, a, Done)
    /\ At(a)

LEMMA AtBelow ==
  ASSUME NEW a, NEW b, Below(a, b), At(a)
  PROVE  At(b)
  BY DEF At, Sits, Below, Even

LEMMA RestSeq ==
  ASSUME NEW rest \in Rests
  PROVE  \E S : rest \in Seq(S)
<1>1. CASE rest = <<>>
  <2>1. rest \in Seq({})
    BY <1>1
  <2> QED
    BY <2>1
<1>2. CASE rest = UnitLoop
  <2> DEFINE s == [op |-> "until", kinds |-> {EOF}, body |-> UnitBody]
  <2>1. rest = <<s>>
    BY <1>2 DEF UnitLoop, Until
  <2> HIDE DEF s
  <2>2. rest \in Seq({s})
    BY <2>1
  <2> QED
    BY <2>2
<1> QED
  BY <1>1, <1>2 DEF Rests

LEMMA ParsingSteps ==
  ASSUME NEW rest \in Rests, Parsing(rest)
  PROVE  \/ stack = rest /\ At(Done)
         \/ \E q, W, a, c : Stepping(rest, q, W, a, c)
<1>1. PICK q, d : stack = q \o rest /\ Runs(q, d, Done) /\ At(d)
  BY DEF Parsing
<1>2. PICK S : q \in Seq(S)
  BY <1>1, RunsSequence
<1>3. PICK T : rest \in Seq(T)
  BY RestSeq
<1>4. CASE q = <<>>
  <2>1. Below(d, Done)
    BY <1>1, <1>4, RunsSequence
  <2>2. At(Done)
    BY <1>1, <2>1, AtBelow
  <2>3. stack = rest
    BY <1>1, <1>3, <1>4
  <2> QED
    BY <2>2, <2>3
<1>5. CASE q # <<>>
  <2>1. PICK W, a, c : /\ Known(W) /\ Below(d, a) /\ Leads(W, Head(q), a, c)
                       /\ Runs(Tail(q), c, Done)
    BY <1>1, <1>5, FirstStep
  <2>2. At(a)
    BY <1>1, <2>1, AtBelow
  <2>3. Runs(<<Head(q)>>, a, c)
    <3>1. \A x \in W : x = <<x[1], x[2], x[3]>> /\ Runs(x[1], x[2], x[3])
      <4>1. PICK R : Consistent(R, W)
        BY <2>1 DEF Known
      <4> QED
        BY <2>1, <4>1 DEF Consistent, Runs
    <3> QED
      BY <2>1, <3>1, StepRuns
  <2>4. Runs(<<Head(q)>> \o Tail(q), a, Done)
    BY <2>1, <2>3, RunsOn
  <2>5. <<Head(q)>> \o Tail(q) = q
    BY <1>2, <1>5
  <2> QED
    BY <1>1, <1>2, <1>5, <2>1, <2>2, <2>4, <2>5 DEF Stepping
<1> QED
  BY <1>4, <1>5

LEMMA Reassociated ==
  ASSUME NEW S, NEW p \in Seq(S), NEW q \in Seq(S), NEW r \in Seq(S)
  PROVE  p \o (q \o r) = (p \o q) \o r
  BY ConcatAssociative, Z3

\* What is left of the stack, with new steps in front
LEMMA SteppingStack ==
  ASSUME NEW rest, NEW q, NEW W, NEW a, NEW c, Stepping(rest, q, W, a, c)
  PROVE  /\ stack # <<>> /\ Top = Head(q)
         /\ \A p, b, d : Runs(p, b, d) => p \o Tail(stack) = (p \o Tail(q)) \o rest
         /\ \A p, b, d : Runs(p, b, d) => p \o stack = (p \o q) \o rest
<1>1. PICK S : q \in Seq(S)
  BY DEF Stepping
<1>2. PICK T : rest \in Seq(T)
  BY RestSeq DEF Stepping
<1>3. q # <<>> /\ stack = q \o rest
  BY DEF Stepping
<1>4. stack # <<>> /\ Head(stack) = Head(q) /\ Tail(stack) = Tail(q) \o rest
      /\ Tail(q) \in Seq(S)
  BY <1>1, <1>2, <1>3, HeadOfConcat
<1>5. ASSUME NEW p, NEW b, NEW d, Runs(p, b, d)
      PROVE  /\ p \o (Tail(q) \o rest) = (p \o Tail(q)) \o rest
             /\ p \o (q \o rest) = (p \o q) \o rest
  <2>1. PICK R : p \in Seq(R)
    BY <1>5, RunsSequence
  <2> DEFINE Z == R \cup S \cup T
  <2>2. p \in Seq(Z) /\ q \in Seq(Z) /\ rest \in Seq(Z) /\ Tail(q) \in Seq(Z)
    BY <1>1, <1>2, <1>4, <2>1, SeqMonotonic
  <2> DEFINE t == Tail(q)
  <2> HIDE DEF Z, t
  <2>3. p \o (q \o rest) = (p \o q) \o rest
    BY <2>2, Reassociated
  <2>4. t \in Seq(Z)
    BY <2>2 DEF t
  <2>5. p \o (t \o rest) = (p \o t) \o rest
    BY <2>2, <2>4, Reassociated
  <2> QED
    BY <2>3, <2>5 DEF t
<1>6. ASSUME NEW p, NEW b, NEW d, Runs(p, b, d)
      PROVE  p \o Tail(stack) = (p \o Tail(q)) \o rest
  BY <1>4, <1>5, <1>6
<1>7. ASSUME NEW p, NEW b, NEW d, Runs(p, b, d)
      PROVE  p \o stack = (p \o q) \o rest
  BY <1>3, <1>5, <1>7
<1> QED
  BY <1>4, <1>6, <1>7 DEF Top

\* Where the stack goes on
LEMMA ParsingNext ==
  ASSUME NEW rest, NEW p, NEW e, stack' = p \o rest, Runs(p, e, Done),
         depth' = e.level, errors' \/ Sits(e)'
  PROVE  Parsing(rest)'
  BY DEF Parsing, At

LEMMA GoesOnWith ==
  ASSUME NEW rest, NEW q, NEW W, NEW a, NEW c, Stepping(rest, q, W, a, c),
         NEW p, NEW e, Runs(p, e, c), GoOnWith(p),
         depth' = e.level, errors' \/ Sits(e)'
  PROVE  Parsing(rest)'
<1>1. Runs(p \o Tail(q), e, Done)
  BY RunsOn DEF Stepping
<1>2. stack' = (p \o Tail(q)) \o rest
  BY SteppingStack DEF GoOnWith
<1> QED
  BY <1>1, <1>2, ParsingNext

-----------------------------------------------------------------------------
(* What the steps of the parser have in common.                            *)

LEMMA LooksAtIs ==
  /\ AtStep("select") => LooksAt = Top.at
  /\ AtStep("expect") \/ AtStep("advance") \/ AtStep("while") \/ AtStep("until")
       \/ AtStep("synchronize") => LooksAt = 1
  BY DEF AtStep, LooksAt

LEMMA OpenersAre == Range(Opener) = Openers
<1>1. Opener[")"] = "(" /\ Opener["]"] = "[" /\ Opener["RBrace"] = "LBrace"
      /\ Opener["RString"] = "LString"
  BY BracketsAre
<1>2. DOMAIN Opener = {")", "]", "RBrace", "RString"}
  BY DEF Opener
<1> QED
  BY <1>1, <1>2 DEF Range, Openers

LEMMA OpenAfterPasses ==
  ASSUME ~ errors, NEW k, NEW w, Passes(k, open, w), open \in Seq(Openers),
         w \in Seq(Openers)
  PROVE  OpenAfter(k) = w
<1>1. CASE k \in Openers /\ w = <<k>> \o open
  <2>1. k \in Range(Opener)
    BY <1>1, OpenersAre
  <2>2. OpenAfter(k) = <<k>> \o open
    <3>1. k \notin Closers
      BY <1>1, BracketsAre DEF Openers
    <3> QED
      BY <2>1, <3>1 DEF OpenAfter
  <2> QED
    BY <1>1, <2>2
<1>2. CASE k \in Closers /\ open = <<Opener[k]>> \o w
  <2>1. k \notin Openers
    BY <1>2, BracketsAre DEF Openers
  <2>2. open # <<>> /\ Head(open) = Opener[k] /\ Tail(open) = w
    <3>1. Opener[k] \in Openers
      BY <1>2 DEF Opener, Closers, Openers
    <3> DEFINE o == Opener[k]
    <3> HIDE DEF o
    <3>2. open = <<o>> \o w /\ o \in Openers
      BY <1>2, <3>1 DEF o
    <3>3. open # <<>> /\ Head(open) = o /\ Tail(open) = w
      BY <3>2
    <3> QED
      BY <3>3 DEF o
  <2> QED
    BY <1>2, <2>1, <2>2, OpenersAre DEF OpenAfter
<1>3. CASE k \notin Openers \cup Closers /\ w = open
  BY <1>3, OpenersAre DEF OpenAfter
<1> QED
  BY <1>1, <1>2, <1>3 DEF Passes

LEMMA SitsShifted ==
  ASSUME NEW a, Sits(a), window \in [1 .. 3 -> Slot], Shift,
         NEW w, open' = w, NEW c, Below(Shifted(a, w), c)
  PROVE  Sits(c)'
<1>1. /\ ~ c.told /\ c.open = w /\ a.next \subseteq c.now /\ All \subseteq c.next
  BY DEF Below, Even, Shifted, Sits
<1>2. window'[1] = window[2] /\ window'[2] = window[3]
  BY DEF Shift
<1>3. window[3].kind \in All
  BY DEF Slot, All, Kinds
<1>4. /\ window[2].kind \in a.next
      /\ window[2].kind = Unread => All \subseteq a.next
  BY DEF Sits
<1> QED
  BY <1>1, <1>2, <1>3, <1>4 DEF Sits

LEMMA SitsStill ==
  ASSUME NEW a, Sits(a), UNCHANGED <<window, open>>
  PROVE  Sits(a)'
  BY DEF Sits
-----------------------------------------------------------------------------
(* What each action of the parser does to what is left of a program.       *)

\* The brackets are forgotten with the first error.
Tidy == open \in Seq(Openers) /\ (errors => open = <<>>)

LEMMA SteppingLevel ==
  ASSUME NEW rest, NEW q, NEW W, NEW a, NEW c, Stepping(rest, q, W, a, c)
  PROVE  /\ AtStep(Top.op) /\ depth = a.level /\ Leads(W, Top, a, c) /\ Known(W)
         /\ Top.op \in {"fail", "synchronize"} => errors
         /\ ~ errors => Sits(a)
<1>1. stack # <<>> /\ Top = Head(q)
  BY SteppingStack
<1>2. /\ depth = a.level /\ Leads(W, Head(q), a, c) /\ Known(W)
      /\ errors \/ Sits(a)
  BY DEF Stepping, At
<1>3. Head(q).op \in {"fail", "synchronize"} => a.told
  BY <1>2 DEF Leads
<1>4. Sits(a) => ~ a.told
  BY DEF Sits
<1> QED
  BY <1>1, <1>2, <1>3, <1>4 DEF AtStep

LEMMA NothingRuns == \A a : Runs(<<>>, a, a)
  BY RunsNothing, BelowItself

\* a token that is passed
LEMMA ShiftGoesOn ==
  ASSUME NEW rest, NEW q, NEW W, NEW a, NEW c, Stepping(rest, q, W, a, c), Even(a, c),
         TypeOK, Tidy, Shift, GoOnWith(<<>>), UNCHANGED <<depth, errors>>,
         errors \/ \E w \in Seq(Openers) : Passes(current, a.open, w) /\ Below(Shifted(a, w), c)
  PROVE  Parsing(rest)' /\ Tidy'
<1>1. depth = a.level /\ (~ errors => Sits(a))
  BY SteppingLevel
<1>2. depth' = c.level
  BY <1>1 DEF Even
<1>3. CASE errors
  <2>1. open' = <<>>
    BY <1>3 DEF Shift, OpenAfter
  <2>2. Tidy'
    BY <2>1, OpenSeqs DEF Tidy
  <2>3. errors'
    BY <1>3
  <2> QED
    BY <1>2, <2>2, <2>3, NothingRuns, GoesOnWith
<1>4. CASE ~ errors
  <2>1. Sits(a) /\ a.open = open
    BY <1>1, <1>4 DEF Sits
  <2>2. PICK w \in Seq(Openers) : Passes(current, open, w) /\ Below(Shifted(a, w), c)
    BY <1>4, <2>1
  <2>3. open' = w
    <3>1. OpenAfter(current) = w
      BY <1>4, <2>2, OpenAfterPasses DEF Tidy
    <3> QED
      BY <3>1 DEF Shift
  <2>4. Tidy'
    BY <1>4, <2>3 DEF Tidy
  <2>5. Sits(c)'
    BY <2>1, <2>2, <2>3, SitsShifted DEF TypeOK
  <2> QED
    BY <1>2, <2>4, <2>5, NothingRuns, GoesOnWith
<1> QED
  BY <1>3, <1>4

LEMMA ExpectedParses ==
  ASSUME NEW rest, NEW q, NEW W, NEW a, NEW c, Stepping(rest, q, W, a, c),
         TypeOK, Tidy, Expected
  PROVE  Parsing(rest)' /\ Tidy'
<1>1. Top.op = "expect" /\ Top.kind = current
  BY LooksAtIs DEF Expected, AtStep, seen, current
<1>2. Leads(W, Top, a, c) /\ (~ errors => Sits(a))
  BY SteppingLevel
<1>3. /\ Even(a, c)
      /\ a.told \/ \E w \in Seq(Openers) : Passes(Top.kind, a.open, w) /\ Below(Shifted(a, w), c)
  BY <1>1, <1>2 DEF Leads
<1>4. errors \/ \E w \in Seq(Openers) : Passes(current, a.open, w) /\ Below(Shifted(a, w), c)
  BY <1>1, <1>2, <1>3 DEF Sits
<1>5. Shift /\ GoOnWith(<<>>) /\ UNCHANGED <<depth, errors>>
  BY DEF Expected
<1> QED
  BY <1>3, <1>4, <1>5, ShiftGoesOn

LEMMA AdvanceParses ==
  ASSUME NEW rest, NEW q, NEW W, NEW a, NEW c, Stepping(rest, q, W, a, c),
         TypeOK, Tidy, AdvanceOne
  PROVE  Parsing(rest)' /\ Tidy'
<1>1. Top.op = "advance" /\ current # Unread
  BY LooksAtIs DEF AdvanceOne, AtStep, Looking, current
<1>2. Leads(W, Top, a, c) /\ (~ errors => Sits(a))
  BY SteppingLevel
<1>3. /\ Even(a, c)
      /\ a.told \/ \A k \in a.now \cap Kinds :
           \E w \in Seq(Openers) : Passes(k, a.open, w) /\ Below(Shifted(a, w), c)
  BY <1>1, <1>2 DEF Leads
<1>4. current \in Kinds
  BY <1>1 DEF TypeOK, Slot, Kinds, current
<1>5. errors \/ \E w \in Seq(Openers) : Passes(current, a.open, w) /\ Below(Shifted(a, w), c)
  BY <1>2, <1>3, <1>4 DEF Sits, current
<1>6. Shift /\ GoOnWith(<<>>) /\ UNCHANGED <<depth, errors>>
  BY DEF AdvanceOne
<1> QED
  BY <1>3, <1>5, <1>6, ShiftGoesOn

\* where nothing is passed
LEMMA StillGoesOn ==
  ASSUME NEW rest, NEW q, NEW W, NEW a, NEW c, Stepping(rest, q, W, a, c),
         NEW p, NEW e, Runs(p, e, c), GoOnWith(p), Tidy, UNCHANGED <<window, open, errors>>,
         depth' = e.level, Sits(a) => Sits(e)
  PROVE  Parsing(rest)' /\ Tidy'
<1>1. Tidy'
  BY DEF Tidy
<1>2. errors \/ Sits(e)
  BY SteppingLevel
<1>3. errors' \/ Sits(e)'
  BY <1>2, SitsStill
<1> QED
  BY <1>1, <1>3, GoesOnWith

LEMMA ReportParses ==
  ASSUME NEW rest, NEW q, NEW W, NEW a, NEW c, Stepping(rest, q, W, a, c), ReportOne
  PROVE  Parsing(rest)' /\ Tidy'
<1>1. Top.op = "report"
  BY DEF ReportOne, AtStep
<1>2. Leads(W, Top, a, c) /\ depth = a.level
  BY SteppingLevel
<1>3. Even(a, c)
  BY <1>1, <1>2 DEF Leads
<1>4. /\ errors' = TRUE /\ open' = <<>> /\ depth' = depth
      /\ GoOnWith(<<>>)
  BY DEF ReportOne, ReportError
<1>5. Tidy'
  BY <1>4, OpenSeqs DEF Tidy
<1>6. depth' = c.level
  BY <1>2, <1>3, <1>4 DEF Even
<1> QED
  BY <1>4, <1>5, <1>6, NothingRuns, GoesOnWith

LEMMA CallParses ==
  ASSUME NEW rest, NEW q, NEW W, NEW a, NEW c, Stepping(rest, q, W, a, c),
         TypeOK, Tidy, CallOne
  PROVE  Parsing(rest)' /\ Tidy'
<1>1. Top.op = "call"
  BY DEF CallOne, AtStep
<1>2. Leads(W, Top, a, c) /\ depth = a.level
  BY SteppingLevel
<1> DEFINE r == Top.rule
           z == <<a.level, a.base>>
<1>3. /\ a.level = a.base /\ r \in Rules \ {"compilationUnit"} /\ Top.bare \in BOOLEAN
      /\ a.level = 0 \/ r \in DeepRules
  BY <1>1, <1>2 DEF Leads
<1>4. PICK u \in Seq(Openers) : Below(a, Spot(All, u, z)) /\ Below(Spot(All, u, z), c)
  BY <1>1, <1>2 DEF Leads
<1> DEFINE e == Spot(All, u, z)
<1>5. Runs(ProgramOf(r, Top.bare), e, e)
  <2>1. <<>> \o u = u
    OBVIOUS
  <2>2. CASE a.level = 0
    <3>1. z \in Outside
      BY <1>3, <2>2 DEF Outside, Home
    <3>2. Turns(Outside, ProgramOf(r, Top.bare), <<>>, <<>>)
      BY <1>3, RuleTurns
    <3> HIDE DEF z, r
    <3> QED
      BY <2>1, <3>1, <3>2 DEF Turns
  <2>3. CASE r \in DeepRules
    <3>1. z \in Anywhere
      BY <1>2, <1>3 DEF Anywhere, TypeOK
    <3>2. Turns(Anywhere, ProgramOf(r, Top.bare), <<>>, <<>>)
      BY <1>3, <2>3, RuleTurns
    <3> HIDE DEF z, r
    <3> QED
      BY <2>1, <3>1, <3>2 DEF Turns
  <2> QED
    BY <1>3, <2>2, <2>3
<1>6. e.level = a.level
  BY DEF Spot
<1> HIDE DEF e
<1>7. Runs(ProgramOf(r, Top.bare), e, c)
  BY <1>4, <1>5, RunsFurther DEF e
<1>8. Sits(a) => Sits(e)
  BY <1>4 DEF Below, Sits, e
<1>9. GoOnWith(ProgramOf(r, Top.bare)) /\ UNCHANGED <<window, open, errors, depth>>
  BY DEF CallOne
<1> QED
  BY <1>2, <1>6, <1>7, <1>8, <1>9, StillGoesOn

LEMMA SeeingIs ==
  ASSUME NEW a, NEW at \in {1, 2}, NEW ks, Sits(a), window[at].kind \in ks,
         window[at].kind # Unread, at = 2 => Unread \notin a.now
  PROVE  Sits(Seeing(a, at, ks))
<1>1. CASE at = 1
  BY <1>1 DEF Seeing, Sits
<1>2. CASE at = 2
  BY <1>2 DEF Seeing, Sits
<1> QED
  BY <1>1, <1>2

LEMMA SeeingLevel ==
  ASSUME NEW a, NEW at, NEW ks
  PROVE  Seeing(a, at, ks).level = a.level
  BY DEF Seeing

LEMMA MinIs ==
  ASSUME NEW S \in SUBSET Nat, S # {}
  PROVE  Min(S) \in S /\ \A m \in S : Min(S) <= m
  BY LeastNatural DEF Min

LEMMA SelectParses ==
  ASSUME NEW rest, NEW q, NEW W, NEW a, NEW c, Stepping(rest, q, W, a, c),
         TypeOK, Tidy, SelectOne
  PROVE  Parsing(rest)' /\ Tidy'
<1>1. Top.op = "select" /\ LooksAt = Top.at /\ seen # Unread
  BY LooksAtIs DEF SelectOne, AtStep, Looking, seen
<1>2. Leads(W, Top, a, c) /\ Known(W) /\ depth = a.level
  BY SteppingLevel
<1>3. /\ Top.at \in {1, 2} /\ (Top.at = 2 => a.told \/ Unread \notin a.now)
      /\ DOMAIN Top.cases \subseteq Nat
      /\ \A i \in DOMAIN Top.cases :
              <<Top.cases[i][2], Seeing(a, Top.at, Top.cases[i][1] \cap Kinds), c>> \in W
      /\ <<Top.otherwise,
           Seeing(a, Top.at, {k \in Kinds : \A i \in DOMAIN Top.cases : k \notin Top.cases[i][1]}),
           c>> \in W
  BY <1>1, <1>2 DEF Leads
<1>4. seen = window[Top.at].kind /\ seen \in Kinds
  <2>1. seen = window[Top.at].kind
    BY <1>1 DEF seen
  <2>2. window[Top.at] \in Slot
    BY <1>3 DEF TypeOK
  <2> QED
    BY <1>1, <2>1, <2>2 DEF Slot, Kinds
<1> DEFINE hits == {i \in DOMAIN Top.cases : seen \in Top.cases[i][1]}
           p == IF hits = {} THEN Top.otherwise ELSE Top.cases[Min(hits)][2]
<1>5. GoOnWith(p) /\ UNCHANGED <<window, open, errors, depth>>
  BY DEF SelectOne
<1>6. ASSUME NEW ks, seen \in ks, <<p, Seeing(a, Top.at, ks), c>> \in W
      PROVE  Parsing(rest)' /\ Tidy'
  <2> DEFINE e == Seeing(a, Top.at, ks)
  <2>1. Runs(p, e, c)
    BY <1>2, <1>6, KnownRuns
  <2>2. e.level = a.level
    BY SeeingLevel
  <2>3. Sits(a) => Sits(e)
    <3> SUFFICES ASSUME Sits(a)
                 PROVE  Sits(e)
      OBVIOUS
    <3>1. ~ a.told
      BY DEF Sits
    <3> QED
      BY <1>1, <1>3, <1>4, <1>6, <3>1, SeeingIs
  <2> HIDE DEF e, p
  <2> QED
    BY <1>2, <1>5, <2>1, <2>2, <2>3, StillGoesOn
<1>7. CASE hits = {}
  <2>1. p = Top.otherwise
    BY <1>7
  <2>2. seen \in {k \in Kinds : \A i \in DOMAIN Top.cases : k \notin Top.cases[i][1]}
    BY <1>4, <1>7
  <2> HIDE DEF p, hits
  <2> QED
    BY <1>3, <1>6, <2>1, <2>2
<1>8. CASE hits # {}
  <2>1. hits \in SUBSET Nat
    BY <1>3
  <2>2. Min(hits) \in hits
    BY <1>8, <2>1, MinIs
  <2>3. PICK i \in DOMAIN Top.cases : i = Min(hits) /\ seen \in Top.cases[i][1]
    BY <2>2
  <2>4. p = Top.cases[i][2]
    BY <1>8, <2>3
  <2>5. seen \in Top.cases[i][1] \cap Kinds
    BY <1>4, <2>3
  <2> HIDE DEF p, hits
  <2> QED
    BY <1>3, <1>6, <2>4, <2>5
<1> QED
  BY <1>7, <1>8

\* the loop's step is first again
LEMMA AgainParses ==
  ASSUME NEW rest, NEW q, NEW W, NEW a, NEW c, Stepping(rest, q, W, a, c),
         TypeOK, Tidy, LoopAgain
  PROVE  Parsing(rest)' /\ Tidy'
<1>1. /\ Top.op \in {"while", "until"} /\ LooksAt = 1 /\ seen # Unread /\ seen = window[1].kind
      /\ (Top.op = "while" => seen \in Top.kinds) /\ (Top.op = "until" => seen \notin Top.kinds)
  BY LooksAtIs DEF LoopAgain, Loops, AtStep, Looking, seen
<1>2. Leads(W, Top, a, c) /\ Known(W) /\ depth = a.level
  BY SteppingLevel
<1>3. seen \in Kinds
  BY <1>1 DEF TypeOK, Slot, Kinds
<1>4. PICK ks : seen \in ks /\ <<Top.body, Seeing(a, 1, ks), a>> \in W
  <2>1. CASE Top.op = "while"
    <3>1. seen \in Top.kinds \cap Kinds /\ <<Top.body, Seeing(a, 1, Top.kinds \cap Kinds), a>> \in W
      BY <1>1, <1>2, <1>3, <2>1 DEF Leads
    <3> QED
      BY <3>1
  <2>2. CASE Top.op = "until"
    <3>1. seen \in Kinds \ Top.kinds /\ <<Top.body, Seeing(a, 1, Kinds \ Top.kinds), a>> \in W
      BY <1>1, <1>2, <1>3, <2>2 DEF Leads
    <3> QED
      BY <3>1
  <2> QED
    BY <1>1, <2>1, <2>2
<1> DEFINE e == Seeing(a, 1, ks)
<1>5. Runs(Top.body, e, a)
  BY <1>2, <1>4, KnownRuns
<1>6. e.level = a.level
  BY SeeingLevel
<1>7. errors \/ Sits(e)
  BY <1>1, <1>4, SeeingIs, SteppingLevel
<1>8. stack' = Top.body \o stack /\ UNCHANGED <<window, open, errors, depth>>
  BY DEF LoopAgain
<1> HIDE DEF e
<1>9. Tidy' /\ (errors' \/ Sits(e)')
  BY <1>7, <1>8, SitsStill DEF Tidy
<1>10. stack' = (Top.body \o q) \o rest
  BY <1>5, <1>8, SteppingStack
<1>11. Runs(Top.body \o q, e, Done)
  <2>1. Runs(q, a, Done)
    BY DEF Stepping
  <2> QED
    BY <1>5, <2>1, RunsOn
<1> QED
  BY <1>2, <1>6, <1>8, <1>9, <1>10, <1>11, ParsingNext

LEMMA EndsParses ==
  ASSUME NEW rest, NEW q, NEW W, NEW a, NEW c, Stepping(rest, q, W, a, c),
         TypeOK, Tidy, LoopEnds
  PROVE  Parsing(rest)' /\ Tidy'
<1>1. Top.op \in {"while", "until"} /\ LooksAt = 1 /\ seen # Unread /\ seen = window[1].kind
  BY LooksAtIs DEF LoopEnds, AtStep, Looking, seen
<1>2. (Top.op = "while" => seen \notin Top.kinds) /\ (Top.op = "until" => seen \in Top.kinds)
  BY DEF LoopEnds, Loops, AtStep
<1>3. Leads(W, Top, a, c) /\ Known(W) /\ depth = a.level
  BY SteppingLevel
<1>4. seen \in Kinds
  BY <1>1 DEF TypeOK, Slot, Kinds
<1>5. PICK ks : seen \in ks /\ Below(Seeing(a, 1, ks), c)
  <2>1. CASE Top.op = "while"
    <3>1. seen \in Kinds \ Top.kinds /\ Below(Seeing(a, 1, Kinds \ Top.kinds), c)
      BY <1>1, <1>2, <1>3, <1>4, <2>1 DEF Leads
    <3> QED
      BY <3>1
  <2>2. CASE Top.op = "until"
    <3>1. seen \in Top.kinds \cap Kinds /\ Below(Seeing(a, 1, Top.kinds \cap Kinds), c)
      BY <1>1, <1>2, <1>3, <1>4, <2>2 DEF Leads
    <3> QED
      BY <3>1
  <2> QED
    BY <1>1, <2>1, <2>2
<1> DEFINE e == Seeing(a, 1, ks)
<1>6. Runs(<<>>, e, c)
  BY <1>5, RunsNothing
<1>7. e.level = a.level
  BY SeeingLevel
<1>8. Sits(a) => Sits(e)
  BY <1>1, <1>5, SeeingIs
<1>9. GoOnWith(<<>>) /\ UNCHANGED <<window, open, errors, depth>>
  BY DEF LoopEnds
<1> HIDE DEF e
<1> QED
  BY <1>3, <1>6, <1>7, <1>8, <1>9, StillGoesOn

LEMMA AttemptParses ==
  ASSUME NEW rest, NEW q, NEW W, NEW a, NEW c, Stepping(rest, q, W, a, c),
         TypeOK, Tidy, AttemptOne
  PROVE  Parsing(rest)' /\ Tidy'
<1>1. Top.op = "attempt"
  BY DEF AttemptOne, AtStep
<1>2. Leads(W, Top, a, c) /\ Known(W) /\ depth = a.level
  BY SteppingLevel
<1>3. /\ <<Top.body, Inner(a), Inner(c)>> \in W
      /\ <<Top.handler, Caught(a), c>> \in W
      /\ Even(a, c)
  BY <1>1, <1>2 DEF Leads
<1> DEFINE e == Inner(a)
           d == Inner(c)
           h == Top.handler
           s == [op |-> "catch", handler |-> h]
           X == {<<h, Caught(c), c>>}
<1>4. Runs(Top.body, e, d) /\ Runs(h, Caught(a), c)
  BY <1>2, <1>3, KnownRuns
<1>5. Caught(a) = Caught(c)
  BY <1>3 DEF Even, Caught, Told
<1>6. Runs(<<s>>, d, c)
  <2>1. d.base = d.level /\ d.level = c.level /\ Below(d, Inner(c))
    BY BelowItself DEF Inner
  <2>2. Leads(X, s, d, c)
    <3>1. <<s.handler, Caught(c), c>> \in X /\ s.op = "catch"
      OBVIOUS
    <3> HIDE DEF d, X, s
    <3> QED
      BY <2>1, <3>1 DEF Leads, Idle
  <2>3. \A x \in X : x = <<x[1], x[2], x[3]>> /\ Runs(x[1], x[2], x[3])
    BY <1>4, <1>5
  <2> HIDE DEF d, X
  <2> QED
    BY <2>2, <2>3, StepRuns
<1>7. Runs(Top.body \o Catch(h), e, c)
  BY <1>4, <1>6, RunsOn DEF Catch
<1>8. e.level = a.level /\ (Sits(a) => Sits(e))
  BY DEF Inner, Sits
<1>9. GoOnWith(Top.body \o Catch(h)) /\ UNCHANGED <<window, open, errors, depth>>
  BY DEF AttemptOne
<1> HIDE DEF e
<1> QED
  BY <1>2, <1>7, <1>8, <1>9, StillGoesOn

LEMMA SucceedsParses ==
  ASSUME NEW rest, NEW q, NEW W, NEW a, NEW c, Stepping(rest, q, W, a, c),
         TypeOK, Tidy, AttemptSucceeds
  PROVE  Parsing(rest)' /\ Tidy'
<1>1. Top.op = "catch"
  BY DEF AttemptSucceeds, AtStep
<1>2. Leads(W, Top, a, c) /\ depth = a.level
  BY SteppingLevel
<1>3. a.level = c.level /\ Below(a, Inner(c))
  BY <1>1, <1>2 DEF Leads
<1>4. Sits(a) => Sits(c)
  BY <1>3 DEF Inner, Below, Sits
<1>5. GoOnWith(<<>>) /\ UNCHANGED <<window, open, errors, depth>>
  BY DEF AttemptSucceeds
<1> QED
  BY <1>2, <1>3, <1>4, <1>5, NothingRuns, StillGoesOn

LEMMA SwitchParses ==
  ASSUME NEW rest, NEW q, NEW W, NEW a, NEW c, Stepping(rest, q, W, a, c),
         TypeOK, Tidy, AtStep("enter") \/ AtStep("exit"), SwitchTemplate
  PROVE  Parsing(rest)' /\ Tidy'
<1>1. Leads(W, Top, a, c) /\ depth = a.level
  BY SteppingLevel
<1>2. GoOnWith(<<>>) /\ UNCHANGED <<window, open, errors>>
  BY DEF SwitchTemplate
<1>3. ASSUME NEW n, Below(Moved(a, n), c), depth' = n
      PROVE  Parsing(rest)' /\ Tidy'
  <2> DEFINE e == Moved(a, n)
  <2>1. e.level = n /\ (Sits(a) => Sits(e))
    BY DEF Moved, Sits
  <2>2. Runs(<<>>, e, c)
    BY <1>3, RunsNothing
  <2> HIDE DEF e
  <2> QED
    BY <1>2, <1>3, <2>1, <2>2, StillGoesOn
<1>4. CASE AtStep("enter")
  <2>1. Top.op = "enter" /\ ~ AtStep("exit")
    BY <1>4 DEF AtStep
  <2>2. depth' = depth + 1
    BY <1>4, <2>1 DEF SwitchTemplate
  <2>3. Below(Moved(a, a.level + 1), c)
    BY <1>1, <2>1 DEF Leads
  <2> QED
    BY <1>1, <1>3, <2>2, <2>3
<1>5. CASE AtStep("exit")
  <2>1. Top.op = "exit" /\ ~ AtStep("enter")
    BY <1>5 DEF AtStep
  <2>2. a.level > 0 /\ Below(Moved(a, a.level - 1), c)
    BY <1>1, <2>1 DEF Leads
  <2>3. depth' = depth - 1
    <3>1. depth' = IF depth > 0 THEN depth - 1 ELSE 0
      BY <1>5, <2>1 DEF SwitchTemplate
    <3> QED
      BY <1>1, <2>2, <3>1
  <2> QED
    BY <1>1, <1>3, <2>2, <2>3
<1> QED
  BY <1>4, <1>5

LEMMA FlagsParses ==
  ASSUME NEW rest, NEW q, NEW W, NEW a, NEW c, Stepping(rest, q, W, a, c),
         TypeOK, Tidy, AtStep("mark") \/ AtStep("clear"), SetFlags
  PROVE  Parsing(rest)' /\ Tidy' /\ marks' \subseteq Flags
<1>1. Leads(W, Top, a, c) /\ depth = a.level
  BY SteppingLevel
<1>2. Top.op \in Idle
  BY DEF AtStep, Idle
<1>3. Below(a, c)
  BY <1>1, <1>2 DEF Leads
<1>4. Runs(<<>>, a, c)
  BY <1>3, RunsNothing
<1>5. marks' \subseteq Flags
  <2>1. CASE AtStep("mark")
    <3>1. Top.op = "mark" /\ ~ AtStep("clear")
      BY <2>1 DEF AtStep
    <3>2. Top.flag \in Flags
      BY <1>1, <3>1 DEF Leads
    <3>3. marks' = marks \cup {Top.flag}
      BY <2>1, <3>1 DEF SetFlags
    <3> QED
      BY <3>2, <3>3 DEF TypeOK
  <2>2. CASE AtStep("clear")
    <3>1. ~ AtStep("mark")
      BY <2>2 DEF AtStep
    <3>2. marks' = marks \ Top.flags
      BY <2>2, <3>1 DEF SetFlags
    <3> QED
      BY <3>2 DEF TypeOK
  <2> QED
    BY <2>1, <2>2
<1>6. GoOnWith(<<>>) /\ UNCHANGED <<window, open, errors, depth>>
  BY DEF SetFlags
<1> QED
  BY <1>1, <1>4, <1>5, <1>6, StillGoesOn

LEMMA TestParses ==
  ASSUME NEW rest, NEW q, NEW W, NEW a, NEW c, Stepping(rest, q, W, a, c),
         TypeOK, Tidy, TestFlag
  PROVE  Parsing(rest)' /\ Tidy'
<1>1. Top.op = "marked"
  BY DEF TestFlag, AtStep
<1>2. Leads(W, Top, a, c) /\ Known(W) /\ depth = a.level
  BY SteppingLevel
<1>3. <<Top.then, a, c>> \in W /\ <<Top.otherwise, a, c>> \in W
  BY <1>1, <1>2 DEF Leads
<1> DEFINE p == IF Top.flag \in marks THEN Top.then ELSE Top.otherwise
<1>4. Runs(p, a, c)
  BY <1>2, <1>3, KnownRuns
<1>5. GoOnWith(p) /\ UNCHANGED <<window, open, errors, depth>>
  BY DEF TestFlag
<1> QED
  BY <1>2, <1>4, <1>5, StillGoesOn

LEMMA SkipParses ==
  ASSUME NEW rest, NEW q, NEW W, NEW a, NEW c, Stepping(rest, q, W, a, c),
         TypeOK, Tidy, SkipToken
  PROVE  Parsing(rest)' /\ Tidy'
<1>1. Top.op = "synchronize"
  BY DEF SkipToken, AtStep
<1>2. errors /\ depth = a.level
  BY <1>1, SteppingLevel
<1>3. Shift /\ UNCHANGED <<stack, errors, depth>>
  BY DEF SkipToken
<1>4. open' = <<>>
  BY <1>2, <1>3 DEF Shift, OpenAfter
<1>5. Tidy'
  BY <1>4, OpenSeqs DEF Tidy
<1>6. stack' = q \o rest /\ Runs(q, a, Done)
  BY <1>3 DEF Stepping
<1>7. depth' = a.level /\ errors'
  BY <1>2, <1>3
<1> QED
  BY <1>5, <1>6, <1>7, ParsingNext

LEMMA StopParses ==
  ASSUME NEW rest, NEW q, NEW W, NEW a, NEW c, Stepping(rest, q, W, a, c),
         TypeOK, Tidy, StopSkipping
  PROVE  Parsing(rest)' /\ Tidy'
<1>1. Top.op = "synchronize"
  BY DEF StopSkipping, AtStep
<1>2. errors /\ depth = a.level /\ Leads(W, Top, a, c)
  BY <1>1, SteppingLevel
<1>3. c.level = a.level
  BY <1>1, <1>2 DEF Leads, Even
<1>4. GoOnWith(<<>>) /\ UNCHANGED <<errors, depth>>
  BY DEF StopSkipping
<1>5. open' = <<>>
  <2>1. CASE seen \in Separator
    BY <1>2, <2>1 DEF StopSkipping, Shift, OpenAfter
  <2>2. CASE seen \notin Separator
    BY <1>2, <2>2 DEF StopSkipping, Tidy
  <2> QED
    BY <2>1, <2>2
<1>6. Tidy'
  BY <1>5, OpenSeqs DEF Tidy
<1>7. depth' = c.level /\ errors'
  BY <1>2, <1>3, <1>4
<1> QED
  BY <1>4, <1>6, <1>7, NothingRuns, GoesOnWith

-----------------------------------------------------------------------------
(* Failures.                                                               *)

LEMMA ConcatAt ==
  ASSUME NEW S, NEW p \in Seq(S), NEW q \in Seq(S)
  PROVE  /\ p \o q \in Seq(S) /\ Len(p \o q) = Len(p) + Len(q) /\ Len(p) \in Nat /\ Len(q) \in Nat
         /\ DOMAIN (p \o q) = 1 .. Len(p) + Len(q)
         /\ \A i \in 1 .. Len(p) : (p \o q)[i] = p[i]
         /\ \A i \in 1 .. Len(q) : (p \o q)[Len(p) + i] = q[i]
  OBVIOUS

LEMMA SubSeqConcat ==
  ASSUME NEW S, NEW p \in Seq(S), NEW q \in Seq(S), NEW i \in 1 .. Len(p) + 1
  PROVE  SubSeq(p \o q, i, Len(p \o q)) = SubSeq(p, i, Len(p)) \o q
<1> DEFINE f == SubSeq(p \o q, i, Len(p \o q))
           g == SubSeq(p, i, Len(p))
           h == g \o q
<1>1. /\ p \o q \in Seq(S) /\ Len(p \o q) = Len(p) + Len(q) /\ Len(p) \in Nat /\ Len(q) \in Nat
      /\ \A j \in 1 .. Len(p) : (p \o q)[j] = p[j]
      /\ \A j \in 1 .. Len(q) : (p \o q)[Len(p) + j] = q[j]
  BY ConcatAt
<1>2. /\ f \in Seq(S) /\ Len(f) = Len(p) + Len(q) - i + 1
      /\ \A j \in 1 .. Len(p) + Len(q) - i + 1 : f[j] = (p \o q)[i + j - 1]
  BY <1>1
<1>3. /\ g \in Seq(S) /\ Len(g) = Len(p) - i + 1
      /\ \A j \in 1 .. Len(p) - i + 1 : g[j] = p[i + j - 1]
  BY <1>1
<1> HIDE DEF f, g
<1>4. /\ h \in Seq(S) /\ Len(h) = Len(p) - i + 1 + Len(q)
      /\ \A j \in 1 .. Len(p) - i + 1 : h[j] = g[j]
      /\ \A j \in 1 .. Len(q) : h[Len(p) - i + 1 + j] = q[j]
  <2>1. /\ Len(g \o q) = Len(g) + Len(q) /\ g \o q \in Seq(S)
        /\ \A j \in 1 .. Len(g) : (g \o q)[j] = g[j]
        /\ \A j \in 1 .. Len(q) : (g \o q)[Len(g) + j] = q[j]
    <3>1. g \in Seq(S)
      BY <1>3
    <3> QED
      BY <3>1, ConcatAt
  <2> QED
    BY <1>3, <2>1
<1> HIDE DEF h
<1>5. ASSUME NEW j \in 1 .. Len(f)
      PROVE  f[j] = h[j]
  <2>1. CASE j <= Len(p) - i + 1
    BY <1>1, <1>2, <1>3, <1>4, <1>5, <2>1
  <2>2. CASE j > Len(p) - i + 1
    <3> DEFINE k == j - (Len(p) - i + 1)
    <3>1. k \in 1 .. Len(q) /\ j = Len(p) - i + 1 + k /\ i + j - 1 = Len(p) + k
      BY <1>1, <1>2, <1>5, <2>2
    <3>2. h[j] = q[k]
      BY <1>4, <3>1
    <3>3. f[j] = (p \o q)[i + j - 1]
      BY <1>2, <1>5
    <3>4. (p \o q)[Len(p) + k] = q[k]
      BY <1>1, <3>1
    <3> QED
      BY <3>1, <3>2, <3>3, <3>4
  <2> QED
    BY <1>1, <1>2, <1>5, <2>1, <2>2
<1>6. Len(f) = Len(h)
  BY <1>1, <1>2, <1>4
<1>7. f = h
  BY <1>2, <1>4, <1>5, <1>6, SeqEqual
<1> QED
  BY <1>7 DEF f, h, g

LEMMA ReturnsNull ==
  ASSUME NEW rest, NEW q, NEW W, NEW a, NEW c, Stepping(rest, q, W, a, c),
         a.level = a.base, ReturnNull, errors', depth' = depth
  PROVE  \/ Parsing(rest)' /\ result' = result
         \/ Parsing(<<>>)' /\ stack' = <<>> /\ result' = "null"
<1>1. PICK S1 : q \in Seq(S1)
  BY DEF Stepping
<1>2. rest \in Rests
  BY DEF Stepping
<1>3. PICK T1 : rest \in Seq(T1)
  BY <1>2, RestSeq
<1>4. stack = q \o rest /\ Runs(q, a, Done)
  BY DEF Stepping
<1> DEFINE S == S1 \cup T1
<1>5. q \in Seq(S) /\ rest \in Seq(S)
  BY <1>1, <1>3, SeqMonotonic
<1> HIDE DEF S
<1>6. /\ stack \in Seq(S) /\ Len(stack) = Len(q) + Len(rest)
      /\ Len(q) \in Nat /\ Len(rest) \in Nat /\ DOMAIN stack = 1 .. Len(q) + Len(rest)
      /\ \A i \in 1 .. Len(q) : stack[i] = q[i]
      /\ \A i \in 1 .. Len(rest) : stack[Len(q) + i] = rest[i]
  BY <1>4, <1>5, ConcatAt
<1>7. \A i \in 1 .. Len(rest) : rest[i].op # "catch"
  BY <1>2, <1>3 DEF Rests, UnitLoop, Until
<1>8. DOMAIN q = 1 .. Len(q)
  BY <1>5
<1>9. depth' = a.level
  BY SteppingLevel
<1> DEFINE catches == {i \in DOMAIN stack : stack[i].op = "catch"}
<1>10. CASE catches = {}
  <2>1. stack' = <<>> /\ result' = "null"
    BY <1>10 DEF ReturnNull
  <2>2. \A i \in DOMAIN q : q[i].op # "catch"
    <3> SUFFICES ASSUME NEW i \in DOMAIN q
                 PROVE  q[i].op # "catch"
      OBVIOUS
    <3>1. i \in DOMAIN stack /\ stack[i] = q[i]
      BY <1>6, <1>8
    <3> QED
      BY <1>10, <3>1
  <2>3. a.base = 0
    <3>1. a.base = Done.base
      BY <1>4, <2>2, FailureEnds
    <3> QED
      BY <3>1 DEF Done, Spot, Home
  <2> DEFINE e == Told(Home)
  <2>4. Below(e, Done) /\ e.level = 0
    BY DEF Below, Even, Told, Done, Spot, Home
  <2> HIDE DEF e
  <2>5. Runs(<<>>, e, Done)
    BY <2>4, RunsNothing
  <2>6. stack' = <<>> \o <<>> /\ depth' = e.level
    BY <1>9, <2>1, <2>3, <2>4
  <2> QED
    BY <2>1, <2>5, <2>6, ParsingNext
<1>11. CASE catches # {}
  <2> DEFINE i == Min(catches)
  <2>1. catches \in SUBSET Nat
    BY <1>6
  <2>2. i \in catches /\ \A j \in catches : i <= j
    BY <1>11, <2>1, MinIs
  <2>3. /\ stack' = stack[i].handler \o SubSeq(stack, i + 1, Len(stack))
        /\ result' = result
    BY <1>11 DEF ReturnNull
  <2>4. i \in DOMAIN stack /\ stack[i].op = "catch"
    BY <2>2
  <2> HIDE DEF i
  <2>5. i \in 1 .. Len(q)
    <3> SUFFICES ASSUME ~ (i \in 1 .. Len(q))
                 PROVE  FALSE
      OBVIOUS
    <3>1. i - Len(q) \in 1 .. Len(rest) /\ i = Len(q) + (i - Len(q))
      BY <1>6, <2>4
    <3>2. stack[i] = rest[i - Len(q)]
      BY <1>6, <3>1
    <3> QED
      BY <1>7, <2>4, <3>1, <3>2
  <2>6. stack[i] = q[i] /\ i \in DOMAIN q /\ q[i].op = "catch"
    BY <1>6, <1>8, <2>4, <2>5
  <2>7. \A j \in DOMAIN q : q[j].op = "catch" => i <= j
    <3> SUFFICES ASSUME NEW j \in DOMAIN q, q[j].op = "catch"
                 PROVE  i <= j
      OBVIOUS
    <3>1. j \in DOMAIN stack /\ stack[j] = q[j]
      BY <1>6, <1>8
    <3> QED
      BY <2>2, <3>1
  <2>8. PICK d : /\ d.level = a.base /\ Runs(q[i].handler, Caught(d), d)
                 /\ Runs(q[i].handler \o SubSeq(q, i + 1, Len(q)), Caught(d), Done)
    BY <1>4, <2>6, <2>7, FailureCaught
  <2> DEFINE e == Caught(d)
             h == q[i].handler
             t == SubSeq(q, i + 1, Len(q))
  <2>9. SubSeq(stack, i + 1, Len(stack)) = t \o rest
    <3>1. i + 1 \in 1 .. Len(q) + 1
      BY <1>6, <2>5
    <3> QED
      BY <1>4, <1>5, <3>1, SubSeqConcat
  <2>10. stack' = h \o (t \o rest)
    BY <2>3, <2>6, <2>9
  <2>11. stack' = (h \o t) \o rest
    <3>1. PICK R : h \in Seq(R)
      BY <2>8, RunsSequence
    <3>2. t \in Seq(S)
      BY <1>5, <1>6, <2>5
    <3> DEFINE Z == R \cup S
    <3> HIDE DEF h, t
    <3>3. h \in Seq(Z) /\ t \in Seq(Z) /\ rest \in Seq(Z)
      BY <1>5, <3>1, <3>2, SeqMonotonic
    <3> HIDE DEF Z
    <3> QED
      BY <2>10, <3>3, Reassociated
  <2>12. e.level = d.level
    BY DEF Caught, Told
  <2>13. depth' = e.level
    BY <1>9, <2>8, <2>12
  <2> HIDE DEF e
  <2>14. Runs(h \o t, e, Done)
    BY <2>8 DEF e
  <2> HIDE DEF h, t
  <2>15. Parsing(rest)'
    BY <2>11, <2>13, <2>14, ParsingNext
  <2> QED
    BY <2>3, <2>15
<1> QED
  BY <1>10, <1>11

LEMMA NotExpectedParses ==
  ASSUME NEW rest, NEW q, NEW W, NEW a, NEW c, Stepping(rest, q, W, a, c), NotExpected
  PROVE  /\ errors' /\ Tidy'
         /\ \/ Parsing(rest)' /\ result' = result
            \/ Parsing(<<>>)' /\ stack' = <<>> /\ result' = "null"
<1>1. Top.op = "expect" /\ Leads(W, Top, a, c)
  BY SteppingLevel DEF NotExpected, AtStep
<1>2. a.level = a.base
  BY <1>1 DEF Leads
<1>3. errors' /\ open' = <<>> /\ depth' = depth /\ ReturnNull
  BY DEF NotExpected, ReportError
<1>4. Tidy'
  BY <1>3, OpenSeqs DEF Tidy
<1> QED
  BY <1>2, <1>3, <1>4, ReturnsNull

LEMMA FailParses ==
  ASSUME NEW rest, NEW q, NEW W, NEW a, NEW c, Stepping(rest, q, W, a, c), Tidy, FailOne
  PROVE  /\ errors' /\ Tidy'
         /\ \/ Parsing(rest)' /\ result' = result
            \/ Parsing(<<>>)' /\ stack' = <<>> /\ result' = "null"
<1>1. Top.op = "fail" /\ Leads(W, Top, a, c) /\ errors
  BY SteppingLevel DEF FailOne, AtStep
<1>2. a.level = a.base
  BY <1>1 DEF Leads
<1>3. errors' = errors /\ open' = open /\ depth' = depth /\ ReturnNull
  BY DEF FailOne
<1>4. Tidy'
  BY <1>3 DEF Tidy
<1> QED
  BY <1>1, <1>2, <1>3, <1>4, ReturnsNull

-----------------------------------------------------------------------------
(* The variables' types.                                                   *)

\* all of TypeOK but for the stack and the brackets
Fields ==
    /\ window \in [1 .. 3 -> Slot]
    /\ marks \subseteq Flags
    /\ depth \in Nat
    /\ errors \in BOOLEAN
    /\ result \in {"none", "node", "null"}
    /\ text \in DOMAIN Texts
    /\ left \in Nat

LEMMA ReadKinds ==
  ASSUME TypeOK, NEW k \in Texts[text].tokens \cup {EOF}
  PROVE  k \in Kinds
<1>1. Texts[text] \in [start : Rules, tokens : SUBSET Tokens, length : Nat]
  <2> DEFINE R == [start : Rules, tokens : SUBSET Tokens, length : Nat]
  <2>1. Texts \in Seq(R) /\ text \in DOMAIN Texts
    BY TextsAssumption DEF TypeOK
  <2> HIDE DEF R
  <2>2. Texts[text] \in R
    BY <2>1
  <2> QED
    BY <2>2 DEF R
<1>2. Texts[text].tokens \subseteq Tokens
  BY <1>1
<1> QED
  BY <1>2 DEF Kinds

LEMMA SlotIs ==
  ASSUME NEW s \in Slot, NEW k \in All, NEW b \in BOOLEAN
  PROVE  [s EXCEPT !.kind = k] \in Slot /\ [s EXCEPT !.kind = k, !.torn = b] \in Slot
  BY DEF Slot, All, Kinds

\* What reading makes of the window
LEMMA ReadWindow ==
  ASSUME TypeOK, Read, LooksAt \in {1, 2}
  PROVE  /\ window' \in [1 .. 3 -> Slot] /\ left' \in Nat
         /\ window'[LooksAt].kind # Unread
         /\ \A i \in 1 .. LooksAt - 1 : window'[i] = window[i]
         /\ \A i \in LooksAt + 1 .. 3 : window'[i] = window[i] \/ window'[i].kind \in Kinds
<1> DEFINE i == LooksAt
<1>1. PICK k \in Texts[text].tokens \cup {EOF} :
         /\ (left = 0 \/ \E j \in 1 .. i - 1 : window[j].kind = EOF) => k = EOF
         /\ window' = IF k = ">>" /\ window[i].split
                      THEN [window EXCEPT ![i].kind = ">", ![i].torn = TRUE,
                                          ![i + 1].kind = ">"]
                      ELSE [window EXCEPT ![i].kind = k]
         /\ left' = IF k = EOF THEN left ELSE left - 1
  BY DEF Read
<1>2. k \in Kinds /\ ">" \in Kinds
  <2>1. ">" \in Kinds
    BY DEF Kinds, Tokens
  <2> QED
    BY <2>1, ReadKinds
<1>3. left' \in Nat
  BY <1>1 DEF TypeOK
<1>4. window \in [1 .. 3 -> Slot] /\ i \in {1, 2} /\ i + 1 \in 1 .. 3
  BY DEF TypeOK
<1>5. Unread \notin Kinds
  BY DEF Kinds, Tokens, Unread, EOF
<1> HIDE DEF i
<1>6. CASE k = ">>" /\ window[i].split
  <2> DEFINE s == [window[i] EXCEPT !.kind = ">", !.torn = TRUE]
             t == [window[i + 1] EXCEPT !.kind = ">"]
  <2>1. s \in Slot /\ t \in Slot /\ s.kind = ">" /\ t.kind = ">"
    <3>1. window[i] \in Slot /\ window[i + 1] \in Slot
      BY <1>4
    <3> QED
      BY <1>2, <3>1, SlotIs DEF All, Slot
  <2>2. window' = [window EXCEPT ![i] = s, ![i + 1] = t]
    <3> DEFINE v == [window EXCEPT ![i].kind = ">"]
               w == [v EXCEPT ![i].torn = TRUE]
    <3>1. window' = [w EXCEPT ![i + 1].kind = ">"]
      BY <1>1, <1>6
    <3>2. v = [window EXCEPT ![i] = [window[i] EXCEPT !.kind = ">"]]
      BY <1>4
    <3>3. v[i] = [window[i] EXCEPT !.kind = ">"] /\ v[i + 1] = window[i + 1]
      BY <1>4
    <3>4. w = [v EXCEPT ![i] = s] /\ w[i + 1] = window[i + 1]
      <4>1. w = [v EXCEPT ![i] = [v[i] EXCEPT !.torn = TRUE]] /\ w[i + 1] = v[i + 1]
        BY <1>4
      <4> HIDE DEF v
      <4> QED
        BY <3>3, <4>1
    <3>5. w = [window EXCEPT ![i] = s]
      <4> HIDE DEF s, v, w
      <4> QED
        BY <1>4, <3>2, <3>4
    <3> HIDE DEF v, w
    <3>6. window' = [w EXCEPT ![i + 1] = t]
      BY <1>4, <3>1, <3>4
    <3> HIDE DEF s, t
    <3> QED
      BY <3>5, <3>6
  <2> HIDE DEF s, t
  <2> QED
    BY <1>2, <1>3, <1>4, <1>5, <2>1, <2>2 DEF i
<1>7. CASE ~ (k = ">>" /\ window[i].split)
  <2> DEFINE s == [window[i] EXCEPT !.kind = k]
  <2>1. s \in Slot /\ s.kind = k
    <3>1. window[i] \in Slot
      BY <1>4
    <3> QED
      BY <1>2, <3>1, SlotIs DEF All, Slot
  <2>2. window' = [window EXCEPT ![i] = s]
    BY <1>1, <1>4, <1>7
  <2> HIDE DEF s
  <2> QED
    BY <1>2, <1>3, <1>4, <1>5, <2>1, <2>2 DEF i
<1> QED
  BY <1>6, <1>7

LEMMA ReadSits ==
  ASSUME TypeOK, Read, LooksAt \in {1, 2}, NEW a, Sits(a)
  PROVE  Sits(a)'
<1>1. window \in [1 .. 3 -> Slot] /\ window' \in [1 .. 3 -> Slot]
  BY ReadWindow DEF TypeOK
<1>2. \A s \in Slot : s.kind \in All
  BY DEF Slot, All, Kinds
<1>3. Kinds \subseteq All /\ Unread \notin Kinds
  BY DEF All, Kinds, Tokens, Unread, EOF
<1>4. open' = open /\ window[LooksAt].kind = Unread
  BY DEF Read
<1>5. CASE LooksAt = 1
  <2>1. window[1].kind = Unread
    BY <1>4, <1>5
  <2>2. window'[1].kind # Unread /\ (window'[2] = window[2] \/ window'[2].kind \in Kinds)
    BY <1>5, ReadWindow
  <2> QED
    BY <1>1, <1>2, <1>3, <1>4, <2>1, <2>2 DEF Sits
<1>6. CASE LooksAt = 2
  <2>1. window[2].kind = Unread
    BY <1>4, <1>6
  <2>2. window'[2].kind # Unread /\ window'[1] = window[1]
    BY <1>6, ReadWindow
  <2> QED
    BY <1>1, <1>2, <1>3, <1>4, <2>1, <2>2 DEF Sits
<1> QED
  BY <1>5, <1>6

LEMMA ShiftFields ==
  ASSUME TypeOK, Shift
  PROVE  window' \in [1 .. 3 -> Slot]
<1>1. Lexed(IF window[3].kind = EOF THEN EOF ELSE Unread) \in Slot
  BY DEF Lexed, Slot
<1> HIDE DEF Slot
<1>2. window[2] \in Slot /\ window[3] \in Slot
  BY DEF TypeOK
<1> QED
  BY <1>1, <1>2 DEF Shift

LEMMA NextFields ==
  ASSUME TypeOK, Next, LooksAt \in {0, 1, 2}, marks' \subseteq Flags
  PROVE  Fields'
<1>1. window' \in [1 .. 3 -> Slot] /\ left' \in Nat
  <2>1. CASE Read
    BY <2>1, ReadWindow DEF Read
  <2>2. CASE Shift /\ left' = left
    BY <2>2, ShiftFields DEF TypeOK
  <2>3. CASE window' = window /\ left' = left
    BY <2>3 DEF TypeOK
  <2>4. Read \/ (Shift /\ left' = left) \/ (window' = window /\ left' = left)
    BY DEF Next, Expected, NotExpected, AdvanceOne, ReportOne, FailOne, CallOne, SelectOne,
           LoopAgain, LoopEnds, AttemptOne, AttemptSucceeds, SwitchTemplate, SetFlags, TestFlag,
           SkipToken, StopSkipping, ReturnNode, Returned, vars
  <2> QED
    BY <2>1, <2>2, <2>3, <2>4
<1>2. depth' \in Nat
  <2>1. CASE AtStep("enter") /\ SwitchTemplate
    <3>1. ~ AtStep("exit")
      BY <2>1 DEF AtStep
    <3>2. depth' = depth + 1
      BY <2>1, <3>1 DEF SwitchTemplate
    <3> QED
      BY <3>2 DEF TypeOK
  <2>2. CASE AtStep("exit") /\ SwitchTemplate
    <3>1. ~ AtStep("enter")
      BY <2>2 DEF AtStep
    <3>2. depth' = IF depth > 0 THEN depth - 1 ELSE 0
      BY <2>2, <3>1 DEF SwitchTemplate
    <3> QED
      BY <3>2 DEF TypeOK
  <2>3. CASE depth' = depth
    BY <2>3 DEF TypeOK
  <2>4. \/ AtStep("enter") /\ SwitchTemplate
        \/ AtStep("exit") /\ SwitchTemplate
        \/ depth' = depth
    BY DEF Next, Read, Expected, NotExpected, AdvanceOne, ReportOne, FailOne, CallOne,
           SelectOne, LoopAgain, LoopEnds, AttemptOne, AttemptSucceeds, SetFlags, TestFlag,
           SkipToken, StopSkipping, ReturnNode, Returned, vars
  <2> QED
    BY <2>1, <2>2, <2>3, <2>4
<1>3. errors' \in BOOLEAN
  <2>1. errors' = errors \/ errors' = TRUE
    BY DEF Next, Read, Expected, NotExpected, AdvanceOne, ReportOne, FailOne, CallOne,
           SelectOne, LoopAgain, LoopEnds, AttemptOne, AttemptSucceeds, SwitchTemplate,
           SetFlags, TestFlag, SkipToken, StopSkipping, ReturnNode, Returned, vars, ReportError
  <2> QED
    BY <2>1 DEF TypeOK
<1>4. text' = text
  BY DEF Next, Read, Expected, NotExpected, AdvanceOne, ReportOne, FailOne, CallOne,
         SelectOne, LoopAgain, LoopEnds, AttemptOne, AttemptSucceeds, SwitchTemplate,
         SetFlags, TestFlag, SkipToken, StopSkipping, ReturnNode, Returned, vars
<1>5. result' \in {"none", "node", "null"}
  <2>1. CASE ReturnNull
    <3>1. result' = "null" \/ result' = result
      BY <2>1 DEF ReturnNull
    <3> QED
      BY <3>1 DEF TypeOK
  <2>2. CASE result' = result \/ result' = "node"
    BY <2>2 DEF TypeOK
  <2>3. ReturnNull \/ result' = result \/ result' = "node"
    BY DEF Next, Read, Expected, NotExpected, AdvanceOne, ReportOne, FailOne, CallOne,
           SelectOne, LoopAgain, LoopEnds, AttemptOne, AttemptSucceeds, SwitchTemplate,
           SetFlags, TestFlag, SkipToken, StopSkipping, ReturnNode, Returned, vars
  <2> QED
    BY <2>1, <2>2, <2>3
<1>6. text' \in DOMAIN Texts
  BY <1>4 DEF TypeOK
<1> QED
  BY <1>1, <1>2, <1>3, <1>5, <1>6 DEF Fields

-----------------------------------------------------------------------------
(* The inductive invariant.                                                *)

\* The compilation unit before its first step, and its loop, where it may skip
\* a bracket that closes nothing
InUnit ==
    /\ ~ errors /\ open = <<>> /\ depth = 0
    /\ \/ stack = Call("compilationUnit")
       \/ stack = UnitBody \o UnitLoop
       \/ stack = Advance \o UnitLoop /\ window[1].kind \in Separator

Kept ==
    /\ Tidy
    /\ result = "null" => errors
    /\ result # "none" => stack = <<>>
    /\ Parsing(<<>>) \/ Parsing(UnitLoop) \/ InUnit

IInv == TypeOK /\ Kept

LEMMA Pairs == \A x, y : <<x>> \o <<y>> = <<x, y>>
<1> SUFFICES ASSUME NEW x, NEW y
             PROVE  <<x>> \o <<y>> = <<x, y>>
  OBVIOUS
<1> DEFINE S == {x, y}
<1>1. /\ <<x>> \in Seq(S) /\ <<y>> \in Seq(S) /\ Len(<<x>>) = 1 /\ Len(<<y>>) = 1
      /\ <<x>>[1] = x /\ <<y>>[1] = y
  OBVIOUS
<1>2. /\ <<x, y>> \in Seq(S) /\ Len(<<x, y>>) = 2 /\ <<x, y>>[1] = x /\ <<x, y>>[2] = y
  OBVIOUS
<1> DEFINE f == <<x>> \o <<y>>
<1>3. f \in Seq(S) /\ Len(f) = 2 /\ f[1] = x /\ f[2] = y
  BY <1>1
<1> DEFINE g == <<x, y>>
<1> HIDE DEF f, g, S
<1>4. \A i \in 1 .. Len(f) : f[i] = g[i]
  BY <1>2, <1>3 DEF g
<1>5. f = g
  BY <1>2, <1>3, <1>4, SeqEqual DEF g
<1> QED
  BY <1>5 DEF f, g

LEMMA CallsAreRules ==
  ASSUME NEW rest \in Rests, NEW q, NEW a, Runs(q, a, Done), NEW st, st = q \o rest,
         NEW i \in DOMAIN st, st[i].op = "call"
  PROVE  st[i].rule \in Rules
<1>1. PICK S1 : q \in Seq(S1)
  BY RunsSequence
<1>2. PICK T1 : rest \in Seq(T1)
  BY RestSeq
<1> DEFINE S == S1 \cup T1
<1>3. q \in Seq(S) /\ rest \in Seq(S)
  BY <1>1, <1>2, SeqMonotonic
<1> HIDE DEF S
<1>4. /\ DOMAIN st = 1 .. Len(q) + Len(rest) /\ Len(q) \in Nat /\ Len(rest) \in Nat
      /\ \A j \in 1 .. Len(q) : st[j] = q[j]
      /\ \A j \in 1 .. Len(rest) : st[Len(q) + j] = rest[j]
  BY <1>3, ConcatAt
<1>5. CASE i \in 1 .. Len(q)
  <2>1. i \in DOMAIN q /\ st[i] = q[i]
    BY <1>3, <1>4, <1>5
  <2>2. PICK W, d, c : Leads(W, q[i], d, c)
    BY <2>1, EachLeads
  <2> QED
    BY <2>1, <2>2 DEF Leads
<1>6. CASE i \notin 1 .. Len(q)
  <2>1. i - Len(q) \in 1 .. Len(rest) /\ i = Len(q) + (i - Len(q))
    BY <1>4, <1>6
  <2>2. st[i] = rest[i - Len(q)]
    BY <1>4, <2>1
  <2>3. rest[i - Len(q)].op = "until"
    BY <1>2, <2>1 DEF Rests, UnitLoop, Until
  <2> QED
    BY <2>2, <2>3
<1> QED
  BY <1>5, <1>6

LEMMA LooksAtOne ==
  LooksAt \in {0, 1} \/ (AtStep("select") /\ LooksAt = Top.at)
  BY DEF LooksAt

LEMMA TypesNext ==
  ASSUME TypeOK, Next, Kept', marks' \subseteq Flags, LooksAt \in {0, 1, 2}
  PROVE  TypeOK'
<1>1. Fields'
  BY NextFields
<1>2. \A i \in DOMAIN stack' : stack'[i].op = "call" => stack'[i].rule \in Rules
  <2>1. ASSUME NEW rest \in Rests, Parsing(rest)',
               NEW i \in DOMAIN stack', stack'[i].op = "call"
        PROVE  stack'[i].rule \in Rules
    <3>1. PICK q, a : stack' = q \o rest /\ Runs(q, a, Done)
      BY <2>1 DEF Parsing
    <3> QED
      BY <2>1, <3>1, CallsAreRules
  <2>2. CASE Parsing(<<>>)' \/ Parsing(UnitLoop)'
    BY <2>1, <2>2 DEF Rests
  <2>3. CASE InUnit'
    <3>1. CASE stack' = Call("compilationUnit")
      <4>1. "compilationUnit" \in Rules
        BY DEF Rules, OtherRules
      <4> HIDE DEF Rules
      <4> QED
        BY <3>1, <4>1 DEF Call
    <3>2. ASSUME NEW s, s.op # "call", stack' = <<s>> \o UnitLoop
          PROVE  \A i \in DOMAIN stack' : stack'[i].op # "call"
      <4> DEFINE t == [op |-> "until", kinds |-> {EOF}, body |-> UnitBody]
      <4>1. t.op # "call" /\ UnitLoop = <<t>>
        BY DEF UnitLoop, Until
      <4> HIDE DEF t
      <4>2. stack' = <<s>> \o <<t>>
        BY <3>2, <4>1
      <4>3. \A x, y : <<x>> \o <<y>> = <<x, y>>
        BY Pairs
      <4>4. stack' = <<s, t>>
        BY <4>2, <4>3
      <4> QED
        BY <3>2, <4>1, <4>4
    <3>3. CASE stack' = UnitBody \o UnitLoop
      <4> DEFINE s == [op |-> "select", at |-> 1, cases |-> << <<Separator, Advance>> >>,
                       otherwise |-> Attempt(Call("declaration"), Synchronize)]
      <4>1. UnitBody = <<s>> /\ s.op # "call"
        BY DEF UnitBody, If, Select, Ahead
      <4> HIDE DEF s
      <4> QED
        BY <3>2, <3>3, <4>1
    <3>4. CASE stack' = Advance \o UnitLoop
      <4> DEFINE s == [op |-> "advance"]
      <4>1. Advance = <<s>> /\ s.op # "call"
        BY DEF Advance
      <4> HIDE DEF s
      <4> QED
        BY <3>2, <3>4, <4>1
    <3> QED
      BY <2>3, <3>1, <3>3, <3>4 DEF InUnit
  <2> QED
    BY <2>2, <2>3 DEF Kept
<1>3. Range(open') \subseteq Range(Opener) \cup {"mismatch"}
  <2>1. open' \in Seq(Openers)
    BY DEF Kept, Tidy
  <2>2. Range(open') \subseteq Openers
    BY <2>1 DEF Range
  <2> QED
    BY <2>2, OpenersAre
<1> QED
  BY <1>1, <1>2, <1>3 DEF TypeOK, Fields

-----------------------------------------------------------------------------
LEMMA SteppingNext ==
  ASSUME NEW rest, NEW q, NEW W, NEW a, NEW c, Stepping(rest, q, W, a, c),
         TypeOK, Tidy, result = "none", Next
  PROVE  Kept' /\ marks' \subseteq Flags /\ LooksAt \in {0, 1, 2}
<1> USE DEF Kept
<1>1. stack # <<>> /\ rest \in Rests
  BY SteppingStack DEF Stepping
<1>2. marks \subseteq Flags
  BY DEF TypeOK
<1>3. LooksAt \in {0, 1, 2}
  <2>1. CASE AtStep("select") /\ LooksAt = Top.at
    <3>1. Top.op = "select" /\ Leads(W, Top, a, c)
      BY <2>1, SteppingLevel DEF AtStep
    <3>2. Top.at \in {1, 2}
      BY <3>1 DEF Leads
    <3> QED
      BY <2>1, <3>2
  <2>2. CASE LooksAt \in {0, 1}
    BY <2>2
  <2> QED
    BY <2>1, <2>2, LooksAtOne
<1>4. ASSUME Parsing(rest)', Tidy', result' = result, marks' \subseteq Flags
      PROVE  Kept' /\ marks' \subseteq Flags
  BY <1>1, <1>4 DEF Rests
<1>5. ASSUME errors', Tidy', marks' = marks, Parsing(<<>>)', stack' = <<>>
      PROVE  Kept' /\ marks' \subseteq Flags
  BY <1>2, <1>5
<1>6. CASE Read
  <2>1. stack' = q \o rest /\ Runs(q, a, Done) /\ Tidy'
    BY <1>6 DEF Stepping, Read, Tidy
  <2>2. depth' = a.level /\ errors' = errors /\ (~ errors => Sits(a))
    BY <1>6, SteppingLevel DEF Read
  <2>3. LooksAt \in {1, 2}
    BY <1>3, <1>6 DEF Read
  <2>4. errors' \/ Sits(a)'
    BY <1>6, <2>2, <2>3, ReadSits
  <2>5. Parsing(rest)'
    BY <2>1, <2>2, <2>4, ParsingNext
  <2>6. result' = result /\ marks' = marks
    BY <1>6 DEF Read
  <2> QED
    BY <1>2, <1>3, <1>4, <2>1, <2>5, <2>6
<1>7. CASE Expected
  <2>1. Parsing(rest)' /\ Tidy' /\ result' = result /\ marks' = marks
    BY <1>7, ExpectedParses DEF Expected
  <2> QED
    BY <1>2, <1>3, <1>4, <2>1
<1>8. CASE NotExpected
  <2>1. marks' = marks
    BY <1>8 DEF NotExpected
  <2>2. /\ errors' /\ Tidy'
        /\ \/ Parsing(rest)' /\ result' = result
           \/ Parsing(<<>>)' /\ stack' = <<>> /\ result' = "null"
    BY <1>8, NotExpectedParses
  <2> HIDE DEF Kept
  <2> QED
    BY <1>2, <1>3, <1>4, <1>5, <2>1, <2>2
<1>9. CASE AdvanceOne
  <2>1. Parsing(rest)' /\ Tidy' /\ result' = result /\ marks' = marks
    BY <1>9, AdvanceParses DEF AdvanceOne
  <2> QED
    BY <1>2, <1>3, <1>4, <2>1
<1>10. CASE ReportOne
  <2>1. Parsing(rest)' /\ Tidy' /\ result' = result /\ marks' = marks
    BY <1>10, ReportParses DEF ReportOne
  <2> QED
    BY <1>2, <1>3, <1>4, <2>1
<1>11. CASE FailOne
  <2>1. marks' = marks
    BY <1>11 DEF FailOne
  <2>2. /\ errors' /\ Tidy'
        /\ \/ Parsing(rest)' /\ result' = result
           \/ Parsing(<<>>)' /\ stack' = <<>> /\ result' = "null"
    BY <1>11, FailParses
  <2> HIDE DEF Kept
  <2> QED
    BY <1>2, <1>3, <1>4, <1>5, <2>1, <2>2
<1>12. CASE CallOne
  <2>1. Parsing(rest)' /\ Tidy' /\ result' = result /\ marks' = marks
    BY <1>12, CallParses DEF CallOne
  <2> QED
    BY <1>2, <1>3, <1>4, <2>1
<1>13. CASE SelectOne
  <2>1. Parsing(rest)' /\ Tidy' /\ result' = result /\ marks' = marks
    BY <1>13, SelectParses DEF SelectOne
  <2> QED
    BY <1>2, <1>3, <1>4, <2>1
<1>14. CASE LoopAgain
  <2>1. Parsing(rest)' /\ Tidy' /\ result' = result /\ marks' = marks
    BY <1>14, AgainParses DEF LoopAgain
  <2> QED
    BY <1>2, <1>3, <1>4, <2>1
<1>15. CASE LoopEnds
  <2>1. Parsing(rest)' /\ Tidy' /\ result' = result /\ marks' = marks
    BY <1>15, EndsParses DEF LoopEnds
  <2> QED
    BY <1>2, <1>3, <1>4, <2>1
<1>16. CASE AttemptOne
  <2>1. Parsing(rest)' /\ Tidy' /\ result' = result /\ marks' = marks
    BY <1>16, AttemptParses DEF AttemptOne
  <2> QED
    BY <1>2, <1>3, <1>4, <2>1
<1>17. CASE AttemptSucceeds
  <2>1. Parsing(rest)' /\ Tidy' /\ result' = result /\ marks' = marks
    BY <1>17, SucceedsParses DEF AttemptSucceeds
  <2> QED
    BY <1>2, <1>3, <1>4, <2>1
<1>18. CASE (AtStep("enter") \/ AtStep("exit")) /\ SwitchTemplate
  <2>1. Parsing(rest)' /\ Tidy' /\ result' = result /\ marks' = marks
    BY <1>18, SwitchParses DEF SwitchTemplate
  <2> QED
    BY <1>2, <1>3, <1>4, <2>1
<1>19. CASE (AtStep("mark") \/ AtStep("clear")) /\ SetFlags
  <2>1. Parsing(rest)' /\ Tidy' /\ result' = result /\ marks' \subseteq Flags
    BY <1>19, FlagsParses DEF SetFlags
  <2> QED
    BY <1>3, <1>4, <2>1
<1>20. CASE TestFlag
  <2>1. Parsing(rest)' /\ Tidy' /\ result' = result /\ marks' = marks
    BY <1>20, TestParses DEF TestFlag
  <2> QED
    BY <1>2, <1>3, <1>4, <2>1
<1>21. CASE SkipToken
  <2>1. Parsing(rest)' /\ Tidy' /\ result' = result /\ marks' = marks
    BY <1>21, SkipParses DEF SkipToken
  <2> QED
    BY <1>2, <1>3, <1>4, <2>1
<1>22. CASE StopSkipping
  <2>1. Parsing(rest)' /\ Tidy' /\ result' = result /\ marks' = marks
    BY <1>22, StopParses DEF StopSkipping
  <2> QED
    BY <1>2, <1>3, <1>4, <2>1
<1>23. CASE ReturnNode
  BY <1>1, <1>23 DEF ReturnNode
<1>24. CASE Returned
  BY <1>24 DEF Returned
<1> HIDE DEF Kept
<1> QED
  BY <1>6, <1>7, <1>8, <1>9, <1>10, <1>11, <1>12, <1>13, <1>14, <1>15, <1>16, <1>17, <1>18,
     <1>19, <1>20, <1>21, <1>22, <1>23, <1>24 DEF Next

-----------------------------------------------------------------------------
(* The compilation unit.                                                   *)

LEMMA UnitLoopIs ==
  /\ UnitLoop # <<>> /\ Head(UnitLoop).op = "until" /\ Head(UnitLoop).kinds = {EOF}
  /\ Head(UnitLoop).body = UnitBody /\ Tail(UnitLoop) = <<>> /\ Len(UnitLoop) = 1
  /\ UnitLoop \in Seq({Head(UnitLoop)})
<1> DEFINE s == [op |-> "until", kinds |-> {EOF}, body |-> UnitBody]
<1>1. UnitLoop = <<s>> /\ s.op = "until" /\ s.kinds = {EOF} /\ s.body = UnitBody
  BY DEF UnitLoop, Until
<1> HIDE DEF s
<1> QED
  BY <1>1

LEMMA DoneIs ==
  /\ Done = Spot(All, <<>> \o <<>>, Home) /\ Done.level = 0 /\ Done.open = <<>>
  /\ Home \in Outside /\ Even(Told(Home), Done) /\ Below(Told(Home), Done)
  /\ Told(Home).level = 0
<1>1. <<>> \o <<>> = <<>>
  OBVIOUS
<1> QED
  BY <1>1 DEF Done, Spot, Home, Outside, Told, Even, Below

LEMMA TurnsRuns ==
  ASSUME NEW p, Turns(Outside, p, <<>>, <<>>)
  PROVE  Runs(p, Done, Done)
  BY DoneIs, OpenSeqs DEF Turns

LEMMA TriedDeclaration == Runs(Attempt(Call("declaration"), Synchronize), Done, Done)
<1>1. Turns(Outside, Call("declaration"), <<>>, <<>>)
  BY OpenSeqs, AllOutsideTurn
<1>2. Turns(Outside, Attempt(Call("declaration"), Synchronize), <<>>, <<>>)
  BY <1>1, OutsideIs, LateSynchronize, TurnsTry
<1> QED
  BY <1>2, TurnsRuns

LEMMA UnitBodyLate == Runs(UnitBody, Told(Home), Done)
<1>1. Runs(Advance, Told(Home), Done)
  BY LateAdvance, DoneIs DEF Late
<1>2. Runs(Attempt(Call("declaration"), Synchronize), Told(Home), Done)
  BY TriedDeclaration, DoneIs, RunsEarlier
<1> QED
  BY <1>1, <1>2, DoneIs, LateIf DEF UnitBody

LEMMA UnitBegins == Runs(When({"module"}, Advance \o Consume({"ident"}))
                           \o While({"import"}, Call("declaration")), Done, Done)
<1> USE OpenSeqs, OutsideIs DEF Plain, Brackets
<1>1. Turns(Outside, Call("declaration"), <<>>, <<>>)
  BY AllOutsideTurn
<1>2. Turns(Outside, While({"import"}, Call("declaration")), <<>>, <<>>)
  BY <1>1, GivenAny, TurnsWhile
<1>3. Turns(Outside, Consume({"ident"}), <<>>, <<>>)
  BY TurnsConsume
<1>4. Given(Outside, {"module"}, Advance \o Consume({"ident"}), <<>>, <<>>)
  BY <1>3, AdvancePlain, GivenThen
<1>5. Turns(Outside, When({"module"}, Advance \o Consume({"ident"})), <<>>, <<>>)
  BY <1>4, TurnsWhen
<1> QED
  BY <1>2, <1>5, KeepsThen, TurnsRuns

LEMMA LoopNext ==
  ASSUME stack = UnitLoop, At(Done), TypeOK, Tidy, result = "none", Next
  PROVE  Kept' /\ marks' \subseteq Flags /\ LooksAt \in {0, 1, 2}
<1>1. stack # <<>> /\ Top.op = "until" /\ Top.body = UnitBody /\ Tail(stack) = <<>>
  BY UnitLoopIs DEF Top
<1>2. \A op : AtStep(op) => op = "until"
  BY <1>1 DEF AtStep
<1>3. LooksAt = 1 /\ AtStep("until")
  BY <1>1, LooksAtIs DEF AtStep
<1>4. depth = 0 /\ (errors \/ Sits(Done)) /\ marks \subseteq Flags
  BY DoneIs DEF At, TypeOK
<1>5. CASE Read
  <2>1. stack' = <<>> \o UnitLoop
    BY <1>5, UnitLoopIs DEF Read
  <2>2. depth' = Done.level /\ result' = result /\ marks' = marks /\ errors' = errors /\ Tidy'
    BY <1>4, <1>5, DoneIs DEF Read, Tidy
  <2>3. errors' \/ Sits(Done)'
    BY <1>3, <1>4, <1>5, <2>2, ReadSits
  <2>4. Parsing(UnitLoop)'
    BY <2>1, <2>2, <2>3, NothingRuns, ParsingNext
  <2> QED
    BY <1>3, <1>4, <2>2, <2>4 DEF Kept
<1>6. CASE LoopAgain
  <2>1. stack' = UnitBody \o UnitLoop
    BY <1>1, <1>6 DEF LoopAgain
  <2>2. /\ depth' = 0 /\ result' = result /\ marks' = marks /\ errors' = errors /\ Tidy'
        /\ open' = open
    BY <1>4, <1>6 DEF LoopAgain, Tidy
  <2>3. CASE errors
    <3>1. depth' = Told(Home).level /\ errors'
      BY <2>2, <2>3, DoneIs
    <3>2. Parsing(UnitLoop)'
      BY <2>1, <3>1, UnitBodyLate, ParsingNext
    <3> QED
      BY <1>3, <1>4, <2>2, <3>2 DEF Kept
  <2>4. CASE ~ errors
    <3>1. open = <<>>
      BY <1>4, <2>4, DoneIs DEF Sits
    <3>2. InUnit'
      BY <2>1, <2>2, <2>4, <3>1 DEF InUnit
    <3> QED
      BY <1>3, <1>4, <2>2, <3>2 DEF Kept
  <2> QED
    BY <2>3, <2>4
<1>7. CASE LoopEnds
  <2>1. stack' = <<>> \o <<>>
    BY <1>1, <1>7 DEF LoopEnds, GoOnWith
  <2>2. depth' = Done.level /\ result' = result /\ marks' = marks /\ errors' = errors /\ Tidy'
    BY <1>4, <1>7, DoneIs DEF LoopEnds, Tidy
  <2>3. errors' \/ Sits(Done)'
    <3>1. UNCHANGED <<window, open>>
      BY <1>7 DEF LoopEnds
    <3> QED
      BY <1>4, <2>2, <3>1, SitsStill
  <2>4. Parsing(<<>>)'
    BY <2>1, <2>2, <2>3, NothingRuns, ParsingNext
  <2> QED
    BY <1>3, <1>4, <2>2, <2>4 DEF Kept
<1>8. Read \/ LoopAgain \/ LoopEnds
  BY <1>1, <1>2 DEF Next, Expected, NotExpected, AdvanceOne, ReportOne, FailOne, CallOne,
     SelectOne, AttemptOne, AttemptSucceeds, TestFlag, SkipToken, StopSkipping, ReturnNode,
     Returned
<1> QED
  BY <1>5, <1>6, <1>7, <1>8

LEMMA NothingNext ==
  ASSUME stack = <<>>, At(Done), TypeOK, Tidy, result = "none", Next
  PROVE  Kept' /\ marks' \subseteq Flags /\ LooksAt \in {0, 1, 2}
<1>1. \A op : ~ AtStep(op)
  BY DEF AtStep
<1>2. LooksAt = 0
  BY DEF LooksAt, AtStep
<1>3. ReturnNode
  BY <1>1, <1>2 DEF Next, Read, Expected, NotExpected, AdvanceOne, ReportOne, FailOne, CallOne,
     SelectOne, LoopAgain, Loops, LoopEnds, AttemptOne, AttemptSucceeds, TestFlag, SkipToken,
     StopSkipping, Returned
<1>4. depth = Done.level /\ (errors \/ Sits(Done)) /\ marks \subseteq Flags
  BY DEF At, TypeOK
<1>5. /\ stack' = <<>> \o <<>> /\ stack' = <<>> /\ depth' = depth /\ errors' = errors
      /\ marks' = marks /\ result' = "node"
  BY <1>3 DEF ReturnNode
<1>6. UNCHANGED <<window, open>>
  BY <1>3 DEF ReturnNode
<1>7. errors' \/ Sits(Done)'
  BY <1>4, <1>5, <1>6, SitsStill
<1>8. Parsing(<<>>)'
  BY <1>4, <1>5, <1>7, NothingRuns, ParsingNext
<1>9. Tidy'
  BY <1>5, <1>6 DEF Tidy
<1> QED
  BY <1>2, <1>4, <1>5, <1>8, <1>9 DEF Kept

LEMMA DoneSits ==
  ASSUME window' \in [1 .. 3 -> Slot], open' = <<>>
  PROVE  Sits(Done)'
<1>1. \A s \in Slot : s.kind \in All
  BY DEF Slot, All, Kinds
<1>2. window'[1] \in Slot /\ window'[2] \in Slot
  OBVIOUS
<1>3. ~ Done.told /\ Done.now = All /\ Done.next = All /\ Done.open = <<>>
  BY DEF Done, Spot
<1> QED
  BY <1>1, <1>2, <1>3 DEF Sits

LEMMA Single == \A x : <<x>> # <<>> /\ Head(<<x>>) = x /\ Tail(<<x>>) = <<>>
  OBVIOUS

LEMMA Double == \A x, y : <<x, y>> # <<>> /\ Head(<<x, y>>) = x /\ Tail(<<x, y>>) = <<y>>
  OBVIOUS

LEMMA UnitCalls ==
  ASSUME InUnit, stack = Call("compilationUnit"), TypeOK, result = "none", Next
  PROVE  Kept' /\ marks' \subseteq Flags /\ LooksAt \in {0, 1, 2}
<1> DEFINE s == [op |-> "call", rule |-> "compilationUnit", bare |-> FALSE]
           p == When({"module"}, Advance \o Consume({"ident"}))
                  \o While({"import"}, Call("declaration"))
<1>1. stack = <<s>>
  BY DEF Call
<1>2. /\ Top.op = "call" /\ Top.rule = "compilationUnit" /\ Top.bare = FALSE
      /\ Tail(stack) = <<>> /\ stack # <<>>
  <2>1. s.op = "call" /\ s.rule = "compilationUnit" /\ s.bare = FALSE
    OBVIOUS
  <2> HIDE DEF s
  <2>2. Head(stack) = s /\ Tail(stack) = <<>> /\ stack # <<>>
    BY <1>1, Single
  <2> QED
    BY <2>1, <2>2 DEF Top
<1> HIDE DEF s
<1>3. \A op : AtStep(op) => op = "call"
  BY <1>2 DEF AtStep
<1>4. LooksAt = 0
  BY <1>2, <1>3 DEF LooksAt
<1>5. CallOne
  BY <1>2, <1>3, <1>4 DEF Next, Read, Expected, NotExpected, AdvanceOne, ReportOne, FailOne,
     SelectOne, LoopAgain, Loops, LoopEnds, AttemptOne, AttemptSucceeds, TestFlag, SkipToken,
     StopSkipping, ReturnNode, Returned
<1>6. /\ stack' = ProgramOf("compilationUnit", FALSE) \o <<>>
      /\ UNCHANGED <<window, marks, depth, errors, result, open>>
  BY <1>2, <1>5 DEF CallOne, GoOnWith
<1>7. ProgramOf("compilationUnit", FALSE) = p \o UnitLoop
  <2>1. ProgramOf("compilationUnit", FALSE) = ParseCompilationUnit
    BY DEF ProgramOf, OtherRules
  <2> QED
    BY <2>1 DEF ParseCompilationUnit, UnitLoop, UnitBody
<1>8. stack' = p \o UnitLoop
  <2>1. PICK S : p \in Seq(S)
    BY UnitBegins, RunsSequence
  <2>2. PICK T : UnitLoop \in Seq(T)
    BY UnitLoopIs
  <2> HIDE DEF p
  <2>3. p \in Seq(S \cup T) /\ UnitLoop \in Seq(S \cup T)
    BY <2>1, <2>2, SeqMonotonic
  <2> DEFINE w == p \o UnitLoop
  <2>4. w \in Seq(S \cup T)
    BY <2>3
  <2> HIDE DEF w
  <2>5. w \o <<>> = w
    BY <2>4
  <2> QED
    BY <1>6, <1>7, <2>5 DEF w
<1> HIDE DEF p
<1>9. Runs(p, Done, Done)
  BY UnitBegins DEF p
<1>10. Sits(Done)' /\ depth' = Done.level /\ Tidy' /\ marks' \subseteq Flags
  <2>1. window' \in [1 .. 3 -> Slot] /\ open' = <<>>
    BY <1>6 DEF InUnit, TypeOK
  <2> QED
    BY <1>6, <2>1, DoneSits, DoneIs, OpenSeqs DEF InUnit, TypeOK, Tidy
<1>11. Parsing(UnitLoop)'
  BY <1>8, <1>9, <1>10, ParsingNext
<1> QED
  BY <1>4, <1>6, <1>10, <1>11 DEF Kept

LEMMA UnitChooses ==
  ASSUME InUnit, stack = UnitBody \o UnitLoop, TypeOK, result = "none", Next
  PROVE  Kept' /\ marks' \subseteq Flags /\ LooksAt \in {0, 1, 2}
<1> DEFINE try == Attempt(Call("declaration"), Synchronize)
           cases == << <<Separator, Advance>> >>
           s == [op |-> "select", at |-> 1, cases |-> cases, otherwise |-> try]
<1>1. UnitBody = <<s>>
  BY DEF UnitBody, If, Select, Ahead
<1>2. s.op = "select" /\ s.at = 1 /\ s.cases = cases /\ s.otherwise = try
  OBVIOUS
<1>3. DOMAIN cases = {1} /\ cases[1][1] = Separator /\ cases[1][2] = Advance
  OBVIOUS
<1> HIDE DEF s, cases, try
<1>4. stack # <<>> /\ Top = s /\ Tail(stack) = UnitLoop
  <2> DEFINE t == [op |-> "until", kinds |-> {EOF}, body |-> UnitBody]
  <2>1. UnitLoop = <<t>>
    BY DEF UnitLoop, Until
  <2> HIDE DEF t
  <2>2. stack = <<s, t>>
    BY <1>1, <2>1, Pairs
  <2>3. stack # <<>> /\ Head(stack) = s /\ Tail(stack) = <<t>>
    BY <2>2, Double
  <2> QED
    BY <2>1, <2>3 DEF Top
<1>5. \A op : AtStep(op) => op = "select"
  BY <1>2, <1>4 DEF AtStep
<1>6. LooksAt = 1
  BY <1>2, <1>4, LooksAtIs DEF AtStep
<1>7. marks \subseteq Flags /\ window \in [1 .. 3 -> Slot] /\ ~ errors /\ open = <<>>
      /\ depth = 0
  BY DEF TypeOK, InUnit
<1>8. CASE Read
  <2>1. InUnit'
    BY <1>8 DEF InUnit, Read
  <2>2. Tidy' /\ result' = "none" /\ marks' = marks
    BY <1>7, <1>8, OpenSeqs DEF Read, Tidy
  <2> QED
    BY <1>6, <1>7, <2>1, <2>2 DEF Kept
<1>9. CASE SelectOne
  <2> DEFINE hits == {i \in DOMAIN cases : seen \in cases[i][1]}
  <2>1. /\ GoOnWith(IF hits = {} THEN try ELSE cases[Min(hits)][2])
        /\ UNCHANGED <<window, marks, depth, errors, result, text, left, open>>
    BY <1>2, <1>4, <1>9 DEF SelectOne
  <2>2. Tidy' /\ result' = "none" /\ marks' = marks
    BY <1>7, <2>1, OpenSeqs DEF Tidy
  <2>3. CASE seen \in Separator
    <3>1. hits = {1}
      BY <1>3, <2>3
    <3>2. Min(hits) = 1
      <4>1. hits \in SUBSET Nat /\ hits # {}
        BY <3>1
      <4>2. Min(hits) \in hits
        BY <4>1, MinIs
      <4> QED
        BY <3>1, <4>2
    <3>3. stack' = Advance \o UnitLoop
      BY <1>3, <1>4, <2>1, <3>1, <3>2 DEF GoOnWith
    <3>4. window'[1].kind \in Separator
      BY <1>6, <2>1, <2>3 DEF seen
    <3>5. InUnit'
      BY <1>7, <2>1, <3>3, <3>4 DEF InUnit
    <3> QED
      BY <1>6, <1>7, <2>2, <3>5 DEF Kept
  <2>4. CASE seen \notin Separator
    <3>1. hits = {}
      BY <1>3, <2>4
    <3>2. stack' = try \o UnitLoop
      BY <1>4, <2>1, <3>1 DEF GoOnWith
    <3>3. Sits(Done)'
      BY <1>7, <2>1, DoneSits
    <3>4. depth' = Done.level
      BY <1>7, <2>1, DoneIs
    <3>5. Parsing(UnitLoop)'
      BY <3>2, <3>3, <3>4, TriedDeclaration, ParsingNext DEF try
    <3> QED
      BY <1>6, <1>7, <2>2, <3>5 DEF Kept
  <2> QED
    BY <2>3, <2>4
<1>10. Read \/ SelectOne
  BY <1>4, <1>5 DEF Next, Expected, NotExpected, AdvanceOne, ReportOne, FailOne, CallOne,
     LoopAgain, Loops, LoopEnds, AttemptOne, AttemptSucceeds, TestFlag, SkipToken,
     StopSkipping, ReturnNode, Returned
<1> QED
  BY <1>8, <1>9, <1>10

\* a bracket that closes nothing is skipped
LEMMA UnitSkips ==
  ASSUME InUnit, stack = Advance \o UnitLoop, window[1].kind \in Separator,
         TypeOK, result = "none", Next
  PROVE  Kept' /\ marks' \subseteq Flags /\ LooksAt \in {0, 1, 2}
<1> DEFINE s == [op |-> "advance"]
           t == [op |-> "until", kinds |-> {EOF}, body |-> UnitBody]
<1>1. Advance = <<s>> /\ s.op = "advance" /\ UnitLoop = <<t>> /\ t.op = "until"
      /\ t.kinds = {EOF}
  BY DEF Advance, UnitLoop, Until
<1> HIDE DEF s, t
<1>2. stack = <<s, t>>
  BY <1>1, Pairs
<1>3. stack # <<>> /\ Top = s /\ Tail(stack) = UnitLoop /\ Len(stack) = 2 /\ stack[2] = t
  BY <1>1, <1>2 DEF Top
<1>4. Lingering
  BY <1>1, <1>3 DEF Lingering
<1>5. \A op : AtStep(op) => op = "advance"
  BY <1>1, <1>3 DEF AtStep
<1>6. LooksAt = 1 /\ window[1].kind # Unread
  BY <1>1, <1>3, LooksAtIs DEF AtStep, Separator, Unread
<1>7. AdvanceOne
  BY <1>3, <1>5, <1>6 DEF Next, Read, Expected, NotExpected, ReportOne, FailOne, CallOne,
     SelectOne, LoopAgain, Loops, LoopEnds, AttemptOne, AttemptSucceeds, TestFlag, SkipToken,
     StopSkipping, ReturnNode, Returned
<1>8. open' = <<>>
  <2>1. ~ errors /\ open = <<>> /\ current \notin Openers
    BY DEF InUnit, current, Separator, Openers
  <2>2. current \notin Range(Opener)
    BY <2>1, OpenersAre
  <2>3. OpenAfter(current) = <<>>
    BY <1>4, <2>1, <2>2 DEF OpenAfter
  <2> QED
    BY <1>7, <2>3 DEF AdvanceOne, Shift
<1>9. Shift /\ stack' = <<>> \o UnitLoop /\ UNCHANGED <<marks, depth, errors, result>>
  BY <1>3, <1>7 DEF AdvanceOne, GoOnWith
<1>10. Sits(Done)'
  BY <1>8, <1>9, ShiftFields, DoneSits
<1>11. depth' = Done.level /\ Tidy' /\ marks' \subseteq Flags /\ result' = "none"
  BY <1>8, <1>9, DoneIs, OpenSeqs DEF InUnit, TypeOK, Tidy
<1>12. Parsing(UnitLoop)'
  BY <1>9, <1>10, <1>11, NothingRuns, ParsingNext
<1> QED
  BY <1>6, <1>11, <1>12 DEF Kept

-----------------------------------------------------------------------------
(* Theorems.                                                               *)

LEMMA InitIInv == Init => IInv
<1> SUFFICES ASSUME Init
             PROVE  IInv
  OBVIOUS
<1> DEFINE start == Texts[text].start
           s == [op |-> "call", rule |-> start, bare |-> FALSE]
<1>1. stack = <<s>> /\ s.op = "call" /\ s.rule = start
  BY DEF Init, Call
<1>2. start \in Rules /\ Texts[text].length \in Nat
  <2> DEFINE R == [start : Rules, tokens : SUBSET Tokens, length : Nat]
  <2>1. Texts \in Seq(R) /\ text \in DOMAIN Texts
    BY TextsAssumption DEF Init
  <2> HIDE DEF R
  <2>2. Texts[text] \in R
    BY <2>1
  <2> HIDE DEF Rules
  <2> QED
    BY <2>2 DEF R
<1> HIDE DEF s, start
<1>3. window \in [1 .. 3 -> Slot]
  <2>1. [kind |-> Unread, split |-> FALSE, torn |-> FALSE] \in Slot
    BY DEF Slot
  <2> QED
    BY <2>1 DEF Init
<1>4. TypeOK
  <2>1. \A i \in DOMAIN stack : stack[i].op = "call" => stack[i].rule \in Rules
    <3> HIDE DEF Rules
    <3> QED
      BY <1>1, <1>2
  <2>2. Range(open) = {}
    BY DEF Init, Range
  <2> QED
    BY <1>2, <1>3, <2>1, <2>2 DEF Init, TypeOK, start
<1>5. Tidy /\ result = "none" /\ open = <<>> /\ depth = 0 /\ ~ errors
  BY OpenSeqs DEF Init, Tidy
<1>6. CASE start = "compilationUnit"
  <2>1. InUnit
    BY <1>5, <1>6 DEF InUnit, Init, start
  <2> QED
    BY <1>4, <1>5, <2>1 DEF IInv, Kept
<1>7. CASE start # "compilationUnit"
  <2>1. Runs(Call(start), Done, Done)
    <3>1. CASE start \in DeepRules
      BY <3>1, OpenSeqs, AllOutsideTurn, TurnsRuns
    <3>2. CASE start \notin DeepRules
      BY <1>2, <1>7, <3>2, OpenSeqs, OutsideTurns, TurnsCalls, TurnsRuns
    <3> QED
      BY <3>1, <3>2
  <2>2. At(Done)
    <3>1. window[1].kind = Unread /\ window[2].kind = Unread /\ Unread \in All
      BY DEF Init, All
    <3> QED
      BY <1>5, <3>1, DoneIs DEF At, Sits, Done, Spot
  <2>3. stack = Call(start) \o <<>>
    <3>1. Call(start) = <<s>>
      BY DEF Call, s
    <3> QED
      BY <1>1, <3>1
  <2>4. Parsing(<<>>)
    BY <2>1, <2>2, <2>3 DEF Parsing
  <2> QED
    BY <1>4, <1>5, <2>4 DEF IInv, Kept
<1> QED
  BY <1>6, <1>7

LEMMA NextIInv == IInv /\ [Next]_vars => IInv'
<1> SUFFICES ASSUME IInv, [Next]_vars
             PROVE  IInv'
  OBVIOUS
<1>1. CASE UNCHANGED vars
  <2>1. ASSUME NEW rest, Parsing(rest)
        PROVE  Parsing(rest)'
    BY <1>1, <2>1 DEF vars, Parsing, At, Sits
  <2> QED
    BY <1>1, <2>1 DEF IInv, Kept, TypeOK, Tidy, InUnit, vars
<1>2. CASE Next /\ result # "none"
  <2>1. stack = <<>>
    BY <1>2 DEF IInv, Kept
  <2>2. \A op : ~ AtStep(op)
    BY <2>1 DEF AtStep
  <2>3. LooksAt = 0
    BY <2>1, <2>2 DEF LooksAt
  <2>4. UNCHANGED vars
    BY <1>2, <2>2, <2>3 DEF Next, Read, Expected, NotExpected, AdvanceOne, ReportOne, FailOne,
       CallOne, SelectOne, LoopAgain, Loops, LoopEnds, AttemptOne, AttemptSucceeds, TestFlag,
       SkipToken, StopSkipping, ReturnNode, Returned
  <2> QED
    BY <1>1, <2>4
<1>3. CASE Next /\ result = "none"
  <2>1. TypeOK /\ Tidy /\ (Parsing(<<>>) \/ Parsing(UnitLoop) \/ InUnit)
    BY DEF IInv, Kept
  <2>2. Kept' /\ marks' \subseteq Flags /\ LooksAt \in {0, 1, 2}
    <3>1. ASSUME NEW rest \in Rests, Parsing(rest)
          PROVE  Kept' /\ marks' \subseteq Flags /\ LooksAt \in {0, 1, 2}
      <4>1. CASE stack = rest /\ At(Done)
        BY <1>3, <2>1, <4>1, LoopNext, NothingNext DEF Rests
      <4>2. CASE \E q, W, a, c : Stepping(rest, q, W, a, c)
        <5>1. PICK q, W, a, c : Stepping(rest, q, W, a, c)
          BY <4>2
        <5> QED
          BY <1>3, <2>1, <5>1, SteppingNext
      <4> QED
        BY <3>1, <4>1, <4>2, ParsingSteps
    <3>2. CASE InUnit
      BY <1>3, <2>1, <3>2, UnitCalls, UnitChooses, UnitSkips DEF InUnit
    <3> QED
      BY <2>1, <3>1, <3>2 DEF Rests
  <2> QED
    BY <1>3, <2>1, <2>2, TypesNext DEF IInv
<1> QED
  BY <1>1, <1>2, <1>3

\* The invariant that the others follow from: whatever is on the stack is a
\* program of steps that closes the brackets that are open.
THEOREM SpecIInv == Spec => []IInv
<1>1. Init => IInv
  BY InitIInv
<1>2. IInv /\ [Next]_vars => IInv'
  BY NextIInv
<1> QED
  BY <1>1, <1>2, PTL DEF Spec

\* The window, the stack, the flags and the brackets are what they are declared
\* to be (Parser's members, parser.hpp): a call is of a parse function.
THEOREM SpecTypeOK == Spec => []TypeOK
<1>1. IInv => TypeOK
  BY DEF IInv
<1> QED
  BY <1>1, SpecIInv, PTL

\* Where the recovery skips and where the parse has ended
LEMMA Where ==
  ASSUME IInv
  PROVE  /\ AtStep("synchronize") => errors /\ depth = 0
         /\ result # "none" => depth = 0 /\ (errors \/ open = <<>>)
<1>1. CASE InUnit
  <2>1. ~ AtStep("synchronize")
    <3> SUFFICES ASSUME stack # <<>>, Head(stack).op = "synchronize"
                 PROVE  FALSE
      BY DEF AtStep, Top
    <3>1. CASE stack = Call("compilationUnit")
      <4> DEFINE s == [op |-> "call", rule |-> "compilationUnit", bare |-> FALSE]
      <4>1. stack = <<s>> /\ s.op = "call"
        BY <3>1 DEF Call
      <4> HIDE DEF s
      <4> QED
        BY <4>1
    <3>2. ASSUME NEW s, s.op # "synchronize", stack = <<s>> \o UnitLoop
          PROVE  FALSE
      <4> DEFINE t == [op |-> "until", kinds |-> {EOF}, body |-> UnitBody]
      <4>1. UnitLoop = <<t>>
        BY DEF UnitLoop, Until
      <4> HIDE DEF t
      <4>2. stack = <<s, t>>
        BY <3>2, <4>1, Pairs
      <4> QED
        BY <3>2, <4>2
    <3>3. CASE stack = UnitBody \o UnitLoop
      <4> DEFINE s == [op |-> "select", at |-> 1, cases |-> << <<Separator, Advance>> >>,
                       otherwise |-> Attempt(Call("declaration"), Synchronize)]
      <4>1. UnitBody = <<s>> /\ s.op # "synchronize"
        BY DEF UnitBody, If, Select, Ahead
      <4> HIDE DEF s
      <4> QED
        BY <3>2, <3>3, <4>1
    <3>4. CASE stack = Advance \o UnitLoop
      <4> DEFINE s == [op |-> "advance"]
      <4>1. Advance = <<s>> /\ s.op # "synchronize"
        BY DEF Advance
      <4> HIDE DEF s
      <4> QED
        BY <3>2, <3>4, <4>1
    <3> QED
      BY <1>1, <3>1, <3>3, <3>4 DEF InUnit
  <2> QED
    BY <1>1, <2>1 DEF InUnit
<1>2. ASSUME NEW rest \in Rests, Parsing(rest)
      PROVE  /\ AtStep("synchronize") => errors /\ depth = 0
             /\ result # "none" => depth = 0 /\ (errors \/ open = <<>>)
  <2>1. CASE stack = rest /\ At(Done)
    <3>1. depth = 0 /\ (errors \/ open = <<>>)
      BY <2>1, DoneIs DEF At, Sits
    <3>2. ~ AtStep("synchronize")
      BY <1>2, <2>1, UnitLoopIs DEF Rests, AtStep, Top
    <3> QED
      BY <3>1, <3>2
  <2>2. CASE \E q, W, a, c : Stepping(rest, q, W, a, c)
    <3>1. PICK q, W, a, c : Stepping(rest, q, W, a, c)
      BY <2>2
    <3>2. stack # <<>> /\ result = "none"
      BY <3>1, SteppingStack DEF IInv, Kept
    <3>3. AtStep("synchronize") => errors /\ depth = 0
      <4> SUFFICES ASSUME AtStep("synchronize")
                   PROVE  errors /\ depth = 0
        OBVIOUS
      <4>1. Top.op = "synchronize" /\ errors /\ depth = a.level /\ Leads(W, Top, a, c)
        BY <3>1, SteppingLevel DEF AtStep
      <4> QED
        BY <4>1 DEF Leads
    <3> QED
      BY <3>2, <3>3
  <2> QED
    BY <1>2, <2>1, <2>2, ParsingSteps
<1> QED
  BY <1>1, <1>2 DEF IInv, Kept, Rests

\* A call fails, and the recovery skips tokens, only where an error has been
\* reported: every way out of a parse function with nullptr is behind a
\* reportError (parser.cpp), so that no caller drops a text unnoticed.
THEOREM SpecNothingLostSilently == Spec => []NothingLostSilently
<1>1. IInv => NothingLostSilently
  BY Where DEF IInv, Kept, NothingLostSilently
<1> QED
  BY <1>1, SpecIInv, PTL

\* What the parser accepts without an error has its brackets balanced: none is
\* closed by another's closer, and none is left open, whatever the text.
THEOREM SpecAcceptedIsBalanced == Spec => []AcceptedIsBalanced
<1>1. IInv => AcceptedIsBalanced
  <2> SUFFICES ASSUME IInv
               PROVE  AcceptedIsBalanced
    OBVIOUS
  <2>1. open \in Seq(Openers) /\ (errors => open = <<>>)
    BY DEF IInv, Kept, Tidy
  <2>2. Range(open) \subseteq Openers
    BY <2>1 DEF Range
  <2>3. "mismatch" \notin Range(open)
    BY <2>2 DEF Openers
  <2>4. result = "node" => open = <<>>
    BY <2>1, Where
  <2> QED
    BY <2>3, <2>4 DEF AcceptedIsBalanced
<1> QED
  BY <1>1, SpecIInv, PTL

\* However generic arguments are left, by an error or by their >, the lexer is
\* out of the template context when the call returns and where the recovery
\* skips (enterTemplateContext and exitTemplateContext are called in pairs).
THEOREM SpecTemplateContextEnds == Spec => []TemplateContextEnds
<1>1. IInv => TemplateContextEnds
  BY Where DEF TemplateContextEnds
<1> QED
  BY <1>1, SpecIInv, PTL
=============================================================================
