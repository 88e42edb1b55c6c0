------------------------------- MODULE Types -------------------------------
(***************************************************************************)
(* The types of the language: what each class of src/src/types answers     *)
(* about two types (equality, assignment, conversion, compatibility), how  *)
(* values are laid out, what a call costs and how classes inherit.         *)
(*                                                                         *)
(* A type is an object in the arena of the registry, so it is known by its *)
(* place in the sequence ts of all the types ever allocated, as in C++ by  *)
(* its address.  A type is built from types that exist, hence all it       *)
(* refers to comes before it in ts.                                        *)
(***************************************************************************)
EXTENDS Integers, Sequences, SequencesExt, FiniteSetsExt

None == 0       \* the null pointer

\* A type object; the members that a class does not have are left empty.
Plain == [kind |-> "none", variant |-> "none", parts |-> <<>>, ret |-> None, count |-> 0,
          name |-> "none", names |-> <<>>, methods |-> <<>>, flags |-> {}, base |-> None]

Kinds == {"integer", "float", "bool", "char", "void", "auto", "pointer", "reference",
          "array", "tuple", "union", "function", "struct", "class"}

PointerSize == 8    \* sizeof(void*) on the targets of the compiler

IntegerBytes == [i8 |-> 1, u8 |-> 1, i16 |-> 2, u16 |-> 2, i32 |-> 4, u32 |-> 4,
                 i64 |-> 8, u64 |-> 8, i128 |-> 16, u128 |-> 16, auto |-> 4]

FloatBytes == [f32 |-> 4, f64 |-> 8, auto |-> 8]

\* What tells the integers from one another, and the floats; "none" for all others.
Variants == DOMAIN IntegerBytes \cup DOMAIN FloatBytes \cup {"none"}

\* Type objects; ret, base, and what parts and signatures refer to are places in ts.
Object == [kind : Kinds, variant : Variants, parts : Seq(Nat), ret : Nat, count : Nat,
           name : STRING \cup {"none"}, names : Seq(STRING),
           methods : Seq([name : STRING, signature : Nat]),
           flags : SUBSET STRING, base : Nat]

\* The types that are not built from others.
Primitives ==
  {[Plain EXCEPT !.kind = "integer", !.variant = v] : v \in DOMAIN IntegerBytes}
    \cup {[Plain EXCEPT !.kind = "float", !.variant = v] : v \in DOMAIN FloatBytes}
    \cup {[Plain EXCEPT !.kind = k] : k \in {"bool", "char", "void", "auto"}}

Signed == {"i8", "i16", "i32", "i64", "i128", "auto"}

-----------------------------------------------------------------------------
(* The relations between two types.  d is the object that is asked, e its   *)
(* argument; k is the question: equals, isAssignableFrom,                   *)
(* isImplicitlyConvertibleTo, isExplicitlyConvertibleTo, isCompatibleWith.  *)

Questions == {"equals", "assignable", "implicit", "explicit", "compatible"}

IntegerRelation(ts, k, d, e) ==
  LET o == ts[e]
  IN  CASE k \in {"equals", "assignable"} ->
             o.kind = "integer" /\ o.variant = ts[d].variant
        [] k = "implicit" ->
             \/ o.kind = "float"
             \/ o.kind = "integer" /\ IntegerBytes[ts[d].variant] < IntegerBytes[o.variant]
        [] k = "explicit" -> o.kind = "integer"
        [] k = "compatible" -> o.kind \in {"integer", "float"}

FloatRelation(ts, k, d, e) ==
  /\ ts[e].kind = "float"
  /\ k \in {"equals", "assignable"} => ts[e].variant = ts[d].variant
  /\ k = "implicit" => ts[d].variant = "f32" /\ ts[e].variant = "f64"

BoolRelation(ts, k, e) ==
  CASE k = "implicit" -> FALSE
    [] k = "explicit" -> ts[e].kind = "integer"
    [] OTHER -> ts[e].kind = "bool"

CharRelation(ts, k, e) ==
  \/ k \in {"equals", "assignable", "compatible"} /\ ts[e].kind = "char"
  \/ k \in {"implicit", "explicit", "compatible"} /\ ts[e].kind = "integer"

VoidRelation(ts, k, e) == k \in {"equals", "compatible"} /\ ts[e].kind = "void"

AutoRelation(ts, k, e) == k \in {"equals", "compatible"} /\ ts[e].kind = "auto"

Elementwise(rel, k, ps, qs) ==
  Len(ps) = Len(qs) /\ \A i \in 1..Len(ps) : rel[<<k, ps[i], qs[i]>>]

PointerRelation(ts, rel, k, d, e) ==
  /\ ts[e].kind = "pointer"
  /\ \/ k # "compatible" /\ rel[<<"equals", ts[d].parts[1], ts[e].parts[1]>>]
     \/ rel[<<k, ts[d].parts[1], ts[e].parts[1]>>]

ReferenceRelation(ts, rel, k, d, e) ==
  /\ ts[e].kind = "reference"
  /\ \/ k # "compatible" /\ rel[<<"equals", ts[d].parts[1], ts[e].parts[1]>>]
     \/ rel[<<k, ts[d].parts[1], ts[e].parts[1]>>]

\* The count of a dynamic array is 0.
ArrayRelation(ts, rel, k, d, e) ==
  /\ ts[e].kind = "array"
  /\ k \in {"equals", "assignable"} => ts[d].count = ts[e].count
  /\ IF k = "implicit"
     THEN /\ ts[d].count > 0 /\ ts[e].count = 0
          /\ rel[<<"equals", ts[d].parts[1], ts[e].parts[1]>>]
     ELSE rel[<<k, ts[d].parts[1], ts[e].parts[1]>>]

TupleRelation(ts, rel, k, d, e) ==
  ts[e].kind = "tuple" /\ Elementwise(rel, k, ts[d].parts, ts[e].parts)

UnionRelation(ts, rel, k, d, e) ==
  LET isUnion == ts[e].kind = "union"
      mine == Range(ts[d].parts)
      others == Range(ts[e].parts)
  IN  CASE k = "equals" -> isUnion /\ Elementwise(rel, k, ts[d].parts, ts[e].parts)
        [] k = "assignable" ->
             \/ \E v \in mine : rel[<<k, v, e>>]
             \/ isUnion /\ \A w \in others : \E v \in mine : rel[<<k, v, w>>]
        [] k \in {"implicit", "explicit"} ->
             isUnion /\ \A v \in mine : \E w \in others : rel[<<k, v, w>>]
        [] k = "compatible" ->
             IF isUnion THEN \E v \in mine, w \in others : rel[<<k, v, w>>]
                        ELSE \E v \in mine : rel[<<k, v, e>>]

\* The answer is the same to every question: identical signatures.
FunctionRelation(ts, rel, d, e) ==
  /\ ts[e].kind = "function"
  /\ rel[<<"equals", ts[d].ret, ts[e].ret>>]
  /\ Elementwise(rel, "equals", ts[d].parts, ts[e].parts)

\* Neither the kind of record nor the base class is compared.
RecordEquals(ts, rel, d, e) ==
  /\ ts[e].kind \in {"struct", "class"}
  /\ ts[d].name = ts[e].name /\ ts[d].flags = ts[e].flags
  /\ ts[d].names = ts[e].names
  /\ Elementwise(rel, "equals", ts[d].parts, ts[e].parts)
  /\ Len(ts[d].methods) = Len(ts[e].methods)
  /\ \A i \in DOMAIN ts[d].methods :
       /\ ts[d].methods[i].name = ts[e].methods[i].name
       /\ rel[<<"equals", ts[d].methods[i].signature, ts[e].methods[i].signature>>]

StructRelation(ts, rel, k, d, e) ==
  k \in {"equals", "assignable", "compatible"} /\ RecordEquals(ts, rel, d, e)

\* The class c, its base, the base of that and so on.
Chain(ts, c) ==
  LET chain[x \in DOMAIN ts] ==
        <<x>> \o (IF ts[x].base = None THEN <<>> ELSE chain[ts[x].base])
  IN  chain[c]

\* Bases are compared by address.
IsBaseOf(ts, b, c) == b \in Range(Tail(Chain(ts, c)))

ClassRelation(ts, rel, k, d, e) ==
  \/ k \in {"equals", "compatible", "assignable"} /\ RecordEquals(ts, rel, d, e)
  \/ /\ ts[e].kind = "class"
     /\ \/ k \in {"implicit", "explicit"} /\ (RecordEquals(ts, rel, d, e) \/ IsBaseOf(ts, e, d))
        \/ k \in {"assignable", "explicit"} /\ IsBaseOf(ts, d, e)

\* The virtual call: the class of d decides.  rel answers about older types.
Asked(ts, rel, k, d, e) ==
  CASE ts[d].kind = "integer"   -> IntegerRelation(ts, k, d, e)
    [] ts[d].kind = "float"     -> FloatRelation(ts, k, d, e)
    [] ts[d].kind = "bool"      -> BoolRelation(ts, k, e)
    [] ts[d].kind = "char"      -> CharRelation(ts, k, e)
    [] ts[d].kind = "void"      -> VoidRelation(ts, k, e)
    [] ts[d].kind = "auto"      -> AutoRelation(ts, k, e)
    [] ts[d].kind = "pointer"   -> PointerRelation(ts, rel, k, d, e)
    [] ts[d].kind = "reference" -> ReferenceRelation(ts, rel, k, d, e)
    [] ts[d].kind = "array"     -> ArrayRelation(ts, rel, k, d, e)
    [] ts[d].kind = "tuple"     -> TupleRelation(ts, rel, k, d, e)
    [] ts[d].kind = "union"     -> UnionRelation(ts, rel, k, d, e)
    [] ts[d].kind = "function"  -> FunctionRelation(ts, rel, d, e)
    [] ts[d].kind = "struct"    -> StructRelation(ts, rel, k, d, e)
    [] ts[d].kind = "class"     -> ClassRelation(ts, rel, k, d, e)

Relation(ts) ==
  LET rel[q \in Questions \X (DOMAIN ts) \X (DOMAIN ts)] == Asked(ts, rel, q[1], q[2], q[3])
  IN  rel

Equals(ts, d, e) == Relation(ts)[<<"equals", d, e>>]

-----------------------------------------------------------------------------
(* Calls.  An argument may be narrowed, which an assignment does not allow. *)

CanBeImplicitlyPassedTo(ts, a, p) ==
  \/ ts[a].kind = "integer" /\ ts[p].kind \in {"integer", "float"}
  \/ Relation(ts)[<<"implicit", a, p>>]

CanBeCalledWith(ts, f, args) ==
  /\ Len(args) = Len(ts[f].parts)
  /\ \A i \in DOMAIN args : \/ Equals(ts, args[i], ts[f].parts[i])
                            \/ CanBeImplicitlyPassedTo(ts, args[i], ts[f].parts[i])

\* Mutant: only a wider or narrower number adds to the distance.
ConversionCostByWidth(ts, a, p) ==
  IF ts[a].kind = "integer" /\ ts[p].kind = "integer"
  THEN IntegerBytes[ts[a].variant] - IntegerBytes[ts[p].variant]
  ELSE 1

\* What passing an argument of type a for a parameter of type p adds.
ConversionCost(ts, a, p) ==
  LET from == ts[a]
      to == ts[p]
  IN  CASE from.kind = "integer" /\ to.kind = "integer" ->
             IF IntegerBytes[from.variant] < IntegerBytes[to.variant] THEN 1
             ELSE IF IntegerBytes[from.variant] > IntegerBytes[to.variant] THEN 3
             ELSE 2
        [] from.kind = "float" /\ to.kind = "float" ->
             IF FloatBytes[from.variant] < FloatBytes[to.variant] THEN 1 ELSE 3
        [] from.kind = "integer" /\ to.kind = "float" -> 2
        [] from.kind = "float" /\ to.kind = "integer" -> 4
        [] OTHER -> 1

\* -1: cannot be called.
ConversionDistance(ts, f, args) ==
  LET ps == ts[f].parts
      cost(i) == IF Equals(ts, args[i], ps[i]) THEN 0 ELSE ConversionCost(ts, args[i], ps[i])
  IN  IF \/ Len(args) # Len(ps)
         \/ \E i \in DOMAIN args : /\ ~Equals(ts, args[i], ps[i])
                                  /\ ~CanBeImplicitlyPassedTo(ts, args[i], ps[i])
      THEN -1
      ELSE FoldLeft(+, 0, [i \in DOMAIN args |-> cost(i)])

\* The operand whose type the result of a binary operation has.
PromoteForBinaryOperation(ts, l, r) ==
  LET left == ts[l]
      right == ts[r]
      bytes == IF left.kind = "integer" THEN IntegerBytes ELSE FloatBytes
  IN  CASE left.kind = "integer" /\ right.kind = "integer" ->
             IF bytes[left.variant] # bytes[right.variant]
             THEN IF bytes[left.variant] > bytes[right.variant] THEN l ELSE r
             ELSE IF left.variant \notin Signed /\ right.variant \in Signed THEN r ELSE l
        [] left.kind = "float" /\ right.kind = "float" ->
             IF bytes[left.variant] > bytes[right.variant] THEN l ELSE r
        [] left.kind = "integer" /\ right.kind = "float" -> r
        [] left.kind = "float" /\ right.kind = "integer" -> l
        [] OTHER -> None

-----------------------------------------------------------------------------
(* Layout.  Every alignment is a power of two, for which the masks of the   *)
(* code round up.                                                           *)

AlignUp(offset, alignment) == ((offset + alignment - 1) \div alignment) * alignment

MaxAlignment(align, ps) == Max({1} \cup {align[p] : p \in Range(ps)})

NaturalEnd(size, align, ps) ==
  FoldLeft(LAMBDA end, p : AlignUp(end, align[p]) + size[p], 0, ps)

TupleSize(size, align, ps) == AlignUp(NaturalEnd(size, align, ps), MaxAlignment(align, ps))

UnionSize(size, ps) == Max({size[p] : p \in Range(ps)})

\* An empty record takes one byte.
NaturalSize(size, align, ps) ==
  IF ps = <<>> THEN 1 ELSE AlignUp(NaturalEnd(size, align, ps), MaxAlignment(align, ps))

PackedSize(size, ps) ==
  IF ps = <<>> THEN 1 ELSE FoldLeft(LAMBDA end, p : end + size[p], 0, ps)

\* The virtual calls: the class of d decides.  align and size tell of older types.
AlignAt(ts, align, d) ==
  LET t == ts[d]
  IN  CASE t.kind = "integer" -> IntegerBytes[t.variant]
        [] t.kind = "float" -> FloatBytes[t.variant]
        [] t.kind \in {"bool", "void", "auto"} -> 1
        [] t.kind = "char" -> 4
        [] t.kind \in {"pointer", "reference", "function", "class"} -> PointerSize
        [] t.kind = "array" -> IF t.count = 0 THEN PointerSize ELSE align[t.parts[1]]
        [] t.kind \in {"tuple", "union"} -> MaxAlignment(align, t.parts)
        [] t.kind = "struct" ->
             IF "packed" \in t.flags THEN 1 ELSE MaxAlignment(align, t.parts)

Alignment(ts) ==
  LET align[d \in DOMAIN ts] == AlignAt(ts, align, d)
  IN  align

SizeAt(ts, align, size, d) ==
  LET t == ts[d]
  IN  CASE t.kind = "integer" -> IntegerBytes[t.variant]
        [] t.kind = "float" -> FloatBytes[t.variant]
        [] t.kind = "bool" -> 1
        [] t.kind = "char" -> 4
        [] t.kind \in {"void", "auto"} -> 0
        [] t.kind \in {"pointer", "reference", "function", "class"} -> PointerSize
        [] t.kind = "array" -> IF t.count = 0 THEN PointerSize ELSE size[t.parts[1]] * t.count
        [] t.kind = "tuple" -> TupleSize(size, align, t.parts)
        [] t.kind = "union" -> UnionSize(size, t.parts)
        [] t.kind = "struct" ->
             IF "packed" \in t.flags THEN PackedSize(size, t.parts)
                                     ELSE NaturalSize(size, align, t.parts)

StaticSize(ts) ==
  LET align == Alignment(ts)
      size[d \in DOMAIN ts] == SizeAt(ts, align, size, d)
  IN  size

\* Where the i-th of the parts ps begins (fields are counted from 1 here).
NaturalOffset(ts, ps, i) ==
  AlignUp(NaturalEnd(StaticSize(ts), Alignment(ts), SubSeq(ps, 1, i - 1)), Alignment(ts)[ps[i]])

StructOffset(ts, s, i) ==
  IF "packed" \in ts[s].flags
  THEN FoldLeft(LAMBDA end, p : end + StaticSize(ts)[p], 0, SubSeq(ts[s].parts, 1, i - 1))
  ELSE NaturalOffset(ts, ts[s].parts, i)

-----------------------------------------------------------------------------
(* Classes: bases, fields with those of the bases, methods.                 *)

\* Mutant: only the chain of the class that is asked is walked.
FindCommonBaseOneSided(ts, c, o) ==
  LET first == SelectInSeq(Chain(ts, c), LAMBDA a : IsBaseOf(ts, a, o))
  IN  IF c = o THEN c ELSE IF first > 0 THEN Chain(ts, c)[first] ELSE None

\* The nearest on the chain of c that is a proper base of o, and otherwise the
\* nearest on the chain of o that is a proper base of c.
FindCommonBase(ts, c, o) ==
  LET first(x, y) == SelectInSeq(Chain(ts, x), LAMBDA a : IsBaseOf(ts, a, y))
  IN  IF c = o THEN c
      ELSE IF first(c, o) > 0 THEN Chain(ts, c)[first(c, o)]
      ELSE IF first(o, c) > 0 THEN Chain(ts, o)[first(o, c)]
      ELSE None

\* The position of a field among those that the class declares, 0 for none.
FieldIndex(ts, c, n) == SelectInSeq(ts[c].names, LAMBDA m : m = n)

\* The type of a field, that of the class itself before that of a base.
FieldType(ts, c, n) ==
  LET at == SelectInSeq(Chain(ts, c), LAMBDA x : FieldIndex(ts, x, n) > 0)
      owner == Chain(ts, c)[at]
  IN  IF at = 0 THEN None ELSE ts[owner].parts[FieldIndex(ts, owner, n)]

FlattenedFieldCount(ts, c) ==
  FoldLeft(LAMBDA sum, x : sum + Len(ts[x].names), 0, Chain(ts, c))

\* The position of a field among all those of the class, a base's before its own.
FlattenedFieldIndex(ts, c, n) ==
  LET index[x \in DOMAIN ts] ==
        LET b == ts[x].base
            own == FieldIndex(ts, x, n)
        IN  IF b # None /\ index[b] > 0 THEN index[b]
            ELSE IF own = 0 THEN 0
            ELSE own + (IF b = None THEN 0 ELSE FlattenedFieldCount(ts, b))
  IN  index[c]

\* Mutant: no room is left for the base class.
FlattenedFieldOffsetNoBase(ts, c, i) ==
  LET offset[x \in DOMAIN ts] ==
        LET before == FlattenedFieldCount(ts, x) - Len(ts[x].parts)
        IN  IF i <= before THEN offset[ts[x].base] ELSE NaturalOffset(ts, ts[x].parts, i - before)
  IN  offset[c]

\* The room that is left for a base class is that of the fields it declares.
FlattenedFieldOffset(ts, c, i) ==
  LET offset[x \in DOMAIN ts] ==
        LET b == ts[x].base
            before == IF b = None THEN 0 ELSE FlattenedFieldCount(ts, b)
            room == IF b = None THEN 0
                    ELSE NaturalSize(StaticSize(ts), Alignment(ts), ts[b].parts)
        IN  IF i <= before THEN offset[b]
            ELSE room + NaturalOffset(ts, ts[x].parts, i - before)
  IN  offset[c]

\* The position of a method of that name and signature, 0 for none.
MethodIndex(ts, c, m) ==
  SelectInSeq(ts[c].methods,
              LAMBDA o : o.name = m.name /\ Equals(ts, o.signature, m.signature))

\* The methods of the base are looked at, not those that the base inherits.
IsAbstract(ts, c) ==
  LET abstract[x \in DOMAIN ts] ==
        \/ "abstract" \in ts[x].flags
        \/ LET b == ts[x].base
           IN  /\ b # None /\ abstract[b] /\ "abstract" \in ts[b].flags
               /\ \E m \in Range(ts[b].methods) :
                    MethodIndex(ts, x, m) = 0 \/ "override" \notin ts[x].flags
  IN  abstract[c]

\* The class whose method a call on an object of class c reaches.
ResolveVirtualMethod(ts, c, m) ==
  LET at == SelectInSeq(Chain(ts, c), LAMBDA x : MethodIndex(ts, x, m) > 0)
  IN  IF at = 0 THEN None ELSE Chain(ts, c)[at]

=============================================================================
