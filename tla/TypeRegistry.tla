---------------------------- MODULE TypeRegistry ----------------------------
(***************************************************************************)
(* The type registry (src/src/types/type.cpp): one instance of every type  *)
(* that is asked for.  A getter compares what is asked, a temporary, with  *)
(* the instances of its own set by equals and allocates only when none is  *)
(* equal.  clear() empties the sets; the arena, and with it every pointer  *)
(* handed out before, stays.                                               *)
(***************************************************************************)
EXTENDS Types

CONSTANT Offers     \* the requests a caller may make, see OffersAssumption

\* An offer: the primitive types, the calls made besides, the bound on the types
\* allocated, and what the other arguments of the calls are drawn from.
ASSUME OffersAssumption ==
  \A o \in Offers :
    /\ DOMAIN o = {"primitives", "getters", "bound", "names", "fieldLists",
                   "fieldKinds", "methods", "flags", "arities",
                   "counts"}
    /\ o.primitives \subseteq Primitives
    /\ o.names \cup o.methods \subseteq STRING
    /\ o.fieldLists \subseteq Seq(STRING)
    /\ o.flags \subseteq SUBSET STRING
    /\ o.arities \cup o.counts \cup {o.bound} \subseteq Nat

VARIABLES
  types,        \* every type object in arena_, the oldest first
  registered,   \* the objects that a set or a cached pointer of the registry refers to
  offer         \* the requests of this caller, fixed at the start

vars == <<types, registered, offer>>

Ids == DOMAIN types

OfKind(kind) == {d \in Ids : types[d].kind = kind}

Init ==
  /\ types = <<>>
  /\ registered = {}
  /\ offer \in Offers

\* Mutant: what is asked is compared by the addresses of its parts.
LookupByAddress(asked) == {r \in registered : types[r] = asked}

\* The registered instance that equals what is asked, which is compared as a
\* temporary object, in the set of its own kind.
Lookup(asked) ==
  LET ts == Append(types, asked)
  IN  {r \in registered : types[r].kind = asked.kind /\ Equals(ts, r, Len(ts))}

\* The type a getter returns.
Answer(asked) ==
  IF Lookup(asked) = {} THEN Len(types) + 1 ELSE CHOOSE r \in Lookup(asked) : TRUE

Get(asked) ==
  /\ UNCHANGED offer
  /\ IF Lookup(asked) # {}
     THEN UNCHANGED <<types, registered>>
     ELSE /\ Len(types) < offer.bound
          /\ types' = Append(types, asked)
          /\ registered' = registered \cup {Len(types) + 1}

GetPrimitive == \E p \in offer.primitives : Get(p)

\* A pointer to a reference is a pointer to what is referred to.
Referent(p) ==
  LET referent[x \in Ids] ==
        IF types[x].kind = "reference" THEN referent[types[x].parts[1]] ELSE x
  IN  referent[p]

\* Mutant: a pointer to a reference is made as it is asked for.
GetPointerTypeUncollapsed ==
  /\ "pointer" \in offer.getters
  /\ \E p \in Ids : Get([Plain EXCEPT !.kind = "pointer", !.parts = <<p>>])

GetPointerType ==
  /\ "pointer" \in offer.getters
  /\ \E p \in Ids : Get([Plain EXCEPT !.kind = "pointer", !.parts = <<Referent(p)>>])

\* There is no reference to a pointer: null is returned.
GetReferenceType ==
  /\ "reference" \in offer.getters
  /\ \E p \in Ids \ OfKind("pointer") :
       Get([Plain EXCEPT !.kind = "reference", !.parts = <<p>>])

GetArrayType ==
  /\ "array" \in offer.getters
  /\ \E p \in Ids, n \in offer.counts :
       Get([Plain EXCEPT !.kind = "array", !.parts = <<p>>, !.count = n])

\* The lists of types a caller passes, of the lengths of the offer.
Lists == UNION {[1..n -> Ids] : n \in offer.arities}

\* For no elements null is returned.
GetTupleType ==
  /\ "tuple" \in offer.getters
  /\ \E ps \in Lists \ {<<>>} : Get([Plain EXCEPT !.kind = "tuple", !.parts = ps])

GetUnionType ==
  /\ "union" \in offer.getters
  /\ \E ps \in Lists \ {<<>>} : Get([Plain EXCEPT !.kind = "union", !.parts = ps])

GetFunctionType ==
  /\ "function" \in offer.getters
  /\ \E ps \in Lists, r \in Ids :
       Get([Plain EXCEPT !.kind = "function", !.parts = ps, !.ret = r])

\* The records of the offer: a name, named fields, at most one method, flags.
Fields ==
  LET fieldTypes == {p \in Ids : types[p].kind \in offer.fieldKinds}
  IN  UNION {[names : {ns}, parts : [1..Len(ns) -> fieldTypes]] : ns \in offer.fieldLists}

Methods == {<<>>} \cup
  {<<[name |-> m, signature |-> s]>> : m \in offer.methods, s \in OfKind("function")}

Record(kind, f, ms, n, flags) ==
  [Plain EXCEPT !.kind = kind, !.name = n, !.names = f.names, !.parts = f.parts,
                !.methods = ms, !.flags = flags]

GetStructType ==
  /\ "struct" \in offer.getters
  /\ \E f \in Fields, ms \in Methods, n \in offer.names, flags \in offer.flags :
       Get(Record("struct", f, ms, n, flags))

GetClassType ==
  /\ "class" \in offer.getters
  /\ \E f \in Fields, ms \in Methods, n \in offer.names, flags \in offer.flags,
        b \in OfKind("class") \cup {None} :
       Get([Record("class", f, ms, n, flags) EXCEPT !.base = b])

Clear ==
  /\ "clear" \in offer.getters
  /\ registered # {}
  /\ registered' = {}
  /\ UNCHANGED <<types, offer>>

Next ==
  \/ GetPrimitive
  \/ GetPointerType
  \/ GetReferenceType
  \/ GetArrayType
  \/ GetTupleType
  \/ GetUnionType
  \/ GetFunctionType
  \/ GetStructType
  \/ GetClassType
  \/ Clear

Spec == Init /\ [][Next]_vars

-----------------------------------------------------------------------------
(* Properties.                                                              *)

Rel == Relation(types)

Size == StaticSize(types)

Align == Alignment(types)

\* The objects are well formed: they are built from older ones only, a pointer
\* never points to a reference and no reference refers to a pointer; what is
\* registered exists (the getters of src/src/types/type.cpp).
TypeOK ==
  /\ offer \in Offers
  /\ types \in Seq(Object)
  /\ registered \subseteq Ids
  /\ \A d \in Ids :
       LET t == types[d]
       IN  /\ Range(t.parts) \subseteq 1..(d - 1)
           /\ t.ret \in 0..(d - 1) /\ t.base \in 0..(d - 1)
           /\ \A m \in Range(t.methods) : m.signature \in 1..(d - 1)
           /\ t.base # None => t.kind = "class" /\ types[t.base].kind = "class"
           /\ t.kind = "pointer" => types[t.parts[1]].kind # "reference"
           /\ t.kind = "reference" => types[t.parts[1]].kind # "pointer"
           /\ Len(t.names) = (IF t.kind \in {"struct", "class"} THEN Len(t.parts) ELSE 0)

\* No two instances that the registry refers to at one time are equal, those
\* that were built from parts handed out before and after a clear() included
\* ("types should be unique instances", src/include/cxy/types/kind.hpp:122).
TypesAreUnique ==
  \A d, e \in registered : d # e /\ types[d].kind = types[e].kind => ~Rel[<<"equals", d, e>>]

\* Which of several equal objects is used makes no difference: equality is
\* symmetric, equal types have one layout and answer every question about any
\* third type alike.  Classes are left out: they compare bases by address.
EqualTypesInterchangeable ==
  OfKind("class") = {} =>
    \A d, e \in Ids :
      d # e /\ Rel[<<"equals", d, e>>] =>
        /\ Rel[<<"equals", e, d>>]
        /\ Size[d] = Size[e] /\ Align[d] = Align[e]
        /\ \A k \in Questions, x \in Ids : /\ Rel[<<k, d, x>>] = Rel[<<k, e, x>>]
                                           /\ Rel[<<k, x, d>>] = Rel[<<k, x, e>>]

\* Implicit conversion goes one way: two types that convert to each other
\* implicitly are equal.  Unions are left out: they convert whatever the order
\* of their variants and are equal in one order only.
ImplicitConversionIsOneWay ==
  OfKind("union") = {} =>
    \A d, e \in Ids :
      Rel[<<"implicit", d, e>>] /\ Rel[<<"implicit", e, d>>] => Rel[<<"equals", d, e>>]

\* canBeCalledWith and getConversionDistance agree on which calls are possible,
\* and only the call whose argument types are those of the parameters is free.
CallIffDistance ==
  \A f \in OfKind("function") :
    \A args \in UNION {[1..n -> Ids] : n \in 0..Len(types[f].parts) + 1} :
      LET distance == ConversionDistance(types, f, args)
      IN  /\ CanBeCalledWith(types, f, args) <=> distance >= 0
          /\ distance = 0 <=> Elementwise(Rel, "equals", args, types[f].parts)

\* The fields of a struct follow one another without overlap, lie within it and
\* are aligned unless it is packed; and elements of an array stay aligned, since
\* a size is a multiple of the alignment as long as no union is involved.
FieldsFit ==
  /\ \A s \in OfKind("struct") :
       LET ps == types[s].parts
           start(i) == StructOffset(types, s, i)
       IN  \A i \in DOMAIN ps :
             /\ start(i) + Size[ps[i]] <= (IF i = Len(ps) THEN Size[s] ELSE start(i + 1))
             /\ "packed" \notin types[s].flags =>
                  start(i) % Align[ps[i]] = 0 /\ Align[s] % Align[ps[i]] = 0
  /\ OfKind("union") = {} => \A d \in Ids : Size[d] % Align[d] = 0

\* findCommonBase finds a class that both are or derive from whenever there is
\* one, and the nearest of them.  Only where the class that is asked derives from
\* the other it passes over the other for one above, which is not "the most
\* immediate common base" (src/tests/types/test_class_types.cpp:323).
CommonBaseFound ==
  \A c, o \in OfKind("class") :
    LET found == FindCommonBase(types, c, o)
        common == {a \in Range(Chain(types, c)) : a \in Range(Chain(types, o))}
    IN  /\ found = None <=> common = {}
        /\ found # None =>
             /\ found \in common
             /\ \A a \in common : \/ a = found \/ IsBaseOf(types, a, found)
                                  \/ a = o /\ IsBaseOf(types, o, c)

\* The view of a class for code generation agrees with that of the checker: a
\* field that is declared once has the type getFieldType tells at its flattened
\* index, and with a single base the flattened fields do not overlap.
FlattenedViewAgrees ==
  \A c \in OfKind("class") :
    LET classes == Reverse(Chain(types, c))
        names == FlattenSeq([i \in DOMAIN classes |-> types[classes[i]].names])
        parts == FlattenSeq([i \in DOMAIN classes |-> types[classes[i]].parts])
    IN  /\ \A i \in DOMAIN names :
             (\A j \in DOMAIN names : names[j] = names[i] => j = i) =>
               /\ FlattenedFieldIndex(types, c, names[i]) = i
               /\ FieldType(types, c, names[i]) = parts[i]
        /\ Len(classes) <= 2 =>
             \A i \in 1..(Len(parts) - 1) :
               FlattenedFieldOffset(types, c, i) + Size[parts[i]]
                 <= FlattenedFieldOffset(types, c, i + 1)

\* A call on an object of a class that isAbstract lets be instantiated never
\* reaches a method that its abstract base declares: the class has it itself.
\* The comment in isAbstract (composite.cpp:1259) says so of all bases; the code
\* asks for the methods of the direct one only, and only if it has the flag.
ConcreteOverridesItsBase ==
  \A c \in OfKind("class") :
    LET b == types[c].base
    IN  b # None /\ "abstract" \in types[b].flags /\ ~IsAbstract(types, c) =>
          \A m \in Range(types[b].methods) : ResolveVirtualMethod(types, c, m) = c

\* The type of a binary operation does not depend on the order of the operands,
\* and either operand can be passed for it (kinds still to be inferred left out).
PromotionIsFair ==
  LET settled == {d \in Ids : types[d].variant # "auto"}
  IN  \A l, r \in settled :
        LET p == PromoteForBinaryOperation(types, l, r)
        IN  p # None =>
              /\ \A d \in {l, r} : CanBeImplicitlyPassedTo(types, d, p) \/ Rel[<<"equals", d, p>>]
              /\ Rel[<<"equals", p, PromoteForBinaryOperation(types, r, l)>>]

\* No two fields of an object share a byte, whatever classes it inherits from
\* ("Layout: [base_fields...] [this_class_fields...]",
\* src/src/types/composite.cpp:1336).
FlattenedFieldsDisjoint ==
  \A c \in OfKind("class") :
    LET classes == Reverse(Chain(types, c))
        parts == FlattenSeq([i \in DOMAIN classes |-> types[classes[i]].parts])
    IN  \A i \in 1..(Len(parts) - 1) :
          FlattenedFieldOffset(types, c, i) + Size[parts[i]]
            <= FlattenedFieldOffset(types, c, i + 1)

\* Equal types are as good as one; implicit conversion, the choice of a call and
\* promotion agree with equality and with one another.
ConversionsAgree ==
  /\ EqualTypesInterchangeable
  /\ ImplicitConversionIsOneWay
  /\ CallIffDistance
  /\ PromotionIsFair

\* The layouts of structs and of classes have room for every field.
LayoutsFit == FieldsFit /\ FlattenedViewAgrees

\* The questions about the bases of a class are answered from all of them.
HierarchyAnswers == CommonBaseFound /\ ConcreteOverridesItsBase

=============================================================================
