--------------------------- MODULE MCTypeRegistry ---------------------------
(***************************************************************************)
(* Callers of the registry for TLC: each asks for the types of one part of *)
(* the type system.                                                        *)
(***************************************************************************)
EXTENDS TypeRegistry

Integers8(kinds) == {[Plain EXCEPT !.kind = "integer", !.variant = v] : v \in kinds}

Floats(kinds) == {[Plain EXCEPT !.kind = "float", !.variant = v] : v \in kinds}

Simple(kinds) == {[Plain EXCEPT !.kind = k] : k \in kinds}

NoRecords == [primitives |-> {}, getters |-> {}, bound |-> 0, names |-> {},
              fieldLists |-> {}, fieldKinds |-> {}, methods |-> {}, flags |-> {},
              arities |-> {}, counts |-> {}]

\* Pointers, references and arrays, of each other too.
Indirect == [NoRecords EXCEPT !.primitives = Integers8({"i8", "i64"}),
               !.getters = {"pointer", "reference", "array", "clear"}, !.bound = 4,
               !.counts = {0, 2, 3}]

Products == [NoRecords EXCEPT !.primitives = Integers8({"i8", "i64"}) \cup Simple({"char"}),
               !.getters = {"tuple", "array", "clear"}, !.bound = 4, !.arities = {0, 1, 2},
               !.counts = {2}]

Unions == [NoRecords EXCEPT !.primitives = Integers8({"i8", "i64"}) \cup Simple({"bool"}),
             !.getters = {"union", "clear"}, !.bound = 4, !.arities = {0, 1, 2}]

Functions2 == [NoRecords EXCEPT !.primitives = Integers8({"i8"}) \cup Simple({"void"}),
                 !.getters = {"function", "clear"}, !.bound = 3, !.arities = {0, 1, 2}]

\* Every kind of number as operand, argument and parameter.
Numbers == [NoRecords EXCEPT
              !.primitives = Integers8({"i8", "u8", "u32", "i32", "auto"})
                               \cup Floats({"f32", "f64", "auto"}) \cup Simple({"char", "auto"}),
              !.getters = {"function", "clear"}, !.bound = 3, !.arities = {1}]

Structs == [NoRecords EXCEPT !.primitives = Integers8({"i8", "i64"}),
              !.getters = {"struct", "array", "clear"}, !.bound = 4, !.names = {"S"},
              !.counts = {3},
              !.fieldLists = {<<>>, <<"x", "y">>}, !.fieldKinds = {"integer", "struct", "array"},
              !.flags = {{}, {"packed"}}]

\* Chains of classes with fields.
Classes == [NoRecords EXCEPT !.primitives = Integers8({"i8", "i64"}),
              !.getters = {"class"}, !.bound = 5, !.names = {"A"},
              !.fieldLists = {<<>>, <<"x">>, <<"y", "x">>}, !.fieldKinds = {"integer"},
              !.flags = {{}}]

\* Chains of classes with a method.
Virtual == [NoRecords EXCEPT !.primitives = Simple({"void"}),
              !.getters = {"function", "class", "clear"}, !.bound = 4, !.names = {"A"},
              !.fieldLists = {<<>>}, !.methods = {"m"}, !.arities = {0},
              !.flags = {{}, {"abstract"}, {"override"}}]

AllOffers == {Indirect, Products, Unions, Functions2, Numbers, Structs, Classes, Virtual}

ClassOffers == {Classes}

=============================================================================
