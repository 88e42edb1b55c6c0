------------------------------- MODULE Loader -------------------------------
(***************************************************************************)
(* What the compiler driver promises its caller, whatever happens to the   *)
(* files: each call is one step.  A call that compiles something succeeds  *)
(* only while no error has been logged, keeps what it compiled only then,  *)
(* and never for a module that its caller is importing; a failure is       *)
(* logged; and no call changes which modules the caller is importing.      *)
(* Compiler shows that the driver, whose calls take many steps and push    *)
(* and pop the import stack themselves, implements this.                   *)
(***************************************************************************)
EXTENDS Sequences, SequencesExt

CONSTANTS Modules,  \* canonical paths
          Asts      \* what is kept of a compiled module

VARIABLES compiled,  \* module -> its AST, for the modules that are kept
          imports,   \* the modules the caller is importing, outermost first
          failed,    \* whether an error has been logged
          answer     \* what the last call returned

vars == <<compiled, imports, failed, answer>>

Init ==
    /\ compiled = <<>>
    /\ imports = <<>>
    /\ failed = FALSE
    /\ answer = "Success"

-----------------------------------------------------------------------------
(* Calls.                                                                  *)

\* A module that is kept is answered from there, after errors too
Find(m) ==
    /\ m \in DOMAIN compiled
    /\ answer' = "ast"
    /\ UNCHANGED <<compiled, imports, failed>>

\* Compiling without keeping the result
Compile ==
    /\ ~failed
    /\ answer' = "Success"
    /\ UNCHANGED <<compiled, imports, failed>>

\* Compiling an import; without an AST where the tokens are printed only
Keep(m) ==
    /\ ~failed
    /\ m \notin ToSet(imports)
    /\ DOMAIN compiled' = DOMAIN compiled \cup {m}
    /\ compiled'[m] \in Asts
    /\ \A x \in DOMAIN compiled \ {m} : compiled'[x] = compiled[x]
    /\ answer' \in {"ast", "nullptr"}
    /\ UNCHANGED <<imports, failed>>

Fail ==
    /\ failed' = TRUE
    /\ answer' \in {"ParseError", "IOError", "InternalError", "nullptr"}
    /\ UNCHANGED <<compiled, imports>>

\* An exception that nothing catches leaves everything as it was
Throw ==
    /\ answer' = "exception"
    /\ UNCHANGED <<compiled, imports, failed>>

-----------------------------------------------------------------------------
(* The caller's own use of the module cache.                               *)

Import(m) ==
    /\ m \notin ToSet(imports)
    /\ imports' = Append(imports, m)
    /\ UNCHANGED <<compiled, failed, answer>>

Imported(m) ==
    /\ \E i \in DOMAIN imports : imports[i] = m /\ imports' = RemoveAt(imports, i)
    /\ UNCHANGED <<compiled, failed, answer>>

Forget ==
    /\ \E S \in SUBSET Modules : compiled' = [x \in DOMAIN compiled \ S |-> compiled[x]]
    /\ imports' \in {imports, <<>>}
    /\ UNCHANGED <<failed, answer>>

Next ==
    \/ \E m \in Modules : Find(m) \/ Keep(m) \/ Import(m) \/ Imported(m)
    \/ Compile \/ Fail \/ Throw \/ Forget

Spec == Init /\ [][Next]_vars

=============================================================================
