----------------------------- MODULE Compiler -----------------------------
(***************************************************************************)
(* The compiler driver (src/src/compiler/compiler.cpp): compileFile,       *)
(* compileSource and importModule, one call at a time, each a sequence of  *)
(* steps between which other programs may edit the files.  The caller may  *)
(* also use the module cache directly between calls.                       *)
(*                                                                         *)
(* The parser never calls importModule, so calls do not nest; a caller     *)
(* that holds the paths of the files it is compiling on the import stack   *)
(* is what a circular import looks like.                                   *)
(***************************************************************************)
EXTENDS ModuleCache

CONSTANTS ProjectFiles,  \* paths below the project root
          LibraryFiles,  \* paths a library import can name
          PrintTokens,   \* DevOptions::printTokens
          MaxErrors      \* where the model's error counter saturates

ASSUME ModulesAssumption == Modules # {}
ASSUME PathsAssumption == ProjectFiles \cup LibraryFiles \subseteq Modules
ASSUME PrintTokensAssumption == PrintTokens \in BOOLEAN
ASSUME MaxErrorsAssumption == MaxErrors \in Nat \ {0}

VARIABLES errorCount,  \* DiagnosticLogger's error counter, never reset
          pc,          \* where the call in progress is
          call,        \* its operation, path, text and the time of reading
          reply        \* what the last call returned

compilerVars == <<errorCount, pc, call, reply>>
vars == <<fsVars, cacheVars, compilerVars>>

Ops == {"compileFile", "compileSource", "importModule"}
Steps == {"idle", "canonical", "lookup", "open", "pipeline", "store"}
Statuses == {"Success", "ParseError", "IOError", "InternalError",
             "ast", "nullptr", "exception"}

\* base and before are history fields: the import stack and the error
\* counter when the call was made.
Call == [op : Ops, path : Modules, src : Nat, kind : Kinds, readAt : Nat,
         base : Seq(Modules), before : Nat]

NoCall == [op |-> "compileSource", path |-> CHOOSE m \in Modules : TRUE,
           src |-> 0, kind |-> "clean", readAt |-> 0, base |-> <<>>, before |-> 0]

\* errors is the result's errorCount; own is a history field, the errors
\* logged between the call and its return, of which there may be none.
Reply == [status : Statuses, errors : Nat, own : Nat]

TypeOK ==
    /\ CacheTypeOK
    /\ errorCount \in Nat
    /\ pc \in Steps
    /\ call \in Call
    /\ reply \in Reply

Init ==
    /\ CacheInit
    /\ errorCount = 0
    /\ pc = "idle"
    /\ call = NoCall
    /\ reply = [status |-> "Success", errors |-> 0, own |-> 0]

-----------------------------------------------------------------------------

\* Mutant: the diagnostics are cleared for each compilation, as the comment at
\* the head of runCompilationPipeline has it.
LoggedAlone(n) == n

\* The logger's counter after n more errors
Logged(n) == IF errorCount + n < MaxErrors THEN errorCount + n ELSE MaxErrors

Begin(new, step) ==
    /\ pc = "idle"
    /\ call' = [new EXCEPT !.base = importStack, !.before = errorCount]
    /\ pc' = step
    /\ UNCHANGED <<fsVars, cacheVars, errorCount, reply>>

\* The call logs n errors and returns
Return(n, status, errors) ==
    /\ errorCount' = Logged(n)
    /\ reply' = [status |-> status, errors |-> errors,
                 own |-> Logged(n) - call.before]
    /\ call' = NoCall
    /\ pc' = "idle"

Importing == call.op = "importModule"

\* Mutant: the path is taken off by hand, where the import succeeds.
LeaveGuardOnSuccess ==
    IF Importing /\ pc = "store" THEN EndImport(call.path) ELSE UNCHANGED importStack

\* The scope that ends with a return: importModule's ImportGuard is
\* destroyed, the other operations hold none.
LeaveGuard == IF Importing THEN EndImport(call.path) ELSE UNCHANGED importStack

\* Whether the lexer, or the parser behind it, logs an error for a text
Erroneous(kind) == kind = "lexical" \/ (kind = "syntax" /\ ~PrintTokens)

LoggedByText == IF Erroneous(call.kind) THEN 1 ELSE 0

-----------------------------------------------------------------------------
(* compileSource, compileFile                                              *)

CompileSource(kind) ==
    Begin([NoCall EXCEPT !.kind = kind], "pipeline")

CompileFile(m) ==
    Begin([NoCall EXCEPT !.op = "compileFile", !.path = m], "open")

-----------------------------------------------------------------------------
(* importModule                                                            *)

\* resolveModulePath finds the file: a relative import below the project
\* root, or a library import in the library directory.
Resolves(m, style) ==
    /\ Exists(m)
    /\ IF style = "relative" THEN m \in ProjectFiles ELSE m \in LibraryFiles

ImportModule(m, style) ==
    /\ Resolves(m, style)
    /\ Begin([NoCall EXCEPT !.op = "importModule", !.path = m], "canonical")

ImportUnresolved(m, style) ==
    /\ pc = "idle"
    /\ ~Resolves(m, style)
    /\ errorCount' = Logged(1)
    /\ reply' = [status |-> "nullptr", errors |-> 0, own |-> Logged(1) - errorCount]
    /\ UNCHANGED <<fsVars, cacheVars, pc, call>>

\* std::filesystem::canonical throws when the file has gone since it was
\* resolved, and nothing catches the exception
Canonical ==
    /\ pc = "canonical"
    /\ IF Exists(call.path) THEN pc' = "lookup" /\ UNCHANGED <<call, reply, errorCount>>
                            ELSE Return(0, "exception", 0)
    /\ UNCHANGED <<fsVars, cacheVars>>

\* getCachedModule, then the ImportGuard
Lookup ==
    /\ pc = "lookup"
    /\ \/ /\ Hit(call.path)
          /\ Return(0, "ast", 0)
          /\ UNCHANGED importStack
       \/ /\ ~Hit(call.path)
          /\ BeginImport(call.path)
          /\ pc' = "open"
          /\ UNCHANGED <<errorCount, call, reply>>
       \/ /\ ~Hit(call.path)
          /\ WouldCreateCycle(call.path)
          /\ Return(1, "nullptr", 0)
          /\ UNCHANGED importStack
    /\ UNCHANGED <<fsVars, cache>>

-----------------------------------------------------------------------------
(* The steps compileFile and loadModule share.                             *)

\* Reading the text of the file as it is now
ReadFile ==
    /\ pc = "open"
    /\ Exists(call.path)
    /\ call' = [call EXCEPT !.src = disk[call.path].ver,
                            !.kind = disk[call.path].kind, !.readAt = clock]
    /\ pc' = "pipeline"
    /\ UNCHANGED <<fsVars, cacheVars, errorCount, reply>>

\* loadModule logs one more error for the module that failed to compile and
\* returns a null pointer; compileFile and compileSource return the result
Fail(n, status, errors) ==
    /\ IF Importing THEN Return(n + 1, "nullptr", 0) ELSE Return(n, status, errors)
    /\ LeaveGuard
    /\ UNCHANGED <<fsVars, cache>>

\* Mutant: a module that cannot be read is not reported.
ReadFailsSilently ==
    /\ pc = "open"
    /\ IF Importing THEN Return(0, "nullptr", 0) ELSE Return(0, "IOError", 1)
    /\ LeaveGuard
    /\ UNCHANGED <<fsVars, cache>>

\* The file cannot be opened or read: it has gone, or the system refuses
ReadFails ==
    /\ pc = "open"
    /\ IF Importing THEN Return(1, "nullptr", 0) ELSE Return(1, "IOError", 1)
    /\ LeaveGuard
    /\ UNCHANGED <<fsVars, cache>>

\* The file is a directory: it opens, but reading it throws, and nothing catches
\* the exception
ReadThrows ==
    /\ pc = "open"
    /\ Return(0, "exception", 0)
    /\ LeaveGuard
    /\ UNCHANGED <<fsVars, cache>>

\* runCompilationPipeline looks at the logger's counter, not at the errors of
\* the text it compiled
PipelineFails ==
    /\ pc = "pipeline"
    /\ errorCount + LoggedByText > 0
    /\ Fail(LoggedByText, "ParseError", Logged(LoggedByText))

\* An exception, std::bad_alloc say, reaches its catch clause, before or after
\* the error of the text is logged
PipelineThrows ==
    /\ pc = "pipeline"
    /\ \E n \in 0 .. LoggedByText : Fail(n + 1, "InternalError", 1)

\* Mutants: an AST is enough; only the errors of this text count.
PipelineSucceedsAnyway ==
    /\ pc = "pipeline"
    /\ IF Importing THEN pc' = "store" /\ UNCHANGED <<call, reply, errorCount>>
                    ELSE Return(0, "Success", 0)
    /\ UNCHANGED <<fsVars, cacheVars>>
PipelineSucceedsAlone ==
    /\ pc = "pipeline"
    /\ LoggedByText = 0
    /\ IF Importing THEN pc' = "store" /\ UNCHANGED <<call, reply, errorCount>>
                    ELSE Return(0, "Success", 0)
    /\ UNCHANGED <<fsVars, cacheVars>>

PipelineSucceeds ==
    /\ pc = "pipeline"
    /\ errorCount + LoggedByText = 0
    /\ IF Importing THEN pc' = "store" /\ UNCHANGED <<call, reply, errorCount>>
                    ELSE Return(0, "Success", 0)
    /\ UNCHANGED <<fsVars, cacheVars>>

\* loadModule caches the AST, with the modification time the file has now,
\* and returns it; with printTokens the AST is null
Store ==
    /\ pc = "store"
    /\ CacheModule(call.path, call.src, call.kind, PrintTokens, 0, call.readAt)
    /\ Return(0, IF PrintTokens THEN "nullptr" ELSE "ast", 0)
    /\ LeaveGuard
    /\ UNCHANGED fsVars

-----------------------------------------------------------------------------
(* The caller's own use of getModuleCache(), between calls.                *)

CallerBegins(m) ==
    /\ pc = "idle"
    /\ BeginImport(m)
    /\ UNCHANGED <<fsVars, cache, compilerVars>>

CallerEnds(m) ==
    /\ pc = "idle"
    /\ EndImport(m)
    /\ UNCHANGED <<fsVars, cache, compilerVars>>

CallerChangesCache ==
    /\ pc = "idle"
    /\ \/ \E m \in Modules : RemoveModule(m) \/ InvalidateIfModified(m)
       \/ InvalidateModified
       \/ Clear
    /\ UNCHANGED compilerVars

Environment ==
    /\ \/ \E m \in Modules, kind \in Kinds : Edit(m, kind)
       \/ \E m \in Modules : Delete(m)
       \/ Tick
    /\ UNCHANGED compilerVars

Next ==
    \/ \E kind \in Kinds : CompileSource(kind)
    \/ \E m \in Modules :
          \/ CompileFile(m)
          \/ \E style \in {"relative", "library"} :
                ImportModule(m, style) \/ ImportUnresolved(m, style)
          \/ CallerBegins(m)
          \/ CallerEnds(m)
    \/ Canonical
    \/ Lookup
    \/ ReadFile
    \/ ReadFails
    \/ ReadThrows
    \/ PipelineFails
    \/ PipelineThrows
    \/ PipelineSucceeds
    \/ Store
    \/ CallerChangesCache
    \/ Environment

Spec == Init /\ [][Next]_vars

-----------------------------------------------------------------------------
(* Properties                                                              *)

\* What a caller sees of the driver: a call takes effect when it returns, and
\* until then the import stack is the one that the call found.
L == INSTANCE Loader WITH compiled <- [m \in DOMAIN cache |-> cache[m].src],
                          imports <- IF pc = "idle" THEN importStack ELSE call.base,
                          failed <- errorCount > 0,
                          answer <- reply.status,
                          Asts <- Nat

\* Whatever happens to the files between the steps of a call, the call as a
\* whole is one step of the abstract loader: it succeeds only while nothing was
\* logged, keeps what it compiled only then, is never for a module that its
\* caller is importing, leaves a failure logged and the import stack as it was.
ImplementsLoader == L!Spec

\* ModuleCache::beginImport and the guard keep a path from being on the
\* import stack twice, whatever the caller and the calls do in between.
NoPathImportedTwice == IsInjective(importStack)

\* From its ImportGuard to its return, an importModule call has exactly its
\* own path on top of the stack it found: nothing it calls unbalances it.
GuardHeld ==
    pc \in {"open", "pipeline", "store"} =>
        importStack = IF Importing THEN Append(call.base, call.path) ELSE call.base

\* Every way out of a call, through a hit, a refusal, a failure, an exception
\* or a success, leaves the import stack as the call found it.
StackRestored ==
    [][pc # "idle" /\ pc' = "idle" => importStack' = call.base]_vars

\* loadModule caches only what compiled without an error, and an AST that is
\* null only when the tokens are printed.
OnlyCleanModulesCached ==
    \A m \in DOMAIN cache :
        /\ cache[m].errorCount = 0
        /\ ~Erroneous(cache[m].kind)
        /\ cache[m].null = PrintTokens

\* CachedModule::isValid compares modification times only.  An entry that it
\* accepts is the AST of the text now in the file, unless that text was
\* written while the module was being loaded, to the tick of the clock.
HitIsCurrentUnlessEditedWhileLoading ==
    \A m \in DOMAIN cache :
        IsCached(m) /\ cache[m].src # disk[m].ver =>
            /\ cache[m].readAt <= disk[m].mtime
            /\ disk[m].mtime <= cache[m].storedAt

\* The logger's counter is never reset: once an error is logged no call
\* succeeds in compiling anything, and no module is cached any more.
NothingCompilesAfterError ==
    [][errorCount > 0 =>
          /\ pc # "idle" /\ pc' = "idle" => reply'.status # "Success"
          /\ \A m \in DOMAIN cache' : m \in DOMAIN cache /\ cache'[m] = cache[m]]_vars

\* A call that fails has left an error in the logger, except those whose path
\* vanished under canonical or is a directory, which throw instead.
FailureIsLogged ==
    reply.status \in {"ParseError", "IOError", "InternalError"}
        \/ (reply.status = "nullptr" /\ ~PrintTokens) => errorCount > 0

=============================================================================
