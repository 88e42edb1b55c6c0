-------------------------- MODULE CompilerProofs --------------------------
(***************************************************************************)
(* Proofs about the compiler driver: its type invariant, the discipline of *)
(* the import stack, what the cache may hold, and when a cache hit is the  *)
(* AST of the file as it is.                                               *)
(***************************************************************************)
EXTENDS Compiler, SequenceTheorems, TLAPS

-----------------------------------------------------------------------------
(* Partial maps and the import stack.                                      *)

LEMMA UpdatePartialMap ==
    ASSUME NEW T, NEW f, PartialMap(f, T), NEW m \in Modules, NEW v \in T
    PROVE  PartialMap(Update(f, m, v), T)
BY DEF PartialMap, Update

LEMMA ErasePartialMap ==
    ASSUME NEW T, NEW f, PartialMap(f, T), NEW S
    PROVE  PartialMap(Erase(f, S), T)
BY DEF PartialMap, Erase

\* On a stack without repetitions endImport removes the one position that
\* holds the path.
LEMMA EndImportCases ==
    ASSUME NEW m, importStack \in Seq(Modules), IsInjective(importStack), EndImport(m)
    PROVE  \/ m \notin Range(importStack) /\ importStack' = importStack
           \/ \E i \in DOMAIN importStack :
                 importStack[i] = m /\ importStack' = RemoveAt(importStack, i)
<1> DEFINE First(i) == /\ importStack[i] = m
                       /\ \A j \in 1 .. i - 1 : importStack[j] # m
<1>1. CASE m \notin Range(importStack)
  BY <1>1 DEF EndImport, WouldCreateCycle
<1>2. CASE m \in Range(importStack)
  <2>1. \E i \in DOMAIN importStack : First(i)
    BY <1>2 DEF Range, IsInjective
  <2>2. PICK k \in DOMAIN importStack :
              First(k) /\ importStack' = RemoveAt(importStack, k)
    <3> HIDE DEF First
    <3> DEFINE k == CHOOSE i \in DOMAIN importStack : First(i)
    <3>1. k \in DOMAIN importStack /\ First(k)
      BY <2>1
    <3>2. importStack' = RemoveAt(importStack, k)
      BY <1>2 DEF EndImport, WouldCreateCycle, First
    <3> QED
      BY <3>1, <3>2
  <2> QED
    BY <2>2
<1> QED
  BY <1>1, <1>2

\* Removing a position keeps a stack of paths without repetitions one.
LEMMA RemoveAtInjective ==
    ASSUME NEW s \in Seq(Modules), IsInjective(s), NEW i \in DOMAIN s
    PROVE  RemoveAt(s, i) \in Seq(Modules) /\ IsInjective(RemoveAt(s, i))
<1> DEFINE head == SubSeq(s, 1, i - 1)
           tail == SubSeq(s, i + 1, Len(s))
<1>1. i \in 1 .. Len(s) /\ Len(s) \in Nat
  OBVIOUS
<1>2. /\ head \in Seq(Modules) /\ Len(head) = i - 1
      /\ \A j \in 1 .. i - 1 : head[j] = s[j]
  BY <1>1, SubSeqProperties
<1>3. /\ tail \in Seq(Modules) /\ Len(tail) = Len(s) - i
      /\ \A j \in 1 .. Len(s) - i : tail[j] = s[j + i]
  BY <1>1, SubSeqProperties
<1>4. RemoveAt(s, i) = head \o tail
  BY DEF RemoveAt
<1> HIDE DEF head, tail
<1>5. /\ RemoveAt(s, i) \in Seq(Modules)
      /\ Len(RemoveAt(s, i)) = Len(s) - 1
      /\ \A j \in 1 .. Len(s) - 1 :
            RemoveAt(s, i)[j] = IF j < i THEN s[j] ELSE s[j + 1]
  BY <1>1, <1>2, <1>3, <1>4
<1>6. \A j, k \in 1 .. Len(s) : s[j] = s[k] => j = k
  BY DEF IsInjective
<1>7. \A j, k \in 1 .. Len(s) - 1 : RemoveAt(s, i)[j] = RemoveAt(s, i)[k] => j = k
  BY <1>1, <1>5, <1>6
<1>8. DOMAIN RemoveAt(s, i) = 1 .. Len(s) - 1
  BY <1>5
<1> QED
  BY <1>5, <1>7, <1>8 DEF IsInjective

LEMMA EndImportInjective ==
    ASSUME NEW m, importStack \in Seq(Modules), IsInjective(importStack), EndImport(m)
    PROVE  importStack' \in Seq(Modules) /\ IsInjective(importStack')
BY EndImportCases, RemoveAtInjective

LEMMA BeginImportInjective ==
    ASSUME NEW m \in Modules, importStack \in Seq(Modules), IsInjective(importStack),
           BeginImport(m)
    PROVE  importStack' \in Seq(Modules) /\ IsInjective(importStack')
BY DEF BeginImport, WouldCreateCycle, Range, IsInjective

\* A guard that pushed its path pops exactly that.
LEMMA GuardRestores ==
    ASSUME NEW base \in Seq(Modules), NEW m \in Modules,
           importStack = Append(base, m), IsInjective(importStack), EndImport(m)
    PROVE  importStack' = base
<1>1. importStack[Len(base) + 1] = m /\ Len(base) + 1 \in DOMAIN importStack
  OBVIOUS
<1>2. importStack' = RemoveAt(importStack, Len(base) + 1)
  BY <1>1, EndImportCases DEF IsInjective, Range
<1> QED
  BY <1>2 DEF RemoveAt

-----------------------------------------------------------------------------
(* The inductive invariant.                                                *)

\* GuardHeld with the steps before the guard exists; only an import looks up,
\* holds a guard and stores.
StackInv ==
    /\ pc # "idle" =>
          importStack = IF Importing /\ pc \in {"open", "pipeline", "store"}
                        THEN Append(call.base, call.path) ELSE call.base
    /\ pc \in {"canonical", "lookup", "store"} => Importing

\* What is about to be stored compiled without an error.
StoreInv == pc = "store" => errorCount = 0 /\ ~Erroneous(call.kind)

\* A text read at a time is the file's text, unless the file was written at
\* that time or later.
ReadSince(m, src, readAt) ==
    Exists(m) /\ src # disk[m].ver => readAt <= disk[m].mtime

\* Everything recorded was recorded in the past, in the order read, stored.
TimeInv ==
    /\ \A m \in DOMAIN disk : disk[m].mtime <= clock
    /\ \A m \in DOMAIN cache :
          /\ cache[m].readAt <= cache[m].storedAt
          /\ cache[m].stamp <= cache[m].storedAt
          /\ cache[m].storedAt <= clock
          /\ ReadSince(m, cache[m].src, cache[m].readAt)
    /\ pc \in {"pipeline", "store"} /\ Importing =>
          /\ call.readAt <= clock
          /\ ReadSince(call.path, call.src, call.readAt)

\* The counter only grows, up to where it saturates.
CountInv == call.before <= errorCount /\ errorCount <= MaxErrors

IInv ==
    /\ TypeOK
    /\ CountInv
    /\ NoPathImportedTwice
    /\ StackInv
    /\ OnlyCleanModulesCached
    /\ StoreInv
    /\ TimeInv
    /\ FailureIsLogged

LEMMA NoCallType == NoCall \in Call
BY ModulesAssumption DEF NoCall, Call, Ops, Kinds

LEMMA InitInv == Init => IInv
<1> SUFFICES ASSUME Init PROVE IInv
  OBVIOUS
<1> USE DEF Init, CacheInit
<1>1. TypeOK
  BY NoCallType DEF TypeOK, CacheTypeOK, PartialMap, Reply, Statuses, Steps
<1>2. CountInv
  BY MaxErrorsAssumption DEF CountInv, NoCall
<1>3. NoPathImportedTwice /\ OnlyCleanModulesCached /\ FailureIsLogged
  BY DEF NoPathImportedTwice, IsInjective, OnlyCleanModulesCached, FailureIsLogged
<1>4. StackInv /\ StoreInv /\ TimeInv
  BY DEF StackInv, StoreInv, TimeInv
<1> QED
  BY <1>1, <1>2, <1>3, <1>4 DEF IInv

\* What logging errors does to the counter.
LEMMA LoggedErrors ==
    ASSUME errorCount \in Nat, errorCount <= MaxErrors, NEW n \in Nat
    PROVE  /\ Logged(n) \in Nat
           /\ errorCount <= Logged(n) /\ Logged(n) <= MaxErrors
           /\ n > 0 \/ errorCount > 0 => Logged(n) > 0
BY MaxErrorsAssumption DEF Logged

\* A call that returns keeps the invariant when it leaves the files and the
\* cache alone, and the import stack without repetitions, and when a failure
\* has been logged.
LEMMA ReturnInv ==
    ASSUME IInv, NEW n \in Nat, NEW status \in Statuses, NEW errors \in Nat,
           Return(n, status, errors), UNCHANGED <<fsVars, cache>>,
           importStack' \in Seq(Modules), IsInjective(importStack'),
           status \in {"ParseError", "IOError", "InternalError", "nullptr"} =>
               n > 0 \/ errorCount > 0 \/ (status = "nullptr" /\ PrintTokens)
    PROVE  IInv'
<1>1. /\ errorCount' \in Nat /\ errorCount <= errorCount' /\ errorCount' <= MaxErrors
      /\ n > 0 \/ errorCount > 0 => errorCount' > 0
  BY LoggedErrors DEF IInv, TypeOK, CountInv, Return
<1>2. reply' \in Reply /\ reply'.status = status
  BY <1>1 DEF IInv, TypeOK, CountInv, Return, Reply, Call
<1>3. call' \in Call /\ call'.before = 0 /\ pc' = "idle"
  BY NoCallType DEF Return, NoCall
<1>4. TypeOK'
  BY <1>1, <1>2, <1>3 DEF IInv, TypeOK, CacheTypeOK, PartialMap, fsVars, Steps
<1>5. CountInv' /\ FailureIsLogged'
  BY <1>1, <1>2, <1>3 DEF CountInv, FailureIsLogged
<1>6. NoPathImportedTwice' /\ StackInv' /\ StoreInv'
  BY <1>3 DEF NoPathImportedTwice, StackInv, StoreInv
<1>7. OnlyCleanModulesCached'
  BY DEF IInv, OnlyCleanModulesCached, Erroneous
<1>8. TimeInv'
  BY <1>3 DEF IInv, TimeInv, ReadSince, Exists, fsVars
<1> QED
  BY <1>4, <1>5, <1>6, <1>7, <1>8 DEF IInv

\* Where a call ends, its guard gives back the stack it found.
LEMMA LeaveGuardRestores ==
    ASSUME IInv, pc \in {"open", "pipeline", "store"}, LeaveGuard
    PROVE  /\ importStack' = call.base
           /\ importStack' \in Seq(Modules) /\ IsInjective(importStack')
<1>1. importStack \in Seq(Modules) /\ IsInjective(importStack)
  BY DEF IInv, TypeOK, CacheTypeOK, NoPathImportedTwice
<1>2. call.base \in Seq(Modules) /\ call.path \in Modules
  BY DEF IInv, TypeOK, Call
<1>3. CASE Importing
  <2>1. importStack = Append(call.base, call.path)
    BY <1>3 DEF IInv, StackInv
  <2>2. EndImport(call.path)
    BY <1>3 DEF LeaveGuard
  <2> QED
    BY <1>1, <1>2, <2>1, <2>2, GuardRestores, EndImportInjective
<1>4. CASE ~Importing
  BY <1>1, <1>4 DEF IInv, StackInv, LeaveGuard
<1> QED
  BY <1>3, <1>4

-----------------------------------------------------------------------------
(* Each action keeps the invariant.                                        *)

LEMMA BeginInv ==
    ASSUME IInv, NEW new \in Call, NEW step \in {"canonical", "open", "pipeline"},
           Begin(new, step), new.op = "importModule" <=> step = "canonical"
    PROVE  IInv'
<1>1. /\ call' \in Call /\ call'.base = importStack /\ call'.before = errorCount
      /\ call'.op = new.op
  BY DEF IInv, TypeOK, CacheTypeOK, Begin, Call
<1>2. TypeOK' /\ CountInv'
  BY <1>1 DEF IInv, TypeOK, CountInv, CacheTypeOK, PartialMap, Begin, fsVars,
              cacheVars, Steps
<1>3. NoPathImportedTwice' /\ StackInv' /\ StoreInv' /\ FailureIsLogged'
  BY <1>1 DEF IInv, NoPathImportedTwice, StackInv, StoreInv, FailureIsLogged,
              Begin, cacheVars, Importing
<1>4. OnlyCleanModulesCached' /\ TimeInv'
  BY <1>1 DEF IInv, OnlyCleanModulesCached, Erroneous, TimeInv, ReadSince, Exists,
              Importing, Begin, fsVars, cacheVars
<1> QED
  BY <1>2, <1>3, <1>4 DEF IInv

LEMMA CompileSourceInv ==
    ASSUME IInv, NEW kind \in Kinds, CompileSource(kind)
    PROVE  IInv'
<1> DEFINE new == [NoCall EXCEPT !.kind = kind]
<1>1. new \in Call /\ new.op # "importModule"
  BY NoCallType DEF Call, NoCall
<1>2. Begin(new, "pipeline")
  BY DEF CompileSource
<1> QED
  BY <1>1, <1>2, BeginInv

LEMMA CompileFileInv ==
    ASSUME IInv, NEW m \in Modules, CompileFile(m)
    PROVE  IInv'
<1> DEFINE new == [NoCall EXCEPT !.op = "compileFile", !.path = m]
<1>1. new \in Call /\ new.op # "importModule"
  BY NoCallType DEF Call, Ops
<1>2. Begin(new, "open")
  BY DEF CompileFile
<1> QED
  BY <1>1, <1>2, BeginInv

LEMMA ImportModuleInv ==
    ASSUME IInv, NEW m \in Modules, NEW style, ImportModule(m, style)
    PROVE  IInv'
<1> DEFINE new == [NoCall EXCEPT !.op = "importModule", !.path = m]
<1>1. new \in Call /\ new.op = "importModule"
  BY NoCallType DEF Call, Ops
<1>2. Begin(new, "canonical")
  BY DEF ImportModule
<1> QED
  BY <1>1, <1>2, BeginInv

LEMMA ImportUnresolvedInv ==
    ASSUME IInv, NEW m \in Modules, NEW style, ImportUnresolved(m, style)
    PROVE  IInv'
<1>1. /\ errorCount' \in Nat /\ errorCount <= errorCount' /\ errorCount' <= MaxErrors
      /\ errorCount' > 0
  BY LoggedErrors DEF IInv, TypeOK, CountInv, ImportUnresolved
<1>2. reply' \in Reply
  BY <1>1 DEF IInv, TypeOK, ImportUnresolved, Reply, Statuses
<1>3. TypeOK'
  BY <1>1, <1>2 DEF IInv, TypeOK, CacheTypeOK, PartialMap, fsVars, cacheVars,
                    ImportUnresolved
<1>4. CountInv'
  BY <1>1 DEF IInv, TypeOK, Call, CountInv, ImportUnresolved
<1>5. NoPathImportedTwice' /\ StackInv' /\ StoreInv' /\ FailureIsLogged'
  BY <1>1 DEF IInv, NoPathImportedTwice, StackInv, StoreInv, FailureIsLogged,
              ImportUnresolved, cacheVars
<1>6. OnlyCleanModulesCached' /\ TimeInv'
  BY DEF IInv, OnlyCleanModulesCached, Erroneous, TimeInv, ReadSince, Exists,
         Importing, ImportUnresolved, fsVars, cacheVars
<1> QED
  BY <1>3, <1>4, <1>5, <1>6 DEF IInv

LEMMA StackType ==
    ASSUME IInv
    PROVE  importStack \in Seq(Modules) /\ IsInjective(importStack)
BY DEF IInv, TypeOK, CacheTypeOK, NoPathImportedTwice

LEMMA CanonicalInv ==
    ASSUME IInv, Canonical
    PROVE  IInv'
<1>1. CASE Exists(call.path)
  <2>1. pc' = "lookup" /\ UNCHANGED <<call, reply, errorCount, fsVars, cacheVars>>
    BY <1>1 DEF Canonical
  <2>2. TypeOK' /\ CountInv' /\ FailureIsLogged'
    BY <2>1 DEF IInv, TypeOK, CountInv, FailureIsLogged, CacheTypeOK, PartialMap,
                fsVars, cacheVars, Steps
  <2>3. NoPathImportedTwice' /\ StackInv' /\ StoreInv'
    BY <2>1 DEF IInv, NoPathImportedTwice, StackInv, StoreInv, Canonical,
                Importing, cacheVars
  <2>4. OnlyCleanModulesCached' /\ TimeInv'
    BY <2>1 DEF IInv, OnlyCleanModulesCached, Erroneous, TimeInv, ReadSince,
                Exists, fsVars, cacheVars
  <2> QED
    BY <2>2, <2>3, <2>4 DEF IInv
<1>2. CASE ~Exists(call.path)
  <2>1. Return(0, "exception", 0) /\ UNCHANGED <<fsVars, cacheVars>>
    BY <1>2 DEF Canonical
  <2> QED
    BY <2>1, ReturnInv, StackType DEF cacheVars, Statuses
<1> QED
  BY <1>1, <1>2

LEMMA LookupInv ==
    ASSUME IInv, Lookup
    PROVE  IInv'
<1>1. CASE Return(0, "ast", 0) /\ UNCHANGED importStack
  BY <1>1, ReturnInv, StackType DEF Lookup, Statuses
<1>2. CASE Return(1, "nullptr", 0) /\ UNCHANGED importStack
  BY <1>2, ReturnInv, StackType DEF Lookup, Statuses
<1>3. CASE BeginImport(call.path) /\ pc' = "open" /\ UNCHANGED <<errorCount, call, reply>>
  <2>1. /\ call.path \in Modules
        /\ importStack' = Append(importStack, call.path)
        /\ importStack' \in Seq(Modules) /\ IsInjective(importStack')
    BY <1>3, StackType, BeginImportInjective DEF IInv, TypeOK, Call, BeginImport
  <2>2. TypeOK' /\ CountInv' /\ FailureIsLogged'
    BY <1>3, <2>1 DEF IInv, TypeOK, CountInv, FailureIsLogged, CacheTypeOK,
                      PartialMap, fsVars, Lookup, Steps
  <2>3. NoPathImportedTwice' /\ StackInv' /\ StoreInv'
    BY <1>3, <2>1 DEF IInv, NoPathImportedTwice, StackInv, StoreInv, Lookup, Importing
  <2>4. OnlyCleanModulesCached' /\ TimeInv'
    BY <1>3 DEF IInv, OnlyCleanModulesCached, Erroneous, TimeInv, ReadSince,
                Exists, fsVars, Lookup
  <2> QED
    BY <2>2, <2>3, <2>4 DEF IInv
<1> QED
  BY <1>1, <1>2, <1>3 DEF Lookup

LEMMA ReadFileInv ==
    ASSUME IInv, ReadFile
    PROVE  IInv'
<1>1. call.path \in Modules /\ disk[call.path] \in File
  BY DEF IInv, TypeOK, CacheTypeOK, PartialMap, Call, ReadFile, Exists
<1>2. /\ call' \in Call /\ call'.op = call.op /\ call'.path = call.path
      /\ call'.base = call.base /\ call'.before = call.before
      /\ call'.readAt = clock /\ call'.src = disk[call.path].ver
  BY <1>1 DEF IInv, TypeOK, CacheTypeOK, Call, File, ReadFile
<1>3. TypeOK' /\ CountInv' /\ FailureIsLogged'
  BY <1>2 DEF IInv, TypeOK, CountInv, FailureIsLogged, CacheTypeOK, PartialMap,
              fsVars, cacheVars, ReadFile, Steps
<1>4. NoPathImportedTwice' /\ StackInv' /\ StoreInv'
  BY <1>2 DEF IInv, NoPathImportedTwice, StackInv, StoreInv, ReadFile,
              Importing, cacheVars
<1>5. OnlyCleanModulesCached' /\ TimeInv'
  BY <1>2 DEF IInv, TypeOK, CacheTypeOK, OnlyCleanModulesCached, Erroneous,
              TimeInv, ReadSince, Exists, Importing, fsVars, cacheVars, ReadFile
<1> QED
  BY <1>3, <1>4, <1>5 DEF IInv

LEMMA ReadFailsInv ==
    ASSUME IInv, ReadFails
    PROVE  IInv'
<1>1. importStack' \in Seq(Modules) /\ IsInjective(importStack')
  BY LeaveGuardRestores DEF ReadFails
<1> QED
  BY <1>1, ReturnInv DEF ReadFails, Statuses

LEMMA ReadThrowsInv ==
    ASSUME IInv, ReadThrows
    PROVE  IInv'
<1>1. importStack' \in Seq(Modules) /\ IsInjective(importStack')
  BY LeaveGuardRestores DEF ReadThrows
<1> QED
  BY <1>1, ReturnInv DEF ReadThrows, Statuses

LEMMA FailInv ==
    ASSUME IInv, pc = "pipeline", NEW n \in Nat, NEW status \in Statuses,
           NEW errors \in Nat, Fail(n, status, errors), n > 0 \/ errorCount > 0
    PROVE  IInv'
<1>1. importStack' \in Seq(Modules) /\ IsInjective(importStack')
  BY LeaveGuardRestores DEF Fail
<1> QED
  BY <1>1, ReturnInv DEF Fail, Statuses

LEMMA PipelineInv ==
    ASSUME IInv, PipelineFails \/ PipelineThrows
    PROVE  IInv'
<1>1. LoggedByText \in Nat /\ Logged(LoggedByText) \in Nat
  BY LoggedErrors DEF IInv, TypeOK, CountInv, LoggedByText
<1>2. errorCount \in Nat
  BY DEF IInv, TypeOK
<1>3. {"ParseError", "InternalError"} \subseteq Statuses
  BY DEF Statuses
<1>4. CASE PipelineFails
  BY <1>1, <1>2, <1>3, <1>4, FailInv DEF PipelineFails
<1>5. CASE PipelineThrows
  <2>1. PICK n \in 0 .. LoggedByText : Fail(n + 1, "InternalError", 1)
    BY <1>5 DEF PipelineThrows
  <2>2. n + 1 \in Nat /\ n + 1 > 0
    BY <1>1
  <2> QED
    BY <1>3, <1>5, <2>1, <2>2, FailInv DEF PipelineThrows
<1> QED
  BY <1>4, <1>5

LEMMA PipelineSucceedsInv ==
    ASSUME IInv, PipelineSucceeds
    PROVE  IInv'
<1>1. CASE Importing
  <2>1. pc' = "store" /\ UNCHANGED <<call, reply, errorCount, fsVars, cacheVars>>
    BY <1>1 DEF PipelineSucceeds
  <2>2. errorCount = 0 /\ ~Erroneous(call.kind)
    BY DEF IInv, TypeOK, PipelineSucceeds, LoggedByText
  <2>3. TypeOK' /\ CountInv' /\ FailureIsLogged'
    BY <2>1 DEF IInv, TypeOK, CountInv, FailureIsLogged, CacheTypeOK, PartialMap,
                fsVars, cacheVars, Steps
  <2>4. NoPathImportedTwice' /\ StackInv' /\ StoreInv'
    BY <1>1, <2>1, <2>2 DEF IInv, NoPathImportedTwice, StackInv, StoreInv,
                PipelineSucceeds, Importing, cacheVars, Erroneous
  <2>5. OnlyCleanModulesCached' /\ TimeInv'
    BY <2>1 DEF IInv, OnlyCleanModulesCached, Erroneous, TimeInv, ReadSince,
                Exists, Importing, fsVars, cacheVars, PipelineSucceeds
  <2> QED
    BY <2>3, <2>4, <2>5 DEF IInv
<1>2. CASE ~Importing
  BY <1>2, ReturnInv, StackType DEF PipelineSucceeds, cacheVars, Statuses
<1> QED
  BY <1>1, <1>2

LEMMA StoreActionInv ==
    ASSUME IInv, Store
    PROVE  IInv'
<1>1. importStack' \in Seq(Modules) /\ IsInjective(importStack')
  BY LeaveGuardRestores DEF Store
<1>2. /\ errorCount' = 0 /\ reply' \in Reply
      /\ call' \in Call /\ call'.before = 0 /\ pc' = "idle"
      /\ reply'.status = IF PrintTokens THEN "nullptr" ELSE "ast"
  BY NoCallType, MaxErrorsAssumption DEF IInv, TypeOK, CountInv, StoreInv, Store,
     Return, Logged, Reply, Statuses, Call, NoCall
<1>3. call.path \in Modules /\ Importing
  BY DEF IInv, TypeOK, Call, StackInv, Store
<1> DEFINE new == [src |-> call.src, kind |-> call.kind, null |-> PrintTokens,
                   stamp |-> StampOf(call.path), errorCount |-> 0,
                   readAt |-> call.readAt, storedAt |-> clock]
<1>4. StampOf(call.path) \in Nat /\ StampOf(call.path) <= clock
  BY DEF IInv, TypeOK, CacheTypeOK, PartialMap, File, TimeInv, StampOf, Exists
<1>5. cache' = Update(cache, call.path, new) /\ UNCHANGED fsVars
  BY DEF Store, CacheModule
<1>6. new \in CachedModule
  BY <1>4, PrintTokensAssumption DEF IInv, TypeOK, CacheTypeOK, Call, CachedModule
<1>7. PartialMap(cache', CachedModule)
  BY <1>3, <1>5, <1>6, UpdatePartialMap DEF IInv, TypeOK, CacheTypeOK
<1>8. TypeOK' /\ CountInv' /\ FailureIsLogged'
  <2>1. TypeOK'
    BY <1>1, <1>2, <1>5, <1>7 DEF IInv, TypeOK, CacheTypeOK, PartialMap, fsVars, Steps
  <2>2. CountInv' /\ FailureIsLogged'
    BY <1>2, MaxErrorsAssumption DEF CountInv, FailureIsLogged
  <2> QED
    BY <2>1, <2>2
<1>9. NoPathImportedTwice' /\ StackInv' /\ StoreInv'
  BY <1>1, <1>2 DEF NoPathImportedTwice, StackInv, StoreInv
<1>10. \A m \in DOMAIN cache' :
          \/ m = call.path /\ cache'[m] = new
          \/ m \in DOMAIN cache /\ cache'[m] = cache[m]
  BY <1>5 DEF Update
<1>11. OnlyCleanModulesCached'
  BY <1>10 DEF IInv, OnlyCleanModulesCached, StoreInv, Store, Erroneous
<1>12. TimeInv'
  <2>1. call.readAt <= clock /\ ReadSince(call.path, call.src, call.readAt)
    BY <1>3 DEF IInv, TimeInv, Store
  <2>2. clock <= clock
    BY DEF IInv, TypeOK, CacheTypeOK
  <2> QED
    BY <1>2, <1>4, <1>5, <1>10, <2>1, <2>2 DEF IInv, TimeInv, ReadSince, Exists, fsVars
<1> QED
  BY <1>8, <1>9, <1>11, <1>12 DEF IInv

\* The caller's steps change the import stack or erase cache entries; the
\* environment's change the files.
LEMMA CallerStackInv ==
    ASSUME IInv, pc = "idle", UNCHANGED <<fsVars, cache, compilerVars>>,
           importStack' \in Seq(Modules), IsInjective(importStack')
    PROVE  IInv'
<1>1. TypeOK' /\ CountInv' /\ FailureIsLogged'
  BY DEF IInv, TypeOK, CountInv, FailureIsLogged, CacheTypeOK, PartialMap,
         fsVars, compilerVars
<1>2. NoPathImportedTwice' /\ StackInv' /\ StoreInv'
  BY DEF NoPathImportedTwice, StackInv, StoreInv, compilerVars
<1>3. OnlyCleanModulesCached' /\ TimeInv'
  BY DEF IInv, OnlyCleanModulesCached, Erroneous, TimeInv, ReadSince, Exists,
         fsVars, compilerVars
<1> QED
  BY <1>1, <1>2, <1>3 DEF IInv

LEMMA CallerErasesInv ==
    ASSUME IInv, pc = "idle", NEW S, cache' = Erase(cache, S),
           UNCHANGED <<fsVars, compilerVars>>,
           importStack' \in Seq(Modules), IsInjective(importStack')
    PROVE  IInv'
<1>1. PartialMap(cache', CachedModule)
  BY ErasePartialMap DEF IInv, TypeOK, CacheTypeOK
<1>2. \A m \in DOMAIN cache' : m \in DOMAIN cache /\ cache'[m] = cache[m]
  BY DEF Erase
<1>3. TypeOK' /\ CountInv' /\ FailureIsLogged'
  BY <1>1 DEF IInv, TypeOK, CountInv, FailureIsLogged, CacheTypeOK, PartialMap,
         fsVars, compilerVars
<1>4. NoPathImportedTwice' /\ StackInv' /\ StoreInv'
  BY DEF NoPathImportedTwice, StackInv, StoreInv, compilerVars
<1>5. OnlyCleanModulesCached' /\ TimeInv'
  BY <1>2 DEF IInv, OnlyCleanModulesCached, Erroneous, TimeInv, ReadSince, Exists,
         fsVars, compilerVars
<1> QED
  BY <1>3, <1>4, <1>5 DEF IInv

LEMMA CallerChangesCacheInv ==
    ASSUME IInv, CallerChangesCache
    PROVE  IInv'
<1>1. pc = "idle" /\ UNCHANGED compilerVars
  BY DEF CallerChangesCache
<1>2. ASSUME NEW m \in Modules, RemoveModule(m) \/ InvalidateIfModified(m)
      PROVE  IInv'
  BY <1>1, <1>2, CallerErasesInv, StackType DEF RemoveModule, InvalidateIfModified
<1>3. CASE InvalidateModified
  BY <1>1, <1>3, CallerErasesInv, StackType DEF InvalidateModified
<1>4. CASE Clear
  <2>1. cache' = Erase(cache, DOMAIN cache) /\ importStack' = <<>> /\ UNCHANGED fsVars
    BY <1>4 DEF Clear, Erase
  <2>2. importStack' \in Seq(Modules) /\ IsInjective(importStack')
    BY <2>1 DEF IsInjective
  <2> QED
    BY <1>1, <2>1, <2>2, CallerErasesInv
<1> QED
  BY <1>2, <1>3, <1>4 DEF CallerChangesCache

\* An edit gives the file the present time, which is no earlier than any
\* reading; a file that has gone differs from nothing.
LEMMA EnvironmentInv ==
    ASSUME IInv, Environment
    PROVE  IInv'
<1>1. /\ UNCHANGED <<compilerVars, cache, importStack>>
      /\ clock \in Nat /\ edits \in Nat /\ PartialMap(disk, File)
  BY DEF IInv, TypeOK, CacheTypeOK, Environment, Edit, Delete, Tick
<1>2. /\ clock' \in Nat /\ edits' \in Nat /\ clock <= clock'
      /\ PartialMap(disk', File)
      /\ \A m \in DOMAIN disk' :
            \/ m \in DOMAIN disk /\ disk'[m] = disk[m]
            \/ disk'[m].mtime = clock
  <2>1. ASSUME NEW m \in Modules, NEW kind \in Kinds, Edit(m, kind)
        PROVE  <1>2!:
    <3> DEFINE new == [ver |-> edits + 1, kind |-> kind, mtime |-> clock]
    <3>1. new \in File /\ disk' = Update(disk, m, new)
      BY <1>1, <2>1 DEF File, Edit
    <3>2. PartialMap(disk', File)
      BY <1>1, <3>1, UpdatePartialMap
    <3> QED
      BY <1>1, <2>1, <3>1, <3>2 DEF Edit, Update
  <2>2. ASSUME NEW m \in Modules, Delete(m)
        PROVE  <1>2!:
    <3>1. PartialMap(disk', File)
      BY <1>1, <2>2, ErasePartialMap DEF Delete
    <3> QED
      BY <1>1, <2>2, <3>1 DEF Delete, Erase
  <2>3. CASE Tick
    BY <1>1, <2>3 DEF Tick
  <2> QED
    BY <2>1, <2>2, <2>3 DEF Environment
<1>3. TypeOK' /\ CountInv' /\ FailureIsLogged'
  BY <1>1, <1>2 DEF IInv, TypeOK, CountInv, FailureIsLogged, CacheTypeOK,
                    PartialMap, compilerVars
<1>4. NoPathImportedTwice' /\ StackInv' /\ StoreInv' /\ OnlyCleanModulesCached'
  BY <1>1 DEF IInv, NoPathImportedTwice, StackInv, StoreInv, OnlyCleanModulesCached,
              Erroneous, Importing, compilerVars
<1>5. TimeInv'
  <2>1. \A m \in DOMAIN disk' : disk'[m].mtime <= clock'
    BY <1>1, <1>2 DEF IInv, TimeInv, PartialMap, File
  <2>2. ASSUME NEW m, NEW src, NEW readAt \in Nat, readAt <= clock,
               ReadSince(m, src, readAt)
        PROVE  ReadSince(m, src, readAt)'
    BY <1>1, <1>2, <2>2 DEF ReadSince, Exists
  <2>3. \A m \in DOMAIN cache : cache[m] \in CachedModule
    BY DEF IInv, TypeOK, CacheTypeOK, PartialMap
  <2>4. \A m \in DOMAIN cache : /\ cache[m].readAt \in Nat
                                /\ cache[m].storedAt \in Nat
                                /\ cache[m].readAt <= clock
                                /\ cache[m].storedAt <= clock'
                                /\ ReadSince(m, cache[m].src, cache[m].readAt)
    BY <1>1, <1>2, <2>3 DEF IInv, TimeInv, CachedModule
  <2>5. \A m \in DOMAIN cache : ReadSince(m, cache[m].src, cache[m].readAt)'
    BY <1>1, <2>2, <2>4
  <2>6. call.readAt \in Nat /\ call.path \in Modules
    BY DEF IInv, TypeOK, Call
  <2>7. pc \in {"pipeline", "store"} /\ Importing =>
           /\ call.readAt <= clock'
           /\ ReadSince(call.path, call.src, call.readAt)'
    BY <1>1, <1>2, <2>2, <2>6 DEF IInv, TimeInv, compilerVars
  <2> QED
    BY <1>1, <2>1, <2>4, <2>5, <2>7 DEF IInv, TimeInv, compilerVars, Importing
<1> QED
  BY <1>3, <1>4, <1>5 DEF IInv

LEMMA StutterInv ==
    ASSUME IInv, UNCHANGED vars
    PROVE  IInv'
<1> USE DEF vars, fsVars, cacheVars, compilerVars
<1>1. TypeOK' /\ CountInv' /\ FailureIsLogged'
  BY DEF IInv, TypeOK, CountInv, FailureIsLogged, CacheTypeOK, PartialMap
<1>2. NoPathImportedTwice' /\ StackInv' /\ StoreInv' /\ OnlyCleanModulesCached' /\ TimeInv'
  BY DEF IInv, NoPathImportedTwice, StackInv, StoreInv, OnlyCleanModulesCached,
         TimeInv, Erroneous, ReadSince, Exists, Importing
<1> QED
  BY <1>1, <1>2 DEF IInv

LEMMA NextInv == IInv /\ [Next]_vars => IInv'
<1> SUFFICES ASSUME IInv, [Next]_vars PROVE IInv'
  OBVIOUS
<1>1. ASSUME NEW kind \in Kinds, CompileSource(kind) PROVE IInv'
  BY <1>1, CompileSourceInv
<1>2. ASSUME NEW m \in Modules, CompileFile(m) PROVE IInv'
  BY <1>2, CompileFileInv
<1>3. ASSUME NEW m \in Modules, NEW style \in {"relative", "library"},
             ImportModule(m, style) \/ ImportUnresolved(m, style)
      PROVE  IInv'
  BY <1>3, ImportModuleInv, ImportUnresolvedInv
<1>4. ASSUME NEW m \in Modules, CallerBegins(m) PROVE IInv'
  BY <1>4, StackType, BeginImportInjective, CallerStackInv DEF CallerBegins
<1>5. ASSUME NEW m \in Modules, CallerEnds(m) PROVE IInv'
  BY <1>5, StackType, EndImportInjective, CallerStackInv DEF CallerEnds
<1>6. CASE Canonical
  BY <1>6, CanonicalInv
<1>7. CASE Lookup
  BY <1>7, LookupInv
<1>8. CASE ReadFile
  BY <1>8, ReadFileInv
<1>9. CASE ReadFails \/ ReadThrows
  BY <1>9, ReadFailsInv, ReadThrowsInv
<1>10. CASE PipelineFails \/ PipelineThrows
  BY <1>10, PipelineInv
<1>11. CASE PipelineSucceeds
  BY <1>11, PipelineSucceedsInv
<1>12. CASE Store
  BY <1>12, StoreActionInv
<1>13. CASE CallerChangesCache
  BY <1>13, CallerChangesCacheInv
<1>14. CASE Environment
  BY <1>14, EnvironmentInv
<1>15. CASE UNCHANGED vars
  BY <1>15, StutterInv
<1> QED
  BY <1>1, <1>2, <1>3, <1>4, <1>5, <1>6, <1>7, <1>8, <1>9, <1>10, <1>11, <1>12,
     <1>13, <1>14, <1>15 DEF Next

-----------------------------------------------------------------------------
(* The theorems.                                                           *)

\* The driver's inductive invariant.
THEOREM Invariance == Spec => []IInv
BY InitInv, NextInv, PTL DEF Spec

\* Every variable of the driver has its type: in particular the counters of a
\* reply are natural numbers and the cache is a map from known paths.
THEOREM TypeCorrect == Spec => []TypeOK
<1>1. IInv => TypeOK
  BY DEF IInv
<1> QED
  BY <1>1, Invariance, PTL

\* No path is ever on the import stack twice, whatever number of modules there
\* are and however callers and calls use the stack (beginImport, endImport).
THEOREM ImportedOnce == Spec => []NoPathImportedTwice
<1>1. IInv => NoPathImportedTwice
  BY DEF IInv
<1> QED
  BY <1>1, Invariance, PTL

\* The import guard holds exactly one entry on top of what the call found.
THEOREM GuardOnTop == Spec => []GuardHeld
<1>1. IInv => GuardHeld
  BY DEF IInv, StackInv, GuardHeld
<1> QED
  BY <1>1, Invariance, PTL

\* What loadModule caches compiled without an error.
THEOREM CleanCache == Spec => []OnlyCleanModulesCached
<1>1. IInv => OnlyCleanModulesCached
  BY DEF IInv
<1> QED
  BY <1>1, Invariance, PTL

\* An accepted entry is stale only when its file was written while the module
\* was being loaded.
THEOREM HitsAreCurrent == Spec => []HitIsCurrentUnlessEditedWhileLoading
<1>1. ASSUME IInv PROVE HitIsCurrentUnlessEditedWhileLoading
  BY <1>1 DEF IInv, TimeInv, ReadSince, HitIsCurrentUnlessEditedWhileLoading,
              IsCached, IsValid
<1> QED
  BY <1>1, Invariance, PTL

\* A failure that is reported by its status has been logged.
THEOREM FailuresLogged == Spec => []FailureIsLogged
<1>1. IInv => FailureIsLogged
  BY DEF IInv
<1> QED
  BY <1>1, Invariance, PTL

\* Every call returns with the import stack it found: the guard's destructor
\* runs on each of the ways out, and the driver changes it nowhere else.
THEOREM CallsRestoreStack == Spec => StackRestored
<1>1. ASSUME IInv, [Next]_vars, pc # "idle" /\ pc' = "idle"
      PROVE  importStack' = call.base
  <2>1. pc \in {"canonical", "lookup"} => importStack = call.base
    BY <1>1 DEF IInv, StackInv
  <2>2. CASE Canonical \/ Lookup
    BY <1>1, <2>1, <2>2 DEF Canonical, Lookup, cacheVars
  <2>3. CASE ReadFails \/ ReadThrows \/ PipelineFails \/ PipelineThrows \/ Store
    BY <1>1, <2>3, LeaveGuardRestores
       DEF ReadFails, ReadThrows, PipelineFails, PipelineThrows, Store, Fail
  <2>4. CASE PipelineSucceeds
    BY <1>1, <2>4 DEF IInv, StackInv, PipelineSucceeds, cacheVars
  <2> QED
    BY <1>1, <2>2, <2>3, <2>4 DEF Next, CompileSource, CompileFile, ImportModule,
       Begin, ImportUnresolved, CallerBegins, CallerEnds, ReadFile,
       CallerChangesCache, Environment, compilerVars, vars
<1>2. IInv /\ [Next]_vars =>
         [pc # "idle" /\ pc' = "idle" => importStack' = call.base]_vars
  BY <1>1
<1> QED
  BY <1>2, Invariance, PTL DEF Spec, StackRestored

\* Once an error is logged, nothing compiles and nothing is cached any more.
THEOREM ErrorsStopTheDriver == Spec => NothingCompilesAfterError
<1> DEFINE Stopped == errorCount > 0 =>
               /\ pc # "idle" /\ pc' = "idle" => reply'.status # "Success"
               /\ \A m \in DOMAIN cache' : m \in DOMAIN cache /\ cache'[m] = cache[m]
<1>1. ASSUME IInv, [Next]_vars, errorCount > 0
      PROVE  /\ pc # "idle" /\ pc' = "idle" => reply'.status # "Success"
             /\ \A m \in DOMAIN cache' : m \in DOMAIN cache /\ cache'[m] = cache[m]
  <2>1. errorCount \in Nat /\ ~Store
    BY <1>1 DEF IInv, TypeOK, StoreInv, Store
  <2>2. ~PipelineSucceeds
    BY <1>1, <2>1 DEF PipelineSucceeds, LoggedByText
  <2>3. UNCHANGED cache \/ \E S : cache' = Erase(cache, S)
    <3>1. Clear => cache' = Erase(cache, DOMAIN cache)
      BY DEF Clear, Erase
    <3>2. CASE CallerChangesCache
      BY <3>1, <3>2 DEF CallerChangesCache, RemoveModule, InvalidateIfModified,
                        InvalidateModified
    <3> QED
      BY <1>1, <2>1, <2>2, <3>2 DEF Next, CompileSource, CompileFile, ImportModule,
         Begin, ImportUnresolved, CallerBegins, CallerEnds, Canonical, Lookup,
         ReadFile, ReadFails, ReadThrows, PipelineFails, PipelineThrows, Fail, Environment,
         Edit, Delete, Tick, vars, cacheVars
  <2>4. \A m \in DOMAIN cache' : m \in DOMAIN cache /\ cache'[m] = cache[m]
    BY <2>3 DEF Erase
  <2>5. pc # "idle" /\ pc' = "idle" => reply'.status # "Success"
    <3>1. CASE Canonical \/ Lookup
      BY <3>1 DEF Canonical, Lookup, Return
    <3>2. CASE ReadFails \/ ReadThrows \/ PipelineFails \/ PipelineThrows
      BY <3>2 DEF ReadFails, ReadThrows, PipelineFails, PipelineThrows, Fail, Return
    <3> QED
      BY <1>1, <2>1, <2>2, <3>1, <3>2 DEF Next, CompileSource, CompileFile,
         ImportModule, Begin, ImportUnresolved, CallerBegins, CallerEnds, ReadFile,
         CallerChangesCache, Environment, vars, compilerVars
  <2> QED
    BY <2>4, <2>5
<1>2. IInv /\ [Next]_vars => [Stopped]_vars
  BY <1>1
<1> QED
  BY <1>2, Invariance, PTL DEF Spec, NothingCompilesAfterError

-----------------------------------------------------------------------------
(* The driver implements the abstract loader: a call is one of its steps   *)
(* when it returns, and until then none.                                   *)

LEMMA RefinesInit == Init => L!Init
BY DEF Init, CacheInit, L!Init

\* A call that returns a failure, which it or a call before it has logged.
LEMMA RefinesFail ==
    ASSUME IInv, pc # "idle", NEW n \in Nat, n > 0 \/ errorCount > 0,
           NEW status \in {"ParseError", "IOError", "InternalError", "nullptr"},
           NEW errors, Return(n, status, errors),
           importStack' = call.base, UNCHANGED cache
    PROVE  L!Fail
<1>1. Logged(n) > 0
  BY LoggedErrors DEF IInv, TypeOK, CountInv
<1> QED
  BY <1>1 DEF Return, L!Fail

\* A call that logs nothing and keeps nothing.
LEMMA RefinesReturn ==
    ASSUME IInv, pc # "idle", NEW status, NEW errors, Return(0, status, errors),
           importStack' = call.base, UNCHANGED cache
    PROVE  /\ UNCHANGED <<cache, errorCount>>
           /\ (IF pc = "idle" THEN importStack ELSE call.base)' = call.base
           /\ reply'.status = status
BY MaxErrorsAssumption DEF IInv, TypeOK, CountInv, Return, Logged

\* What the caller erases from the cache, it forgets.
LEMMA RefinesForget ==
    ASSUME IInv, pc = "idle", UNCHANGED compilerVars, NEW S, cache' = Erase(cache, S),
           importStack' \in {importStack, <<>>}
    PROVE  L!Forget
<1> DEFINE T == S \cap Modules
           kept == [m \in DOMAIN cache |-> cache[m].src]
<1>1. DOMAIN cache \subseteq Modules
  BY DEF IInv, TypeOK, CacheTypeOK, PartialMap
<1>2. kept' = [x \in DOMAIN kept \ T |-> kept[x]]
  BY <1>1 DEF Erase
<1>3. T \in SUBSET Modules
  OBVIOUS
<1> QED
  BY <1>2, <1>3 DEF compilerVars, L!Forget

LEMMA RefinesStore ==
    ASSUME IInv, Store
    PROVE  \E m \in Modules : L!Keep(m)
<1> DEFINE kept == [m \in DOMAIN cache |-> cache[m].src]
<1>1. Importing /\ errorCount = 0 /\ call \in Call /\ pc = "store"
  BY DEF IInv, StackInv, StoreInv, TypeOK, Store
<1>2. call.path \notin ToSet(call.base)
  <2>1. importStack = Append(call.base, call.path) /\ IsInjective(importStack)
    BY <1>1 DEF IInv, StackInv, NoPathImportedTwice
  <2>2. call.base \in Seq(Modules)
    BY <1>1 DEF Call
  <2> QED
    BY <2>1, <2>2 DEF IsInjective, ToSet
<1>3. importStack' = call.base
  BY <1>1, LeaveGuardRestores DEF Store
<1>4. /\ errorCount' = 0 /\ pc' = "idle"
      /\ reply'.status \in {"ast", "nullptr"}
  BY <1>1, MaxErrorsAssumption DEF Store, Return, Logged
<1>5. /\ DOMAIN kept' = DOMAIN kept \cup {call.path}
      /\ kept'[call.path] \in Nat
      /\ \A x \in DOMAIN kept \ {call.path} : kept'[x] = kept[x]
  BY <1>1 DEF Store, CacheModule, Update, Call
<1>6. PICK m \in Modules : m = call.path
  BY <1>1 DEF Call
<1> QED
  BY <1>1, <1>2, <1>3, <1>4, <1>5, <1>6 DEF L!Keep, L!ToSet, ToSet

LEMMA RefinesNext == IInv /\ [Next]_vars => [L!Next]_(L!vars)
<1> SUFFICES ASSUME IInv, [Next]_vars PROVE [L!Next]_(L!vars)
  OBVIOUS
<1> USE DEF L!Next
<1>1. ASSUME NEW new, NEW step, Begin(new, step), new \in Call, step # "idle"
      PROVE  UNCHANGED L!vars
  BY <1>1 DEF Begin, L!vars, fsVars, cacheVars, Call
<1>2. ASSUME NEW m \in Modules, NEW style \in {"relative", "library"}, ImportUnresolved(m, style)
      PROVE  L!Fail
  <2>1. Logged(1) > 0
    BY LoggedErrors DEF IInv, TypeOK, CountInv
  <2> QED
    BY <1>2, <2>1 DEF ImportUnresolved, L!Fail, cacheVars
<1>3. ASSUME NEW m \in Modules, CallerBegins(m) PROVE L!Import(m)
  BY <1>3 DEF CallerBegins, BeginImport, WouldCreateCycle, Range, L!ToSet, compilerVars,
              L!Import
<1>4. ASSUME NEW m \in Modules, CallerEnds(m) PROVE L!Imported(m) \/ UNCHANGED L!vars
  BY <1>4, StackType, EndImportCases DEF CallerEnds, compilerVars, L!Imported, L!vars,
     L!RemoveAt, RemoveAt
<1>5. CASE Canonical
  <2>1. importStack = call.base /\ pc # "idle"
    BY <1>5 DEF IInv, StackInv, Canonical
  <2>2. CASE Exists(call.path)
    BY <1>5, <2>1, <2>2 DEF Canonical, L!vars, fsVars, cacheVars
  <2>3. CASE Return(0, "exception", 0)
    <3>1. UNCHANGED <<cache, errorCount>> /\ importStack' = call.base /\ reply'.status = "exception"
      BY <1>5, <2>1, <2>3, RefinesReturn DEF Canonical, cacheVars
    <3>2. pc' = "idle"
      BY <2>3 DEF Return
    <3> QED
      BY <2>1, <3>1, <3>2 DEF L!Throw
  <2> QED
    BY <1>5, <2>2, <2>3 DEF Canonical
<1>6. CASE Lookup
  <2>1. importStack = call.base /\ pc = "lookup" /\ call.path \in Modules
    BY <1>6 DEF IInv, StackInv, Lookup, TypeOK, Call
  <2>2. CASE Hit(call.path) /\ Return(0, "ast", 0) /\ UNCHANGED importStack
    <3>1. UNCHANGED <<cache, errorCount>> /\ importStack' = call.base /\ reply'.status = "ast"
      BY <1>6, <2>1, <2>2, RefinesReturn DEF Lookup
    <3>2. pc' = "idle" /\ call.path \in DOMAIN cache
      BY <2>2 DEF Return, Hit, IsCached
    <3> QED
      BY <2>1, <3>1, <3>2 DEF L!Find
  <2>3. CASE BeginImport(call.path) /\ pc' = "open" /\ UNCHANGED <<errorCount, call, reply>>
    BY <1>6, <2>1, <2>3 DEF Lookup, L!vars
  <2>4. CASE Return(1, "nullptr", 0) /\ UNCHANGED importStack
    BY <1>6, <2>1, <2>4, RefinesFail DEF Lookup
  <2> QED
    BY <1>6, <2>2, <2>3, <2>4 DEF Lookup
<1>7. CASE ReadFile
  BY <1>7 DEF ReadFile, L!vars, fsVars, cacheVars, IInv, TypeOK, Call
<1>8. CASE ReadFails
  <2>1. importStack' = call.base /\ pc # "idle"
    BY <1>8, LeaveGuardRestores DEF ReadFails
  <2> QED
    BY <1>8, <2>1, RefinesFail DEF ReadFails
<1>20. CASE ReadThrows
  <2>1. importStack' = call.base /\ pc # "idle" /\ Return(0, "exception", 0) /\ UNCHANGED cache
    BY <1>20, LeaveGuardRestores DEF ReadThrows
  <2>2. errorCount' = errorCount /\ reply'.status = "exception" /\ pc' = "idle"
    BY <2>1, RefinesReturn DEF Return
  <2> QED
    BY <2>1, <2>2 DEF L!Throw
<1>9. ASSUME NEW n \in Nat, n > 0 \/ errorCount > 0,
             NEW status \in {"ParseError", "InternalError"}, NEW errors,
             Fail(n, status, errors), pc = "pipeline"
      PROVE  L!Fail
  <2>1. importStack' = call.base /\ UNCHANGED cache
    BY <1>9, LeaveGuardRestores DEF Fail
  <2>2. CASE Return(n + 1, "nullptr", 0)
    BY <1>9, <2>1, <2>2, RefinesFail
  <2>3. CASE Return(n, status, errors)
    BY <1>9, <2>1, <2>3, RefinesFail
  <2> QED
    BY <1>9, <2>2, <2>3 DEF Fail
<1>10. CASE PipelineFails
  <2>1. LoggedByText \in Nat /\ (LoggedByText > 0 \/ errorCount > 0)
    BY <1>10 DEF PipelineFails, LoggedByText, IInv, TypeOK
  <2> QED
    BY <1>9, <1>10, <2>1 DEF PipelineFails
<1>11. CASE PipelineThrows
  <2>1. PICK n \in 0 .. LoggedByText : Fail(n + 1, "InternalError", 1)
    BY <1>11 DEF PipelineThrows
  <2>2. n + 1 \in Nat /\ n + 1 > 0
    BY DEF LoggedByText
  <2> QED
    BY <1>9, <1>11, <2>1, <2>2 DEF PipelineThrows
<1>12. CASE PipelineSucceeds
  <2>1. errorCount = 0 /\ pc = "pipeline"
    BY <1>12 DEF PipelineSucceeds, LoggedByText, IInv, TypeOK
  <2>2. CASE Importing
    BY <1>12, <2>1, <2>2 DEF PipelineSucceeds, L!vars, fsVars, cacheVars
  <2>3. CASE ~Importing
    <3>1. Return(0, "Success", 0) /\ importStack' = importStack /\ importStack = call.base
          /\ UNCHANGED cache
      BY <1>12, <2>1, <2>3 DEF PipelineSucceeds, cacheVars, IInv, StackInv
    <3>2. errorCount' = errorCount /\ reply'.status = "Success" /\ pc' = "idle"
      BY <2>1, <3>1, RefinesReturn DEF Return
    <3> QED
      BY <2>1, <3>1, <3>2 DEF L!Compile
  <2> QED
    BY <2>2, <2>3
<1>13. CASE Store
  BY <1>13, RefinesStore
<1>14. CASE CallerChangesCache
  <2>1. pc = "idle" /\ UNCHANGED compilerVars
    BY <1>14 DEF CallerChangesCache
  <2>2. (\E S : cache' = Erase(cache, S)) /\ importStack' \in {importStack, <<>>}
    <3>1. Clear => cache' = Erase(cache, DOMAIN cache)
      BY DEF Clear, Erase
    <3> QED
      BY <1>14, <3>1 DEF CallerChangesCache, RemoveModule, InvalidateIfModified,
                         InvalidateModified, Clear
  <2> QED
    BY <2>1, <2>2, RefinesForget
<1>15. CASE Environment
  BY <1>15 DEF Environment, Edit, Delete, Tick, compilerVars, L!vars
<1>16. CASE UNCHANGED vars
  BY <1>16 DEF vars, cacheVars, compilerVars, L!vars
<1>17. ASSUME NEW kind \in Kinds, CompileSource(kind) PROVE UNCHANGED L!vars
  BY <1>1, <1>17, NoCallType DEF CompileSource, Call
<1>18. ASSUME NEW m \in Modules, CompileFile(m) PROVE UNCHANGED L!vars
  BY <1>1, <1>18, NoCallType DEF CompileFile, Call, Ops
<1>19. ASSUME NEW m \in Modules, NEW style \in {"relative", "library"}, ImportModule(m, style)
       PROVE  UNCHANGED L!vars
  BY <1>1, <1>19, NoCallType DEF ImportModule, Call, Ops
<1> QED
  BY <1>2, <1>3, <1>4, <1>5, <1>6, <1>7, <1>8, <1>10, <1>11, <1>12, <1>13, <1>14,
     <1>15, <1>16, <1>17, <1>18, <1>19, <1>20 DEF Next

\* The driver implements the abstract loader: whatever files change between the
\* steps of a call, the caller sees each call happen at once.
THEOREM Refinement == Spec => ImplementsLoader
BY RefinesInit, RefinesNext, Invariance, PTL DEF Spec, ImplementsLoader, L!Spec

=============================================================================
