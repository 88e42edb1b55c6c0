---------------------------- MODULE ModuleCache ----------------------------
(***************************************************************************)
(* The module cache and the import stack of the compiler                   *)
(* (src/src/compiler/module_cache.cpp), over a file system that other      *)
(* programs may edit between any two steps.                                *)
(*                                                                         *)
(* A path is canonical already: a member of Modules.  The cache is the map *)
(* cache_ as a function on the paths it holds.  A file is what the         *)
(* properties tell apart: the version of its text, whether that text       *)
(* compiles without an error, and the modification time the file system    *)
(* reports.  The clock advances on its own, so two edits may carry the     *)
(* same modification time.                                                 *)
(***************************************************************************)
EXTENDS Naturals, Sequences, SequencesExt, Functions

CONSTANTS Modules,    \* canonical paths
          MaxEdits,   \* bound on the edits of all files together
          MaxClock    \* bound on the file system's clock

ASSUME MaxEditsAssumption == MaxEdits \in Nat
ASSUME MaxClockAssumption == MaxClock \in Nat

VARIABLES disk,         \* path -> file, for the files that exist
          clock,        \* file system time
          edits,        \* edits made so far: the newest version
          cache,        \* path -> CachedModule
          importStack   \* paths being imported, outermost first

fsVars == <<disk, clock, edits>>
cacheVars == <<cache, importStack>>

\* A text compiles, stops the lexer, or lexes and stops the parser.
Kinds == {"clean", "lexical", "syntax"}

File == [ver : Nat, kind : Kinds, mtime : Nat]

\* A CachedModule.  src is the version its AST was built from, kind that
\* text's, null whether the AST pointer is null.  readAt and storedAt are
\* history fields: when the text was read and when the entry was made.
CachedModule == [src : Nat, kind : Kinds, null : BOOLEAN, stamp : Nat,
                 errorCount : Nat, readAt : Nat, storedAt : Nat]

\* f is a function from some of the paths to T
PartialMap(f, T) == DOMAIN f \subseteq Modules /\ f \in [DOMAIN f -> T]

CacheTypeOK ==
    /\ PartialMap(disk, File)
    /\ clock \in Nat
    /\ edits \in Nat
    /\ PartialMap(cache, CachedModule)
    /\ importStack \in Seq(Modules)

CacheInit ==
    /\ disk = <<>>
    /\ clock = 0
    /\ edits = 0
    /\ cache = <<>>
    /\ importStack = <<>>

Exists(m) == m \in DOMAIN disk

Update(f, m, v) == [x \in DOMAIN f \cup {m} |-> IF x = m THEN v ELSE f[x]]
Erase(f, S) == [x \in DOMAIN f \ S |-> f[x]]

-----------------------------------------------------------------------------
(* The file system, driven by other programs.                              *)

Edit(m, kind) ==
    /\ edits < MaxEdits
    /\ edits' = edits + 1
    /\ disk' = Update(disk, m, [ver |-> edits + 1, kind |-> kind, mtime |-> clock])
    /\ UNCHANGED <<clock, cache, importStack>>

Delete(m) ==
    /\ Exists(m)
    /\ disk' = Erase(disk, {m})
    /\ UNCHANGED <<clock, edits, cache, importStack>>

Tick ==
    /\ clock < MaxClock
    /\ clock' = clock + 1
    /\ UNCHANGED <<disk, edits, cache, importStack>>

-----------------------------------------------------------------------------
(* CachedModule and ModuleCache.                                           *)

\* Mutant: an entry is valid while its file exists.
IsValidWhileThere(m) == Exists(m)

\* CachedModule::isValid
IsValid(m) ==
    /\ Exists(m)
    /\ disk[m].mtime = cache[m].stamp

\* ModuleCache::isCached
IsCached(m) == m \in DOMAIN cache /\ IsValid(m)

\* ModuleCache::getCachedModule returns a non-null pointer
Hit(m) == IsCached(m) /\ ~cache[m].null

\* The stamp cacheModule gives an entry: the modification time of the file
\* as it is now, or the current time when there is no file.
StampOf(m) == IF Exists(m) THEN disk[m].mtime ELSE clock

\* ModuleCache::cacheModule, which overwrites what the path had
CacheModule(m, src, kind, null, errors, readAt) ==
    cache' = Update(cache, m, [src |-> src, kind |-> kind, null |-> null,
                               stamp |-> StampOf(m), errorCount |-> errors,
                               readAt |-> readAt, storedAt |-> clock])

\* ModuleCache::removeModule
RemoveModule(m) ==
    /\ m \in DOMAIN cache
    /\ cache' = Erase(cache, {m})
    /\ UNCHANGED <<fsVars, importStack>>

\* ModuleCache::clear drops the import stack with the entries
Clear ==
    /\ cache' = <<>>
    /\ importStack' = <<>>
    /\ UNCHANGED fsVars

\* ModuleCache::invalidateIfModified
InvalidateIfModified(m) ==
    /\ m \in DOMAIN cache
    /\ ~IsValid(m)
    /\ cache' = Erase(cache, {m})
    /\ UNCHANGED <<fsVars, importStack>>

\* ModuleCache::invalidateModified
InvalidateModified ==
    /\ cache' = Erase(cache, {m \in DOMAIN cache : ~IsValid(m)})
    /\ UNCHANGED <<fsVars, importStack>>

-----------------------------------------------------------------------------
(* The import stack.  ImportGuard's constructor is BeginImport with the    *)
(* error reported when it fails, its destructor EndImport.                 *)

WouldCreateCycle(m) == m \in Range(importStack)

\* Mutants: the cycle is not looked for; the path is not put on the stack.
BeginImportUnchecked(m) == importStack' = Append(importStack, m)
BeginImportUnrecorded(m) == ~WouldCreateCycle(m) /\ UNCHANGED importStack

BeginImport(m) ==
    /\ ~WouldCreateCycle(m)
    /\ importStack' = Append(importStack, m)

\* ModuleCache::endImport erases the first occurrence, if there is one
EndImport(m) ==
    importStack' =
        IF WouldCreateCycle(m)
        THEN RemoveAt(importStack,
                      CHOOSE i \in DOMAIN importStack :
                         /\ importStack[i] = m
                         /\ \A j \in 1 .. i - 1 : importStack[j] # m)
        ELSE importStack

=============================================================================
