# The cxyier front end in TLA+

cxyier is a compiler front end in C++: a lexer, a recursive-descent parser, AST
nodes, a type system with a registry of types, a symbol table, arena memory, and
a driver that compiles files and imports modules through a cache. This directory
models its parts, from the arguments of the command line to the printing of the
syntax tree, checks them with TLC on small instances, and proves with TLAPS, for
every instance, most of what is checked: of the driver, the symbol table, the arena,
the types, the lexer, the syntax tree with its walks and its printer, and the command
line program all of it, and of the parser all of its safety but where nested generic
arguments are split. `PROJECT.json` lists, definition by
definition, the lines of the source that each one stands for.

Contents: [1 inventory](#1-inventory), [2 how the models read the code](#2-how-the-models-read-the-code),
[3 modules](#3-modules), [4 runs](#4-runs), [5 fairness](#5-fairness),
[6 proofs](#6-proofs), [7 where the code differs from what is said of it](#7-where-the-code-differs-from-what-is-said-of-it),
[8 what is not modelled](#8-what-is-not-modelled), [9 plan](#9-plan).

## 1. Inventory

Everything below runs in one thread; there are no locks and no callbacks across
threads. What is concurrent is the file system: other programs write and delete
source files between any two steps of the driver. What makes the rest hard is
order and history: state that outlives a call (the diagnostics' counter, the
import stack, the lexer's modes, kept pointers to scopes, checkpoints, types
handed out before a `clear()`), and failure part of the way through.

| Component | State | Operations | Hard behaviour | What makes it correct |
|---|---|---|---|---|
| Module cache and import stack (`compiler/module_cache.cpp`) | `cache_` (path -> AST, errors, time stamp), `importStack_` | `isCached`, `getCachedModule`, `cacheModule`, `removeModule`, `invalidateIfModified`, `invalidateModified`, `clear`, `wouldCreateCycle`, `beginImport`, `endImport`, `ImportGuard` | files change between look, read and store; time stamps have ticks; `endImport` erases the first occurrence | a hit is the AST of the file as it is; a path is being imported once at a time |
| Compiler driver (`compiler/compiler.cpp`) | the cache, the diagnostics' error counter, the call in progress | `compileFile`, `compileSource`, `compileString`, `importModule` (resolve, canonical, look up, guard, read, pipeline, store) | six ways out of an import below a guard; exceptions; a counter that no one resets | failures are logged; the import stack is restored; only clean modules are cached |
| Lexer (`frontend/lexer.cpp`) | buffers (includes), position, template depth, stack of interpolation contexts | `nextToken`, `enterTemplateContext`, `exitTemplateContext`, `pushBuffer` | the parser switches its mode while it is already ahead; interpolated strings nest in each other and in braces; looking ahead in a string has rules of its own | every token takes some of the text; the contexts are the nesting of the tokens; tokens depend on the text and not on how far the parser looked ahead |
| Parser (`frontend/parser.cpp`) | window of three tokens, `errors_`, the stack of its calls | some eighty parse functions, `synchronize` | every one fails in several places; recovery skips and goes on; flags and lexer modes have to be undone on every path | it ends; every failure is reported; what is accepted is well bracketed |
| Types and registry (`types/*.cpp`) | all types created, and for each kind the set of registered ones | fourteen getters, `clear`; equality, assignability, conversions, layouts, calls, inheritance | relations defined once per class and asked across classes; identity as address, equality as structure; integer layout arithmetic | one instance per type; relations and layouts agree with each other |
| Symbol table (`stages/symbols.cpp`) | tree of scopes, current scope, a table of symbols per scope | `pushScope`, `popScope`, `defineSymbol`, `lookupSymbol`, `updateSymbolReference`, `Scope::defineSymbol` | scopes outlive their popping; indices are 16 bits wide; the report of unused symbols depends on earlier lookups | lookups find the innermost binding; what is used is not reported |
| Arenas (`memory/arena_allocator.cpp`, `memory/stack_arena.cpp`) | chain of blocks, current block, statistics, list of checkpoints | `allocate`, `reset`, `clear`, `saveCheckpoint`, `restoreCheckpoint`, `popCheckpoint`, `ScopedCheckpoint` | checkpoints nest, repeat and outlive resets; alignment against a block's own address | live allocations do not overlap; statistics add up |
| Diagnostics, source manager (`diagnostics.cpp`) | counters, sinks, registered sources | `report`, `addSink`, `resetCounters`, positions to lines | the counter is global and is what the driver decides by | the counter belongs to the call it is read in |
| String interner (`strings/strings.cpp`) | texts -> one copy each; the built-in names of namespace `S` | `intern`, `internBuiltins` | the built-in names are globals that every interner binds anew | equal texts are one pointer |
| Syntax tree (`ast/node.hpp`, `ast/declarations.hpp` and the like) | for each node its children, its parent pointer and the fields of its class | constructors, `addX`, `setX`, `removeX`, `addChild`, `removeChild` | a child is recorded in three places, which some eighty methods of sixty classes keep in step by hand | the three agree, whatever is attached, replaced and moved |
| Visitors (`ast/visitor.cpp`, `ast/visitor.hpp`) | the recursion, a search's result | `visit`, `walkAST`, `collectNodes`, `findNode` | a hook decides whether the children are visited, in three copies of the recursion | a walk enters each node once, below its parent; a search answers what it is documented to |
| Printer (`ast/printer.cpp`) | `currentDepth_`, `indentLevel_`, the output | `print`, a hook for most kinds | some hooks close their node or visit its children themselves, others leave both to the walk; two counters are kept in step over functions that do not know of each other | each node is printed once, opened and closed; the depth limit is the depth |
| Options (`compiler/option_parser.cpp`, `compiler/options.cpp`) | `CompilerOptions` | `parseCommandLine`, `validate`, `createDefaultOptions`, `mergeOptions` | the index of the arguments is moved by the loop and by the options that take a value; what is not set is told from what is by comparing with the default | each argument counts once; merging is associative and has a neutral element |
| Command line program (`main.cpp`) | one run: arguments, options, standard input, result | parse, look at the standard input, validate, compile, report | files change between validation and compilation; errors are reported in one function and lead to the exit in another | exit code 0 means that the input compiled; every other exit is explained |

How they interact. The command line program parses options and calls the driver.
The driver owns the module cache and, for each text, a lexer and a parser; both
report to the diagnostics' logger, whose counter the driver reads. The parser
pulls tokens from the lexer, three ahead, and tells it when generic arguments
begin and end, since there `>>` is two tokens. AST nodes, types and symbols live
in arenas. The driver prints the tree through `ASTPrinter` where an option asks for
it. The symbol table, `StackArena`, the rewriting of trees and `mergeOptions` are
libraries: nothing in the source but their tests calls them, so their callers are
modelled as any caller that keeps to their interface. Likewise the parser does not call `importModule`: an
import is a call that the driver's caller makes.

The behaviours that are hard to test, each with its line and the properties that
watch it, are the `hazards` of `PROJECT.json`.

## 2. How the models read the code

* **Steps.** An action is a whole operation, except in the driver, whose calls are
  cut wherever the outside world can act in between: at each access of the file
  system. The parser is cut at each token it looks at or consumes, since its
  order relative to the lexer's reading ahead is the point.
* **Inputs** are chosen by `\E` where the code receives them. A text is chosen
  while it is read: a token is `unread` until something looks at it, so TLC
  considers each text up to the point where it matters and not all texts in full.
  The characters of the lexer's texts and the arguments of the program are chosen at
  the beginning.
* **Pointers** are positions in a sequence of everything created so far (scopes,
  blocks, types, nodes); the null pointer is 0, or `Null` for the nodes that the
  symbol table is given.
* **Recursion** of the code over calls that take several steps is a stack: of parse
  functions in `Parser`, of nodes being visited in `Visitor`. Recursion within one
  step is a recursive function.
* **Widths.** The symbol index wraps at `IndexModulus` (2^16 in the code), the
  printer's depth at `DepthRange` (2^32), the error limit of the options at
  `CountRange` (2^32) and sizes are refused from `SizeRange` (2^64) on. Sizes
  and offsets of the type layouts are bytes and stay far below the width of
  `size_t` on all inputs used.
* **History variables** (what the last call reported, what was popped, which
  allocations are live, when a text was read) are marked `history` where they
  are declared. No guard but those that bound the model reads them.
* **Mutants.** Beside several definitions stands a variant headed `Mutant:`, the
  definition as a plausible bug would have it. It is not part of the
  specification. Each checked property has one in `PROJECT.json` that breaks it.

## 3. Modules

```
ModuleCache <- Compiler <- CompilerProofs        Loader   abstract, implemented by Compiler
Ast <- Visitor <- AstPrinter <- AstPrinterProofs Walk     abstract, implemented by AstPrinter
Options <- Program <- ProgramProofs
SymbolTable <- SymbolTableProofs
StackArena <- StackArenaProofs
Lexemes <- Lexer <- LexerProofs
Types <- TypeRegistry <- TypeRegistryProofs
Grammar <- Parser <- ParserProofs
```

`A <- B` is "B extends A". `MCAstPrinter`, `MCProgram`, `MCParser`, `MCLexer` and
`MCTypeRegistry` extend the module of their name with the values of its constants. The proof
modules extend the library's theorems about sequences, finite sets and well-founded
relations too.

### ModuleCache, Compiler, Loader (driver)

`ModuleCache` has the files (`disk`, `clock`, `edits`), driven by `Edit`, `Delete`
and `Tick`, and the cache and import stack with one operator per method. A file is
a version of its text, whether that text compiles (`clean`, `lexical`, `syntax`),
and its modification time; several edits may fall into one tick of the clock. A
path is canonical already.

`Compiler` extends it. `pc` says where the call in progress is: `CompileFile`,
`CompileSource` and `ImportModule` begin one; then `Canonical` (which throws if the
file has gone), `Lookup` (hit, cycle, or the guard is taken), `ReadFile`,
`ReadFails` or `ReadThrows` (the path is a directory, which opens, and throws when it is
read), one of `PipelineFails`, `PipelineThrows`, `PipelineSucceeds`, and
`Store`. `Environment` is enabled between any two. Between calls the caller may
use the cache itself (`CallerBegins`, `CallerEnds`, `CallerChangesCache`): a caller
that holds paths on the import stack while it imports is what a circular import
looks like. `Return` is every way out, `LeaveGuard` the destructor of `ImportGuard`.

`Loader` is what a caller may rely on, in a page: a call is one step (`Find`, `Keep`,
`Compile`, `Fail`, `Throw`), which succeeds in compiling only while no error was ever
logged, keeps a module only if the caller is not importing it, and leaves the
caller's own imports alone. `ImplementsLoader` in `Compiler` maps the driver to it:
what the caller is importing is the import stack without the path that the guard of
the call in progress has pushed, and the reply and the cache are mapped as they are;
the steps within a call are then stutters but for the last.

### Ast, Visitor, AstPrinter, Walk (syntax tree)

`Ast` has `nodes`, each with the three places in which a child is recorded:
`children`, the child's `parent`, and the fields of its class, which are `args` where
the constructor fills them, `field` where there is a setter, `items` where there is a
list. The sixty classes differ, for the properties, only in which of these they
have, and in what the printer does with them; `Kinds` are the eight that result. The
operations are `Construct`, `AddItem`, `SetField`, `SetBinding` (the one setter that
takes nothing out) and `RemoveItem`. A caller, `offer`, builds a few nodes; one that
rewrites attaches nodes that have a parent already.

`Visitor` has the walks: a stack of frames, each with the children that are left to
visit. `EnterNode` is `dispatchVisit` with the hook of the kind and `LeaveNode` is
`dispatchVisitPost`. The hooks of `collectNodes` and `findNode` are those of the code
and any other visitor's answer as they like. `AstPrinter` extends it with the visitor
that overrides `visit` itself: `SkipNode` (the filter), `CutNode` (the depth limit),
`PrintNode`, `PrintText` and `LeavePrinted`; what the hooks print and visit by hand
are `Printed` and `ToVisit`. The output is a sequence of pieces (brackets,
attributes, texts, dots), each with the depth of the tree and the indentation at
which it was put down. `Walk` is what all of these promise: a node is entered below the
innermost one that is open, once, and left in the reverse order.

### Options, Program

`Options` has the table of options, by the ways in which they are treated, what
`applyOption` makes of each, `validate`, `createDefaultOptions` and `mergeOptions`.
Options are kept under their name on the command line, and only those that were
set. `Program` is one run of `main`: `ParseCommand`, one action for each way in which
an argument is taken (`InputFile`, `Option`, `OptionAndValue`, and the failing ones
`RejectOption`, `ValueMissing`, `ValueEmpty`), `FindInput`, `Validate`, and the three ways
of compiling. An argument is a record of its form, name and attached value; what a text
reads as, where the code reads it as a number or as a command, is told by the constants
`Numbers` (sign, number and the unit behind it; `std::stoul` takes a minus sign and negates
what follows as an unsigned number, `parseFileSize` takes digits only) and `Capitals`
(`stringToCommand` makes the letters small). `ChangeFile` is other programs, enabled from the end of the parsing to
the reading of the input. The driver is one step here, by what the input is.

### SymbolTable

`scopes` is every scope in order of creation, `current` is `currentScope_`.
`DefineSymbol(s, n, node)` takes any scope: it is `SymbolTable::defineSymbol` for
the current one and `Scope::defineSymbol` through a pointer that the caller kept,
popped scopes included. `LookupSymbol`, `UpdateSymbolReference`, `PushScope`,
`PopScope` are the methods of these names. `unused` is what the last `popScope`
reported.

### StackArena

`blocks` is the chain, `currentBlock` the position in it, `checkpoints` the list,
`scopes` the `ScopedCheckpoint` objects alive. `Allocate`, `Reset`, `Clear`,
`SaveCheckpoint`, `RestoreCheckpoint`, `PopCheckpoint`, `OpenScope` and `CloseScope`
are the operations. Addresses matter only up to alignment: `base` is what is left
of a block's address modulo the alignments in use. `live` is the caller's view:
what it allocated and has not given up by a reset, a clear or the restoring of an
older checkpoint. Two things are the caller's obligation and guards of the model:
a checkpoint is restored only while the arena lists it, and an arena is cleared
only without checkpoints, since `clear` frees the blocks that they point to and keeps
them on its list.

### Grammar, Parser (with MCParser)

`Grammar` translates each parse function to the sequence of steps it takes:
`Expect`, `Advance`, `Call`, `Select` on a token at a distance, loops, `Report`,
`Fail`, `Synchronize`, and `Attempt` where a caller handles the failure of what it
called. Trees and messages are left out, every way in and out of the function is
there. Token kinds that no parse function tells apart share a name (the head of
the module lists them); braces, comma and semicolon are named as in `TokenKind` (`LBrace`). `Parser` runs these programs on a stack against the
window of three tokens. The lexer appears as `Read`: the next token of the text,
except that `>>` is two tokens if the slot was filled while the template depth was
positive. When a slot is filled and when its token is looked at are different
moments, and that difference is modelled: `Shift` records the mode, `Read` applies
it. The tearing of `>>=` is not modelled.

### Lexemes, Lexer (with MCLexer)

`Lexemes` has the functions that scan a text: for each kind of token where it ends,
what was reported, and the value of an integer. A character is a model value for
all those that the lexer treats alike. The widths (the largest integer, the largest
code point, the digits of the escapes) are constants, so that a few characters
reach each of them. `Lexer` is the state: `buffers` (name and rest of the text),
`contexts` (`interpolationStack`), `templateDepth`. There is an action for each
branch of `lexNextToken`; `Reached` and `Trivia` are what `nextToken` skips before
it, ends of included buffers among it. `StringPart` is both
`lexInterpolatedString` and `continueStringAfterExpression`. `PushBuffer` and the
two template actions are the calls a user of the lexer makes between tokens.
`nesting` is a history variable: what a reader of the tokens knows of the strings
and braces that are open. `Parser` keeps its own view of the lexer, kinds of tokens
instead of characters.

### Types, TypeRegistry (with MCTypeRegistry)

A type is its position in `types`, the sequence of all types ever created; the
parts it is built from are older. `Types` has, for that sequence, what the C++
classes compute: one operator per class that answers the five questions
(`equals`, `assignable`, `implicit`, `explicit`, `compatible`), tied together by the
recursive function `Relation`; sizes, alignments and field offsets; calls
(`CanBeCalledWith`, `ConversionDistance`); `PromoteForBinaryOperation`; and the
inheritance of classes (`FindCommonBase`, `FieldType`, the flattened view used for
code generation, `IsAbstract`, `ResolveVirtualMethod`). `TypeRegistry` has the
getters as actions, each with its normalisations (a pointer to a reference is a
pointer to what it refers to, and so on), and `Clear`, which forgets the
registered types while callers keep the objects. `offer` is the caller: the
requests that it makes, from `MCTypeRegistry`.

### Proofs

One module of proofs for each component, section 6.

## 4. Runs

Times are with two workers; states are distinct states. Where several invariants
are about one hazard, the configuration names their conjunction (`ScopesNest`,
`LiveMemoryKept`, `FillingKnown`, `TemplateContextFollows`, `ConversionsAgree`,
`LayoutsFit`, `HierarchyAnswers`, `TreeAgrees`, `OutputIsTheTree`, `LevelsCounted`), and the parts are named in the module.

| Run | Shows | Bounds | States |
|---|---|---|---|
| `driver` | The import stack never has a path twice, only clean modules are cached, a stale hit was edited while it was loaded, failures are logged; each call is a step of `Loader` | two paths, one for each style of import; 2 edits; 2 clock values; the error counter saturates at 1 | 496,884, 36 s |
| `scopes` | Scopes form a tree and popped ones stay closed, bindings change only by shadowing, a use is recorded where it is visible, unused symbols are reported | 2 names, 3 scopes, index width 2 | 104,650, 17 s |
| `scopes_used` | violation: a symbol that was looked up is reported as unused | as above | |
| `arena` | Live allocations are disjoint and in use; blocks are filled in their order and no further than their size, and statistics are ordered | block size 4, sizes 0, 1, 3, alignments 1, 2, residues 0, 1; 3 blocks; 5 allocations and checkpoints; 2 scopes | 434,265, 19 s |
| `parser` | Failures are reported, accepted texts are bracketed, the template context ends with the arguments that began it and splits the nested ones, the parser ends but for one loop | eight texts, below | 361,078, 60-90 s |
| `parser_recovery` | violation: the recovery in a block loops for ever | 8 tokens of one function | |
| `parser_shift` | violation: a `>>` outside generic arguments is torn | 10 tokens of one declaration | |
| `lexer` | Interpolated strings nest as their tokens do, looking ahead in a string agrees with the scan, integers are what their digits say or the largest, every token reads on and the end is that of all the text | nine sets of texts, below; the largest integer is 15, the largest code point 31, escapes have 2 and 3 digits; two included texts; template depth 1 | 116,054, 60 s |
| `types` | No two registered types are equal; equal types are interchangeable, conversion is antisymmetric, call and distance agree, promotion is fair; fields fit and the flattened view agrees; common bases are found and concrete classes override | eight callers of 3 to 5 types each | 114,998, 55 s |
| `types_layout` | violation: flattened fields overlap with two bases in a chain | chains of classes | |
| `ast` | The three records of a child agree; searches answer; the output is the tree, each node whole and in order; the counters of levels are right up to the nodes at which they go wrong; each walk implements `Walk` | five callers of 3 or 4 nodes, one of which rewrites; 3 children; depth limits 0, 1, 2; counter of 16 values; filters that reject nothing or leaves | 366,370, 25 s |
| `program` | Each argument counts once; exit code 0 means that the first input compiled; failures are explained; what the override sets is kept, merging is associative and has a neutral element | 3 arguments out of 27; 2 paths, with 5 and 2 things that may be there; sizes of 8 bits, counts of 7 | 363,485, 45-70 s |

Why the bounds are enough. *Driver*: each promise relates one module to its file,
with one more path for cycles and for entries below the top of the stack; two
edits are the one that is read and the one that is missed, two clock values tell
"same tick" from "later". All of these are proved without bounds as well; what
`PrintTokens = TRUE` changes is covered by the proofs only, which hold for either
value. *Scopes*: two siblings under the global scope, or a chain of three, is every
shape in which a popped scope, a shadowed name and a current scope are different;
with modulus 2 the index wraps once two names fill a scope. *Arena*:
three blocks are a current one with one before and one behind; five times allow a
checkpoint, two allocations into different blocks, a restore and an allocation on
top. *Parser*: two texts of four and fewer arbitrary tokens reach every function
and every way out of it near its start; the long ones use the tokens of generic
arguments (9), of statements with bodies (7) and of functions (8), where flags,
template context and recovery interact. *Lexer*: each caller reads all texts of 4 to 6
characters over the characters that one part of the lexer tells apart: strings
(6 of quote, backslash, braces, `u`), strings with includes (4 of quote, braces,
blank, with texts that open and that close what is open around them), comments (5),
numbers (5) and their suffixes (4), characters and their escapes (up to 7), words
and raw strings (4), symbols (4). Six characters hold an interpolated string in the
expression of another; two includes put one text into the other. *Types*: an offer of a few primitives and
one or two getters, up to five objects, holds two equal types built on either side
of a `clear()` and a third to ask about; chains of classes reach three levels with
fields, two with methods and their signature. *Syntax tree*: a node that is moved needs an old parent, a new one and
itself, which is three; a for statement and an interpolated string need their parts and
a node above them to be indented or cut, which is four; every kind that the printer
treats in a way of its own is beside, above or below a kind that it treats in another.
The depth counter has more values than a walk has levels, so that a wrap is a wrap of
2^32. *Program*: three arguments are a command, an option and its value, or two options
that set the same thing and a file; the 27 arguments hold an option of every way of
parsing (flag, value, list, size, count, attached and detached, long and short, of one
command and of all), a text for every class of value, and a negative number, which is also
a short option that there is not. Two paths are the first input
and one that must not matter but for being valid.

## 5. Fairness

Only the parser has liveness properties. One thread runs it to its end, so its
specification has `WF_vars(Next)`: it does not stop as long as it can take a step.
Nothing is assumed of which step that is, since the parser is deterministic once
the text is chosen. The other components are driven by callers who may stop at
any time, and state no liveness.

Deadlock is checked in every run but those of `TypeRegistry`, whose callers stop
when they have made the objects they are offered, and that of `Program`, which ends.
Walks end because a node is entered once, which is a safety property (`Walk`).

## 6. Proofs

The theorems hold for every value of the constants, under the assumptions that the
modules name beside the constants: bounds are naturals, an offer is a record of its
type, and so on; those that say more are named below. A safety theorem has the form
`Spec => []P` and rests on an inductive invariant of its module, called `IInv` or `Inv`
where it is more than the property itself, with a lemma for each action or for what
several actions share. An action property is one step of the same invariant. Theorems
about operators (`MergingIsAssociative`, `NewIsNeutral`) speak of no state.

| Module | Theorem | Property | What holds |
|---|---|---|---|
| `CompilerProofs` | `TypeCorrect` | `TypeOK` | every variable of the driver keeps its type |
| `CompilerProofs` | `ImportedOnce` | `NoPathImportedTwice` | no path is on the import stack twice |
| `CompilerProofs` | `GuardOnTop` | – | an import in progress has exactly its own path on top of the stack it found |
| `CompilerProofs` | `CleanCache` | `OnlyCleanModulesCached` | only modules that compiled without an error are cached |
| `CompilerProofs` | `HitsAreCurrent` | `HitIsCurrentUnlessEditedWhileLoading` | an accepted cache entry is stale only when the file was written while it was being loaded |
| `CompilerProofs` | `FailuresLogged` | `FailureIsLogged` | a failing reply has been logged |
| `CompilerProofs` | `CallsRestoreStack` | – | every way out of a call restores the import stack |
| `CompilerProofs` | `ErrorsStopTheDriver` | – | after an error nothing compiles and nothing is cached |
| `CompilerProofs` | `Invariance` | – | the conjunction of typing, the stack discipline, what may be stored and the order of times is an invariant of the driver |
| `CompilerProofs` | `Refinement` | `ImplementsLoader` | the driver implements the abstract loader: each of its calls, however many steps it takes, is one step of Loader, and the steps between change nothing a caller sees |
| `SymbolTableProofs` | `SpecTypeOK` | `TypeOK` | the scopes, their symbols and the report keep their types |
| `SymbolTableProofs` | `SpecScopesNest` | `ScopesNest` | scopes are a tree whose levels follow their parents, and a scope that was popped is never on the chain of the current one again |
| `SymbolTableProofs` | `SpecBindings` | `BindingsOnlyShadowed` | the binding that a name has changes only where a definition shadows it or a scope is pushed or popped |
| `SymbolTableProofs` | `SpecUseRecorded` | `UseRecordedWhereVisible` | a use is recorded at the binding that is visible from the current scope |
| `SymbolTableProofs` | `SpecReported` | `NeverUsedIsReported` | a symbol whose use nobody recorded is reported when its scope is popped |
| `StackArenaProofs` | `SpecTypeOK` | `TypeOK` | blocks, checkpoints and statistics keep their types |
| `StackArenaProofs` | `SpecLiveMemoryKept` | `LiveMemoryKept` | live allocations share no byte and lie in use, whatever is reset, restored, popped or closed |
| `StackArenaProofs` | `SpecFillingKnown` | `FillingKnown` | what is used fits, blocks behind the current one are empty, and the statistics are ordered |
| `LexerProofs` | `SpecTypeOK` | `TypeOK` | texts, contexts, tokens and errors keep their types; no context counts its braces below zero and every literal fits its width, for texts of any length and includes to any depth |
| `LexerProofs` | `SpecIntegersSaturate` | `IntegersSaturate` | an integer literal of any length has the value its digits say in its base, underscores aside, or the largest that fits when that is larger, and then the overflow is reported |
| `LexerProofs` | `SpecLookaheadAgrees` | `LookaheadAgrees` | the two loops over the text of a string agree: hasInterpolation finds a brace only where the scan stops at one, and each such brace that is not the one of a braced escape |
| `LexerProofs` | `SpecStringTokensNest` | `StringTokensNest` | as long as no string breaks off, the stack of contexts is the nesting of the string tokens, with the braces open in each, whatever is included in between |
| `LexerProofs` | `EveryTokenTakesSome` | `EveryTokenReadsOn` | every call takes a character of the text, or is at the end of the main text with all of it and of what it includes read |
| `ParserProofs` | `SpecTypeOK` | `TypeOK` | the window, the flags and the brackets keep their types, what is called is a parse function, and the depth of the template context, which is left as often as it was entered, is never below zero, for texts of any length and nesting |
| `ParserProofs` | `SpecNothingLostSilently` | `NothingLostSilently` | no parse function fails, and the recovery skips no token, before an error has been reported, on any text |
| `ParserProofs` | `SpecAcceptedIsBalanced` | `AcceptedIsBalanced` | a text of any length and nesting that is accepted without an error has every bracket closed by its own closer and none left open, but for closers between declarations that close nothing and are skipped |
| `ParserProofs` | `SpecTemplateContextEnds` | – | the lexer is out of the template context whenever the parse has ended and wherever the recovery skips, however deep the generic arguments were nested in which the error was met; one of the two parts of TemplateContextFollows |
| `TypeRegistryProofs` | `SpecTypeOK` | `TypeOK` | every object that is ever allocated is built from older ones, no pointer points to a reference and no reference refers to a pointer, for any requests and any number of types |
| `TypeRegistryProofs` | `SpecTypesAreUnique` | `TypesAreUnique` | no two objects that the registry refers to are equal, whatever they are built from and whenever it was cleared |
| `TypeRegistryProofs` | `SpecConversionsAgree` | `ConversionsAgree` | equal types have one layout and answer every question alike, two types that convert to each other implicitly are equal, the distance of a call tells whether it is possible and is 0 only for the types of the parameters, and promotion does not depend on the order of the operands, for types of any depth with any number of parts |
| `TypeRegistryProofs` | `SpecHierarchyAnswers` | `HierarchyAnswers` | the nearest common base of two classes is found, but that a class which derives from the other may pass over it, and a class that is not abstract answers for the methods of its abstract base, for chains of bases of any length |
| `TypeRegistryProofs` | `SpecLayoutsFit` | `LayoutsFit` | the fields of a struct lie within it, aligned unless it is packed and without overlap, sizes are multiples of the alignment unless unions are involved, and the flattened view of a class agrees with what is told of its fields: the index and the type for chains of bases of any length, offsets that do not overlap for a class with at most one base |
| `AstPrinterProofs` | `SpecTreeAgrees` | `TreeAgrees` | the three records of a child agree as far as the operations keep them so, whatever is attached, replaced, moved and removed |
| `AstPrinterProofs` | `SpecPrinterTypeOK` | `TypeOK` | trees, frames of the walk, counters and output keep their types |
| `AstPrinterProofs` | `SpecImplementsWalk` | `ImplementsWalk` | every search and every print implements the abstract walk: each node is entered once, below its parent, and left in the reverse order |
| `AstPrinterProofs` | `SpecLevelsCounted` | `LevelsCounted` | the counters of depth and of indentation are right up to the nodes at which they are known to go wrong, for trees of any size and any limit |
| `AstPrinterProofs` | `SpecSearchAnswers` | `SearchAnswers` | a search of a tree of any size and shape answers what it promises: collectNodes with every match in the order of the text, findNode with the last of the outermost ones |
| `AstPrinterProofs` | `SpecOutputIsTheTree` | `OutputIsTheTree` | the output of the printer is the tree, of any size and history and with any configuration: every node it enters is opened, closed and given attributes as often as its hooks do, and without a limit all that the filter accepts is shown once and in order |
| `ProgramProofs` | `SpecTypeOK` | `TypeOK` | the loop never looks behind the arguments, options hold settings and values of settings only, and the two numbers stay in their range |
| `ProgramProofs` | `SpecArgumentsCountOnce` | `ArgumentsCountOnce` | every argument of a command line of any length is looked at once, the first that ends the parsing decides how it ends, and the last of the options that set the same thing what it is |
| `ProgramProofs` | `SpecExitsZeroForTheFirstInput` | `ExitsZeroForTheFirstInput` | the program exits with 0 for a request for help or the version and otherwise exactly if its first input was compiled without an error, whatever becomes of the files meanwhile |
| `ProgramProofs` | `SpecFailureIsExplained` | `FailureIsExplained` | a failure has been logged, an uncaught exception included, but for the three kinds that are known not to be and for a directory in the place of the file that was validated |
| `ProgramProofs` | `SpecMergeLaws` | `MergeLaws` | what the override sets is kept but where it is the default, merging is associative and untouched options are neutral but for those of a build, for the options of every command line |
| `ProgramProofs` | `MergingIsAssociative` | – | merging is associative for all options whatever their commands, settings and lists |
| `ProgramProofs` | `NewIsNeutral` | – | options that nobody has touched are neutral in a merge, but for those of a build as the override |

### Induction

The library's rules of induction take the statement that is proved as an operator, which
the provers cannot instantiate. So each module of proofs that needs it begins with
induction about *sets*: a set of naturals that has 0 and with `n` also `n + 1` is all of
`Nat` (`SimpleInduction`, and where they are used its strong and downward forms). It rests on
the library's theorems that `<` is well founded on the naturals and that a well-founded
relation has minimal elements (`LeastNatural`). From it follow that recursive functions
exist and are what their definition says (`RecursionExists`, `StepsExist`, `DownExists`), that a
walk of steps stays within a set, and how sums (`Total`) compare and change. Most of what the
models compute with recursive functions is proved about through these.

### CompilerProofs

`IInv` is the conjunction of `TypeOK`, `NoPathImportedTwice`,
`OnlyCleanModulesCached`, `FailureIsLogged` and four parts that are there because
the properties are not inductive by themselves:

* `StackInv` extends `GuardHeld` to the steps before the guard is taken, so that the
  guard is known to push on the stack that the call found; with
  `NoPathImportedTwice` it gives that `endImport`, which erases the *first*
  occurrence of a path, erases the one the guard pushed (`EndImportCases`,
  `GuardRestores`).
* `StoreInv` carries from the pipeline to `Store` that the text compiled without an
  error, which is what `OnlyCleanModulesCached` needs.
* `TimeInv` orders the times that are recorded (read before stored before now) and
  says of the call in progress what the property says of an entry: a text read at
  a time is the file's text unless the file was written then or later. An entry is
  then accepted only if the file's time is the stamp, which is no later than the
  time of storing.
* `CountInv` says the error counter only grows, up to where it saturates, so that
  an error once logged stays logged.

Each action has a lemma that it keeps `IInv`; `Begin` and `Return`, which many
actions share, have one each. The action properties follow from `IInv` and a case
distinction over the actions. So does the refinement: `StackInv` and `EndImportCases`
give that the mapped stack of imports is the same before and after each step of a
call, `StoreInv` that a module is kept only while nothing has failed, and `CountInv`
that `failed`, which is "the counter is positive", never becomes false again. What
`GuardOnTop`, `CallsRestoreStack` and `ErrorsStopTheDriver` state follows for a caller from
`Refinement`, which is why the run checks `ImplementsLoader` and not these.

The assumptions are that there is a path, that project and library files are paths and
that `MaxErrors` is positive; `PrintTokens` is either value.

### SymbolTableProofs

`IInv` is `TypeOK`, `ScopesNest` and `UnusedHasNoReference`: what is reported as unused has
no recorded use. What a lookup finds is a recursive function up the chain of scopes. The
lemmas about it compare two walks (`IsWalk`, `IsChain`): the walks of one state are the
beginning of those of the next (`WalksStay`), since a step leaves the parents and levels of
all scopes as they were and levels fall strictly on the way to the root. So a step changes
only the bindings that are found through the scope in which it defines something.

### StackArenaProofs

`IInv` is `TypeOK`, `LiveDisjoint`, `LiveInUse`, `BlocksFilledInOrder`, that the total used
is at most the sum over the blocks, that the sizes of the blocks are counted, that what is
live is no younger than the arena's time, and `CheckpointsPlaced`: what is live since before
a checkpoint, listed or held by a scope, lies before the place of the checkpoint. The last
is what the properties need to be inductive: a restore keeps exactly what is older, and it may
reset the blocks behind the checkpoint because nothing older is there. The arithmetic is that
of alignment: the aligned offset is behind what is used by less than the alignment, whatever
the block's own address (`AlignedBehind`).

### LexerProofs

Each function that scans has a lemma that it stays within the text and does not go back;
with these `TypeOK` is inductive by itself, which includes that a literal fits its width.
`IntegersSaturate` compares a loop that multiplies and adds, and stops at the largest integer,
with a sum over the places of the digits, each by its weight. The sum is the library's, whose
order is not specified (`SumIsTotal` puts it in that of the text); a digit more multiplies the
sum by the base and adds the digit (`SaidStep`); and saturating at each digit is saturating at
the end (`AppendSaturates`). The loop runs over what is ahead, the property over the text of the token: the two have the digits, and where
they stop, in common (`NumberText`).
`LookaheadAgrees` follows for each text from `LoopsAgree`, where the two loops over
the text of a string are run side by side: they part only at a braced escape.
`StringTokensNest` needs the invariant `Mirrored`: as long as no string broke off, the stack
of contexts and the history variable `nesting` are mirror images. For `EveryTokenReadsOn` the
branches of `lexNextToken` are classified by how they read (`Call`, `LeftFor`), and what is
left of all buffers is a sum (`LeftIn`) that each call but the last makes smaller.

### TypeRegistryProofs

`IInv` is `TypeOK` and `WellFormed`: each object is built from older ones. So `Relation`, which
is recursive over pairs of objects, satisfies its own equation (`RelationIs`), what it says of
two objects depends on these and what they are built from only (`SameIsKept`), and equality is
symmetric (`SameIsSymmetric`), which is not obvious, as each class asks the question from its
own side. With the three, `TypesAreUnique` is inductive together with `IInv`: a getter
registers an object only if it equals none registered of its kind, in one direction, and
objects that are created later do not change the answer.

`HierarchyAnswers` follows from `IInv`, too: a base is an older object, so the recursion along
bases ends (`DownExists`), `Chain` satisfies its own equation (`ChainIs`) and a chain is the class
followed by older ones (`LinesAre`), of which each is a proper base of those before it
(`LaterIsAbove`). The first place that `findCommonBase` finds is then the nearest.

So does `ConversionsAgree`, in four parts. For the layout, what a fold over the parts of a type
computes is put as a walk from one part to the next (`FoldFollows`, `EndIs`) or as a sum
(`PackedIs`, `SumIs`), and `Alignment` and `StaticSize`, in which an object depends on all that it
is built from, satisfy their own equations by a recursion over courses of values (`CourseExists`,
`AlignmentIs`, `SizeIs`). That equal types are interchangeable (`EqualTypesInterchangeable`) is
then two inductions: over the object that is asked, whose parts answer as those of its equal
(`AlikeAsked`), and over the third type that is asked about the two (`AskedAlike`); neither
needs that equality is transitive, which is an instance of what they give. That implicit
conversion goes one way is an induction over the first type (`OneWayAsked`), with the symmetry of
equality for the types that pointers and references point to. A call's distance is a sum of costs of
which none is 0 (`DistanceIs`), and promotion is a case distinction over the numbers (`Promoted`).

And so does `LayoutsFit`. The offset of a field is the end of the parts before it, aligned, and the
end of the first `k` parts of a record is that of all of them up to the `k`-th (`PrefixesAre`,
`OffsetsFit`); an alignment divides that of the whole, as both are powers of two
(`AlignmentDivides`). What a class declares with its bases is a concatenation along the chain
(`Flattened`), which is that of the base class followed by the class's own (`FlattenedIs`), and so are
the count, the index, the type and the offset (`CountIs`, `IndexIs`, `TypeIs`, `OffsetIs`). That
index and type agree with the flattened list is then an induction along the bases (`TellsAll`): a
name that is only once in the list is in one of the two parts and not in the other
(`WhereInTwo`, `PointsOn`). For the offsets the property speaks of at most one base, and
`JoinedApart` says that two lists of fields do not overlap if the second lies behind the room of
the first, which is the size of what the base declares.

### ParserProofs

The state of the parser is a stack of steps, so an invariant has to say what every rest of every
parse function does. It says it with a judgement about programs, as in a proof that a compiler is
correct: `Runs(p, a, b)`, program `p` leads from spot `a` to spot `b`. A *spot* is what is known
where the parser stands: whether an error was reported, what the current token and the next may be,
which brackets are open, and how deep the template context is, there and where a failure is caught.
`Leads` has the rule for each kind of step: `expect` and `advance` change the open brackets by what
they consume, a call comes back with the brackets and the context it found, `fail` and
`synchronize` need an error that has been reported, and a step that may unwind leaves the context
as deep as its catcher expects. A call of a parse function is taken to do this, whatever
its body is, so that recursion is no obstacle; that each body does is the work of the module,
a lemma for each of the eighty functions (`RuleTurns` is all of them).
Loops and choices of a program are programs themselves, so the judgement is a set of such triples
that is closed under the rules (`Known`, `Consistent`) and `Runs` is to be in one.

`IInv` is `TypeOK` and `Kept`: with an error the brackets are forgotten, a failure is behind an error,
a parse that has ended has an empty stack, and what is on the stack is a program that leads from
the current spot to the end (`Parsing`), with the loop of the compilation unit behind it or
not, or it is that loop between two declarations (`InUnit`), where closers that close nothing are
skipped. Each action then takes a first step off a program that leads to the end, and what is left
leads there too (`SteppingLevel` and the lemmas behind it). `NothingLostSilently`,
`AcceptedIsBalanced` and `TemplateContextEnds` say of `IInv` what it knows at the end and where the
recovery skips. TLC does not evaluate `IInv`, which says that there is a set of triples;
what follows from it are the invariants that the run `parser` checks. Nothing is assumed but that
the texts are texts (`TextsAssumption`), of any number and length.

### AstPrinterProofs

`TreeInv`, for the tree, is `TypeOK` of the tree, `ParentsAgree`, that a node which was
never moved is a child once (`UnmovedOnce`), which fields a node of each kind has and how often
a child is in them (`FieldsCounted`), and that no node is reached from its own child (`Acyclic`).
`TreeAgrees` follows.

`WalkInv`, for the walk, says of each frame that its node was entered and that what it has
left to visit are children that were not entered, each once (`Pending`), also after the hooks
that visit some children by hand. Tree-likeness of what is walked (`IsTree`, which callers
establish) then gives that no node is entered twice, and the refinement: entering a node is a
step of `Walk`, leaving one is, and all other steps stutter. `Inv` is the two with the types
of the printer's variables.

`LevelsInv`, for `LevelsCounted`, says what the counters are while they are right. Until a node
with a hook was opened, the depth is the number of frames; until one was closed, it is the number of
frames of nodes without a hook, and no frame is of a node that closes itself (`DepthCounts`). Until
a node was opened that skews the indentation, every frame indents and the level is their
number (`IndentCounts`). That the depth does not wrap needs that there are no more frames than
nodes (`FewFrames`) and `DepthAssumption`: trees with the limit added stay below `DepthRange`.

`SearchInv`, for `SearchAnswers`, is a balance (`Balance`): the matches that were put down, followed by
those that each frame has ahead, from the innermost to the caller's, are all matches below the root
in the order of the text. Entering a node moves it, if it is sought, from what is ahead to what
was found and gives what is ahead below it to its own frame; leaving one takes away a frame that
has nothing ahead; at the end only what was found is left. `findNode` keeps the last of what it
has put down (`Answer`) and goes below no match, so that the nodes it visits have no match above
them (`Clear`) and what it leaves out below a match is not outermost (`NoneBelowMatch`).
What is ahead is told in terms of `Preorder`, a recursive function that is unfolded as many times as
the tree has nodes. That there is such a function, and that it satisfies the equation "a node, then
its children's preorders" without the count, is proved and not assumed: functions over the natural
numbers that are defined by recursion exist (`RecursionExists`), by induction over a set of numbers, and
once the count reaches the number of nodes below a node, which shrinks from parent to child, it
changes nothing more (`PreorderGoesOn`). The same lemma gives what `FlattenSeq` does on the
concatenation of two lists (`FlattenBoth`). TLC does not evaluate `SearchInv`, which
says that there are sequences of any length; what follows from it is what the run `ast` checks.

`OutputIsTheTree` is two invariants. `PrintInv`, for `PrintedOnce`, is a balance of the same form
(`ToPrint`): what the output shows, followed by what each frame has ahead (`Unprinted`), is what is
expected of the root. `Expected` is, like `Preorder`, a recursive function that is unfolded as often as
the tree has nodes, and satisfies its equation without the count (`Settles`, `ExpectedIs`). The
heart is that a hook, with what it prints and what it leaves to be visited, tells exactly what is
expected of its node (`NodeTold`), by the kinds of nodes: a for statement prints its variables by hand
and goes on to three of its parts (`ForPartsTold`), an interpolated string prints its literals and
goes on to its expressions (`PartsTold`). The latter needs that an interpolated string's list is
its children (`ListInv`), which no operation on trees disturbs, since those that change a list are those
of another kind; and that the parts of a for statement are not among its variables (`PartsDiffer`) is what
a tree is. `WholeInv`, for `NodesAreWhole`, counts brackets and attributes: a node that was entered has
as many as it has in the end, less what its frame owes (`Due`), which is a bracket while the node is
not left and a bracket with attributes while the hook's own is still ahead. The hook's own is the last
thing that its frame does (`ClosesLast`), so it is owed once, and frames are of different nodes.

### ProgramProofs

`IInv` is `TypeOK`, `ExitsZeroForTheFirstInput`, `FailureIsExplained` and a part for each
phase: `CommandInv` (the command is the first argument's), `FlowInv` (what is untouched before a
phase), `CompileInv` (what was validated stays so), `ParsingInv` and `ParsedInv`. `ParsingInv` is
the invariant of the loop: nothing before the index ends the parsing (`GoesOnTo`) and the options
are what the arguments before it make them (`CountedTo`); `ParsedInv` says the same of the
whole command line when the loop has ended well, and otherwise how it ended. The files may change
at every step. `MergeLaws` follows from `SettingOfMerged`, `MergingIsAssociative` and `NewIsNeutral`, about
all options, not only those that a command line can set. Assumed is what `Options` and `Program`
state of their constants: the default size of the arena is a size, the default number of errors
is below the width of the count, and a path is in one of the states that `Disk` knows.

### What is only model-checked

* Liveness (`EndsUnlessStuckInBlock` of the parser) and all that speaks of `ENABLED`, which
  are beyond the provers used.
* Of the parser `NestedArgumentsAreSplit`, one of the two parts of `TemplateContextFollows`: that the
  `>` of nested generic arguments was read in their context depends on when each of the three
  tokens of the window was read, of which the judgement of `ParserProofs` says nothing.

## 7. Where the code differs from what is said of it

Four runs end in a violation of something the repository says of itself; they
are the `findings` of `PROJECT.json`:

* `scopes_used`: `lookupSymbol` calls `updateLastReference(nullptr)`, which makes the
  symbol unused.
* `parser_recovery`: a statement that begins with `func`, `struct`, `enum` or `type`
  where none may stand sends `parseBlockStatement` into an endless loop.
* `parser_shift`: the `>>` of `var a: A<B> = c >> d` is torn into two tokens, since it
  is read before the template context is left.
* `types_layout`: flattened offsets leave out the fields of a base's base.

Others have no run of their own. The models have them as the code does, and a property
that would be simpler without them states exactly where they begin:

* Driver: `isCached` is said to mean "cached and up-to-date" (`module_cache.hpp:81`); the
  stamp is taken when the entry is stored, not when its text was read
  (`HitIsCurrentUnlessEditedWhileLoading`). "Each compilation should report its own
  errors" (`tests/compiler/test_compiler.cpp:424`); the counter that the pipeline reads
  counts those of all calls, and a clean text after a failure is a parse error
  (`failed` in `Loader`). `DiagnosticLogger::resetCounters` exists and nothing in the
  source calls it.
* Trees: "Parent-child relationships maintained automatically" (`node.hpp:27`);
  `removeChild` clears the parent pointer of a node that has another parent by now, and
  `MatchCaseNode::setBinding` leaves the binding that it replaces among the children
  (`ParentsAgree`, `ChildrenAreFields`). `findNode` is said to find the first node
  (`visitor.hpp:642`) and returns the last of the outermost ones (`SearchAnswers`).
* Printer: `visitNodePost` decrements `currentDepth_` "for all nodes to maintain
  balance" (`printer.cpp:97`), which only nodes without a hook have incremented: behind the
  first of the others the unsigned counter is 2^32 - 1 and with a depth limit all that
  follows is cut (`DepthLimit`). In compact mode primitive types and interpolated strings
  are closed twice, the latter with their attributes twice; otherwise a primitive type's
  attributes are not printed (`NodesAreWhole`). `visitNode` and the for statement indent by
  a level that nothing takes back (`IndentedByDepth`). The comment at the end of
  `visitForStmt` says "Return true"; it returns false, having visited the parts itself.
* Options: an option that takes a value takes the next argument whatever it is, `--help`
  too; an empty value and `--arena-size=0` fail without a message (`FailureIsExplained`);
  `--max-errors` is narrowed to 32 bits, and a negative one is 2^64 less that, narrowed;
  short options do not ask whether the command has them. A test expects
  `cxy invalid-command` to be an error (`tests/test_compiler_options.cpp:912-926`); the
  parser says in a comment that it takes a first argument that is no command for a file of
  the default build, and answers `Success`, as `ArgumentsCountOnce` does. `mergeOptions`
  takes an option that is at its default for one that was not set, so that it does not
  override that of the base (`options.hpp:191`), and the options of a build are lost to an
  untouched override; `MergeLaws` excepts both.
* Program: of several files only the first is compiled, although all are validated, and
  `cxy test` without input always fails (`ExitsZeroForTheFirstInput`). Options are not
  validated where the program comes by the standard input. A directory that takes the
  place of the file after it was validated terminates the program, since reading it throws
  and nothing catches that; nothing is logged (`FailureIsExplained`).
* Types: a class asked for again with another base is the first class; an unsigned value
  never fits a signed type; unions are equal in one order of their variants only.
  `findCommonBase`, asked of a class and its own base, returns the base's base; asked of the
  base and the class it returns the base, which is what the test calls "the most immediate
  common base" (`tests/types/test_class_types.cpp:323`). `CommonBaseFound` allows this one
  class to be passed over and no other. "A class is abstract if it inherits abstract methods
  that are not overridden" (`composite.cpp:1259`); `isAbstract` looks at the methods that the
  direct base declares, and only if that base is flagged, so a class two levels below an
  abstract one may be instantiated with nothing that overrides the method.
  `ConcreteOverridesItsBase` is about a direct base that is flagged itself.
* Arena and lexer: after a checkpoint is restored, blocks behind the current one are
  empty and are not used again; the `{` of an escape `\u{...}`, which `hasInterpolation`
  steps over, begins an expression if the string has another expression. A text that is
  included in an expression of a string may close it: its braces count for the string that
  is open where it is included, and `StringTokensNest` counts them so, too.

## 8. What is not modelled

* Of tokens: which words are keywords, the values of floats and characters, the text
  of a string once its escapes are processed, locations, and `printAllTokens`, which
  runs a lexer of its own. The tokens that the parser model reads are any sequence
  of kinds, which includes those that the lexer makes.
* Which tree the parser builds; flags, types, metadata and `toString` of nodes; the
  spelling of what the printer prints (names, locations, spaces).
* Of the options: help and version texts, the suggestions for misspelt options, the
  lookup of configuration files and `initializeOptions`, which asks the platform for
  directories.
* Messages, sinks, the source manager's line index; the counter of errors is in
  `Compiler`.
* The string interner and its built-in names: a table of texts in one step each,
  whose one hazard, the globals of namespace `S` that each interner binds anew, does
  not meet any other component, as the program has one interner.
* Of the types: names and hashes, and the choice of the best type of a literal,
  whose 128-bit arithmetic would be a table of its own.
* Moves and copies of arenas; `construct` is `allocate`.
* Third party code (the test framework).

## 9. Plan

Order of what is left, the most important first:

1. Proofs: `NestedArgumentsAreSplit`, with the context in which the tokens of the window were
   read as a part of the spots of `ParserProofs`.
2. `LiteralTypes`: `findBestIntegerType` and `valueCanFitIn` over a word of a few bits,
   against a reference that compares the values.
3. The processed text of strings and the numbers of floats and characters, as
   functions of the text against reference definitions.
4. Expressions against a reference: the nesting of calls of binary operators agrees
   with a table of precedences.
