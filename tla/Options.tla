------------------------------ MODULE Options ------------------------------
(***************************************************************************)
(* The options of the compiler (src/src/compiler/options.cpp and the table *)
(* and applyOption of option_parser.cpp): what each option sets, whether   *)
(* options are valid beside the files there are, and the merging of two    *)
(* sets of options.                                                        *)
(*                                                                         *)
(* Options are kept under the names of the command line.  A setting is a   *)
(* sequence of texts: of one, of none where an optional text is not set,   *)
(* or a list.  The two numbers are kept as such.                           *)
(***************************************************************************)
EXTENDS Naturals, Sequences, SequencesExt, FiniteSets

CONSTANTS Numbers,     \* what texts that begin with a number read as: its sign, the number
                       \* and a unit
          Capitals,    \* texts that are commands but for capital letters -> the command
          Units,       \* bytes in a unit of size: "" and "b", "k" and so on
          SizeRange,   \* 2^64, the number of values of size_t
          CountRange,  \* 2^32, the number of values of maxErrors
          ArenaSize    \* the default of the arena size

DefaultMaxErrors == 100

ASSUME NumbersAssumption ==
    /\ \A t \in DOMAIN Numbers :
          /\ Numbers[t].sign \in {"none", "plus", "minus"}
          /\ Numbers[t].number \in Nat
          /\ Numbers[t].unit \in STRING
    /\ \A u \in DOMAIN Units : Units[u] \in Nat \ {0}
    /\ SizeRange \in Nat \ {0} /\ CountRange \in Nat \ (0 .. DefaultMaxErrors)
    /\ ArenaSize \in 1 .. SizeRange - 1

Commands == {"dev", "build", "test", "run", "check", "help", "version"}

ASSUME CapitalsAssumption ==
    "" \notin DOMAIN Capitals /\ \A t \in DOMAIN Capitals : Capitals[t] \in Commands

\* stringToCommand makes the letters small
StringToCommand(text) == IF text \in DOMAIN Capitals THEN Capitals[text] ELSE text

-----------------------------------------------------------------------------
(* The table of options.                                                   *)

DevFlags == {"show-timing", "show-memory-usage", "preserve-temps", "debug-parser",
             "debug-lexer", "print-tokens", "print-ast", "emit-debug-info", "clean-ast",
             "with-location", "without-location", "without-attrs"}
BuildFlags == {"shared", "static", "executable", "no-pie"}
TestFlags == {"stop-on-failure", "test-verbose"}
SharedFlags == {"verbose", "help", "version", "warnings-as-errors", "suppress-warnings",
                "show-colors", "no-colors", "show-arena-stats", "enable-memory-tracking",
                "with-memory-trace", "enable-experimental", "strict-number-literals",
                "unicode-identifiers", "no-unicode-identifiers"}

Lists == {"disable-warning", "enable-warning", "include", "library-path",
          "enable-feature", "disable-feature", "define", "filter"}
Paths == {"output", "lib-dir", "build-dir", "plugins-dir", "sysroot", "dump-file"}

\* The values of the options that take one of several
Alternatives == [o \in {"diagnostic-format", "stop-after", "dump"} |->
    CASE o = "diagnostic-format" -> {"default", "json", "brief", "verbose"}
      [] o = "stop-after" -> {"lex", "parse", "semantic", "optimize", "codegen"}
      [] o = "dump" -> {"tokens", "ast", "json", "debug", "none"}]

Valued == Lists \cup Paths \cup DOMAIN Alternatives \cup {"max-errors", "arena-size"}
Table == DevFlags \cup BuildFlags \cup TestFlags \cup SharedFlags \cup Valued

Short == [o |-> "output", v |-> "verbose", h |-> "help", V |-> "version",
          W |-> "warnings-as-errors", w |-> "suppress-warnings", B |-> "build-dir",
          I |-> "include", L |-> "library-path", D |-> "define"]

ValidCommands(o) ==
    CASE o \in DevFlags \cup {"dump", "dump-file"} -> {"dev"}
      [] o \in BuildFlags -> {"build"}
      [] o \in TestFlags \cup {"filter"} -> {"test"}
      [] o = "stop-after" -> {"dev", "build", "check"}
      [] OTHER -> Commands

-----------------------------------------------------------------------------
(* Options.                                                                *)

\* The setting that an option sets, where several set the same
Field(o) == CASE o = "no-colors" -> "show-colors"
              [] o = "no-unicode-identifiers" -> "unicode-identifiers"
              [] o = "without-location" -> "with-location"
              [] o \in {"shared", "static"} -> "executable"
              [] OTHER -> o

Default(f) ==
    CASE f \in {"show-colors", "unicode-identifiers", "with-location"} -> <<"true">>
      [] f = "executable" -> <<"executable">>
      [] f = "diagnostic-format" -> <<"default">>
      [] f = "stop-after" -> <<"codegen">>
      [] f \in {"dump", "optimization"} -> <<"none">>
      [] f \in Lists \cup Paths -> <<>>
      [] OTHER -> <<"false">>

\* The members of DevOptions, BuildOptions and TestOptions
Own(command) ==
    CASE command = "dev" -> {"print-tokens", "print-ast", "dump", "emit-debug-info",
                             "clean-ast", "with-location", "without-attrs", "dump-file"}
      [] command = "test" -> {"filter", "stop-on-failure", "test-verbose"}
      [] OTHER -> {"executable", "no-pie"}

Specific == UNION {Own(c) : c \in Commands}
Settings == ({Field(o) : o \in Table} \ {"help", "version", "max-errors", "arena-size"})
            \cup {"optimization"}

\* CompilerOptions and setCommand; settings holds those that were set
NewOptions(command) ==
    [command |-> command, files |-> <<>>, settings |-> <<>>,
     arenaSize |-> ArenaSize, maxErrors |-> DefaultMaxErrors]

Setting(o, f) == IF f \in DOMAIN o.settings THEN o.settings[f] ELSE Default(f)
IsSet(o, f, text) == Setting(o, f) = <<text>>

With(o, f, value) ==
    [o EXCEPT !.settings =
        [g \in DOMAIN o.settings \cup {f} |-> IF g = f THEN value ELSE o.settings[g]]]

-----------------------------------------------------------------------------
(* applyOption.                                                            *)

\* A size begins with its digits and ends with a unit
IsSize(text) ==
    text \in DOMAIN Numbers /\ Numbers[text].sign = "none" /\ Numbers[text].unit \in DOMAIN Units

\* parseFileSize: 0 for what is no size, with an error, and for a size of zero
FileSize(text) ==
    IF ~IsSize(text) THEN 0
    ELSE LET bytes == Units[Numbers[text].unit]
         IN  IF Numbers[text].number > (SizeRange - 1) \div bytes THEN 0
             ELSE Numbers[text].number * bytes

\* std::stoul reads a number and leaves the rest; behind a minus sign it is negated,
\* as an unsigned number
Read(text) == IF Numbers[text].sign = "minus" THEN (SizeRange - Numbers[text].number) % SizeRange
                                           ELSE Numbers[text].number

\* Mutant: the result is not narrowed.
CountUnnarrowed(text) == Read(text)

\* The result is narrowed
Count(text) == Read(text) % CountRange

Accepted(o, text) ==
    CASE o \in DOMAIN Alternatives -> text \in Alternatives[o]
      [] o = "max-errors" -> text \in DOMAIN Numbers /\ Numbers[text].number < SizeRange
      [] o = "arena-size" -> FileSize(text) # 0
      [] OTHER -> TRUE

\* A text that is rejected has been complained about, but for a size of zero
RejectedSilently(o, text) ==
    o = "arena-size" /\ IsSize(text) /\ Numbers[text].number = 0

\* What a flag makes of its value: some switch off what another switches on,
\* and the targets of a build, whatever the value
FlagValue(o, text) ==
    CASE o = "show-colors" -> "true"
      [] o \in {"no-colors", "no-unicode-identifiers", "without-location"} -> "false"
      [] o \in {"shared", "static", "executable"} -> o
      [] OTHER -> IF text = "true" THEN "true" ELSE "false"

Apply(options, o, text) ==
    IF Field(o) \in Specific \ Own(options.command) THEN options
    ELSE CASE o \in {"help", "version"} -> options
           [] o = "max-errors" -> [options EXCEPT !.maxErrors = Count(text)]
           [] o = "arena-size" -> [options EXCEPT !.arenaSize = FileSize(text)]
           [] o \in Lists -> With(options, o, Append(Setting(options, o), text))
           [] o \in Paths \cup DOMAIN Alternatives -> With(options, o, <<text>>)
           [] OTHER -> With(options, Field(o), <<FlagValue(o, text)>>)

-----------------------------------------------------------------------------
(* CompilerOptions::validate, with the files that there are: disk says of  *)
(* each path what is there.                                                *)

RequiresInputFiles(o) == o.command \in {"dev", "build", "check", "run"}

There(disk, path) == path \in DOMAIN disk /\ disk[path] # "missing"
IsDirectory(disk, path) == There(disk, path) /\ disk[path] = "directory"

\* Directories that do not exist are warned about at most
Valid(o, disk) ==
    /\ RequiresInputFiles(o) => o.files # <<>>
    /\ \A path \in ToSet(o.files) : There(disk, path) /\ ~IsDirectory(disk, path)
    /\ \A f \in {"lib-dir", "build-dir", "plugins-dir", "include", "library-path"} :
          \A path \in ToSet(Setting(o, f)) : There(disk, path) => IsDirectory(disk, path)
    /\ \A path \in ToSet(Setting(o, "dump-file")) : ~IsDirectory(disk, path)
    /\ o.arenaSize # 0

-----------------------------------------------------------------------------
(* createDefaultOptions and mergeOptions, which callers of the library use *)
(* between the command line and defaults of their own.                     *)

CreateDefaultOptions(command) ==
    [NewOptions(command) EXCEPT !.settings =
        CASE command = "dev" -> [f \in {"verbose", "show-timing", "with-location",
                                        "emit-debug-info"} |-> <<"true">>]
          [] command = "build" -> [optimization |-> <<"basic">>]
          [] command = "test" -> [f \in {"suppress-warnings"} |-> <<"true">>]
          [] command = "check" -> [f \in {"stop-after"} |-> <<"semantic">>]
          [] OTHER -> <<>>]

\* Mutant: a command that was not given wins.
MergedCommandAlways(base, over) == over

\* Build is what no command stands for
MergedCommand(base, over) ==
    IF over.command # "build" \/ base.command = "build" THEN over ELSE base

\* What is at its default in the override is taken from the base, lists are
\* joined; the options of a command go with the command.
Merged(base, over) ==
    LET from == MergedCommand(base, over)
        value(f) == CASE f \in Specific -> Setting(from, f)
                      [] f \in Lists \ Specific -> Setting(base, f) \o Setting(over, f)
                      [] OTHER -> Setting(IF Setting(over, f) = Default(f) THEN base
                                                                         ELSE over, f)
    IN  [command |-> from.command,
         files |-> IF over.files = <<>> THEN base.files ELSE over.files,
         settings |-> [f \in DOMAIN base.settings \cup DOMAIN over.settings |-> value(f)],
         arenaSize |-> IF over.arenaSize = ArenaSize THEN base.arenaSize ELSE over.arenaSize,
         maxErrors |-> IF over.maxErrors = DefaultMaxErrors THEN base.maxErrors
                                                            ELSE over.maxErrors]

=============================================================================
