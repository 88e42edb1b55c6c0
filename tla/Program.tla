------------------------------ MODULE Program ------------------------------
(***************************************************************************)
(* The command line program (src/src/main.cpp) and its parser of arguments *)
(* (parseCommandLine and what it calls in option_parser.cpp): one run of   *)
(* the program, from its arguments to its exit code.  Other programs may   *)
(* change the files between the validation and the compilation.            *)
(*                                                                         *)
(* An argument is a record: of a long option or a short one, its name and  *)
(* the value attached to it, if any; or a plain text.  The driver that     *)
(* compiles the input is module Compiler; here it answers by what the      *)
(* input is.                                                               *)
(***************************************************************************)
EXTENDS Options

CONSTANTS Words,    \* arguments
          MaxArgs,  \* bound on their number
          Disk      \* path -> what may be there

ASSUME WordsAssumption ==
    /\ MaxArgs \in Nat
    /\ \A w \in Words : w.form \in {"long", "short", "plain"} /\ Len(w.attached) <= 1
    /\ \A p \in DOMAIN Disk :
          /\ Disk[p] \subseteq {"clean", "syntax", "lexical", "missing", "directory"}
          /\ Disk[p] # {}

VARIABLES pc,        \* where the program is
          args,      \* its arguments
          next,      \* the argument that parseCommandLine looks at next
          options,   \* the options
          result,    \* of parseCommandLine
          logged,    \* whether main's logger has had an error
          disk,      \* path -> what is there
          stdin,     \* the text on the standard input, "none" at its end
          valid,     \* the answer of validateOptions, TRUE where it is not asked
          compiled,  \* history: what was compiled, and the status of each
          exit       \* the exit code, or how else the program ended

vars == <<pc, args, next, options, result, logged, disk, stdin, valid, compiled, exit>>

Results == {"Success", "HelpRequested", "VersionRequested", "Error"}
Statuses == {"Success", "ParseError", "IOError", "exception"}
Word(form, name, attached) == [form |-> form, name |-> name, attached |-> attached]

Attached(w) == IF w.attached = <<>> THEN "" ELSE w.attached[1]

\* An argument as a text.  What begins with a dash is no command, path or other
\* value that anything is compared with, but may be a number; what begins with
\* two is not that either.
Text(w) == CASE w.form = "plain" -> w.name
             [] w.form = "short" -> "-" \o w.name \o Attached(w)
             [] OTHER -> "--"

\* What a setting may hold
Texts == {"true", "false", "shared", "static", "executable"}
         \cup {Text(w) : w \in Words} \cup {Attached(w) : w \in Words}

OptionsOK(o) ==
    /\ DOMAIN o = DOMAIN NewOptions("build")
    /\ o.command \in Commands
    /\ o.files \in Seq({w.name : w \in Words})
    /\ DOMAIN o.settings \subseteq Settings
    /\ \A f \in DOMAIN o.settings :
          /\ o.settings[f] \in Seq(Texts)
          /\ f \in DOMAIN Alternatives \cup {"executable"} => Len(o.settings[f]) = 1
    /\ o.arenaSize \in 1 .. SizeRange - 1
    /\ o.maxErrors \in 0 .. CountRange - 1

TypeOK ==
    /\ pc \in {"command", "arguments", "input", "validate", "compile", "end"}
    /\ args \in Seq(Words) /\ Len(args) <= MaxArgs
    /\ next \in 1 .. Len(args) + 1
    /\ OptionsOK(options)
    /\ result \in Results
    /\ logged \in BOOLEAN /\ valid \in BOOLEAN
    /\ DOMAIN disk = DOMAIN Disk
    /\ \A p \in DOMAIN Disk : disk[p] \in Disk[p]
    /\ stdin \in {"none", "clean", "syntax"}
    /\ \A i \in DOMAIN compiled : compiled[i].status \in Statuses
    /\ exit \in {"none", "0", "1", "terminated"}

Init ==
    /\ pc = "command"
    /\ args \in BoundedSeq(Words, MaxArgs)
    /\ next = 1
    /\ options = NewOptions("build")
    /\ result = "Success"
    /\ logged = FALSE
    /\ disk = [p \in DOMAIN Disk |-> CHOOSE there \in Disk[p] : TRUE]
    /\ stdin = "none"
    /\ valid = TRUE
    /\ compiled = <<>>
    /\ exit = "none"

-----------------------------------------------------------------------------
(* Arguments.                                                              *)

IsHelp(w) == w \in {Word("long", "help", <<>>), Word("short", "h", <<>>)}
IsVersion(w) == w \in {Word("long", "version", <<>>), Word("short", "V", <<>>)}
IsCommand(w) == w.form = "plain" /\ StringToCommand(w.name) \in Commands

\* parseCommandLine, up to the loop
ParseCommand ==
    /\ pc = "command"
    /\ LET first == IF args = <<>> THEN Word("plain", "", <<>>) ELSE args[1]
           command == IF IsHelp(first) THEN "help"
                      ELSE IF IsCommand(first) THEN StringToCommand(first.name)
                      ELSE "build"
       IN  /\ options' = [options EXCEPT !.command = command]
           /\ next' = IF IsCommand(first) THEN 2 ELSE 1
           /\ result' = CASE IsVersion(first) \/ command = "version" -> "VersionRequested"
                          [] command = "help" -> "HelpRequested"
                          [] OTHER -> "Success"
    /\ pc' = IF result' = "Success" THEN "arguments" ELSE "end"
    /\ exit' = IF result' = "Success" THEN "none" ELSE "0"
    /\ UNCHANGED <<args, logged, disk, stdin, valid, compiled>>

\* The argument the loop is at
At(w) == pc = "arguments" /\ next <= Len(args) /\ args[next] = w
         /\ ~IsHelp(w) /\ ~IsVersion(w)

\* The argument, or the last of those it takes, is behind
Behind(n) ==
    /\ next' = next + n
    /\ UNCHANGED <<pc, args, result, logged, disk, stdin, valid, compiled, exit>>

\* parseArgument fails, with an error logged or without
Reject(log) ==
    /\ result' = "Error"
    /\ logged' = log
    /\ pc' = "end"
    /\ exit' = "1"
    /\ UNCHANGED <<args, next, options, disk, stdin, valid, compiled>>

RequestHelp ==
    /\ pc = "arguments" /\ next <= Len(args) /\ IsHelp(args[next])
    /\ result' = "HelpRequested"
    /\ pc' = "end"
    /\ exit' = "0"
    /\ UNCHANGED <<args, next, options, logged, disk, stdin, valid, compiled>>

RequestVersion ==
    /\ pc = "arguments" /\ next <= Len(args) /\ IsVersion(args[next])
    /\ result' = "VersionRequested"
    /\ pc' = "end"
    /\ exit' = "0"
    /\ UNCHANGED <<args, next, options, logged, disk, stdin, valid, compiled>>

InputFile(w) ==
    /\ At(w)
    /\ w.form = "plain"
    /\ options' = [options EXCEPT !.files = Append(@, w.name)]
    /\ Behind(1)

\* The option a word names, "" if it names none.  Only options that take a value
\* have it attached to their short name; short options do not ask for the
\* command.
NamedOption(w) ==
    CASE w.form = "long" -> IF w.name \in Table THEN w.name ELSE ""
      [] OTHER -> IF /\ w.name \in DOMAIN Short
                     /\ w.attached # <<>> => Short[w.name] \in Valued
                  THEN Short[w.name] ELSE ""

ValidForCommand(w) == w.form = "long" => options.command \in ValidCommands(w.name)

RejectOption(w) ==
    /\ At(w)
    /\ w.form # "plain"
    /\ NamedOption(w) = "" \/ ~ValidForCommand(w)
    /\ Reject(TRUE)

\* An option that the command may have
OptionAt(w) == At(w) /\ w.form # "plain" /\ NamedOption(w) # "" /\ ValidForCommand(w)

\* A value behind an "=" may be empty, and is then not there
AwaitsValue(w) == NamedOption(w) \in Valued /\ Attached(w) = ""

SetOption(w, text, n) ==
    IF Accepted(NamedOption(w), text)
    THEN /\ options' = Apply(options, NamedOption(w), text)
         /\ Behind(n)
    ELSE Reject(~RejectedSilently(NamedOption(w), text))

Option(w) ==
    /\ OptionAt(w)
    /\ ~AwaitsValue(w)
    /\ SetOption(w, IF Attached(w) = "" THEN "true" ELSE Attached(w), 1)

\* Mutant: the argument that was taken as a value is looked at again.
OptionAndValueAgain(w) ==
    /\ OptionAt(w)
    /\ AwaitsValue(w)
    /\ next < Len(args)
    /\ Text(args[next + 1]) # ""
    /\ SetOption(w, Text(args[next + 1]), 1)

\* getOptionValue takes the next argument, whatever it is
OptionAndValue(w) ==
    /\ OptionAt(w)
    /\ AwaitsValue(w)
    /\ next < Len(args)
    /\ Text(args[next + 1]) # ""
    /\ SetOption(w, Text(args[next + 1]), 2)

\* Mutant: the missing value is not complained about.
ValueMissingSilently(w) == OptionAt(w) /\ AwaitsValue(w) /\ next = Len(args) /\ Reject(FALSE)

ValueMissing(w) == OptionAt(w) /\ AwaitsValue(w) /\ next = Len(args) /\ Reject(TRUE)

\* An argument that is empty is taken for a missing value by the caller alone
ValueEmpty(w) ==
    /\ OptionAt(w)
    /\ AwaitsValue(w)
    /\ next < Len(args)
    /\ Text(args[next + 1]) = ""
    /\ Reject(FALSE)

EndArguments ==
    /\ pc = "arguments" /\ next > Len(args)
    /\ pc' = "input"
    /\ UNCHANGED <<args, next, options, result, logged, disk, stdin, valid, compiled, exit>>

-----------------------------------------------------------------------------
(* main.                                                                   *)

\* Other programs
ChangeFile(path, there) ==
    /\ pc \in {"input", "compile"}
    /\ disk' = [disk EXCEPT ![path] = there]
    /\ UNCHANGED <<pc, args, next, options, result, logged, stdin, valid, compiled, exit>>

\* useStdin: only without files is the standard input looked at
FindInput(text) ==
    /\ pc = "input"
    /\ options.files # <<>> => text = "none"
    /\ stdin' = text
    /\ pc' = IF text = "none" THEN "validate" ELSE "compile"
    /\ UNCHANGED <<args, next, options, result, logged, disk, valid, compiled, exit>>

\* validateOptions, which is not asked about a program that comes by the
\* standard input
Validate ==
    /\ pc = "validate"
    /\ valid' = Valid(options, disk)
    /\ logged' = ~valid'
    /\ pc' = IF valid' THEN "compile" ELSE "end"
    /\ exit' = IF valid' THEN "none" ELSE "1"
    /\ UNCHANGED <<args, next, options, result, disk, stdin, compiled>>

\* Compiler::compileFile and compileSource: printTokens returns before parsing;
\* reading a directory throws
StatusOf(text) ==
    CASE text = "missing" -> "IOError"
      [] text = "directory" -> "exception"
      [] text = "lexical" \/ (text = "syntax" /\ ~IsSet(options, "print-tokens", "true"))
            -> "ParseError"
      [] OTHER -> "Success"

End(status) ==
    /\ pc' = "end"
    /\ exit' = CASE status = "Success" -> "0"
                 [] status = "exception" -> "terminated"
                 [] OTHER -> "1"
    /\ UNCHANGED <<args, next, options, result, logged, disk, stdin, valid>>

\* Without a file and without text on the standard input
CompileNothing ==
    /\ pc = "compile"
    /\ options.files = <<>> /\ stdin = "none"
    /\ compiled' = <<>>
    /\ End("IOError")

CompileStdin ==
    /\ pc = "compile"
    /\ options.files = <<>> /\ stdin # "none"
    /\ compiled' = <<[input |-> "<stdin>", status |-> StatusOf(stdin)]>>
    /\ End(StatusOf(stdin))

\* Mutant: every file is compiled, and the last one's status is kept.
CompileEachFile ==
    /\ pc = "compile"
    /\ options.files # <<>>
    /\ compiled' = [i \in DOMAIN options.files |->
                       [input |-> options.files[i], status |-> StatusOf(disk[options.files[i]])]]
    /\ End(Last(compiled').status)

\* "For now, only compile the first file"
CompileFile ==
    /\ pc = "compile"
    /\ options.files # <<>>
    /\ LET file == Head(options.files)
       IN  /\ compiled' = <<[input |-> file, status |-> StatusOf(disk[file])]>>
           /\ End(StatusOf(disk[file]))

Next ==
    \/ ParseCommand
    \/ RequestHelp
    \/ RequestVersion
    \/ \E w \in Words : \/ InputFile(w) \/ RejectOption(w) \/ Option(w)
                        \/ OptionAndValue(w) \/ ValueMissing(w) \/ ValueEmpty(w)
    \/ EndArguments
    \/ \E path \in DOMAIN Disk : \E there \in Disk[path] : ChangeFile(path, there)
    \/ \E text \in {"none", "clean", "syntax"} : FindInput(text)
    \/ Validate
    \/ CompileNothing
    \/ CompileStdin
    \/ CompileFile

Spec == Init /\ [][Next]_vars

-----------------------------------------------------------------------------
(* Properties                                                              *)

\* What the arguments mean, without going through them in order.  The argument
\* k follows an option that takes a value, and is that value.
Start == IF args # <<>> /\ IsCommand(args[1]) THEN 2 ELSE 1
Command == IF Start = 2 THEN StringToCommand(args[1].name) ELSE "build"

Fits(w) == w.form = "long" => Command \in ValidCommands(w.name)
Named(w) == w.form # "plain" /\ NamedOption(w) # "" /\ Fits(w)
Takes(w) == Named(w) /\ AwaitsValue(w)

IsValue[k \in 0 .. Len(args) + 1] ==
    /\ k > Start
    /\ ~IsValue[k - 1]
    /\ Takes(args[k - 1]) /\ ~IsHelp(args[k - 1]) /\ ~IsVersion(args[k - 1])

\* The value of the option that is argument k, none if it has none
ValueOf(k) ==
    IF ~Takes(args[k]) THEN <<IF Attached(args[k]) = "" THEN "true" ELSE Attached(args[k])>>
    ELSE IF k < Len(args) /\ Text(args[k + 1]) # "" THEN <<Text(args[k + 1])>> ELSE <<>>

IsOption(k) == k >= Start /\ ~IsValue[k] /\ args[k].form # "plain"
Asks(k) == IsOption(k) /\ (IsHelp(args[k]) \/ IsVersion(args[k]))
Wrong(k) == IsOption(k) /\ ~Asks(k)
            /\ ~(Named(args[k]) /\ ValueOf(k) # <<>>
                 /\ Accepted(NamedOption(args[k]), ValueOf(k)[1]))

\* The first argument that ends the parsing
Ends(k) == (Asks(k) \/ Wrong(k)) /\ \A j \in 1 .. k - 1 : ~Asks(j) /\ ~Wrong(j)

Outcome ==
    IF Command \in {"help", "version"}
    THEN IF Command = "help" THEN "HelpRequested" ELSE "VersionRequested"
    ELSE LET ending == {k \in DOMAIN args : Ends(k)}
         IN  IF ending = {} THEN "Success"
             ELSE LET w == args[CHOOSE k \in ending : TRUE]
                  IN  IF IsHelp(w) THEN "HelpRequested"
                      ELSE IF IsVersion(w) THEN "VersionRequested" ELSE "Error"

\* The options are not changed any more behind this point
Parsed == pc \in {"input", "end"}

\* The arguments that are files, and those that set a setting f
FilesGiven == {k \in DOMAIN args : k >= Start /\ ~IsValue[k] /\ args[k].form = "plain"}
Setters(f) == {k \in DOMAIN args : IsOption(k) /\ Named(args[k])
                                   /\ Field(NamedOption(args[k])) = f}
SettingsNamed == {Field(NamedOption(args[k])) : k \in {j \in DOMAIN args : IsOption(j)}}
                 \cap Settings

\* A setting is what the last option that sets it says, or for a list as long as
\* there are options that add to it.
SettingIsThatOfTheLast(f) ==
    LET last == CHOOSE k \in Setters(f) : \A j \in Setters(f) : j <= k
        option == NamedOption(args[last])
    IN  IF f \in Lists
        THEN Len(Setting(options, f)) = Cardinality(Setters(f))
        ELSE Setting(options, f) = IF option \in Valued THEN ValueOf(last)
                                   ELSE <<FlagValue(option, ValueOf(last)[1])>>

\* Every argument is looked at once, as the command, an option, the value of one
\* or a file: a request for help or the version counts wherever an option may
\* stand, before an error though not behind one and not as the value that an
\* option takes; an option that the command does not have is an error, although
\* the options of a build are there under most commands; and of the options that
\* set the same thing the last one does.
\* A first argument that is no command is a file of the default build, as the code
\* says (option_parser.cpp:38-41).  A test disagrees: for `cxy invalid-command` it
\* requires ParseResult::Error (src/tests/test_compiler_options.cpp:912-926), where
\* the code, and this property with it, has Success.
ArgumentsCountOnce ==
    Parsed =>
        /\ result = Outcome
        /\ result = "Success" =>
              /\ Len(options.files) = Cardinality(FilesGiven)
              /\ ToSet(options.files) = {args[k].name : k \in FilesGiven}
              /\ DOMAIN options.settings = SettingsNamed
              /\ \A f \in SettingsNamed : SettingIsThatOfTheLast(f)

\* Exit code 0 without a request for help or the version means that one input
\* was compiled without an error, and that this was the first file there is, or
\* the standard input if there is none; a file is compiled only if all files had
\* been valid.  The files behind the first are not compiled, and of printTokens
\* only the tokens are looked at.
ExitsZeroForTheFirstInput ==
    pc = "end" =>
        (exit = "0") =
            (\/ result \in {"HelpRequested", "VersionRequested"}
             \/ /\ result = "Success" /\ valid
                /\ options.files # <<>> \/ stdin # "none"
                /\ LET first == IF options.files = <<>> THEN stdin
                                                        ELSE disk[options.files[1]]
                   IN  \/ first = "clean"
                       \/ first = "syntax" /\ IsSet(options, "print-tokens", "true"))

\* A program that does not end with exit code 0 has logged an error, or the
\* compiler has; but for a value that is empty, a size of zero and a test without
\* input it has not, and but for a directory in the place of the file that had
\* been validated, over which it is terminated.
FailureIsExplained ==
    exit \in {"1", "terminated"} /\ ~logged =>
        \/ exit = "1" /\ compiled # <<>>
        \/ /\ exit = "terminated"
           /\ options.files # <<>> /\ disk[options.files[1]] = "directory"
        \/ options.command = "test" /\ options.files = <<>> /\ stdin = "none"
        \/ /\ result = "Error"
           /\ (ValueOf(next) = <<>> /\ next < Len(args))
              \/ RejectedSilently(NamedOption(args[next]), ValueOf(next)[1])

Same(o, p) ==
    /\ \A f \in DOMAIN o.settings \cup DOMAIN p.settings : Setting(o, f) = Setting(p, f)
    /\ \A c \in DOMAIN o \ {"settings"} : o[c] = p[c]

\* An option that the override sets is so in the result, under the same command
\* ("Options that override the base options", options.hpp:191), but for one set to
\* its default, which mergeOptions takes for not set.
\* Merging is associative, so that the defaults of a command, those of a caller
\* and the command line can be merged in either order; and to merge with options
\* that nobody has touched changes nothing, but for the options of a build, which
\* go back to their defaults when these are the override.
MergeLaws ==
    pc = "arguments" /\ next > Len(args) =>
        /\ LET m == Merged(CreateDefaultOptions(options.command), options)
           IN  \A f \in DOMAIN options.settings \ Lists :
                  Setting(options, f) # Default(f) => Setting(m, f) = Setting(options, f)
        /\ \A c, d \in Commands \ {"help", "version"} :
              LET o == CreateDefaultOptions(c)
                  p == CreateDefaultOptions(d)
              IN  /\ Same(Merged(Merged(o, options), p), Merged(o, Merged(options, p)))
                  /\ Same(Merged(Merged(o, p), options), Merged(o, Merged(p, options)))
        /\ Same(Merged(NewOptions("build"), options), options)
        /\ LET m == Merged(options, NewOptions("build"))
           IN  IF options.command # "build" THEN Same(m, options)
               ELSE \A f \in DOMAIN m.settings :
                       Setting(m, f) = IF f \in Specific THEN Default(f) ELSE Setting(options, f)

=============================================================================
