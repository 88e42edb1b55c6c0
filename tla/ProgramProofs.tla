--------------------------- MODULE ProgramProofs ---------------------------
(***************************************************************************)
(* Theorems about the command line program, for all command lines over any *)
(* set of arguments, any files and any widths of the numbers: the type     *)
(* invariant, that each argument counts once, what exit code 0 means, that *)
(* failures are explained, and the laws of merging options, which hold for *)
(* all options that there are.                                             *)
(***************************************************************************)
EXTENDS Program, FiniteSetTheorems, SequenceTheorems, WellFoundedInduction, TLAPS

-----------------------------------------------------------------------------
(* Induction over the natural numbers, about a set: the numbers for which  *)
(* a claim holds.  (The library's is about an operator P(_), which the     *)
(* provers cannot instantiate.)                                            *)

\* A set of natural numbers that is not empty has a least member.
LEMMA LeastNatural ==
    ASSUME NEW S \in SUBSET Nat, S # {}
    PROVE  \E n \in S : \A m \in S : n <= m
<1>1. PICK n \in S : \A m \in S : <<m, n>> \notin OpToRel(<, Nat)
  BY NatLessThanWellFounded, WFMin, Zenon
<1>2. \A m \in S : ~ (m < n)
  BY <1>1, Zenon DEF OpToRel
<1> QED
  BY <1>2

\* A set that has 0 and with each natural number the next has them all.
LEMMA SimpleInduction ==
    ASSUME NEW S, 0 \in S, \A n \in Nat : n \in S => n + 1 \in S
    PROVE  Nat \subseteq S
<1> SUFFICES ASSUME Nat \ S # {}
             PROVE  FALSE
  OBVIOUS
<1>1. PICK n \in Nat \ S : \A m \in Nat \ S : n <= m
  BY LeastNatural
<1>2. n # 0 /\ n - 1 \in Nat
  OBVIOUS
<1> QED
  BY <1>1, <1>2

-----------------------------------------------------------------------------
(* A recursion from one number to the next: what it finds at i is made from *)
(* what it found at i - 1 by step[i].                                       *)

Follows(f, lo, hi, v, step) == \A i \in lo .. hi : f[i] = IF i = lo THEN v ELSE step[i][f[i - 1]]

LEMMA StepsExist ==
    ASSUME NEW lo \in Nat, NEW hi \in Nat, lo <= hi, NEW V, NEW v \in V, NEW step,
           \A i \in lo + 1 .. hi : \A w \in V : step[i][w] \in V
    PROVE  \E f \in [lo .. hi -> V] : Follows(f, lo, hi, v, step)
<1> DEFINE S == {n \in Nat : lo + n <= hi =>
                    \E f \in [lo .. lo + n -> V] : Follows(f, lo, lo + n, v, step)}
<1>1. 0 \in S
  <2> DEFINE f == [i \in lo .. lo + 0 |-> v]
  <2>1. f \in [lo .. lo + 0 -> V] /\ Follows(f, lo, lo + 0, v, step)
    BY DEF Follows
  <2> QED
    BY <2>1
<1>2. ASSUME NEW n \in Nat, n \in S
      PROVE  n + 1 \in S
  <2> SUFFICES ASSUME lo + (n + 1) <= hi
               PROVE  \E f \in [lo .. lo + (n + 1) -> V] : Follows(f, lo, lo + (n + 1), v, step)
    OBVIOUS
  <2>1. PICK f \in [lo .. lo + n -> V] : Follows(f, lo, lo + n, v, step)
    BY <1>2
  <2> DEFINE k == lo + n
             u == [i \in lo .. k + 1 |-> IF i <= k THEN f[i] ELSE step[k + 1][f[k]]]
  <2>2. k \in lo .. k /\ k + 1 \in lo + 1 .. hi /\ k \in Nat /\ lo + (n + 1) = k + 1
    OBVIOUS
  <2>3. u \in [lo .. k + 1 -> V]
    BY <2>2
  <2>4. u[k + 1] = step[k + 1][f[k]] /\ \A i \in lo .. k : u[i] = f[i]
    OBVIOUS
  <2>5. Follows(u, lo, k + 1, v, step)
    <3> SUFFICES ASSUME NEW i \in lo .. k + 1
                 PROVE  u[i] = IF i = lo THEN v ELSE step[i][u[i - 1]]
      BY DEF Follows
    <3> HIDE DEF u
    <3>1. CASE i <= k
      <4>1. i \in lo .. k /\ (i # lo => i - 1 \in lo .. k)
        BY <2>2, <3>1
      <4>2. f[i] = IF i = lo THEN v ELSE step[i][f[i - 1]]
        BY <2>1, <4>1 DEF Follows
      <4> QED
        BY <2>4, <4>1, <4>2
    <3>2. CASE i = k + 1
      <4>1. i # lo /\ i - 1 = k
        BY <2>2, <3>2
      <4> QED
        BY <2>2, <2>4, <3>2, <4>1
    <3> QED
      BY <2>2, <3>1, <3>2
  <2> HIDE DEF u, k
  <2> QED
    BY <2>2, <2>3, <2>5
<1>3. Nat \subseteq S
  <2> HIDE DEF S
  <2> QED
    BY <1>1, <1>2, SimpleInduction
<1>4. hi - lo \in Nat /\ lo + (hi - lo) = hi
  OBVIOUS
<1> DEFINE n == hi - lo
<1>5. n \in S
  BY <1>3, <1>4
<1> HIDE DEF n
<1>6. lo + n <= hi /\ lo + n = hi
  BY <1>4 DEF n
<1>7. \E f \in [lo .. lo + n -> V] : Follows(f, lo, lo + n, v, step)
  BY <1>5, <1>6
<1> QED
  BY <1>6, <1>7

-----------------------------------------------------------------------------
(* The table of options.                                                   *)

LEMMA FieldIsASetting ==
    \A o \in Table \ {"help", "version", "max-errors", "arena-size"} : Field(o) \in Settings
BY SMTT(30) DEF Field, Settings

LEMMA FieldIsNone ==
    \A o \in {"help", "version", "max-errors", "arena-size"} : Field(o) \notin Settings
BY SMTT(30) DEF Field, Settings

\* Of the options that set the same, none takes a value.
LEMMA FieldOfValued ==
    /\ \A o \in Valued : Field(o) = o
    /\ \A o : Field(o) \in Valued => Field(o) = o
BY DEF Field, Valued, Lists, Paths, Alternatives

LEMMA ListsAreSettings == \A f \in Lists : f \in Settings /\ f \in Valued /\ Default(f) = <<>>
BY DEF Lists, Settings, Default, Table, Valued, Field

LEMMA ValuedCases ==
    /\ \A o \in Lists : o \notin Paths \cup DOMAIN Alternatives
    /\ \A o \in {"help", "version", "max-errors", "arena-size"} :
          o \notin Lists \cup Paths \cup DOMAIN Alternatives
    /\ "executable" \notin Lists \cup Paths \cup DOMAIN Alternatives
    /\ \A o \in DOMAIN Alternatives : o \notin Lists
BY DEF Lists, Paths, Alternatives

LEMMA ShortAreOptions ==
    \A s \in DOMAIN Short :
        /\ Short[s] \in Table
        /\ Field(Short[s]) \notin Specific
BY DEF Short, Table, Valued, SharedFlags, Lists, Paths, Field, Specific, Own, Commands

\* An option that a command may have does not set what is another command's.
LEMMA OptionsFitTheCommand ==
    \A o \in Table, c \in Commands :
        c \in ValidCommands(o) => Field(o) \notin Specific \ Own(c)
BY DEF Table, Valued, SharedFlags, Lists, Paths, DevFlags, BuildFlags, TestFlags,
       Alternatives, ValidCommands, Field, Specific, Own, Commands

-----------------------------------------------------------------------------
(* What an option makes of the options.                                    *)

\* The value that an option gives to what it sets, if it is a setting
NewValue(options0, o, text) ==
    IF o \in Lists THEN Append(Setting(options0, o), text)
    ELSE IF o \in Valued THEN <<text>> ELSE <<FlagValue(o, text)>>

LEMMA ApplyCases ==
    ASSUME NEW p, NEW o \in Table, NEW text, Field(o) \notin Specific \ Own(p.command)
    PROVE  /\ Field(o) \in Settings => Apply(p, o, text) = With(p, Field(o), NewValue(p, o, text))
           /\ Field(o) \notin Settings =>
                 \/ Apply(p, o, text) = p
                 \/ o = "max-errors" /\ Apply(p, o, text) = [p EXCEPT !.maxErrors = Count(text)]
                 \/ o = "arena-size" /\ Apply(p, o, text) = [p EXCEPT !.arenaSize = FileSize(text)]
<1>1. CASE o \in {"help", "version"}
  <2>1. Apply(p, o, text) = p
    BY <1>1, ValuedCases DEF Apply
  <2> QED
    BY <1>1, <2>1, FieldIsNone
<1>2. CASE o = "max-errors"
  <2>1. Apply(p, o, text) = [p EXCEPT !.maxErrors = Count(text)]
    BY <1>2, ValuedCases DEF Apply
  <2>2. Field(o) \notin Settings
    BY <1>2, FieldIsNone
  <2> QED
    BY <1>2, <2>1, <2>2
<1>3. CASE o = "arena-size"
  <2>1. Apply(p, o, text) = [p EXCEPT !.arenaSize = FileSize(text)]
    BY <1>3, ValuedCases DEF Apply
  <2>2. Field(o) \notin Settings
    BY <1>3, FieldIsNone
  <2> QED
    BY <1>3, <2>1, <2>2
<1>4. CASE o \notin {"help", "version", "max-errors", "arena-size"}
  <2>1. Field(o) \in Settings
    BY <1>4, FieldIsASetting
  <2>2. CASE o \in Lists
    BY <1>4, <2>1, <2>2, FieldOfValued, ValuedCases DEF Apply, NewValue, Valued
  <2>3. CASE o \in Paths \cup DOMAIN Alternatives
    BY <1>4, <2>1, <2>3, FieldOfValued, ValuedCases DEF Apply, NewValue, Valued
  <2>4. CASE o \notin Lists \cup Paths \cup DOMAIN Alternatives
    BY <1>4, <2>1, <2>4 DEF Apply, NewValue, Valued
  <2> QED
    BY <2>2, <2>3, <2>4
<1> QED
  BY <1>1, <1>2, <1>3, <1>4

LEMMA WithSets ==
    ASSUME NEW p, NEW f, NEW v, DOMAIN p = DOMAIN NewOptions("build")
    PROVE  /\ DOMAIN With(p, f, v) = DOMAIN p
           /\ \A c \in DOMAIN p \ {"settings"} : With(p, f, v)[c] = p[c]
           /\ DOMAIN With(p, f, v).settings = DOMAIN p.settings \cup {f}
           /\ With(p, f, v).settings[f] = v
           /\ \A g \in DOMAIN p.settings \ {f} : With(p, f, v).settings[g] = p.settings[g]
<1>1. "settings" \in DOMAIN p
  BY DEF NewOptions
<1> DEFINE s == With(p, f, v).settings
           q == p.settings
<1>3. s = [x \in DOMAIN q \cup {f} |-> IF x = f THEN v ELSE q[x]]
  BY <1>1 DEF With
<1>4. DOMAIN s = DOMAIN q \cup {f} /\ s[f] = v /\ \A g \in DOMAIN q \ {f} : s[g] = q[g]
  <2> HIDE DEF s, q
  <2> QED
    BY <1>3
<1> HIDE DEF s, q
<1> QED
  BY <1>4 DEF With, s, q

LEMMA SettingOfWith ==
    ASSUME NEW p, NEW f, NEW v, DOMAIN p = DOMAIN NewOptions("build")
    PROVE  \A g : Setting(With(p, f, v), g) = IF g = f THEN v ELSE Setting(p, g)
BY WithSets DEF Setting

-----------------------------------------------------------------------------
(* The arguments that are values of others.                                *)

TakesNext(w) == Takes(w) /\ ~IsHelp(w) /\ ~IsVersion(w)

LEMMA StartIs == args \in Seq(Words) => Start \in {1, 2} /\ Start <= Len(args) + 1
BY DEF Start

LEMMA IsValueIs ==
    args \in Seq(Words) =>
        \A k \in 0 .. Len(args) + 1 :
            /\ IsValue[k] \in BOOLEAN
            /\ IsValue[k] <=> k > Start /\ ~IsValue[k - 1] /\ TakesNext(args[k - 1])
<1> SUFFICES ASSUME args \in Seq(Words)
             PROVE  \A k \in 0 .. Len(args) + 1 :
                        /\ IsValue[k] \in BOOLEAN
                        /\ IsValue[k] <=> k > Start /\ ~IsValue[k - 1] /\ TakesNext(args[k - 1])
  OBVIOUS
<1> DEFINE n == Len(args) + 1
           Holds(f, k) == k > Start /\ ~f[k - 1] /\ TakesNext(args[k - 1])
           Goes(k, r) == k > Start /\ ~r /\ TakesNext(args[k - 1])
           step == [k \in 0 .. n |-> [r \in BOOLEAN |-> Goes(k, r)]]
           Body(f) == [k \in 0 .. n |-> Holds(f, k)]
           P(f) == f = Body(f)
           value == CHOOSE f : P(f)
<1>1. n \in Nat /\ 0 <= n /\ 0 \in Nat /\ Start \in Nat /\ Start > 0 /\ FALSE \in BOOLEAN
  BY StartIs
<1>2. ASSUME NEW k \in 0 + 1 .. n, NEW r \in BOOLEAN
      PROVE  step[k][r] \in BOOLEAN /\ (step[k][r] <=> k > Start /\ ~r /\ TakesNext(args[k - 1]))
  <2>1. Goes(k, r) \in BOOLEAN
    OBVIOUS
  <2>2. k \in 0 .. n
    BY <1>1
  <2>3. step[k][r] = Goes(k, r)
    <3> HIDE DEF n, Goes
    <3> QED
      BY <2>2
  <2> HIDE DEF step
  <2> QED
    BY <2>1, <2>3
<1>3. IsValue = value
  BY Zenon DEF IsValue, TakesNext
<1>4. ASSUME NEW f \in [0 .. n -> BOOLEAN], Follows(f, 0, n, FALSE, step)
      PROVE  \A k \in 0 .. n : f[k] = Holds(f, k)
  <2> SUFFICES ASSUME NEW k \in 0 .. n PROVE f[k] = Holds(f, k)
    OBVIOUS
  <2>1. f[k] = IF k = 0 THEN FALSE ELSE step[k][f[k - 1]]
    BY <1>4 DEF Follows
  <2>2. CASE k = 0
    BY <1>1, <2>1, <2>2
  <2>3. CASE k # 0
    <3>1. k \in 0 + 1 .. n /\ k - 1 \in 0 .. n
      BY <1>1, <2>3
    <3>2. f[k - 1] \in BOOLEAN
      BY <3>1
    <3> HIDE DEF step, n
    <3> QED
      BY <1>2, <2>1, <2>3, <3>1, <3>2
  <2> QED
    BY <2>2, <2>3
<1>5. \E f : P(f)
  <2>1. PICK f \in [0 .. n -> BOOLEAN] : Follows(f, 0, n, FALSE, step)
    <3> HIDE DEF step, n
    <3> QED
      BY <1>1, <1>2, StepsExist
  <2>2. \A k \in 0 .. n : f[k] = Holds(f, k)
    BY <1>4, <2>1
  <2>3. f = Body(f)
    <3> HIDE DEF Holds, n
    <3> QED
      BY <2>2
  <2> QED
    BY <2>3
<1> HIDE DEF P
<1>6. P(value)
  BY <1>5
<1> HIDE DEF value
<1>7. \A k \in 0 .. n : Body(value)[k] = Holds(value, k)
  <2> HIDE DEF Holds, n
  <2> QED
    OBVIOUS
<1>8. value = Body(value)
  BY <1>6 DEF P
<1> HIDE DEF Body
<1>9. \A k \in 0 .. n : value[k] = Holds(value, k)
  BY <1>7, <1>8
<1> QED
  BY <1>3, <1>9

-----------------------------------------------------------------------------
(* The types of what an option makes of the options.                       *)

LEMMA CountFits ==
    ASSUME NEW text \in DOMAIN Numbers
    PROVE  Count(text) \in 0 .. CountRange - 1
<1>1. Numbers[text].number \in Nat /\ CountRange \in Nat \ {0} /\ SizeRange \in Nat \ {0}
  BY NumbersAssumption DEF DefaultMaxErrors
<1>2. Read(text) \in Int
  BY <1>1 DEF Read
<1> QED
  BY <1>1, <1>2 DEF Count

LEMMA QuotientTimes ==
    ASSUME NEW a \in Nat, NEW b \in Nat \ {0}, NEW n \in Nat, n <= a \div b
    PROVE  n * b \in Nat /\ n * b <= a
OBVIOUS

LEMMA FileSizeFits == \A text : FileSize(text) \in 0 .. SizeRange - 1
<1> SUFFICES ASSUME NEW text PROVE FileSize(text) \in 0 .. SizeRange - 1
  OBVIOUS
<1>1. SizeRange - 1 \in Nat
  BY NumbersAssumption
<1>2. CASE ~IsSize(text)
  BY <1>1, <1>2 DEF FileSize
<1>3. CASE IsSize(text)
  <2> DEFINE n == Numbers[text].number
             b == Units[Numbers[text].unit]
             a == SizeRange - 1
  <2>1. n \in Nat /\ b \in Nat \ {0} /\ a \in Nat
    BY <1>1, <1>3, NumbersAssumption DEF IsSize
  <2>2. FileSize(text) = IF n > a \div b THEN 0 ELSE n * b
    BY <1>3 DEF FileSize
  <2>3. a \div b \in Int
    BY <2>1
  <2> HIDE DEF n, b, a
  <2>4. CASE n > a \div b
    BY <2>1, <2>2, <2>4 DEF a
  <2>5. CASE n <= a \div b
    <3>1. n * b \in Nat /\ n * b <= a
      BY <2>1, <2>5, QuotientTimes
    <3>2. FileSize(text) = n * b
      BY <2>1, <2>2, <2>3, <2>5
    <3>3. n * b \in 0 .. a
      BY <3>1, <2>1
    <3> QED
      BY <3>2, <3>3 DEF a
  <2> QED
    BY <2>1, <2>3, <2>4, <2>5
<1> QED
  BY <1>2, <1>3

LEMMA FlagValueIs ==
    \A o, text : FlagValue(o, text) \in {"true", "false", "shared", "static", "executable"}
BY DEF FlagValue

LEMMA SettingIs ==
    ASSUME NEW p, OptionsOK(p), NEW f \in Lists
    PROVE  Setting(p, f) \in Seq(Texts)
<1>1. CASE f \in DOMAIN p.settings
  BY <1>1 DEF OptionsOK, Setting
<1>2. CASE f \notin DOMAIN p.settings
  <2>1. Setting(p, f) = <<>>
    BY <1>2, ListsAreSettings DEF Setting
  <2> QED
    BY <2>1
<1> QED
  BY <1>1, <1>2

LEMMA NewValueIs ==
    ASSUME NEW p, OptionsOK(p), NEW o \in Table, NEW text \in Texts
    PROVE  /\ NewValue(p, o, text) \in Seq(Texts)
           /\ o \notin Lists => Len(NewValue(p, o, text)) = 1
<1>1. CASE o \in Lists
  BY <1>1, SettingIs DEF NewValue
<1>2. CASE o \notin Lists /\ o \in Valued
  BY <1>2 DEF NewValue
<1>3. CASE o \notin Lists /\ o \notin Valued
  <2>1. FlagValue(o, text) \in Texts
    BY FlagValueIs DEF Texts
  <2> QED
    BY <1>3, <2>1 DEF NewValue
<1> QED
  BY <1>1, <1>2, <1>3

LEMMA ApplyKeepsType ==
    ASSUME NEW q, OptionsOK(q), NEW o \in Table, NEW text \in Texts, Accepted(o, text),
           Field(o) \notin Specific \ Own(q.command)
    PROVE  LET p == Apply(q, o, text)
           IN  OptionsOK(p) /\ p.files = q.files /\ p.command = q.command
<1> DEFINE p == Apply(q, o, text)
<1> SUFFICES OptionsOK(p) /\ p.files = q.files /\ p.command = q.command
  OBVIOUS
<1> HIDE DEF p
<1>1. CASE Field(o) \in Settings
  <2> DEFINE f == Field(o)
             v == NewValue(q, o, text)
  <2>1. p = With(q, f, v)
    BY <1>1, ApplyCases DEF p
  <2>2. v \in Seq(Texts) /\ (o \notin Lists => Len(v) = 1)
    BY NewValueIs
  <2>3. f \in DOMAIN Alternatives \cup {"executable"} => o \notin Lists
    BY FieldOfValued, ValuedCases, ListsAreSettings
  <2>4. f \in Settings
    BY <1>1
  <2> HIDE DEF f, v
  <2>5. DOMAIN q = DOMAIN NewOptions("build")
    BY DEF OptionsOK
  <2>6. /\ DOMAIN p = DOMAIN q
        /\ \A c \in DOMAIN q \ {"settings"} : p[c] = q[c]
        /\ DOMAIN p.settings = DOMAIN q.settings \cup {f}
        /\ p.settings[f] = v
        /\ \A g \in DOMAIN q.settings \ {f} : p.settings[g] = q.settings[g]
    BY <2>1, <2>5, WithSets
  <2>7. {"command", "files", "arenaSize", "maxErrors"} \subseteq DOMAIN q \ {"settings"}
    BY <2>5 DEF NewOptions
  <2>8. p.command = q.command /\ p.files = q.files /\ p.arenaSize = q.arenaSize
        /\ p.maxErrors = q.maxErrors
    BY <2>6, <2>7
  <2> QED
    BY <2>2, <2>3, <2>4, <2>6, <2>8 DEF OptionsOK
<1>2. CASE Field(o) \notin Settings
  <2>1. CASE p = q
    BY <2>1
  <2>2. CASE o = "max-errors" /\ p = [q EXCEPT !.maxErrors = Count(text)]
    <3>1. text \in DOMAIN Numbers
      BY <2>2 DEF Accepted, Alternatives
    <3>2. Count(text) \in 0 .. CountRange - 1
      BY <3>1, CountFits
    <3> QED
      BY <2>2, <3>2 DEF OptionsOK, NewOptions
  <2>3. CASE o = "arena-size" /\ p = [q EXCEPT !.arenaSize = FileSize(text)]
    <3>1. FileSize(text) # 0
      BY <2>3 DEF Accepted, Alternatives
    <3>2. FileSize(text) \in 1 .. SizeRange - 1
      BY <3>1, FileSizeFits, NumbersAssumption
    <3> QED
      BY <2>3, <3>2 DEF OptionsOK, NewOptions
  <2> QED
    BY <1>2, <2>1, <2>2, <2>3, ApplyCases DEF p
<1> QED
  BY <1>1, <1>2

-----------------------------------------------------------------------------
(* The invariant.                                                          *)

\* The part of the program behind the command, while nothing is wrong
CommandInv ==
    pc \in {"arguments", "input", "validate", "compile"} \/ result = "Error" =>
        options.command = Command /\ Command \notin {"help", "version"}

FlowInv ==
    /\ pc = "command" => next = 1 /\ options = NewOptions("build")
    /\ pc # "end" => exit = "none" /\ result = "Success" /\ ~logged /\ compiled = <<>>
    /\ pc \in {"command", "arguments", "input", "validate"} => valid /\ stdin = "none"

\* What has been validated stays valid as far as it is asked about again
CompileInv ==
    pc = "compile" =>
        /\ valid
        /\ ToSet(options.files) \subseteq DOMAIN Disk
        /\ stdin = "none" /\ RequiresInputFiles(options) => options.files # <<>>

\* Of the arguments before n, the files, the options that set f, and the settings
FilesBefore(n) == {k \in FilesGiven : k < n}
SettersBefore(f, n) == {k \in Setters(f) : k < n}
NamedBefore(n) ==
    {Field(NamedOption(args[k])) : k \in {j \in DOMAIN args : IsOption(j) /\ j < n}} \cap Settings

\* The last of them that sets f
LastSetter(f, n) == CHOOSE k \in SettersBefore(f, n) : \A j \in SettersBefore(f, n) : j <= k

\* The setting f of options o is what the arguments before n make it
SettingAt(o, f, n) ==
    LET last == LastSetter(f, n)
        option == NamedOption(args[last])
    IN  IF f \in Lists
        THEN Len(Setting(o, f)) = Cardinality(SettersBefore(f, n))
        ELSE Setting(o, f) = IF option \in Valued THEN ValueOf(last)
                             ELSE <<FlagValue(option, ValueOf(last)[1])>>

\* The options o are what the arguments before n make them
CountedTo(o, n) ==
    /\ Len(o.files) = Cardinality(FilesBefore(n))
    /\ ToSet(o.files) = {args[k].name : k \in FilesBefore(n)}
    /\ DOMAIN o.settings = NamedBefore(n)
    /\ \A f \in NamedBefore(n) : SettingAt(o, f, n)

\* No argument before n ends the parsing
GoesOnTo(n) == \A j \in 1 .. n - 1 : ~Asks(j) /\ ~Wrong(j)

ParsingInv ==
    pc = "arguments" =>
        /\ next >= Start
        /\ ~IsValue[next]
        /\ GoesOnTo(next)
        /\ CountedTo(options, next)

ParsedInv ==
    pc \notin {"command", "arguments"} =>
        /\ result = Outcome
        /\ result = "Success" => GoesOnTo(Len(args) + 1) /\ CountedTo(options, Len(args) + 1)

IInv ==
    /\ TypeOK
    /\ CommandInv
    /\ FlowInv
    /\ CompileInv
    /\ ParsingInv
    /\ ParsedInv
    /\ ExitsZeroForTheFirstInput
    /\ FailureIsExplained

-----------------------------------------------------------------------------
(* The type invariant.                                                     *)

LEMMA NoTextIsNoCommand == ~IsCommand(Word("plain", "", <<>>))
BY CapitalsAssumption DEF IsCommand, Word, StringToCommand, Commands

LEMMA NewOptionsOK == ASSUME NEW c \in Commands PROVE OptionsOK(NewOptions(c))
<1>1. ArenaSize \in 1 .. SizeRange - 1 /\ DefaultMaxErrors \in 0 .. CountRange - 1
  BY NumbersAssumption DEF DefaultMaxErrors
<1>2. DOMAIN NewOptions(c).settings = {}
  BY DEF NewOptions
<1> QED
  BY <1>1, <1>2 DEF OptionsOK, NewOptions

LEMMA InitTypeOK == Init => TypeOK
<1> SUFFICES ASSUME Init PROVE TypeOK
  OBVIOUS
<1>1. args \in Seq(Words) /\ Len(args) <= MaxArgs /\ Len(args) \in Nat
  BY WordsAssumption DEF Init, BoundedSeq, SeqOf
<1>2. OptionsOK(options)
  BY NewOptionsOK DEF Init, Commands
<1>3. DOMAIN disk = DOMAIN Disk /\ \A p \in DOMAIN Disk : disk[p] \in Disk[p]
  <2>1. disk = [p \in DOMAIN Disk |-> CHOOSE there \in Disk[p] : TRUE]
    BY DEF Init
  <2>2. \A p \in DOMAIN Disk : (CHOOSE there \in Disk[p] : TRUE) \in Disk[p]
    BY WordsAssumption
  <2> QED
    BY <2>1, <2>2
<1>4. \A i \in DOMAIN compiled : compiled[i].status \in Statuses
  BY DEF Init
<1>5. /\ pc = "command" /\ next = 1 /\ result = "Success" /\ logged = FALSE
      /\ stdin = "none" /\ valid = TRUE /\ exit = "none"
  BY DEF Init
<1>6. next \in 1 .. Len(args) + 1
  BY <1>1, <1>5
<1> QED
  BY <1>1, <1>2, <1>3, <1>4, <1>5, <1>6 DEF TypeOK, Results

LEMMA NextIs ==
    TypeOK => /\ args \in Seq(Words) /\ Len(args) \in Nat
              /\ next \in Nat /\ next >= 1 /\ next <= Len(args) + 1
BY DEF TypeOK

\* An option that the loop is at is in the table, and sets what is its command's.
LEMMA OptionAtIs ==
    ASSUME TypeOK, CommandInv, NEW w \in Words, OptionAt(w)
    PROVE  /\ pc = "arguments" /\ next \in 1 .. Len(args) /\ args[next] = w
           /\ options.command = Command /\ Command \in Commands
           /\ NamedOption(w) \in Table
           /\ Field(NamedOption(w)) \notin Specific \ Own(options.command)
           /\ Named(w) /\ ~IsHelp(w) /\ ~IsVersion(w)
<1>1. /\ pc = "arguments" /\ next \in 1 .. Len(args) /\ args[next] = w
      /\ ~IsHelp(w) /\ ~IsVersion(w)
  <2>1. At(w)
    BY DEF OptionAt
  <2>2. pc = "arguments" /\ next <= Len(args) /\ args[next] = w
        /\ ~IsHelp(w) /\ ~IsVersion(w)
    BY <2>1 DEF At
  <2>3. next \in 1 .. Len(args)
    BY <2>2, NextIs
  <2> QED
    BY <2>2, <2>3
<1>2. options.command = Command /\ Command \in Commands
  BY <1>1 DEF CommandInv, TypeOK, OptionsOK
<1>3. w.form \in {"long", "short"}
  BY WordsAssumption DEF OptionAt
<1>4. NamedOption(w) # "" /\ ValidForCommand(w)
  BY DEF OptionAt
<1>5. Named(w)
  BY <1>2, <1>3, <1>4 DEF Named, Fits, ValidForCommand
<1>6. CASE w.form = "long"
  <2>1. NamedOption(w) = w.name /\ w.name \in Table
    BY <1>4, <1>6 DEF NamedOption
  <2>2. Command \in ValidCommands(w.name)
    BY <1>2, <1>4, <1>6 DEF ValidForCommand
  <2> QED
    BY <1>1, <1>2, <1>5, <2>1, <2>2, OptionsFitTheCommand
<1>7. CASE w.form = "short"
  <2>1. NamedOption(w) = Short[w.name] /\ w.name \in DOMAIN Short
    BY <1>4, <1>7 DEF NamedOption
  <2> QED
    BY <1>1, <1>2, <1>5, <2>1, ShortAreOptions
<1> QED
  BY <1>3, <1>6, <1>7

LEMMA TextsAre ==
    /\ "true" \in Texts
    /\ \A w \in Words : Attached(w) \in Texts /\ Text(w) \in Texts
BY DEF Texts

\* The text that an option is given
Given(w) == IF AwaitsValue(w) THEN Text(args[next + 1])
            ELSE IF Attached(w) = "" THEN "true" ELSE Attached(w)
Taken(w) == IF AwaitsValue(w) THEN 2 ELSE 1

LEMMA OptionCases ==
    ASSUME TypeOK, NEW w \in Words, Option(w) \/ OptionAndValue(w)
    PROVE  /\ OptionAt(w)
           /\ SetOption(w, Given(w), Taken(w))
           /\ Given(w) \in Texts
           /\ AwaitsValue(w) => next < Len(args) /\ Given(w) # ""
<1>1. CASE Option(w)
  BY <1>1, TextsAre DEF Option, Given, Taken
<1>2. CASE OptionAndValue(w)
  <2>1. next + 1 \in 1 .. Len(args)
    <3>1. next < Len(args)
      BY <1>2 DEF OptionAndValue
    <3> QED
      BY <3>1, NextIs
  <2>2. args[next + 1] \in Words
    BY <2>1, ElementOfSeq, NextIs
  <2>3. Given(w) = Text(args[next + 1]) /\ Taken(w) = 2
    BY <1>2 DEF OptionAndValue, Given, Taken
  <2> QED
    BY <1>2, <2>2, <2>3, TextsAre DEF OptionAndValue
<1> QED
  BY <1>1, <1>2

LEMMA ParseCommandTyped == ASSUME TypeOK, FlowInv, ParseCommand PROVE TypeOK'
<1>1. /\ pc = "command" /\ next = 1 /\ options = NewOptions("build")
      /\ args \in Seq(Words) /\ Len(args) \in Nat
  BY NextIs DEF ParseCommand, FlowInv
<1>2. OptionsOK(options')
  <2>1. PICK c \in Commands : options' = [options EXCEPT !.command = c]
    <3> DEFINE first == IF args = <<>> THEN Word("plain", "", <<>>) ELSE args[1]
               c == IF IsHelp(first) THEN "help"
                    ELSE IF IsCommand(first) THEN StringToCommand(first.name) ELSE "build"
    <3>1. options' = [options EXCEPT !.command = c]
      BY DEF ParseCommand
    <3>2. c \in Commands
      BY DEF IsCommand, Commands
    <3> HIDE DEF c
    <3> QED
      BY <3>1, <3>2
  <2>2. options' = NewOptions(c)
    BY <1>1, <2>1 DEF NewOptions
  <2> QED
    BY <2>2, NewOptionsOK
<1>3. next' \in 1 .. Len(args) + 1
  <2>1. CASE args = <<>>
    <3>1. next' = 1
      BY <2>1, NoTextIsNoCommand DEF ParseCommand
    <3> QED
      BY <1>1, <3>1
  <2>2. CASE args # <<>>
    <3>1. Len(args) >= 1
      BY <1>1, <2>2
    <3>2. next' \in {1, 2}
      BY DEF ParseCommand
    <3> QED
      BY <1>1, <3>1, <3>2
  <2> QED
    BY <2>1, <2>2
<1>4. result' \in Results /\ pc' \in {"arguments", "end"} /\ exit' \in {"none", "0"}
  <2>1. result' \in {"VersionRequested", "HelpRequested", "Success"}
    <3> DEFINE first == IF args = <<>> THEN Word("plain", "", <<>>) ELSE args[1]
               c == IF IsHelp(first) THEN "help"
                    ELSE IF IsCommand(first) THEN StringToCommand(first.name) ELSE "build"
    <3>1. result' = CASE IsVersion(first) \/ c = "version" -> "VersionRequested"
                      [] c = "help" -> "HelpRequested"
                      [] OTHER -> "Success"
      BY DEF ParseCommand
    <3> HIDE DEF first, c
    <3> QED
      BY <3>1
  <2> QED
    BY <2>1 DEF ParseCommand, Results
<1>5. UNCHANGED <<args, logged, disk, stdin, valid, compiled>>
  BY DEF ParseCommand
<1> QED
  BY <1>2, <1>3, <1>4, <1>5 DEF TypeOK

LEMMA OptionTyped ==
    ASSUME TypeOK, CommandInv, NEW w \in Words, Option(w) \/ OptionAndValue(w)
    PROVE  TypeOK'
<1>1. /\ OptionAt(w) /\ SetOption(w, Given(w), Taken(w)) /\ Given(w) \in Texts
      /\ AwaitsValue(w) => next < Len(args)
  BY OptionCases
<1>2. /\ pc = "arguments" /\ next \in 1 .. Len(args)
      /\ NamedOption(w) \in Table
      /\ Field(NamedOption(w)) \notin Specific \ Own(options.command)
  BY <1>1, OptionAtIs
<1>3. args \in Seq(Words) /\ Len(args) \in Nat /\ OptionsOK(options)
  BY NextIs DEF TypeOK
<1>4. CASE Accepted(NamedOption(w), Given(w))
  <2>1. options' = Apply(options, NamedOption(w), Given(w)) /\ next' = next + Taken(w)
        /\ UNCHANGED <<pc, args, result, logged, disk, stdin, valid, compiled, exit>>
    BY <1>1, <1>4 DEF SetOption, Behind
  <2>2. OptionsOK(options')
    BY <1>1, <1>2, <1>3, <1>4, <2>1, ApplyKeepsType
  <2>3. next' \in 1 .. Len(args) + 1
    BY <1>1, <1>2, <1>3, <2>1 DEF Taken
  <2> QED
    BY <2>1, <2>2, <2>3 DEF TypeOK
<1>5. CASE ~Accepted(NamedOption(w), Given(w))
  <2>1. Reject(~RejectedSilently(NamedOption(w), Given(w)))
    BY <1>1, <1>5 DEF SetOption
  <2>2. logged' \in BOOLEAN
    BY <2>1 DEF Reject, RejectedSilently
  <2> QED
    BY <2>1, <2>2 DEF Reject, TypeOK, Results
<1> QED
  BY <1>4, <1>5

LEMMA InputFileTyped == ASSUME TypeOK, NEW w \in Words, InputFile(w) PROVE TypeOK'
<1>1. /\ next <= Len(args)
      /\ options' = [options EXCEPT !.files = Append(options.files, w.name)]
      /\ next' = next + 1
      /\ UNCHANGED <<pc, args, result, logged, disk, stdin, valid, compiled, exit>>
  BY DEF InputFile, At, Behind
<1>2. Append(options.files, w.name) \in Seq({v.name : v \in Words})
  BY DEF TypeOK, OptionsOK
<1>3. OptionsOK(options')
  BY <1>1, <1>2 DEF TypeOK, OptionsOK, NewOptions
<1>4. next' \in 1 .. Len(args) + 1
  BY <1>1, NextIs
<1> QED
  BY <1>1, <1>3, <1>4 DEF TypeOK

LEMMA StatusOfIs == \A text : StatusOf(text) \in Statuses
BY DEF StatusOf, Statuses

LEMMA EndTyped ==
    ASSUME TypeOK, NEW status, End(status),
           \A i \in DOMAIN compiled' : compiled'[i].status \in Statuses
    PROVE  TypeOK'
<1>1. pc' = "end" /\ exit' \in {"0", "1", "terminated"}
      /\ UNCHANGED <<args, next, options, result, logged, disk, stdin, valid>>
  BY DEF End
<1> QED
  BY <1>1 DEF TypeOK

LEMMA StepTyped == TypeOK /\ CommandInv /\ FlowInv /\ [Next]_vars => TypeOK'
<1> SUFFICES ASSUME TypeOK, CommandInv, FlowInv, [Next]_vars
             PROVE  TypeOK'
  OBVIOUS
<1>1. CASE ParseCommand
  BY <1>1, ParseCommandTyped
<1>2. CASE RequestHelp \/ RequestVersion
  BY <1>2 DEF RequestHelp, RequestVersion, TypeOK, Results
<1>3. ASSUME NEW w \in Words, InputFile(w)
      PROVE  TypeOK'
  BY <1>3, InputFileTyped
<1>4. ASSUME NEW w \in Words, RejectOption(w) \/ ValueMissing(w) \/ ValueEmpty(w)
      PROVE  TypeOK'
  BY <1>4 DEF RejectOption, ValueMissing, ValueEmpty, Reject, TypeOK, Results
<1>5. ASSUME NEW w \in Words, Option(w) \/ OptionAndValue(w)
      PROVE  TypeOK'
  BY <1>5, OptionTyped
<1>6. CASE EndArguments
  BY <1>6 DEF EndArguments, TypeOK
<1>7. ASSUME NEW path \in DOMAIN Disk, NEW there \in Disk[path], ChangeFile(path, there)
      PROVE  TypeOK'
  BY <1>7 DEF ChangeFile, TypeOK
<1>8. ASSUME NEW text \in {"none", "clean", "syntax"}, FindInput(text)
      PROVE  TypeOK'
  BY <1>8 DEF FindInput, TypeOK
<1>9. CASE Validate
  <2>1. valid' \in BOOLEAN
    BY <1>9 DEF Validate, Valid
  <2> QED
    BY <1>9, <2>1 DEF Validate, TypeOK
<1>10. CASE CompileNothing
  <2>1. compiled' = <<>> /\ End("IOError")
    BY <1>10 DEF CompileNothing
  <2> QED
    BY <2>1, EndTyped
<1>11. CASE CompileStdin
  <2>1. compiled' = <<[input |-> "<stdin>", status |-> StatusOf(stdin)]>> /\ End(StatusOf(stdin))
    BY <1>11 DEF CompileStdin
  <2> QED
    BY <2>1, EndTyped, StatusOfIs
<1>12. CASE CompileFile
  <2>1. PICK file : /\ compiled' = <<[input |-> file, status |-> StatusOf(disk[file])]>>
                    /\ End(StatusOf(disk[file]))
    BY <1>12 DEF CompileFile
  <2> QED
    BY <2>1, EndTyped, StatusOfIs
<1>13. CASE UNCHANGED vars
  BY <1>13 DEF vars, TypeOK
<1> QED
  BY <1>1, <1>2, <1>3, <1>4, <1>5, <1>6, <1>7, <1>8, <1>9, <1>10, <1>11, <1>12, <1>13 DEF Next

-----------------------------------------------------------------------------
(* The flow of control.                                                    *)

LEMMA ArgumentsKept == [Next]_vars => args' = args
BY DEF Next, vars, ParseCommand, RequestHelp, RequestVersion, InputFile, RejectOption, Option,
       OptionAndValue, ValueMissing, ValueEmpty, SetOption, Behind, Reject, EndArguments,
       ChangeFile, FindInput, Validate, CompileNothing, CompileStdin, CompileFile, End

\* What the command line says first
First == IF args = <<>> THEN Word("plain", "", <<>>) ELSE args[1]

LEMMA FirstIs ==
    ASSUME args \in Seq(Words)
    PROVE  /\ Start = IF IsCommand(First) THEN 2 ELSE 1
           /\ Command = IF IsCommand(First) THEN StringToCommand(First.name) ELSE "build"
           /\ Command \in Commands
<1>1. CASE args = <<>>
  <2>1. ~IsCommand(First)
    BY <1>1, NoTextIsNoCommand DEF First
  <2> QED
    BY <1>1, <2>1 DEF Start, Command, Commands
<1>2. CASE args # <<>>
  BY <1>2 DEF First, Start, Command, IsCommand, Commands
<1> QED
  BY <1>1, <1>2

LEMMA ParseCommandIs ==
    ASSUME TypeOK, FlowInv, ParseCommand
    PROVE  /\ pc = "command" /\ next' = Start
           /\ result' # "Error"
           /\ pc' = IF result' = "Success" THEN "arguments" ELSE "end"
           /\ exit' = IF result' = "Success" THEN "none" ELSE "0"
           /\ result' = "Success" =>
                 /\ ~IsHelp(First) /\ ~IsVersion(First)
                 /\ Command \notin {"help", "version"}
                 /\ options' = NewOptions(Command)
           /\ UNCHANGED <<args, logged, disk, stdin, valid, compiled>>
<1> DEFINE c == IF IsHelp(First) THEN "help" ELSE IF IsCommand(First) THEN StringToCommand(First.name) ELSE "build"
<1>1. /\ pc = "command"
      /\ options' = [options EXCEPT !.command = c]
      /\ next' = IF IsCommand(First) THEN 2 ELSE 1
      /\ result' = CASE IsVersion(First) \/ c = "version" -> "VersionRequested"
                     [] c = "help" -> "HelpRequested"
                     [] OTHER -> "Success"
      /\ pc' = IF result' = "Success" THEN "arguments" ELSE "end"
      /\ exit' = IF result' = "Success" THEN "none" ELSE "0"
      /\ UNCHANGED <<args, logged, disk, stdin, valid, compiled>>
  BY DEF ParseCommand, First
<1>2. /\ Start = IF IsCommand(First) THEN 2 ELSE 1
      /\ Command = IF IsCommand(First) THEN StringToCommand(First.name) ELSE "build"
  BY NextIs, FirstIs
<1>3. options = NewOptions("build")
  BY <1>1 DEF FlowInv
<1>4. ~IsHelp(First) => c = Command
  BY <1>2
<1>5. IsHelp(First) => c = "help"
  OBVIOUS
<1> HIDE DEF c
<1>6. result' # "Error"
  BY <1>1
<1>7. ASSUME result' = "Success"
      PROVE  /\ ~IsHelp(First) /\ ~IsVersion(First)
             /\ Command \notin {"help", "version"}
             /\ options' = NewOptions(Command)
  <2>1. ~IsVersion(First) /\ c # "version" /\ c # "help"
    BY <1>1, <1>7
  <2>2. ~IsHelp(First) /\ c = Command
    BY <1>4, <1>5, <2>1
  <2>3. options' = NewOptions(c)
    BY <1>1, <1>3 DEF NewOptions
  <2> QED
    BY <2>1, <2>2, <2>3
<1> QED
  BY <1>1, <1>2, <1>6, <1>7

\* An option that is taken leaves the loop where it is, or ends the parsing.
LEMMA OptionFlows ==
    ASSUME TypeOK, CommandInv, NEW w \in Words, Option(w) \/ OptionAndValue(w)
    PROVE  /\ pc = "arguments"
           /\ \/ /\ options'.command = options.command
                 /\ UNCHANGED <<pc, args, result, logged, disk, stdin, valid, compiled, exit>>
              \/ /\ Reject(~RejectedSilently(NamedOption(w), Given(w)))
                 /\ ~Accepted(NamedOption(w), Given(w))
<1>1. OptionAt(w) /\ SetOption(w, Given(w), Taken(w)) /\ Given(w) \in Texts
  BY OptionCases
<1>2. pc = "arguments" /\ NamedOption(w) \in Table
      /\ Field(NamedOption(w)) \notin Specific \ Own(options.command)
  BY <1>1, OptionAtIs
<1>3. OptionsOK(options)
  BY DEF TypeOK
<1>4. CASE Accepted(NamedOption(w), Given(w))
  <2>1. options'.command = options.command
    BY <1>1, <1>2, <1>3, <1>4, ApplyKeepsType DEF SetOption
  <2> QED
    BY <1>1, <1>2, <1>4, <2>1 DEF SetOption, Behind
<1>5. CASE ~Accepted(NamedOption(w), Given(w))
  BY <1>1, <1>2, <1>5 DEF SetOption
<1> QED
  BY <1>4, <1>5

Flow == CommandInv /\ FlowInv /\ CompileInv

LEMMA CommandKept == args' = args => Command' = Command
BY DEF Command, Start

\* A step between two places of the program before its end
LEMMA StillFlows ==
    ASSUME Flow, pc \in {"arguments", "input", "validate", "compile"},
           pc' \in {"arguments", "input", "validate", "compile"},
           options'.command = options.command,
           UNCHANGED <<args, result, logged, compiled, exit>>
    PROVE  /\ CommandInv'
           /\ pc' # "end" => exit' = "none" /\ result' = "Success" /\ ~logged' /\ compiled' = <<>>
BY CommandKept DEF Flow, CommandInv, FlowInv

LEMMA StepFlows == TypeOK /\ Flow /\ [Next]_vars => Flow'
<1> SUFFICES ASSUME TypeOK, Flow, [Next]_vars
             PROVE  Flow'
  OBVIOUS
<1>0. args' = args /\ Command' = Command /\ OptionsOK(options)
  BY ArgumentsKept, CommandKept DEF TypeOK
<1>1. CASE ParseCommand
  <2>1. /\ pc = "command" /\ result' # "Error"
        /\ pc' = IF result' = "Success" THEN "arguments" ELSE "end"
        /\ exit' = IF result' = "Success" THEN "none" ELSE "0"
        /\ result' = "Success" =>
              Command \notin {"help", "version"} /\ options' = NewOptions(Command)
        /\ UNCHANGED <<args, logged, disk, stdin, valid, compiled>>
    BY <1>1, ParseCommandIs DEF Flow
  <2>2. result' = "Success" => options'.command = Command
    BY <2>1 DEF NewOptions
  <2> QED
    BY <1>0, <2>1, <2>2 DEF Flow, CommandInv, FlowInv, CompileInv
<1>2. CASE RequestHelp \/ RequestVersion
  BY <1>2 DEF RequestHelp, RequestVersion, Flow, CommandInv, FlowInv, CompileInv
<1>3. ASSUME NEW w \in Words, InputFile(w)
      PROVE  Flow'
  <2>1. /\ pc = "arguments"
        /\ options' = [options EXCEPT !.files = Append(options.files, w.name)]
        /\ UNCHANGED <<pc, args, result, logged, disk, stdin, valid, compiled, exit>>
    BY <1>3 DEF InputFile, At, Behind
  <2>2. options'.command = options.command
    BY <1>0, <2>1 DEF OptionsOK, NewOptions
  <2> QED
    BY <2>1, <2>2, StillFlows DEF Flow, FlowInv, CompileInv
<1>4. ASSUME NEW w \in Words, RejectOption(w) \/ ValueMissing(w) \/ ValueEmpty(w)
      PROVE  Flow'
  <2>1. PICK log : Reject(log) /\ pc = "arguments"
    BY <1>4 DEF RejectOption, ValueMissing, ValueEmpty, OptionAt, At
  <2> QED
    BY <1>0, <2>1 DEF Reject, Flow, CommandInv, FlowInv, CompileInv
<1>5. ASSUME NEW w \in Words, Option(w) \/ OptionAndValue(w)
      PROVE  Flow'
  <2>1. /\ pc = "arguments"
        /\ \/ /\ options'.command = options.command
              /\ UNCHANGED <<pc, args, result, logged, disk, stdin, valid, compiled, exit>>
           \/ \E log : Reject(log)
    BY <1>5, OptionFlows DEF Flow
  <2>2. CASE /\ options'.command = options.command
             /\ UNCHANGED <<pc, args, result, logged, disk, stdin, valid, compiled, exit>>
    BY <2>1, <2>2, StillFlows DEF Flow, FlowInv, CompileInv
  <2>3. CASE \E log : Reject(log)
    BY <1>0, <2>1, <2>3 DEF Reject, Flow, CommandInv, FlowInv, CompileInv
  <2> QED
    BY <2>1, <2>2, <2>3
<1>6. CASE EndArguments
  BY <1>6, StillFlows DEF EndArguments, Flow, FlowInv, CompileInv
<1>7. ASSUME NEW path \in DOMAIN Disk, NEW there \in Disk[path], ChangeFile(path, there)
      PROVE  Flow'
  BY <1>7, StillFlows DEF ChangeFile, Flow, FlowInv, CompileInv
<1>8. ASSUME NEW text \in {"none", "clean", "syntax"}, FindInput(text)
      PROVE  Flow'
  <2>1. /\ pc = "input" /\ stdin' = text
        /\ options.files # <<>> => text = "none"
        /\ pc' = IF text = "none" THEN "validate" ELSE "compile"
        /\ UNCHANGED <<args, next, options, result, logged, disk, valid, compiled, exit>>
    BY <1>8 DEF FindInput
  <2>2. pc' = "compile" => ToSet(options.files) = {}
    BY <2>1 DEF ToSet
  <2> QED
    BY <2>1, <2>2, StillFlows DEF Flow, FlowInv, CompileInv
<1>9. CASE Validate
  <2>1. /\ pc = "validate" /\ valid' = Valid(options, disk) /\ logged' = ~valid'
        /\ pc' = IF valid' THEN "compile" ELSE "end"
        /\ exit' = IF valid' THEN "none" ELSE "1"
        /\ UNCHANGED <<args, next, options, result, disk, stdin, compiled>>
    BY <1>9 DEF Validate
  <2>2. CASE ~valid'
    BY <1>0, <2>1, <2>2 DEF Flow, CommandInv, FlowInv, CompileInv
  <2>3. CASE valid'
    <3>1. ToSet(options.files) \subseteq DOMAIN Disk
      BY <2>1, <2>3 DEF Valid, There, TypeOK
    <3>2. RequiresInputFiles(options) => options.files # <<>>
      BY <2>1, <2>3 DEF Valid
    <3>3. RequiresInputFiles(options') = RequiresInputFiles(options)
      BY <2>1
    <3>4. ~logged'
      BY <2>1, <2>3
    <3> QED
      BY <1>0, <2>1, <2>3, <3>1, <3>2, <3>3, <3>4 DEF Flow, CommandInv, FlowInv, CompileInv
  <2> QED
    BY <2>2, <2>3
<1>10. CASE CompileNothing \/ CompileStdin \/ CompileFile
  <2>1. /\ pc = "compile" /\ pc' = "end"
        /\ UNCHANGED <<args, next, options, result, logged, disk, stdin, valid>>
    BY <1>10 DEF CompileNothing, CompileStdin, CompileFile, End
  <2> QED
    BY <1>0, <2>1 DEF Flow, CommandInv, FlowInv, CompileInv
<1>11. CASE UNCHANGED vars
  BY <1>0, <1>11 DEF vars, Flow, CommandInv, FlowInv, CompileInv
<1> QED
  BY <1>1, <1>2, <1>3, <1>4, <1>5, <1>6, <1>7, <1>8, <1>9, <1>10, <1>11 DEF Next

-----------------------------------------------------------------------------
(* What the arguments mean does not change.                                *)

LEMMA ValuesKept ==
    ASSUME args \in Seq(Words), args' = args
    PROVE  \A k \in 0 .. Len(args) + 1 : IsValue'[k] <=> IsValue[k]
<1>1. (args \in Seq(Words) =>
        \A k \in 0 .. Len(args) + 1 :
            /\ IsValue[k] \in BOOLEAN
            /\ IsValue[k] <=> k > Start /\ ~IsValue[k - 1] /\ TakesNext(args[k - 1]))'
  BY IsValueIs, PTL
<1>2. PICK u : u = IsValue'
  OBVIOUS
<1>3. PICK v : v = IsValue
  OBVIOUS
<1>4. PICK st \in {1, 2} : st = Start
  BY StartIs
<1>5. PICK takes : takes = [k \in 0 .. Len(args) + 1 |-> TakesNext(args[k - 1])]
  OBVIOUS
<1>6. Start' = Start /\ \A w : TakesNext(w)' <=> TakesNext(w)
  BY DEF Start, TakesNext, Takes, Named, Fits, Command
<1>7. PICK n \in Nat : n = Len(args) + 1
  OBVIOUS
<1>8. \A k \in 0 .. n : takes[k] <=> TakesNext(args[k - 1])
  BY <1>5, <1>7
<1>9. \A k \in 0 .. n : v[k] <=> k > st /\ ~v[k - 1] /\ takes[k]
  BY <1>3, <1>4, <1>7, <1>8, IsValueIs
<1>10. \A k \in 0 .. n : u[k] <=> k > st /\ ~u[k - 1] /\ takes[k]
  <2>1. \A k \in 0 .. n : TakesNext(args[k - 1])' <=> TakesNext(args[k - 1])
    BY <1>6 DEF TakesNext, Takes, Named, Fits, Command
  <2> QED
    BY <1>1, <1>2, <1>4, <1>6, <1>7, <1>8, <2>1
<1> DEFINE S == {k \in Nat : k <= n => (u[k] <=> v[k])}
<1>11. 0 \in S
  BY <1>4, <1>9, <1>10
<1>12. ASSUME NEW k \in Nat, k \in S
       PROVE  k + 1 \in S
  <2> SUFFICES ASSUME k + 1 <= n PROVE u[k + 1] <=> v[k + 1]
    OBVIOUS
  <2>1. u[k] <=> v[k]
    BY <1>12
  <2>2. k + 1 \in 0 .. n /\ (k + 1) - 1 = k
    OBVIOUS
  <2> HIDE DEF S
  <2> QED
    BY <1>9, <1>10, <2>1, <2>2
<1>13. Nat \subseteq S
  <2> HIDE DEF S
  <2> QED
    BY <1>11, <1>12, SimpleInduction
<1>14. \A k \in 0 .. n : u[k] <=> v[k]
  BY <1>13
<1> QED
  BY <1>2, <1>3, <1>7, <1>14

LEMMA MeaningKept ==
    ASSUME args \in Seq(Words), args' = args
    PROVE  /\ Start' = Start /\ Command' = Command
           /\ \A k \in DOMAIN args :
                 /\ IsOption(k)' <=> IsOption(k)
                 /\ Asks(k)' <=> Asks(k)
                 /\ Wrong(k)' <=> Wrong(k)
                 /\ ValueOf(k)' = ValueOf(k)
           /\ FilesGiven' = FilesGiven
           /\ \A f : Setters(f)' = Setters(f)
<1>1. Start' = Start /\ Command' = Command
  BY DEF Start, Command
<1>2. \A k \in DOMAIN args : IsValue'[k] <=> IsValue[k]
  BY ValuesKept
<1>3. \A k \in DOMAIN args : Named(args[k])' <=> Named(args[k])
  BY <1>1 DEF Named, Fits
<1>4. \A k \in DOMAIN args : IsOption(k)' <=> IsOption(k)
  BY <1>1, <1>2 DEF IsOption
<1>5. \A k \in DOMAIN args : ValueOf(k)' = ValueOf(k)
  BY <1>3 DEF ValueOf, Takes
<1>6. \A k \in DOMAIN args : Asks(k)' <=> Asks(k)
  BY <1>4 DEF Asks
<1>7. \A k \in DOMAIN args : Wrong(k)' <=> Wrong(k)
  BY <1>3, <1>4, <1>5, <1>6 DEF Wrong
<1>8. FilesGiven' = FilesGiven
  BY <1>1, <1>2 DEF FilesGiven
<1>9. \A f : Setters(f)' = Setters(f)
  BY <1>3, <1>4 DEF Setters
<1> QED
  BY <1>1, <1>4, <1>5, <1>6, <1>7, <1>8, <1>9

LEMMA BeforeKept ==
    ASSUME args \in Seq(Words), args' = args, NEW n
    PROVE  /\ FilesBefore(n)' = FilesBefore(n)
           /\ {args[k].name : k \in FilesBefore(n)}' = {args[k].name : k \in FilesBefore(n)}
           /\ \A f : SettersBefore(f, n)' = SettersBefore(f, n)
           /\ NamedBefore(n)' = NamedBefore(n)
<1>1. FilesBefore(n)' = FilesBefore(n)
  BY MeaningKept DEF FilesBefore
<1>2. \A f : SettersBefore(f, n)' = SettersBefore(f, n)
  BY MeaningKept DEF SettersBefore
<1>3. {j \in DOMAIN args : IsOption(j) /\ j < n}' = {j \in DOMAIN args : IsOption(j) /\ j < n}
  BY MeaningKept
<1>4. NamedBefore(n)' = NamedBefore(n)
  BY <1>3 DEF NamedBefore
<1> QED
  BY <1>1, <1>2, <1>4

LEMMA LastKept ==
    ASSUME args \in Seq(Words), args' = args, NEW n, NEW f, SettersBefore(f, n) # {}
    PROVE  /\ LastSetter(f, n)' = LastSetter(f, n)
           /\ LastSetter(f, n) \in DOMAIN args
<1>1. SettersBefore(f, n)' = SettersBefore(f, n)
  BY BeforeKept
<1>2. LastSetter(f, n)' = LastSetter(f, n)
  BY <1>1 DEF LastSetter
<1>3. \E k \in SettersBefore(f, n) : \A j \in SettersBefore(f, n) : j <= k
  <2> DEFINE m == Len(args)
             R == {m - k : k \in SettersBefore(f, n)}
  <2>1. m \in Nat /\ SettersBefore(f, n) \subseteq 1 .. m
    BY DEF SettersBefore, Setters
  <2> HIDE DEF m
  <2>2. R \in SUBSET Nat /\ R # {}
    BY <2>1
  <2>3. PICK r \in R : \A q \in R : r <= q
    <3> HIDE DEF R
    <3> QED
      BY <2>2, LeastNatural
  <2>4. PICK k \in SettersBefore(f, n) : r = m - k
    BY <2>3
  <2>5. ASSUME NEW j \in SettersBefore(f, n)
        PROVE  j <= k
    <3>1. m - k <= m - j
      BY <2>3, <2>4
    <3> QED
      BY <2>1, <3>1
  <2> QED
    BY <2>5
<1>4. LastSetter(f, n) \in SettersBefore(f, n)
  BY <1>3 DEF LastSetter
<1> QED
  BY <1>2, <1>4 DEF SettersBefore, Setters

\* Every setting before n has been set by an option before n
Settled(n) == \A f \in NamedBefore(n) : SettersBefore(f, n) # {}

LEMMA CountedKept ==
    ASSUME args \in Seq(Words), args' = args, NEW p, NEW n, p = options',
           CountedTo(p, n), Settled(n)
    PROVE  CountedTo(options, n)'
<1>1. /\ Len(p.files) = Cardinality(FilesBefore(n))
      /\ ToSet(p.files) = {args[k].name : k \in FilesBefore(n)}
      /\ DOMAIN p.settings = NamedBefore(n)
      /\ \A f \in NamedBefore(n) : SettingAt(p, f, n)
  BY DEF CountedTo
<1>2. ASSUME NEW f \in NamedBefore(n)
      PROVE  SettingAt(options, f, n)'
  <2>1. SettersBefore(f, n) # {}
    BY DEF Settled
  <2>2. /\ LastSetter(f, n)' = LastSetter(f, n)
        /\ LastSetter(f, n) \in DOMAIN args
        /\ SettersBefore(f, n)' = SettersBefore(f, n)
    BY <2>1, LastKept, BeforeKept
  <2>3. ValueOf(LastSetter(f, n))' = ValueOf(LastSetter(f, n))
    BY <2>2, MeaningKept DEF ValueOf, Takes, Named, Fits
  <2>4. SettingAt(p, f, n)
    BY <1>1
  <2> QED
    BY <2>2, <2>3, <2>4 DEF SettingAt
<1>3. CountedTo(options, n)'
  BY <1>1, <1>2, BeforeKept DEF CountedTo
<1> QED
  BY <1>3

-----------------------------------------------------------------------------
(* An argument counts once.                                                *)

LEMMA SettledIs ==
    ASSUME args \in Seq(Words), NEW n \in Nat, GoesOnTo(n)
    PROVE  Settled(n)
<1> SUFFICES ASSUME NEW f \in NamedBefore(n)
             PROVE  SettersBefore(f, n) # {}
  BY DEF Settled
<1>1. PICK k \in DOMAIN args : IsOption(k) /\ k < n /\ f = Field(NamedOption(args[k]))
  BY DEF NamedBefore
<1>2. k \in 1 .. n - 1
  BY <1>1
<1>3. Named(args[k])
  BY <1>1, <1>2 DEF GoesOnTo, Wrong
<1>4. k \in SettersBefore(f, n)
  BY <1>1, <1>3 DEF SettersBefore, Setters
<1> QED
  BY <1>4

\* The argument k and, if it takes one, its value
Covers(k, n) == n = k + 1 \/ (n = k + 2 /\ k + 1 \in DOMAIN args /\ IsValue[k + 1])

LEMMA OptionBefore ==
    ASSUME args \in Seq(Words), NEW k \in DOMAIN args, NEW n, Covers(k, n), IsOption(k),
           Named(args[k])
    PROVE  LET f == Field(NamedOption(args[k]))
           IN  /\ FilesBefore(n) = FilesBefore(k)
               /\ \A g : g # f => SettersBefore(g, n) = SettersBefore(g, k)
               /\ SettersBefore(f, n) = SettersBefore(f, k) \cup {k}
               /\ NamedBefore(n) = NamedBefore(k) \cup ({f} \cap Settings)
<1> DEFINE f == Field(NamedOption(args[k]))
<1>1. n \in Nat /\ k \in Nat /\ DOMAIN args \subseteq Nat
  BY DEF Covers
<1>2. \A j \in DOMAIN args : j < n <=> j < k \/ j = k \/ (j = k + 1 /\ IsValue[k + 1] /\ n = k + 2)
  BY <1>1 DEF Covers
<1>3. FilesBefore(n) = FilesBefore(k)
  BY <1>2 DEF FilesBefore, FilesGiven, IsOption
<1>4. \A j \in DOMAIN args : IsOption(j) => (j < n <=> j < k \/ j = k)
  BY <1>2 DEF IsOption
<1>5. \A g : g # f => SettersBefore(g, n) = SettersBefore(g, k)
  <2> SUFFICES ASSUME NEW g, g # f PROVE SettersBefore(g, n) = SettersBefore(g, k)
    OBVIOUS
  <2>1. \A j \in Setters(g) : j \in DOMAIN args /\ IsOption(j) /\ j # k
    BY DEF Setters
  <2> QED
    BY <1>4, <2>1 DEF SettersBefore
<1>6. SettersBefore(f, n) = SettersBefore(f, k) \cup {k}
  <2>1. k \in Setters(f) /\ \A j \in Setters(f) : j \in DOMAIN args /\ IsOption(j)
    BY DEF Setters
  <2> HIDE DEF f
  <2> QED
    BY <1>4, <2>1 DEF SettersBefore
<1>7. NamedBefore(n) = NamedBefore(k) \cup ({f} \cap Settings)
  <2>1. {j \in DOMAIN args : IsOption(j) /\ j < n}
           = {j \in DOMAIN args : IsOption(j) /\ j < k} \cup {k}
    BY <1>4
  <2> QED
    BY <2>1 DEF NamedBefore
<1> QED
  BY <1>3, <1>5, <1>6, <1>7

LEMMA FileBefore ==
    ASSUME args \in Seq(Words), NEW k \in DOMAIN args, k \in FilesGiven
    PROVE  /\ FilesBefore(k + 1) = FilesBefore(k) \cup {k}
           /\ \A g : SettersBefore(g, k + 1) = SettersBefore(g, k)
           /\ NamedBefore(k + 1) = NamedBefore(k)
<1>1. k \in Nat /\ DOMAIN args \subseteq Nat
  OBVIOUS
<1>2. \A j \in DOMAIN args : j < k + 1 <=> j < k \/ j = k
  BY <1>1
<1>3. FilesBefore(k + 1) = FilesBefore(k) \cup {k}
  <2>1. \A j \in FilesGiven : j \in DOMAIN args
    BY DEF FilesGiven
  <2> QED
    BY <1>2, <2>1 DEF FilesBefore
<1>4. ~IsOption(k)
  BY DEF FilesGiven, IsOption
<1>5. \A g : SettersBefore(g, k + 1) = SettersBefore(g, k)
  <2> TAKE g
  <2>1. \A j \in Setters(g) : j \in DOMAIN args /\ IsOption(j)
    BY DEF Setters
  <2> QED
    BY <1>2, <1>4, <2>1 DEF SettersBefore
<1>6. {j \in DOMAIN args : IsOption(j) /\ j < k + 1} = {j \in DOMAIN args : IsOption(j) /\ j < k}
  BY <1>2, <1>4
<1> QED
  BY <1>3, <1>5, <1>6 DEF NamedBefore

LEMMA OneMore ==
    ASSUME args \in Seq(Words), NEW S, NEW k \in DOMAIN args, S \subseteq DOMAIN args, k \notin S
    PROVE  Cardinality(S) \in Nat /\ Cardinality(S \cup {k}) = Cardinality(S) + 1
<1>1. IsFiniteSet(1 .. Len(args)) /\ DOMAIN args = 1 .. Len(args)
  BY FS_Interval
<1>2. IsFiniteSet(S)
  BY <1>1, FS_Subset
<1> QED
  BY <1>2, FS_AddElement, FS_CardinalityType

LEMMA SettingAtSame ==
    ASSUME NEW p, NEW q, NEW f, NEW k, NEW n, SettingAt(q, f, k),
           Setting(p, f) = Setting(q, f), SettersBefore(f, n) = SettersBefore(f, k)
    PROVE  SettingAt(p, f, n)
<1>1. LastSetter(f, n) = LastSetter(f, k)
  BY DEF LastSetter
<1> QED
  BY <1>1 DEF SettingAt

LEMMA ToSetOfAppend ==
    ASSUME NEW T, NEW s \in Seq(T), NEW x \in T
    PROVE  ToSet(Append(s, x)) = ToSet(s) \cup {x}
<1> DEFINE a == Append(s, x)
<1>1. /\ Len(s) \in Nat /\ DOMAIN s = 1 .. Len(s) /\ DOMAIN a = 1 .. Len(s) + 1
      /\ a[Len(s) + 1] = x /\ \A i \in 1 .. Len(s) : a[i] = s[i]
  OBVIOUS
<1> HIDE DEF a
<1>2. 1 .. Len(s) + 1 = (1 .. Len(s)) \cup {Len(s) + 1}
  BY <1>1
<1>3. ToSet(a) = {a[i] : i \in DOMAIN a} /\ ToSet(s) = {s[i] : i \in DOMAIN s}
  BY DEF ToSet
<1> QED
  BY <1>1, <1>2, <1>3 DEF a

LEMMA InputCounted ==
    ASSUME TypeOK, NEW k \in DOMAIN args, k \in FilesGiven, CountedTo(options, k),
           NEW p, p = [options EXCEPT !.files = Append(options.files, args[k].name)]
    PROVE  CountedTo(p, k + 1)
<1>1. /\ p.files = Append(options.files, args[k].name)
      /\ p.settings = options.settings
      /\ options.files \in Seq({w.name : w \in Words})
      /\ args \in Seq(Words) /\ k \in Nat
  BY NextIs DEF TypeOK, OptionsOK, NewOptions
<1>2. /\ FilesBefore(k + 1) = FilesBefore(k) \cup {k}
      /\ \A g : SettersBefore(g, k + 1) = SettersBefore(g, k)
      /\ NamedBefore(k + 1) = NamedBefore(k)
  BY <1>1, FileBefore
<1>3. FilesBefore(k) \subseteq DOMAIN args /\ k \notin FilesBefore(k)
  BY <1>1 DEF FilesBefore, FilesGiven
<1>4. Len(p.files) = Cardinality(FilesBefore(k + 1))
  <2>1. Len(p.files) = Len(options.files) + 1
    BY <1>1
  <2>2. Len(options.files) = Cardinality(FilesBefore(k))
    BY DEF CountedTo
  <2> QED
    BY <1>1, <1>2, <1>3, <2>1, <2>2, OneMore
<1>5. ToSet(p.files) = {args[j].name : j \in FilesBefore(k + 1)}
  <2>1. ToSet(p.files) = ToSet(options.files) \cup {args[k].name}
    <3>1. args[k].name \in {w.name : w \in Words}
      BY <1>1
    <3> QED
      BY SMTT(30), <1>1, <3>1, ToSetOfAppend
  <2> QED
    BY <1>2, <2>1 DEF CountedTo
<1>6. ASSUME NEW f \in NamedBefore(k + 1)
      PROVE  SettingAt(p, f, k + 1)
  <2>1. Setting(p, f) = Setting(options, f)
    BY <1>1 DEF Setting
  <2> QED
    BY <1>2, <2>1, SettingAtSame DEF CountedTo
<1> QED
  BY <1>1, <1>2, <1>4, <1>5, <1>6 DEF CountedTo

LEMMA OptionCounted ==
    ASSUME TypeOK, NEW k \in DOMAIN args, NEW n, Covers(k, n), IsOption(k), Named(args[k]),
           NEW text \in Texts, ValueOf(k) = <<text>>,
           NamedOption(args[k]) \in Table, Accepted(NamedOption(args[k]), text),
           Field(NamedOption(args[k])) \notin Specific \ Own(options.command),
           CountedTo(options, k),
           NEW p, p = Apply(options, NamedOption(args[k]), text)
    PROVE  CountedTo(p, n)
<1> DEFINE o == NamedOption(args[k])
           f == Field(o)
<1>1. args \in Seq(Words) /\ OptionsOK(options)
  BY NextIs DEF TypeOK
<1>2. /\ FilesBefore(n) = FilesBefore(k)
      /\ \A g : g # f => SettersBefore(g, n) = SettersBefore(g, k)
      /\ SettersBefore(f, n) = SettersBefore(f, k) \cup {k}
      /\ NamedBefore(n) = NamedBefore(k) \cup ({f} \cap Settings)
  BY <1>1, OptionBefore
<1>3. p.files = options.files
  BY <1>1, ApplyKeepsType
<1>4. /\ Len(p.files) = Cardinality(FilesBefore(n))
      /\ ToSet(p.files) = {args[j].name : j \in FilesBefore(n)}
  BY <1>2, <1>3 DEF CountedTo
<1>5. DOMAIN options.settings = NamedBefore(k) /\ \A g \in NamedBefore(k) : SettingAt(options, g, k)
  BY DEF CountedTo
<1>6. CASE f \notin Settings
  <2>1. p.settings = options.settings
    <3>1. \/ p = options
          \/ p = [options EXCEPT !.maxErrors = Count(text)]
          \/ p = [options EXCEPT !.arenaSize = FileSize(text)]
      BY <1>6, ApplyCases
    <3> QED
      BY <1>1, <3>1 DEF OptionsOK, NewOptions
  <2>2. NamedBefore(n) = NamedBefore(k) /\ \A g \in NamedBefore(k) : g # f
    BY <1>2, <1>6 DEF NamedBefore
  <2>3. ASSUME NEW g \in NamedBefore(n)
        PROVE  SettingAt(p, g, n)
    <3>1. Setting(p, g) = Setting(options, g)
      BY <2>1 DEF Setting
    <3>2. SettersBefore(g, n) = SettersBefore(g, k)
      BY <1>2, <2>2
    <3>3. SettingAt(options, g, k)
      BY <1>5, <2>2
    <3> QED
      BY <3>1, <3>2, <3>3, SettingAtSame
  <2> QED
    BY <1>4, <1>5, <2>1, <2>2, <2>3 DEF CountedTo
<1>7. CASE f \in Settings
  <2> DEFINE v == NewValue(options, o, text)
  <2>1. p = With(options, f, v)
    BY <1>7, ApplyCases
  <2>2. DOMAIN options = DOMAIN NewOptions("build")
    BY <1>1 DEF OptionsOK
  <2>3. DOMAIN p.settings = NamedBefore(n)
    <3> HIDE DEF o, f, v
    <3>1. DOMAIN p.settings = DOMAIN options.settings \cup {f}
      BY <2>1, <2>2, WithSets
    <3> QED
      BY <1>2, <1>5, <1>7, <3>1
  <2>4. \A g : Setting(p, g) = IF g = f THEN v ELSE Setting(options, g)
    <3> HIDE DEF o, f, v
    <3> QED
      BY <2>1, <2>2, SettingOfWith
  <2>5. ASSUME NEW g \in NamedBefore(n), g # f
        PROVE  SettingAt(p, g, n)
    <3>1. g \in NamedBefore(k)
      BY <1>2, <2>5
    <3>2. SettersBefore(g, n) = SettersBefore(g, k) /\ Setting(p, g) = Setting(options, g)
      BY <1>2, <2>4, <2>5
    <3> QED
      BY <1>5, <3>1, <3>2, SettingAtSame
  <2>6. SettingAt(p, f, n)
    <3>1. Setting(p, f) = v
      BY <2>4
    <3>2. CASE f \in Lists
      <4>1. o = f /\ o \in Lists
        BY <3>2, FieldOfValued, ListsAreSettings
      <4>2. v = Append(Setting(options, o), text) /\ Setting(options, o) \in Seq(Texts)
        BY <1>1, <4>1, SettingIs DEF NewValue
      <4>3. Len(v) = Len(Setting(options, f)) + 1
        <5> HIDE DEF v, f, o
        <5> QED
          BY <4>1, <4>2
      <4>4. Len(Setting(options, f)) = Cardinality(SettersBefore(f, k))
        <5>1. CASE f \in NamedBefore(k)
          BY <1>5, <3>2, <5>1 DEF SettingAt
        <5>2. CASE f \notin NamedBefore(k)
          <6>1. Setting(options, f) = <<>>
            BY <1>5, <3>2, <5>2, ListsAreSettings DEF Setting
          <6>2. SettersBefore(f, k) = {}
            <7> SUFFICES ASSUME NEW j \in SettersBefore(f, k) PROVE FALSE
              OBVIOUS
            <7>1. j \in DOMAIN args /\ IsOption(j) /\ j < k /\ Field(NamedOption(args[j])) = f
              BY DEF SettersBefore, Setters
            <7>2. f \in NamedBefore(k)
              BY <1>7, <7>1 DEF NamedBefore
            <7> QED
              BY <5>2, <7>2
          <6> QED
            BY <6>1, <6>2, FS_EmptySet
        <5> QED
          BY <5>1, <5>2
      <4>5. SettersBefore(f, k) \subseteq DOMAIN args /\ k \notin SettersBefore(f, k)
        BY <1>1 DEF SettersBefore, Setters
      <4>6. Cardinality(SettersBefore(f, n)) = Cardinality(SettersBefore(f, k)) + 1
        <5> HIDE DEF f
        <5> QED
          BY <1>1, <1>2, <4>5, OneMore
      <4> QED
        BY <3>1, <3>2, <4>3, <4>4, <4>6 DEF SettingAt
    <3>3. CASE f \notin Lists
      <4>1. LastSetter(f, n) = k
        <5>1. k \in SettersBefore(f, n) /\ \A j \in SettersBefore(f, n) : j <= k /\ j \in Nat
          <6>1. \A j \in SettersBefore(f, k) : j < k /\ j \in Nat
            BY <1>1 DEF SettersBefore, Setters
          <6> HIDE DEF f
          <6> QED
            BY <1>1, <1>2, <6>1
        <5>2. \A m : m \in SettersBefore(f, n) /\ (\A j \in SettersBefore(f, n) : j <= m) => m = k
          BY <1>1, <5>1
        <5> QED
          BY <5>1, <5>2 DEF LastSetter
      <4>2. o \notin Lists
        BY <3>3, FieldOfValued DEF Valued
      <4>3. v = IF o \in Valued THEN ValueOf(k) ELSE <<FlagValue(o, ValueOf(k)[1])>>
        BY <4>2 DEF NewValue
      <4> QED
        BY <3>1, <3>3, <4>1, <4>3 DEF SettingAt
    <3> QED
      BY <3>2, <3>3
  <2>7. ASSUME NEW g \in NamedBefore(n)
        PROVE  SettingAt(p, g, n)
    BY <2>5, <2>6
  <2> QED
    BY <1>4, <2>3, <2>7 DEF CountedTo
<1> QED
  BY <1>6, <1>7

-----------------------------------------------------------------------------
(* The loop over the arguments.                                            *)

LEMMA OutcomeKept == args \in Seq(Words) /\ args' = args => Outcome' = Outcome
<1> SUFFICES ASSUME args \in Seq(Words), args' = args PROVE Outcome' = Outcome
  OBVIOUS
<1>1. \A k \in DOMAIN args : (Asks(k)' <=> Asks(k)) /\ (Wrong(k)' <=> Wrong(k))
  BY MeaningKept
<1>2. \A k \in DOMAIN args : \A j \in 1 .. k - 1 : j \in DOMAIN args
  OBVIOUS
<1>3. \A k \in DOMAIN args : Ends(k)' <=> Ends(k)
  BY <1>1, <1>2 DEF Ends
<1>4. {k \in DOMAIN args : Ends(k)}' = {k \in DOMAIN args : Ends(k)}
  BY <1>3
<1>5. Command' = Command
  BY MeaningKept
<1> QED
  BY <1>4, <1>5 DEF Outcome

\* The loop goes on with argument n.
LEMMA LoopGoesOn ==
    ASSUME args \in Seq(Words), args' = args, NEW p, NEW n, p = options', n = next',
           pc' = "arguments", n \in Start .. Len(args) + 1, ~IsValue[n], GoesOnTo(n),
           CountedTo(p, n)
    PROVE  ParsingInv' /\ ParsedInv'
<1>1. n \in Nat /\ n \in 0 .. Len(args) + 1
  BY StartIs
<1>2. Settled(n)
  BY <1>1, SettledIs
<1>3. CountedTo(options, n)'
  BY <1>2, CountedKept
<1>4. ~IsValue'[n]
  BY <1>1, ValuesKept
<1>5. \A j \in 1 .. n - 1 : j \in DOMAIN args
  <2>1. PICK m \in Nat : m = Len(args)
    OBVIOUS
  <2>2. DOMAIN args = 1 .. m
    BY <2>1
  <2>3. n \in Nat /\ n <= m + 1
    BY <1>1, <2>1
  <2>4. \A l \in Nat : l <= m + 1 => \A j \in 1 .. l - 1 : j \in 1 .. m
    OBVIOUS
  <2> QED
    BY <2>2, <2>3, <2>4
<1>6. GoesOnTo(n)'
  BY <1>5, MeaningKept DEF GoesOnTo
<1>7. (next >= Start)'
  <2>1. n >= Start
    BY StartIs
  <2> QED
    BY <2>1, MeaningKept
<1>8. CountedTo(options, next)' /\ GoesOnTo(next)' /\ ~(IsValue[next])'
  BY <1>3, <1>4, <1>6 DEF GoesOnTo
<1> QED
  BY <1>7, <1>8 DEF ParsingInv, ParsedInv

\* The parsing ends at the argument k that the loop is at.
LEMMA LoopEnds ==
    ASSUME args \in Seq(Words), NEW k \in DOMAIN args, GoesOnTo(k), Asks(k) \/ Wrong(k),
           Command \notin {"help", "version"}
    PROVE  Outcome = IF IsHelp(args[k]) THEN "HelpRequested"
                     ELSE IF IsVersion(args[k]) THEN "VersionRequested" ELSE "Error"
<1> DEFINE ending == {j \in DOMAIN args : Ends(j)}
<1>1. \A j \in DOMAIN args : j \in Nat
  OBVIOUS
<1>2. Ends(k)
  BY DEF Ends, GoesOnTo
<1>3. ASSUME NEW j \in DOMAIN args, Ends(j)
      PROVE  j = k
  <2>1. ~(j < k)
    <3>1. j \in 1 .. k - 1 => ~Asks(j) /\ ~Wrong(j)
      BY DEF GoesOnTo
    <3> QED
      BY <1>1, <1>3, <3>1 DEF Ends
  <2>2. ~(k < j)
    <3>1. k \in 1 .. j - 1 => ~Asks(k) /\ ~Wrong(k)
      BY <1>3 DEF Ends
    <3> QED
      BY <1>1, <3>1
  <2> QED
    BY <1>1, <2>1, <2>2
<1>4. ending = {k}
  BY <1>2, <1>3
<1>5. (CHOOSE j \in ending : TRUE) = k
  BY <1>4
<1> HIDE DEF ending
<1>6. ending # {}
  BY <1>4
<1> QED
  BY <1>5, <1>6 DEF Outcome, ending

LEMMA LoopPasses ==
    ASSUME args \in Seq(Words), GoesOnTo(Len(args) + 1), Command \notin {"help", "version"}
    PROVE  Outcome = "Success"
<1>1. \A k \in DOMAIN args : ~Ends(k)
  BY DEF GoesOnTo, Ends
<1> QED
  BY <1>1 DEF Outcome

LEMMA NoMoreParsing ==
    ASSUME args \in Seq(Words), args' = args, pc' \notin {"command", "arguments"},
           result' = Outcome,
           result' = "Success" => /\ options' = options
                                  /\ GoesOnTo(Len(args) + 1)
                                  /\ CountedTo(options, Len(args) + 1)
    PROVE  ParsingInv' /\ ParsedInv'
<1>1. result' = Outcome'
  BY OutcomeKept
<1>2. ASSUME result' = "Success"
      PROVE  (GoesOnTo(Len(args) + 1) /\ CountedTo(options, Len(args) + 1))'
  <2>1. PICK n \in Nat : n = Len(args) + 1
    OBVIOUS
  <2>2. PICK p : p = options
    OBVIOUS
  <2>3. GoesOnTo(n) /\ CountedTo(p, n) /\ p = options'
    BY <1>2, <2>1, <2>2
  <2>4. Settled(n)
    BY <2>3, SettledIs
  <2>5. CountedTo(options, n)'
    BY <2>3, <2>4, CountedKept
  <2>6. \A j \in 1 .. n - 1 : j \in DOMAIN args
    BY <2>1
  <2>7. GoesOnTo(n)'
    BY <2>3, <2>6, MeaningKept DEF GoesOnTo
  <2>8. n = (Len(args) + 1)'
    BY <2>1
  <2> QED
    BY <2>5, <2>7, <2>8 DEF GoesOnTo
<1> QED
  BY <1>1, <1>2 DEF ParsingInv, ParsedInv

LEMMA ParseCommandLoops ==
    ASSUME TypeOK, Flow, ParseCommand
    PROVE  ParsingInv' /\ ParsedInv'
<1>1. /\ pc = "command" /\ next' = Start
      /\ result' # "Error"
      /\ pc' = IF result' = "Success" THEN "arguments" ELSE "end"
      /\ result' = "Success" =>
            /\ ~IsHelp(First) /\ ~IsVersion(First)
            /\ Command \notin {"help", "version"}
            /\ options' = NewOptions(Command)
      /\ args' = args /\ args \in Seq(Words) /\ Len(args) \in Nat
  BY ParseCommandIs, NextIs DEF Flow
<1>2. CASE result' = "Success"
  <2>1. PICK n : n = Start
    OBVIOUS
  <2>2. n \in {1, 2} /\ n <= Len(args) + 1 /\ n = next' /\ n \in Nat
    BY <1>1, <2>1, StartIs
  <2>3. ~IsValue[n]
    <3>1. n \in 0 .. Len(args) + 1 /\ ~(n > Start)
      BY <1>1, <2>1, <2>2
    <3> QED
      BY <1>1, <3>1, IsValueIs
  <2>4. \A j \in DOMAIN args : j < n => ~IsOption(j) /\ j \notin FilesGiven
    <3>1. \A j \in DOMAIN args : j \in Nat
      BY <1>1
    <3> QED
      BY <2>1, <2>2, <3>1 DEF IsOption, FilesGiven
  <2>5. GoesOnTo(n)
    <3>1. \A j \in 1 .. n - 1 : j \in DOMAIN args /\ j < n
      BY <1>1, <2>2
    <3> QED
      BY <2>4, <3>1 DEF GoesOnTo, Asks, Wrong
  <2>6. PICK p : p = options'
    OBVIOUS
  <2>7. p.files = <<>> /\ DOMAIN p.settings = {}
    BY <1>1, <1>2, <2>6 DEF NewOptions
  <2>8. FilesBefore(n) = {}
    BY <2>4 DEF FilesBefore, FilesGiven
  <2>9. NamedBefore(n) = {}
    BY <2>4 DEF NamedBefore
  <2>10. CountedTo(p, n)
    <3>1. Len(p.files) = 0 /\ ToSet(p.files) = {}
      BY <2>7 DEF ToSet
    <3> QED
      BY <2>7, <2>8, <2>9, <3>1, FS_EmptySet DEF CountedTo
  <2>11. n \in Start .. Len(args) + 1
    BY <1>1, <2>1, <2>2
  <2>12. pc' = "arguments"
    BY <1>1, <1>2
  <2> QED
    BY <1>1, <2>2, <2>3, <2>5, <2>6, <2>10, <2>11, <2>12, LoopGoesOn
<1>3. CASE result' # "Success"
  <2> DEFINE c == IF IsHelp(First) THEN "help"
                  ELSE IF IsCommand(First) THEN StringToCommand(First.name) ELSE "build"
  <2>1. result' = CASE IsVersion(First) \/ c = "version" -> "VersionRequested"
                    [] c = "help" -> "HelpRequested"
                    [] OTHER -> "Success"
    BY DEF ParseCommand, First
  <2>2. /\ Start = IF IsCommand(First) THEN 2 ELSE 1
        /\ Command = IF IsCommand(First) THEN StringToCommand(First.name) ELSE "build"
    BY <1>1, FirstIs
  <2>3. /\ IsHelp(First) => ~IsVersion(First) /\ ~IsCommand(First) /\ First.form # "plain"
        /\ IsVersion(First) => ~IsHelp(First) /\ ~IsCommand(First) /\ First.form # "plain"
    BY DEF IsHelp, IsVersion, IsCommand, Word
  <2>4. CASE IsHelp(First) \/ IsVersion(First)
    <3>1. args # <<>> /\ First = args[1]
      <4>1. First.form # "plain"
        BY <2>3, <2>4
      <4> QED
        BY <4>1 DEF First, Word
    <3>2. 1 \in DOMAIN args /\ Start = 1
      BY <1>1, <2>2, <2>3, <2>4, <3>1
    <3>3. ~IsValue[1]
      <4>1. 1 \in 0 .. Len(args) + 1 /\ ~(1 > Start)
        BY <1>1, <3>2
      <4> QED
        BY <1>1, <4>1, IsValueIs
    <3>4. Asks(1)
      BY <2>3, <2>4, <3>1, <3>2, <3>3 DEF Asks, IsOption
    <3>5. GoesOnTo(1)
      BY DEF GoesOnTo
    <3>6. Command = "build"
      BY <2>2, <2>3, <2>4
    <3>7. Outcome = IF IsHelp(First) THEN "HelpRequested" ELSE "VersionRequested"
      BY <1>1, <2>4, <3>1, <3>2, <3>4, <3>5, <3>6, LoopEnds
    <3>8. result' = Outcome
      BY <2>1, <2>3, <2>4, <3>7
    <3> QED
      BY <1>1, <1>3, <3>8, NoMoreParsing
  <2>5. CASE ~IsHelp(First) /\ ~IsVersion(First)
    <3>1. c = Command
      BY <2>2, <2>5
    <3> HIDE DEF c
    <3>2. Command \in {"help", "version"}
      BY <1>3, <2>1, <2>5, <3>1
    <3>3. result' = Outcome
      BY <2>1, <2>5, <3>1, <3>2 DEF Outcome
    <3> QED
      BY <1>1, <1>3, <3>3, NoMoreParsing
  <2> QED
    BY <2>4, <2>5
<1> QED
  BY <1>2, <1>3

\* What is known of the argument that the loop is at
LEMMA LoopIsAt ==
    ASSUME TypeOK, Flow, ParsingInv, pc = "arguments", NEW k, k = next, k <= Len(args)
    PROVE  /\ k \in DOMAIN args /\ k \in Nat /\ k >= Start /\ ~IsValue[k]
           /\ GoesOnTo(k) /\ CountedTo(options, k)
           /\ args \in Seq(Words) /\ Len(args) \in Nat /\ args[k] \in Words
           /\ Command \notin {"help", "version"} /\ Start \in {1, 2}
           /\ IsOption(k) <=> args[k].form # "plain"
<1>1. /\ k \in 1 .. Len(args) /\ k \in Nat /\ args \in Seq(Words) /\ Len(args) \in Nat
      /\ k >= Start /\ ~IsValue[k] /\ GoesOnTo(k) /\ CountedTo(options, k)
      /\ Command \notin {"help", "version"}
  BY NextIs DEF ParsingInv, Flow, CommandInv
<1>2. args[k] \in Words
  BY <1>1, ElementOfSeq
<1>3. IsOption(k) <=> args[k].form # "plain"
  BY <1>1 DEF IsOption
<1> QED
  BY <1>1, <1>2, <1>3, StartIs

LEMMA GoesOnPast ==
    ASSUME NEW k \in Nat, GoesOnTo(k), ~Asks(k), ~Wrong(k)
    PROVE  GoesOnTo(k + 1)
<1>1. \A j \in 1 .. (k + 1) - 1 : j \in 1 .. k - 1 \/ j = k
  OBVIOUS
<1> QED
  BY <1>1 DEF GoesOnTo

LEMMA InputFileLoops ==
    ASSUME TypeOK, Flow, ParsingInv, NEW w \in Words, InputFile(w)
    PROVE  ParsingInv' /\ ParsedInv'
<1>1. PICK k : k = next
  OBVIOUS
<1>2. /\ pc = "arguments" /\ k <= Len(args) /\ args[k] = w /\ w.form = "plain"
      /\ options' = [options EXCEPT !.files = Append(options.files, w.name)]
      /\ next' = k + 1
      /\ UNCHANGED <<pc, args, result, logged, disk, stdin, valid, compiled, exit>>
  BY <1>1 DEF InputFile, At, Behind
<1>3. /\ k \in DOMAIN args /\ k \in Nat /\ k >= Start /\ ~IsValue[k]
      /\ GoesOnTo(k) /\ CountedTo(options, k)
      /\ args \in Seq(Words) /\ Len(args) \in Nat /\ Start \in {1, 2}
      /\ ~IsOption(k)
  BY <1>1, <1>2, LoopIsAt
<1>4. PICK p : p = options'
  OBVIOUS
<1>5. PICK n : n = k + 1
  OBVIOUS
<1>6. CountedTo(p, n)
  <2>1. k \in FilesGiven
    BY <1>2, <1>3 DEF FilesGiven
  <2> QED
    BY <1>2, <1>3, <1>4, <1>5, <2>1, InputCounted
<1>7. GoesOnTo(n)
  <2>1. ~Asks(k) /\ ~Wrong(k)
    BY <1>3 DEF Asks, Wrong
  <2> QED
    BY <1>3, <1>5, <2>1, GoesOnPast
<1>8. n \in Start .. Len(args) + 1 /\ n \in 0 .. Len(args) + 1
  BY <1>2, <1>3, <1>5
<1>9. ~IsValue[n]
  <2>1. ~TakesNext(args[k])
    BY <1>2 DEF TakesNext, Takes, Named
  <2>2. n - 1 = k
    BY <1>3, <1>5
  <2> QED
    BY <1>3, <1>8, <2>1, <2>2, IsValueIs
<1> QED
  BY <1>2, <1>3, <1>4, <1>5, <1>6, <1>7, <1>8, <1>9, LoopGoesOn

LEMMA ValueIsGiven ==
    ASSUME TypeOK, NEW k \in DOMAIN args, k = next, NEW w, args[k] = w, Named(w),
           AwaitsValue(w) => next < Len(args) /\ Given(w) # ""
    PROVE  ValueOf(k) = <<Given(w)>>
<1>1. CASE AwaitsValue(w)
  <2>1. Takes(args[k]) /\ Given(w) = Text(args[k + 1])
    BY <1>1 DEF Takes, Given
  <2> QED
    BY <1>1, <2>1 DEF ValueOf
<1>2. CASE ~AwaitsValue(w)
  <2>1. ~Takes(args[k])
    BY <1>2 DEF Takes
  <2> QED
    BY <1>2, <2>1 DEF ValueOf, Given
<1> QED
  BY <1>1, <1>2

LEMMA OptionLoops ==
    ASSUME TypeOK, Flow, ParsingInv, NEW w \in Words, Option(w) \/ OptionAndValue(w)
    PROVE  ParsingInv' /\ ParsedInv'
<1>1. PICK k : k = next
  OBVIOUS
<1>2. PICK text \in Texts : text = Given(w)
  BY OptionCases
<1>3. /\ OptionAt(w) /\ SetOption(w, text, Taken(w))
      /\ AwaitsValue(w) => k < Len(args) /\ text # ""
  BY <1>1, <1>2, OptionCases
<1>4. /\ pc = "arguments" /\ k \in 1 .. Len(args) /\ args[k] = w
      /\ NamedOption(w) \in Table
      /\ Field(NamedOption(w)) \notin Specific \ Own(options.command)
      /\ Named(w) /\ ~IsHelp(w) /\ ~IsVersion(w)
  BY <1>1, <1>3, OptionAtIs DEF Flow
<1>5. /\ k \in DOMAIN args /\ k \in Nat /\ k >= Start /\ ~IsValue[k]
      /\ GoesOnTo(k) /\ CountedTo(options, k)
      /\ args \in Seq(Words) /\ Len(args) \in Nat /\ Start \in {1, 2}
      /\ Command \notin {"help", "version"}
      /\ IsOption(k)
  <2>1. k <= Len(args)
    BY <1>4, NextIs
  <2>2. args[k].form # "plain"
    BY <1>3, <1>4 DEF OptionAt
  <2> QED
    BY <1>1, <1>4, <2>1, <2>2, LoopIsAt
<1>6. ValueOf(k) = <<text>>
  BY <1>1, <1>2, <1>3, <1>4, <1>5, ValueIsGiven
<1>7. ~Asks(k)
  BY <1>4 DEF Asks
<1>8. CASE Accepted(NamedOption(w), text)
  <2>1. /\ options' = Apply(options, NamedOption(w), text)
        /\ next' = k + Taken(w)
        /\ UNCHANGED <<pc, args, result, logged, disk, stdin, valid, compiled, exit>>
    BY <1>1, <1>3, <1>8 DEF SetOption, Behind
  <2>2. ~Wrong(k)
    BY <1>4, <1>6, <1>8 DEF Wrong
  <2>3. GoesOnTo(k + 1)
    BY <1>5, <1>7, <2>2, GoesOnPast
  <2>4. PICK n : n = k + Taken(w)
    OBVIOUS
  <2>5. k + 1 \in 0 .. Len(args) + 1 /\ (k + 1) - 1 = k /\ k + 1 > Start
    BY <1>4, <1>5
  <2>6. IsValue[k + 1] <=> AwaitsValue(w)
    <3>1. TakesNext(args[k]) <=> AwaitsValue(w)
      BY <1>4 DEF TakesNext, Takes
    <3> QED
      BY <1>5, <2>5, <3>1, IsValueIs
  <2>7. /\ Covers(k, n) /\ GoesOnTo(n) /\ ~IsValue[n]
        /\ n \in Start .. Len(args) + 1
    <3>1. CASE AwaitsValue(w)
      <4>1. n = k + 2 /\ k + 1 \in DOMAIN args /\ k + 2 \in 0 .. Len(args) + 1
            /\ (k + 2) - 1 = k + 1 /\ (k + 1) + 1 = k + 2 /\ k + 1 \in Nat
        <5>1. n = k + 2 /\ k < Len(args)
          BY <1>3, <2>4, <3>1 DEF Taken
        <5>2. DOMAIN args = 1 .. Len(args)
          BY <1>5
        <5>3. k \in Nat /\ Len(args) \in Nat
          BY <1>5
        <5> QED
          BY <5>1, <5>2, <5>3
      <4>2. ~IsValue[n]
        BY <1>5, <2>6, <3>1, <4>1, IsValueIs
      <4>3. ~IsOption(k + 1)
        BY <2>6, <3>1 DEF IsOption
      <4>4. GoesOnTo(n)
        BY <2>3, <4>1, <4>3, GoesOnPast DEF Asks, Wrong
      <4> QED
        BY <1>5, <2>6, <3>1, <4>1, <4>2, <4>4 DEF Covers
    <3>2. CASE ~AwaitsValue(w)
      <4>1. n = k + 1
        BY <2>4, <3>2 DEF Taken
      <4> QED
        BY <1>5, <2>3, <2>5, <2>6, <3>2, <4>1 DEF Covers
    <3> QED
      BY <3>1, <3>2
  <2>8. PICK p : p = options'
    OBVIOUS
  <2>9. CountedTo(p, n)
    BY <1>4, <1>5, <1>6, <1>8, <2>1, <2>7, <2>8, OptionCounted
  <2> QED
    BY <1>4, <1>5, <2>1, <2>4, <2>7, <2>8, <2>9, LoopGoesOn
<1>9. CASE ~Accepted(NamedOption(w), text)
  <2>1. Wrong(k)
    <3>1. <<text>>[1] = text
      OBVIOUS
    <3> QED
      BY <1>4, <1>5, <1>6, <1>7, <1>9, <3>1 DEF Wrong
  <2>2. Outcome = "Error"
    BY <1>4, <1>5, <2>1, LoopEnds
  <2>3. PICK log : Reject(log)
    BY <1>3, <1>9 DEF SetOption
  <2>4. args' = args /\ pc' = "end" /\ result' = "Error"
    BY <2>3 DEF Reject
  <2> QED
    BY <1>5, <2>2, <2>4, NoMoreParsing
<1> QED
  BY <1>8, <1>9

\* The loop is at an option that is wrong.
LEMMA RejectedIsWrong ==
    ASSUME TypeOK, Flow, ParsingInv, NEW w \in Words,
           RejectOption(w) \/ ValueMissing(w) \/ ValueEmpty(w)
    PROVE  /\ next \in DOMAIN args /\ args[next] = w /\ Wrong(next)
           /\ RejectOption(w) \/ ValueMissing(w) => Reject(TRUE)
           /\ ValueEmpty(w) => Reject(FALSE) /\ next < Len(args) /\ ValueOf(next) = <<>>
<1>1. PICK k : k = next
  OBVIOUS
<1>2. pc = "arguments" /\ k <= Len(args) /\ args[k] = w /\ w.form # "plain"
      /\ ~IsHelp(w) /\ ~IsVersion(w)
  BY <1>1 DEF RejectOption, ValueMissing, ValueEmpty, OptionAt, At
<1>3. k \in DOMAIN args /\ IsOption(k) /\ options.command = Command
  BY <1>1, <1>2, LoopIsAt DEF Flow, CommandInv
<1>4. ~Asks(k)
  BY <1>2 DEF Asks
<1>5. CASE RejectOption(w)
  <2>1. ~Named(w)
    BY <1>3, <1>5 DEF RejectOption, Named, Fits, ValidForCommand
  <2>2. Wrong(k)
    BY <1>2, <1>3, <1>4, <2>1 DEF Wrong
  <2> QED
    BY <1>1, <1>2, <1>3, <1>5, <2>2 DEF RejectOption, ValueMissing, ValueEmpty, OptionAt
<1>6. CASE ValueMissing(w) \/ ValueEmpty(w)
  <2>1. OptionAt(w) /\ AwaitsValue(w)
    BY <1>6 DEF ValueMissing, ValueEmpty
  <2>2. Takes(w)
    BY <1>3, <2>1 DEF OptionAt, Takes, Named, Fits, ValidForCommand
  <2>3. ValueOf(k) = <<>>
    <3>1. ~(k < Len(args) /\ Text(args[k + 1]) # "")
      <4>1. CASE ValueMissing(w)
        <5>1. k = Len(args)
          BY <1>1, <4>1 DEF ValueMissing
        <5>2. k \in Nat
          BY <1>1, NextIs
        <5>3. ~(k < Len(args))
          BY <5>1, <5>2
        <5> QED
          BY <5>3
      <4>2. CASE ValueEmpty(w)
        BY <1>1, <4>2 DEF ValueEmpty
      <4> QED
        BY <1>6, <4>1, <4>2
    <3> QED
      BY <1>2, <2>2, <3>1 DEF ValueOf
  <2>4. Wrong(k)
    BY <1>3, <1>4, <2>3 DEF Wrong
  <2>5. ~RejectOption(w)
    BY <2>1 DEF OptionAt, RejectOption
  <2> QED
    BY <1>1, <1>2, <1>3, <1>6, <2>3, <2>4, <2>5 DEF ValueMissing, ValueEmpty
<1> QED
  BY <1>5, <1>6

LEMMA RejectLoops ==
    ASSUME TypeOK, Flow, ParsingInv, NEW w \in Words,
           RejectOption(w) \/ ValueMissing(w) \/ ValueEmpty(w)
    PROVE  ParsingInv' /\ ParsedInv'
<1>1. PICK k : k = next
  OBVIOUS
<1>2. k \in DOMAIN args /\ Wrong(k) /\ (Reject(TRUE) \/ Reject(FALSE))
  BY <1>1, RejectedIsWrong
<1>3. pc = "arguments" /\ k <= Len(args) /\ args[k] = w /\ ~IsHelp(w) /\ ~IsVersion(w)
  BY <1>1 DEF RejectOption, ValueMissing, ValueEmpty, OptionAt, At
<1>4. GoesOnTo(k) /\ args \in Seq(Words) /\ Command \notin {"help", "version"}
  BY <1>1, <1>3, LoopIsAt
<1>5. Outcome = "Error"
  BY <1>2, <1>3, <1>4, LoopEnds
<1>6. args' = args /\ pc' = "end" /\ result' = "Error"
  BY <1>2 DEF Reject
<1> QED
  BY <1>4, <1>5, <1>6, NoMoreParsing

LEMMA RequestLoops ==
    ASSUME TypeOK, Flow, ParsingInv, RequestHelp \/ RequestVersion
    PROVE  ParsingInv' /\ ParsedInv'
<1>1. PICK k : k = next
  OBVIOUS
<1>2. IsHelp(args[k]) \/ IsVersion(args[k])
  BY <1>1 DEF RequestHelp, RequestVersion
<1>3. /\ IsHelp(args[k]) => ~IsVersion(args[k]) /\ args[k].form # "plain"
      /\ IsVersion(args[k]) => ~IsHelp(args[k]) /\ args[k].form # "plain"
  BY DEF IsHelp, IsVersion, Word
<1>4. /\ pc = "arguments" /\ k <= Len(args)
  BY <1>1 DEF RequestHelp, RequestVersion
<1>5. /\ k \in DOMAIN args /\ GoesOnTo(k) /\ args \in Seq(Words)
      /\ Command \notin {"help", "version"}
      /\ IsOption(k) <=> args[k].form # "plain"
  BY <1>1, <1>4, LoopIsAt
<1>6. Asks(k)
  BY <1>3, <1>2, <1>5 DEF Asks
<1>7. Outcome = IF IsHelp(args[k]) THEN "HelpRequested" ELSE "VersionRequested"
  BY <1>2, <1>5, <1>6, LoopEnds
<1>8. args' = args /\ pc' = "end" /\ result' = Outcome
  <2>1. CASE RequestHelp
    BY <1>1, <1>7, <2>1 DEF RequestHelp
  <2>2. CASE RequestVersion
    BY <1>1, <1>3, <1>7, <2>2 DEF RequestVersion
  <2> QED
    BY <2>1, <2>2
<1>9. Outcome # "Success"
  BY <1>7
<1> QED
  BY <1>5, <1>8, <1>9, NoMoreParsing

LEMMA StepCounts ==
    TypeOK /\ Flow /\ ParsingInv /\ ParsedInv /\ [Next]_vars => ParsingInv' /\ ParsedInv'
<1> SUFFICES ASSUME TypeOK, Flow, ParsingInv, ParsedInv, [Next]_vars
             PROVE  ParsingInv' /\ ParsedInv'
  OBVIOUS
<1>0. args \in Seq(Words) /\ Len(args) \in Nat /\ next \in Nat /\ next <= Len(args) + 1
      /\ args' = args
  BY NextIs, ArgumentsKept
<1>1. CASE ParseCommand
  BY <1>1, ParseCommandLoops
<1>2. CASE RequestHelp \/ RequestVersion
  BY <1>2, RequestLoops
<1>3. ASSUME NEW w \in Words, InputFile(w)
      PROVE  ParsingInv' /\ ParsedInv'
  BY <1>3, InputFileLoops
<1>4. ASSUME NEW w \in Words, RejectOption(w) \/ ValueMissing(w) \/ ValueEmpty(w)
      PROVE  ParsingInv' /\ ParsedInv'
  BY <1>4, RejectLoops
<1>5. ASSUME NEW w \in Words, Option(w) \/ OptionAndValue(w)
      PROVE  ParsingInv' /\ ParsedInv'
  BY <1>5, OptionLoops
<1>6. CASE EndArguments
  <2>1. /\ pc = "arguments" /\ next > Len(args) /\ pc' = "input"
        /\ UNCHANGED <<options, result>>
    BY <1>6 DEF EndArguments
  <2>2. next = Len(args) + 1
    BY <1>0, <2>1
  <2>3. GoesOnTo(Len(args) + 1) /\ CountedTo(options, Len(args) + 1)
    BY <2>1, <2>2 DEF ParsingInv
  <2>4. Command \notin {"help", "version"} /\ result' = "Success"
    BY <2>1 DEF Flow, CommandInv, FlowInv
  <2>5. result' = Outcome
    BY <1>0, <2>3, <2>4, LoopPasses
  <2>6. pc' \notin {"command", "arguments"}
    BY <2>1
  <2> QED
    BY <1>0, <2>1, <2>3, <2>5, <2>6, NoMoreParsing
<1>7. CASE /\ pc \notin {"command", "arguments"} /\ pc' \notin {"command", "arguments"}
           /\ UNCHANGED <<options, result>>
  BY <1>0, <1>7, NoMoreParsing DEF ParsedInv
<1>8. ASSUME NEW path \in DOMAIN Disk, NEW there \in Disk[path], ChangeFile(path, there)
      PROVE  ParsingInv' /\ ParsedInv'
  BY <1>7, <1>8 DEF ChangeFile
<1>9. ASSUME NEW text \in {"none", "clean", "syntax"}, FindInput(text)
      PROVE  ParsingInv' /\ ParsedInv'
  BY <1>7, <1>9 DEF FindInput
<1>10. CASE Validate
  BY <1>7, <1>10 DEF Validate
<1>11. CASE CompileNothing \/ CompileStdin \/ CompileFile
  BY <1>7, <1>11 DEF CompileNothing, CompileStdin, CompileFile, End
<1>12. CASE UNCHANGED vars
  <2>1. pc' = pc /\ next' = next /\ UNCHANGED <<options, result>>
    BY <1>12 DEF vars
  <2>2. CASE pc = "command"
    BY <2>1, <2>2 DEF ParsingInv, ParsedInv
  <2>3. CASE pc = "arguments"
    <3>1. PICK n : n = next
      OBVIOUS
    <3>2. PICK p : p = options
      OBVIOUS
    <3>3. n >= Start /\ ~IsValue[n] /\ GoesOnTo(n) /\ CountedTo(p, n) /\ Start \in {1, 2}
      BY <1>0, <2>3, <3>1, <3>2, StartIs DEF ParsingInv
    <3>4. n \in Start .. Len(args) + 1
      BY <1>0, <3>1, <3>3
    <3> QED
      BY <1>0, <2>1, <2>3, <3>1, <3>2, <3>3, <3>4, LoopGoesOn
  <2>4. CASE pc \notin {"command", "arguments"}
    BY <1>7, <2>1, <2>4
  <2> QED
    BY <2>2, <2>3, <2>4
<1> QED
  BY <1>1, <1>2, <1>3, <1>4, <1>5, <1>6, <1>8, <1>9, <1>10, <1>11, <1>12 DEF Next

-----------------------------------------------------------------------------
(* The end.                                                                *)

\* Behind the end nothing happens.
LEMMA EndStays == pc = "end" /\ [Next]_vars => UNCHANGED vars
BY DEF Next, vars, ParseCommand, RequestHelp, RequestVersion, InputFile, RejectOption, Option,
       OptionAndValue, ValueMissing, ValueEmpty, OptionAt, At, EndArguments, ChangeFile,
       FindInput, Validate, CompileNothing, CompileStdin, CompileFile

\* How a step ends the program
LEMMA StepEnds ==
    ASSUME TypeOK, Flow, ParsingInv, [Next]_vars, pc # "end", pc' = "end"
    PROVE  \/ ParseCommand \/ RequestHelp \/ RequestVersion
           \/ \E w \in Words : RejectOption(w) \/ ValueMissing(w) \/ ValueEmpty(w)
           \/ \E w \in Words : /\ Option(w) \/ OptionAndValue(w)
                               /\ ~Accepted(NamedOption(w), Given(w))
                               /\ Reject(~RejectedSilently(NamedOption(w), Given(w)))
           \/ Validate /\ ~valid'
           \/ CompileNothing \/ CompileStdin \/ CompileFile
<1>1. ASSUME NEW w \in Words, InputFile(w)
      PROVE  FALSE
  BY <1>1 DEF InputFile, Behind
<1>2. ASSUME NEW w \in Words, Option(w) \/ OptionAndValue(w)
      PROVE  /\ ~Accepted(NamedOption(w), Given(w))
             /\ Reject(~RejectedSilently(NamedOption(w), Given(w)))
  BY <1>2, OptionFlows DEF Flow
<1>3. ~(EndArguments \/ UNCHANGED vars)
  BY DEF EndArguments, vars
<1>4. ASSUME NEW path \in DOMAIN Disk, NEW there \in Disk[path], ChangeFile(path, there)
      PROVE  FALSE
  BY <1>4 DEF ChangeFile
<1>5. ASSUME NEW text \in {"none", "clean", "syntax"}, FindInput(text)
      PROVE  FALSE
  BY <1>5 DEF FindInput
<1>6. Validate => ~valid'
  BY DEF Validate
<1> QED
  BY <1>1, <1>2, <1>3, <1>4, <1>5, <1>6 DEF Next

LEMMA StepExits ==
    TypeOK /\ Flow /\ ParsingInv /\ ExitsZeroForTheFirstInput /\ TypeOK' /\ [Next]_vars
        => ExitsZeroForTheFirstInput'
<1> SUFFICES ASSUME TypeOK, Flow, ParsingInv, ExitsZeroForTheFirstInput, TypeOK', [Next]_vars,
                    pc' = "end"
             PROVE  ExitsZeroForTheFirstInput'
  BY DEF ExitsZeroForTheFirstInput
<1>1. CASE pc = "end"
  <2>1. UNCHANGED vars
    BY <1>1, EndStays
  <2>2. UNCHANGED <<pc, options, result, disk, stdin, valid, exit>>
    BY <2>1 DEF vars
  <2>3. \A f, text : IsSet(options', f, text) <=> IsSet(options, f, text)
    BY <2>2
  <2> QED
    BY <1>1, <2>2, <2>3 DEF ExitsZeroForTheFirstInput
<1>2. CASE ParseCommand
  <2>1. exit' = "0" /\ result' # "Success" /\ result' # "Error"
    BY <1>2, ParseCommandIs DEF Flow
  <2>2. result' \in {"HelpRequested", "VersionRequested"}
    BY <2>1 DEF TypeOK, Results
  <2> QED
    BY <2>1, <2>2 DEF ExitsZeroForTheFirstInput
<1>3. CASE RequestHelp \/ RequestVersion
  BY <1>3 DEF RequestHelp, RequestVersion, ExitsZeroForTheFirstInput
<1>4. ASSUME NEW log, Reject(log)
      PROVE  ExitsZeroForTheFirstInput'
  BY <1>4 DEF Reject, ExitsZeroForTheFirstInput
<1>5. CASE Validate /\ ~valid'
  BY <1>5 DEF Validate, Flow, FlowInv, ExitsZeroForTheFirstInput
<1>6. ASSUME pc = "compile"
      PROVE  result = "Success" /\ valid
  BY <1>6 DEF Flow, FlowInv, CompileInv
<1>7. CASE CompileNothing
  BY <1>6, <1>7 DEF CompileNothing, End, ExitsZeroForTheFirstInput
<1>8. CASE CompileStdin
  <2>1. /\ pc = "compile" /\ options.files = <<>> /\ stdin \in {"clean", "syntax"}
        /\ End(StatusOf(stdin))
    BY <1>8 DEF CompileStdin, TypeOK
  <2>2. UNCHANGED <<options, result, stdin, valid>>
    BY <2>1 DEF End
  <2>3. exit' = "0" <=> StatusOf(stdin) = "Success"
    BY <2>1, StatusOfIs DEF End
  <2>4. StatusOf(stdin) = "Success" <=>
            stdin = "clean" \/ (stdin = "syntax" /\ IsSet(options, "print-tokens", "true"))
    BY <2>1 DEF StatusOf
  <2>5. IsSet(options', "print-tokens", "true") <=> IsSet(options, "print-tokens", "true")
    BY <2>2
  <2> QED
    BY <1>6, <2>1, <2>2, <2>3, <2>4, <2>5 DEF ExitsZeroForTheFirstInput
<1>9. CASE CompileFile
  <2> DEFINE there == disk[options.files[1]]
  <2>1. /\ pc = "compile" /\ options.files # <<>>
        /\ End(StatusOf(there))
    BY <1>9 DEF CompileFile
  <2>2. UNCHANGED <<options, result, stdin, valid, disk>>
    BY <2>1 DEF End
  <2>3. there \in {"clean", "syntax", "lexical", "missing", "directory"}
    <3>1. options.files[1] \in ToSet(options.files)
      <4>1. options.files \in Seq({w.name : w \in Words})
        BY DEF TypeOK, OptionsOK
      <4> QED
        BY <2>1, <4>1 DEF ToSet
    <3>2. options.files[1] \in DOMAIN Disk
      BY <2>1, <3>1 DEF Flow, CompileInv
    <3> QED
      BY <3>2, WordsAssumption DEF TypeOK
  <2> HIDE DEF there
  <2>4. exit' = "0" <=> StatusOf(there) = "Success"
    BY <2>1, StatusOfIs DEF End
  <2>5. StatusOf(there) = "Success" <=>
            there = "clean" \/ (there = "syntax" /\ IsSet(options, "print-tokens", "true"))
    BY <2>3 DEF StatusOf
  <2>6. IsSet(options', "print-tokens", "true") <=> IsSet(options, "print-tokens", "true")
    BY <2>2
  <2>7. disk'[options'.files[1]] = there
    BY <2>2 DEF there
  <2> QED
    BY <1>6, <2>1, <2>2, <2>4, <2>5, <2>6, <2>7 DEF ExitsZeroForTheFirstInput
<1> QED
  BY <1>1, <1>2, <1>3, <1>4, <1>5, <1>7, <1>8, <1>9, StepEnds, RejectedIsWrong

LEMMA ValueStays ==
    ASSUME UNCHANGED <<args, next>>
    PROVE  ValueOf(next)' = ValueOf(next) /\ args[next]' = args[next]
<1>1. Command' = Command
  BY CommandKept
<1>2. Takes(args[next])' <=> Takes(args[next])
  BY <1>1 DEF Takes, Named, Fits
<1> QED
  BY <1>2 DEF ValueOf

LEMMA StepExplains ==
    TypeOK /\ Flow /\ ParsingInv /\ FailureIsExplained /\ [Next]_vars => FailureIsExplained'
<1> SUFFICES ASSUME TypeOK, Flow, ParsingInv, FailureIsExplained, [Next]_vars,
                    exit' \in {"1", "terminated"}, ~logged'
             PROVE  FailureIsExplained'
  BY DEF FailureIsExplained
<1>1. CASE pc = "end"
  <2>1. UNCHANGED vars
    BY <1>1, EndStays
  <2>2. UNCHANGED <<args, next, options, stdin, result, compiled, exit, logged, disk>>
    BY <2>1 DEF vars
  <2>3. ValueOf(next)' = ValueOf(next) /\ args[next]' = args[next]
    BY <2>2, ValueStays
  <2> QED
    BY <2>2, <2>3 DEF FailureIsExplained
<1>2. ASSUME pc # "end"
      PROVE  pc' = "end"
  <2>1. exit = "none"
    BY <1>2 DEF Flow, FlowInv
  <2>2. Flow'
    BY StepFlows
  <2> QED
    BY <2>1, <2>2 DEF Flow, FlowInv
<1>3. ASSUME NEW w \in Words, RejectOption(w) \/ ValueMissing(w) \/ ValueEmpty(w)
      PROVE  FailureIsExplained'
  <2>1. Reject(FALSE) /\ next < Len(args) /\ ValueOf(next) = <<>>
    BY <1>3, RejectedIsWrong DEF Reject
  <2>2. UNCHANGED <<args, next>> /\ result' = "Error"
    BY <2>1 DEF Reject
  <2> QED
    BY <2>1, <2>2, ValueStays DEF FailureIsExplained
<1>4. ASSUME NEW w \in Words, Option(w) \/ OptionAndValue(w),
             Reject(~RejectedSilently(NamedOption(w), Given(w)))
      PROVE  FailureIsExplained'
  <2>1. RejectedSilently(NamedOption(w), Given(w)) /\ UNCHANGED <<args, next>>
        /\ result' = "Error"
    BY <1>4 DEF Reject
  <2>2. OptionAt(w) /\ (AwaitsValue(w) => next < Len(args) /\ Given(w) # "")
    BY <1>4, OptionCases
  <2>3. next \in DOMAIN args /\ args[next] = w /\ Named(w)
    <3>1. next \in 1 .. Len(args) /\ args[next] = w /\ Named(w)
      BY <2>2, OptionAtIs DEF Flow
    <3>2. DOMAIN args = 1 .. Len(args)
      BY NextIs
    <3> QED
      BY <3>1, <3>2
  <2>4. ValueOf(next) = <<Given(w)>>
    BY <2>2, <2>3, ValueIsGiven
  <2>5. ValueOf(next)[1] = Given(w)
    BY <2>4
  <2>6. ValueOf(next)' = ValueOf(next) /\ args[next]' = args[next]
    BY <2>1, ValueStays
  <2> QED
    BY <2>1, <2>3, <2>5, <2>6 DEF FailureIsExplained
<1>5. CASE CompileNothing
  <2>1. pc = "compile" /\ options.files = <<>> /\ stdin = "none"
        /\ UNCHANGED <<options, stdin>>
    BY <1>5 DEF CompileNothing, End
  <2>2. options.command \notin {"help", "version"} /\ options.command \in Commands
    BY <2>1 DEF Flow, CommandInv, TypeOK, OptionsOK
  <2>3. ~RequiresInputFiles(options)
    BY <2>1 DEF Flow, CompileInv
  <2>4. options.command = "test"
    BY <2>2, <2>3 DEF RequiresInputFiles, Commands
  <2> QED
    BY <2>1, <2>4 DEF FailureIsExplained
<1>6. CASE CompileStdin
  <2>1. compiled' # <<>> /\ End(StatusOf(stdin)) /\ stdin \in {"clean", "syntax"}
    BY <1>6 DEF CompileStdin, TypeOK
  <2>2. StatusOf(stdin) # "exception"
    BY <2>1 DEF StatusOf
  <2>3. exit' # "terminated"
    BY <2>1, <2>2 DEF End
  <2> QED
    BY <2>1, <2>3 DEF FailureIsExplained
<1>9. CASE CompileFile
  <2> DEFINE there == disk[options.files[1]]
  <2>1. compiled' # <<>> /\ options.files # <<>> /\ End(StatusOf(there))
    BY <1>9 DEF CompileFile
  <2>2. UNCHANGED <<options, disk>>
    BY <2>1 DEF End
  <2>3. StatusOf(there) = "exception" => there = "directory"
    BY DEF StatusOf
  <2>4. exit' = "terminated" => StatusOf(there) = "exception"
    BY <2>1 DEF End
  <2> QED
    BY <2>1, <2>2, <2>3, <2>4 DEF FailureIsExplained
<1>7. ~((ParseCommand \/ RequestHelp \/ RequestVersion) /\ pc' = "end")
  BY DEF ParseCommand, RequestHelp, RequestVersion
<1>8. ~(Validate /\ ~valid')
  BY DEF Validate
<1> QED
  BY <1>1, <1>2, <1>3, <1>4, <1>5, <1>6, <1>7, <1>8, <1>9, StepEnds

-----------------------------------------------------------------------------
(* The theorems.                                                           *)

LEMMA InitIInv == Init => IInv
<1> SUFFICES ASSUME Init PROVE IInv
  OBVIOUS
<1>1. /\ pc = "command" /\ next = 1 /\ options = NewOptions("build") /\ result = "Success"
      /\ ~logged /\ stdin = "none" /\ valid /\ compiled = <<>> /\ exit = "none"
  BY DEF Init
<1>2. CommandInv /\ FlowInv /\ CompileInv
  BY <1>1 DEF CommandInv, FlowInv, CompileInv
<1>3. ParsingInv /\ ParsedInv /\ ExitsZeroForTheFirstInput /\ FailureIsExplained
  BY <1>1 DEF ParsingInv, ParsedInv, ExitsZeroForTheFirstInput, FailureIsExplained
<1> QED
  BY <1>2, <1>3, InitTypeOK DEF IInv

LEMMA NextIInv == IInv /\ [Next]_vars => IInv'
<1> SUFFICES ASSUME IInv, [Next]_vars PROVE IInv'
  OBVIOUS
<1>1. TypeOK /\ Flow /\ ParsingInv /\ ParsedInv /\ ExitsZeroForTheFirstInput
      /\ FailureIsExplained
  BY DEF IInv, Flow
<1>2. TypeOK'
  BY <1>1, StepTyped DEF Flow
<1>3. Flow'
  BY <1>1, StepFlows
<1>4. ParsingInv' /\ ParsedInv'
  BY <1>1, StepCounts
<1>5. ExitsZeroForTheFirstInput'
  BY <1>1, <1>2, StepExits
<1>6. FailureIsExplained'
  BY <1>1, StepExplains
<1> QED
  BY <1>2, <1>3, <1>4, <1>5, <1>6 DEF IInv, Flow

LEMMA SpecIInv == Spec => []IInv
BY InitIInv, NextIInv, PTL DEF Spec

\* The state has its type: the loop never looks behind the arguments, options hold
\* settings only, and the two numbers stay in their range.
THEOREM SpecTypeOK == Spec => []TypeOK
<1>1. IInv => TypeOK
  BY DEF IInv
<1> QED
  BY <1>1, SpecIInv, PTL

LEMMA CountedIsOnce == TypeOK /\ ParsedInv => ArgumentsCountOnce
<1> SUFFICES ASSUME TypeOK, ParsedInv, Parsed
             PROVE  /\ result = Outcome
                    /\ result = "Success" =>
                          /\ Len(options.files) = Cardinality(FilesGiven)
                          /\ ToSet(options.files) = {args[k].name : k \in FilesGiven}
                          /\ DOMAIN options.settings = SettingsNamed
                          /\ \A f \in SettingsNamed : SettingIsThatOfTheLast(f)
  BY DEF ArgumentsCountOnce
<1>1. result = Outcome
  BY DEF Parsed, ParsedInv
<1>2. ASSUME result = "Success"
      PROVE  /\ Len(options.files) = Cardinality(FilesGiven)
             /\ ToSet(options.files) = {args[k].name : k \in FilesGiven}
             /\ DOMAIN options.settings = SettingsNamed
             /\ \A f \in SettingsNamed : SettingIsThatOfTheLast(f)
  <2>1. PICK n \in Nat : n = Len(args) + 1
    BY NextIs
  <2>2. CountedTo(options, n)
    BY <1>2, <2>1 DEF Parsed, ParsedInv
  <2>3. \A k \in DOMAIN args : k < n
    BY <2>1, NextIs
  <2>4. FilesBefore(n) = FilesGiven
    BY <2>3 DEF FilesBefore, FilesGiven
  <2>5. \A f : SettersBefore(f, n) = Setters(f)
    BY <2>3 DEF SettersBefore, Setters
  <2>6. NamedBefore(n) = SettingsNamed
    BY <2>3 DEF NamedBefore, SettingsNamed
  <2>7. ASSUME NEW f, SettingAt(options, f, n)
        PROVE  SettingIsThatOfTheLast(f)
    <3>1. LastSetter(f, n) = CHOOSE k \in Setters(f) : \A j \in Setters(f) : j <= k
      BY <2>5 DEF LastSetter
    <3> QED
      BY <2>5, <2>7, <3>1 DEF SettingAt, SettingIsThatOfTheLast
  <2> QED
    BY <2>2, <2>4, <2>6, <2>7 DEF CountedTo
<1> QED
  BY <1>1, <1>2

\* For any number of any arguments, every argument is looked at once, as the
\* command, an option, the value of one or a file; the first that asks for help or
\* the version or is wrong decides how the parsing ends, and the last of the options
\* that set the same thing what it is.
THEOREM SpecArgumentsCountOnce == Spec => []ArgumentsCountOnce
<1>1. IInv => ArgumentsCountOnce
  BY CountedIsOnce DEF IInv
<1> QED
  BY <1>1, SpecIInv, PTL

\* The program exits with 0 for a request for help or the version, and otherwise
\* exactly if the first file, or the standard input if there is none, was compiled
\* without an error, whatever becomes of the files after they were validated.
THEOREM SpecExitsZeroForTheFirstInput == Spec => []ExitsZeroForTheFirstInput
<1>1. IInv => ExitsZeroForTheFirstInput
  BY DEF IInv
<1> QED
  BY <1>1, SpecIInv, PTL

\* A failure has been logged by the program or by the compiler, but for a value that
\* is empty, a size of zero and a test without input, and but for a directory in the
\* place of the file that had been validated, over which the program is terminated.
THEOREM SpecFailureIsExplained == Spec => []FailureIsExplained
<1>1. IInv => FailureIsExplained
  BY DEF IInv
<1> QED
  BY <1>1, SpecIInv, PTL

-----------------------------------------------------------------------------
(* Merging.                                                                *)

\* Options whose lists are lists
ListsOK(o) == \A f \in Lists : Setting(o, f) \in Seq(Texts)

Kept(f, base, over) == IF over = Default(f) THEN base ELSE over
Joined(base, over) == base \o over

LEMMA JoinedIs ==
    /\ \A x, y \in Seq(Texts) : Joined(x, y) \in Seq(Texts)
    /\ \A x, y, z \in Seq(Texts) : Joined(Joined(x, y), z) = Joined(x, Joined(y, z))
    /\ \A x \in Seq(Texts) : Joined(<<>>, x) = x /\ Joined(x, <<>>) = x
<1>1. ASSUME NEW x \in Seq(Texts), NEW y \in Seq(Texts)
      PROVE  Joined(x, y) \in Seq(Texts)
  BY DEF Joined
<1>2. ASSUME NEW x \in Seq(Texts), NEW y \in Seq(Texts), NEW z \in Seq(Texts)
      PROVE  Joined(Joined(x, y), z) = Joined(x, Joined(y, z))
  BY ConcatAssociative DEF Joined
<1>3. ASSUME NEW x \in Seq(Texts)
      PROVE  Joined(<<>>, x) = x /\ Joined(x, <<>>) = x
  BY ConcatEmptySeq DEF Joined
<1> QED
  BY <1>1, <1>2, <1>3

LEMMA TypedHasLists == ASSUME NEW o, OptionsOK(o) PROVE ListsOK(o)
<1>1. <<>> \in Seq(Texts)
  OBVIOUS
<1> QED
  BY <1>1, ListsAreSettings DEF OptionsOK, ListsOK, Setting

LEMMA DefaultsHaveLists ==
    \A c \in Commands \ {"help", "version"} : ListsOK(CreateDefaultOptions(c))
<1> SUFFICES ASSUME NEW c \in Commands \ {"help", "version"}, NEW f \in Lists
             PROVE  Setting(CreateDefaultOptions(c), f) \in Seq(Texts)
  BY DEF ListsOK
<1> DEFINE o == CreateDefaultOptions(c)
<1>1. o.settings = CASE c = "dev" -> [g \in {"verbose", "show-timing", "with-location",
                                             "emit-debug-info"} |-> <<"true">>]
                     [] c = "build" -> [optimization |-> <<"basic">>]
                     [] c = "test" -> [g \in {"suppress-warnings"} |-> <<"true">>]
                     [] c = "check" -> [g \in {"stop-after"} |-> <<"semantic">>]
                     [] OTHER -> <<>>
  BY DEF CreateDefaultOptions, NewOptions
<1> HIDE DEF o
<1>2. f \notin DOMAIN o.settings
  <2>1. f \notin {"verbose", "show-timing", "with-location", "emit-debug-info",
                  "optimization", "suppress-warnings", "stop-after"}
    BY DEF Lists
  <2>2. CASE c = "dev"
    BY <1>1, <2>1, <2>2
  <2>3. CASE c = "build"
    BY <1>1, <2>1, <2>3
  <2>4. CASE c = "test"
    BY <1>1, <2>1, <2>4
  <2>5. CASE c = "check"
    BY <1>1, <2>1, <2>5
  <2>6. CASE c \in {"run"}
    BY <1>1, <2>6
  <2> QED
    BY <2>2, <2>3, <2>4, <2>5, <2>6 DEF Commands
<1>3. Setting(o, f) = <<>>
  BY <1>2, ListsAreSettings DEF Setting
<1>4. <<>> \in Seq(Texts)
  OBVIOUS
<1> QED
  BY <1>3, <1>4 DEF o

\* What a setting is after a merge, whether it was set in either or not
LEMMA SettingOfMerged ==
    ASSUME NEW a, NEW b, NEW f
    PROVE  /\ f \in Specific => Setting(Merged(a, b), f) = Setting(MergedCommand(a, b), f)
           /\ f \in Lists /\ f \notin Specific =>
                 Setting(Merged(a, b), f) = Joined(Setting(a, f), Setting(b, f))
           /\ f \notin Lists /\ f \notin Specific =>
                 Setting(Merged(a, b), f) = Kept(f, Setting(a, f), Setting(b, f))
<1> DEFINE from == MergedCommand(a, b)
           value(g) == CASE g \in Specific -> Setting(from, g)
                         [] g \in Lists \ Specific -> Joined(Setting(a, g), Setting(b, g))
                         [] OTHER -> Setting(IF Setting(b, g) = Default(g) THEN a ELSE b, g)
<1>1. Merged(a, b).settings = [g \in DOMAIN a.settings \cup DOMAIN b.settings |-> value(g)]
  BY DEF Merged, Joined
<1>2. CASE f \in DOMAIN a.settings \cup DOMAIN b.settings
  <2>1. Setting(Merged(a, b), f) = value(f)
    BY <1>1, <1>2 DEF Setting
  <2>2. value(f) = CASE f \in Specific -> Setting(from, f)
                     [] f \in Lists \ Specific -> Joined(Setting(a, f), Setting(b, f))
                     [] OTHER -> Setting(IF Setting(b, f) = Default(f) THEN a ELSE b, f)
    OBVIOUS
  <2> HIDE DEF value
  <2> QED
    BY <2>1, <2>2 DEF Kept
<1>3. CASE f \notin DOMAIN a.settings \cup DOMAIN b.settings
  <2>1. /\ Setting(Merged(a, b), f) = Default(f)
        /\ Setting(a, f) = Default(f) /\ Setting(b, f) = Default(f)
    BY <1>1, <1>3 DEF Setting
  <2>2. Setting(from, f) = Default(f)
    BY <2>1 DEF MergedCommand
  <2>3. f \in Lists => Joined(Setting(a, f), Setting(b, f)) = <<>>
    <3>1. Joined(<<>>, <<>>) = <<>>
      BY DEF Joined
    <3> QED
      BY <2>1, <3>1, ListsAreSettings
  <2> QED
    BY <2>1, <2>2, <2>3, ListsAreSettings DEF Kept
<1> QED
  BY <1>2, <1>3

LEMMA MergedRest ==
    ASSUME NEW a, NEW b
    PROVE  /\ DOMAIN Merged(a, b) = {"command", "files", "settings", "arenaSize", "maxErrors"}
           /\ Merged(a, b).command = MergedCommand(a, b).command
           /\ Merged(a, b).files = IF b.files = <<>> THEN a.files ELSE b.files
           /\ Merged(a, b).arenaSize = IF b.arenaSize = ArenaSize THEN a.arenaSize
                                                                  ELSE b.arenaSize
           /\ Merged(a, b).maxErrors = IF b.maxErrors = DefaultMaxErrors THEN a.maxErrors
                                                                         ELSE b.maxErrors
BY DEF Merged

LEMMA MergedHasLists ==
    ASSUME NEW a, NEW b, ListsOK(a), ListsOK(b)
    PROVE  ListsOK(Merged(a, b))
<1> SUFFICES ASSUME NEW f \in Lists PROVE Setting(Merged(a, b), f) \in Seq(Texts)
  BY DEF ListsOK
<1>1. Setting(a, f) \in Seq(Texts) /\ Setting(b, f) \in Seq(Texts)
  BY DEF ListsOK
<1>2. Setting(MergedCommand(a, b), f) \in Seq(Texts)
  BY <1>1 DEF MergedCommand
<1>3. Joined(Setting(a, f), Setting(b, f)) \in Seq(Texts)
  BY <1>1, JoinedIs
<1> QED
  BY <1>2, <1>3, SettingOfMerged

\* The command of three that wins
Winner(a, b, c) ==
    IF c.command # "build" THEN c
    ELSE IF b.command # "build" THEN b
    ELSE IF a.command # "build" THEN a ELSE c

LEMMA WinnerIs ==
    ASSUME NEW a, NEW b, NEW c
    PROVE  /\ MergedCommand(Merged(a, b), c).command = Winner(a, b, c).command
           /\ MergedCommand(a, Merged(b, c)).command = Winner(a, b, c).command
           /\ \A f \in Specific :
                 /\ Setting(MergedCommand(Merged(a, b), c), f) = Setting(Winner(a, b, c), f)
                 /\ Setting(MergedCommand(a, Merged(b, c)), f) = Setting(Winner(a, b, c), f)
<1>1. Merged(a, b).command = MergedCommand(a, b).command
      /\ Merged(b, c).command = MergedCommand(b, c).command
  BY MergedRest
<1>2. \A f \in Specific : /\ Setting(Merged(a, b), f) = Setting(MergedCommand(a, b), f)
                          /\ Setting(Merged(b, c), f) = Setting(MergedCommand(b, c), f)
  BY SettingOfMerged
<1> QED
  BY <1>1, <1>2 DEF MergedCommand, Winner

\* Merging is associative, whatever the options.
THEOREM MergingIsAssociative ==
    ASSUME NEW a, NEW b, NEW c, ListsOK(a), ListsOK(b), ListsOK(c)
    PROVE  Same(Merged(Merged(a, b), c), Merged(a, Merged(b, c)))
<1> DEFINE m == Merged(Merged(a, b), c)
           n == Merged(a, Merged(b, c))
<1>1. ASSUME NEW f
      PROVE  Setting(m, f) = Setting(n, f)
  <2>1. CASE f \in Specific
    <3>1. Setting(m, f) = Setting(MergedCommand(Merged(a, b), c), f)
      BY <2>1, SettingOfMerged
    <3>2. Setting(n, f) = Setting(MergedCommand(a, Merged(b, c)), f)
      BY <2>1, SettingOfMerged
    <3> QED
      BY <2>1, <3>1, <3>2, WinnerIs
  <2>2. CASE f \in Lists /\ f \notin Specific
    <3>1. PICK x \in Seq(Texts), y \in Seq(Texts), z \in Seq(Texts) :
              x = Setting(a, f) /\ y = Setting(b, f) /\ z = Setting(c, f)
      BY <2>2 DEF ListsOK
    <3>2. Setting(Merged(a, b), f) = Joined(x, y) /\ Setting(Merged(b, c), f) = Joined(y, z)
      BY <2>2, <3>1, SettingOfMerged
    <3>3. Setting(m, f) = Joined(Joined(x, y), z)
      BY <2>2, <3>1, <3>2, SettingOfMerged
    <3>4. Setting(n, f) = Joined(x, Joined(y, z))
      BY <2>2, <3>1, <3>2, SettingOfMerged
    <3> QED
      BY <3>3, <3>4, JoinedIs
  <2>3. CASE f \notin Lists /\ f \notin Specific
    <3>1. /\ Setting(Merged(a, b), f) = Kept(f, Setting(a, f), Setting(b, f))
          /\ Setting(Merged(b, c), f) = Kept(f, Setting(b, f), Setting(c, f))
      BY <2>3, SettingOfMerged
    <3>2. Setting(m, f) = Kept(f, Setting(Merged(a, b), f), Setting(c, f))
      BY <2>3, SettingOfMerged
    <3>3. Setting(n, f) = Kept(f, Setting(a, f), Setting(Merged(b, c), f))
      BY <2>3, SettingOfMerged
    <3> QED
      BY <3>1, <3>2, <3>3 DEF Kept
  <2> QED
    BY <2>1, <2>2, <2>3
<1>2. m.command = n.command
  BY MergedRest, WinnerIs
<1>3. m.files = n.files
  BY MergedRest
<1>4. m.arenaSize = n.arenaSize
  BY MergedRest
<1>5. m.maxErrors = n.maxErrors
  BY MergedRest
<1>6. DOMAIN m = {"command", "files", "settings", "arenaSize", "maxErrors"}
  BY MergedRest
<1> HIDE DEF m, n
<1>7. Same(m, n)
  BY <1>1, <1>2, <1>3, <1>4, <1>5, <1>6 DEF Same
<1> QED
  BY <1>7 DEF m, n

LEMMA NewIs ==
    LET new == NewOptions("build")
    IN  /\ new.command = "build" /\ new.files = <<>>
        /\ new.arenaSize = ArenaSize /\ new.maxErrors = DefaultMaxErrors
        /\ \A f : Setting(new, f) = Default(f)
BY DEF NewOptions, Setting

\* Options that nobody has touched leave those they are merged with as they are;
\* but for the options of a build as the override.
THEOREM NewIsNeutral ==
    ASSUME NEW o, ListsOK(o)
    PROVE  /\ Same(Merged(NewOptions("build"), o), o)
           /\ o.command # "build" => Same(Merged(o, NewOptions("build")), o)
           /\ o.command = "build" =>
                 \A f : Setting(Merged(o, NewOptions("build")), f)
                           = IF f \in Specific THEN Default(f) ELSE Setting(o, f)
<1> DEFINE new == NewOptions("build")
           m == Merged(new, o)
           n == Merged(o, new)
<1>0. /\ new.command = "build" /\ new.files = <<>>
      /\ new.arenaSize = ArenaSize /\ new.maxErrors = DefaultMaxErrors
      /\ \A f : Setting(new, f) = Default(f)
  BY NewIs
<1> HIDE DEF new
<1>1. \A f \in Lists : /\ Joined(Setting(new, f), Setting(o, f)) = Setting(o, f)
                       /\ Joined(Setting(o, f), Setting(new, f)) = Setting(o, f)
  <2> SUFFICES ASSUME NEW f \in Lists
               PROVE  /\ Joined(Setting(new, f), Setting(o, f)) = Setting(o, f)
                      /\ Joined(Setting(o, f), Setting(new, f)) = Setting(o, f)
    OBVIOUS
  <2>1. PICK x \in Seq(Texts) : x = Setting(o, f)
    BY DEF ListsOK
  <2>2. Setting(new, f) = <<>>
    BY <1>0, ListsAreSettings
  <2> QED
    BY <2>1, <2>2, JoinedIs
<1>2. MergedCommand(new, o) = o
  BY <1>0 DEF MergedCommand
<1>3. MergedCommand(o, new) = IF o.command = "build" THEN new ELSE o
  BY <1>0 DEF MergedCommand
<1>4. \A f : Setting(m, f) = Setting(o, f)
  BY <1>0, <1>1, <1>2, SettingOfMerged DEF Kept
<1>5. \A f : Setting(n, f) = IF f \in Specific /\ o.command = "build" THEN Default(f)
                             ELSE Setting(o, f)
  BY <1>0, <1>1, <1>3, SettingOfMerged DEF Kept
<1>6. \A p \in {m, n} :
          /\ DOMAIN p = {"command", "files", "settings", "arenaSize", "maxErrors"}
          /\ p.files = o.files /\ p.arenaSize = o.arenaSize /\ p.maxErrors = o.maxErrors
          /\ p.command = o.command
  BY <1>0, <1>2, <1>3, MergedRest
<1> HIDE DEF m, n
<1>7. Same(m, o)
  BY <1>4, <1>6 DEF Same
<1>8. o.command # "build" => Same(n, o)
  BY <1>5, <1>6 DEF Same
<1> QED
  BY <1>5, <1>7, <1>8 DEF m, n, new

LEMMA TypedMerges == TypeOK => MergeLaws
<1> SUFFICES ASSUME TypeOK PROVE MergeLaws
  OBVIOUS
<1>1. ListsOK(options)
  BY TypedHasLists DEF TypeOK
<1>2. ASSUME NEW c \in Commands \ {"help", "version"}, NEW d \in Commands \ {"help", "version"}
      PROVE  LET o == CreateDefaultOptions(c)
                 p == CreateDefaultOptions(d)
             IN  /\ Same(Merged(Merged(o, options), p), Merged(o, Merged(options, p)))
                 /\ Same(Merged(Merged(o, p), options), Merged(o, Merged(p, options)))
  BY <1>1, DefaultsHaveLists, MergingIsAssociative
<1>3. Same(Merged(NewOptions("build"), options), options)
  BY <1>1, NewIsNeutral
<1>4. LET m == Merged(options, NewOptions("build"))
      IN  IF options.command # "build" THEN Same(m, options)
          ELSE \A f \in DOMAIN m.settings :
                  Setting(m, f) = IF f \in Specific THEN Default(f) ELSE Setting(options, f)
  BY <1>1, NewIsNeutral
<1>5. LET m == Merged(CreateDefaultOptions(options.command), options)
      IN  \A f \in DOMAIN options.settings \ Lists :
             Setting(options, f) # Default(f) => Setting(m, f) = Setting(options, f)
  <2> DEFINE base == CreateDefaultOptions(options.command)
  <2>1. base.command = options.command
    BY DEF CreateDefaultOptions, NewOptions
  <2>2. MergedCommand(base, options) = options
    BY <2>1 DEF MergedCommand
  <2> HIDE DEF base
  <2>3. ASSUME NEW f \in DOMAIN options.settings \ Lists, Setting(options, f) # Default(f)
        PROVE  Setting(Merged(base, options), f) = Setting(options, f)
    BY <2>2, <2>3, SettingOfMerged DEF Kept
  <2> QED
    BY <2>3 DEF base
<1> QED
  BY <1>2, <1>3, <1>4, <1>5 DEF MergeLaws

\* The laws of merging hold for the options of every command line.
THEOREM SpecMergeLaws == Spec => []MergeLaws
<1>1. IInv => MergeLaws
  BY TypedMerges DEF IInv
<1> QED
  BY <1>1, SpecIInv, PTL

=============================================================================
