----------------------------- MODULE MCProgram -----------------------------
(***************************************************************************)
(* Program with up to three arguments out of options that parse in         *)
(* different ways.  Sizes are of eight bits, and a k of four.              *)
(***************************************************************************)
EXTENDS Program

Long(name) == Word("long", name, <<>>)
LongIs(name, value) == Word("long", name, <<value>>)

MCWords ==
    {Word("plain", t, <<>>) : t \in {"a", "b", "", "0", "70k", "Dev", "test", "check", "help"}}
    \cup {Word("short", "o", <<>>), Word("short", "o", <<"b">>), Word("short", "v", <<"v">>),
          Word("short", "5", <<>>),
          Word("short", "h", <<>>), Word("short", "V", <<>>)}
    \cup {Long("help"), LongIs("help", "true"), Long("arena-size"),
          LongIs("max-errors", "200"), Long("max-errors"), LongIs("show-colors", "false"), Long("no-colors"),
          Long("print-tokens"), Long("shared"), LongIs("stop-after", "semantic"),
          LongIs("stop-after", "codegen"), Long("include")}

Reads(sign, number, unit) == [sign |-> sign, number |-> number, unit |-> unit]

MCNumbers == "0" :> Reads("none", 0, "") @@ "70k" :> Reads("none", 70, "k")
             @@ "200" :> Reads("none", 200, "") @@ "-5" :> Reads("minus", 5, "")

MCCapitals == "Dev" :> "dev"

MCUnits == "" :> 1 @@ "k" :> 4

MCDisk == "a" :> {"clean", "syntax", "lexical", "missing", "directory"}
          @@ "b" :> {"clean", "directory"}
=============================================================================
