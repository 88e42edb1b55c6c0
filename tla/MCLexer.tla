------------------------------ MODULE MCLexer ------------------------------
(***************************************************************************)
(* Callers for TLC: each has the lexer read all texts of one length over   *)
(* the characters that one part of the lexer tells apart.  Shorter texts   *)
(* are what is left of them.                                               *)
(***************************************************************************)
EXTENDS Lexer

TextsOf(chars, n) == [1 .. n -> chars]

Caller(texts, i, t) ==
    [texts |-> texts, includes |-> i, templates |-> t]

Strings    == TextsOf({Quote, Backslash, LeftBrace, RightBrace, "u"}, 6)
Included   == TextsOf({Quote, LeftBrace, RightBrace, "sp"}, 4)
Comments   == TextsOf({"/", "*", "nl", Quote, LeftBrace}, 5)
Numbers    == TextsOf({"0", "1", "x", "e", Underscore, "."}, 5)
SuffixTexts == TextsOf({"1", "8", "b", "o", "f", "u", "l", "-"}, 4)
Unicodes   == {<<Apostrophe, Backslash>> \o s :
                  s \in TextsOf({Apostrophe, "u", LeftBrace, RightBrace, "1"}, 5)}
Characters == {<<Apostrophe>> \o s :
                  s \in TextsOf({Apostrophe, Backslash, "x", "U", "lead", "cont", "a"}, 4)}
Words      == TextsOf({"r", Quote, "cont", "$", "nl", "i"}, 4)
SymbolTexts == TextsOf({">", "=", "<", ".", "#", "&"}, 4)

MCCallers == {Caller(Strings, 0, 0), Caller(Included, 2, 0), Caller(Comments, 0, 0),
              Caller(Numbers, 0, 0), Caller(SuffixTexts, 0, 0), Caller(Unicodes, 0, 0),
              Caller(Characters, 0, 0), Caller(Words, 0, 0), Caller(SymbolTexts, 0, 1)}

\* texts that end and begin what the text around them has open
MCFiles == [f \in {"closing", "opening"} |->
              IF f = "closing" THEN <<RightBrace, Quote>> ELSE <<Quote, LeftBrace>>]
=============================================================================
