------------------------------ MODULE Lexemes ------------------------------
(***************************************************************************)
(* The scanning functions of the lexer (src/src/frontend/lexer.cpp): where *)
(* in a text a token ends, what it is, and which errors are reported.      *)
(*                                                                         *)
(* A text is a sequence of characters and a position counts from 1.  A     *)
(* character stands for all those that the lexer treats alike: "z" for any *)
(* letter without a role, a letter for its upper case too (but u in an     *)
(* escape and o behind 0), "sp" for blank, tab and carriage return, "lead" *)
(* for the first byte of a character of two bytes, "cont" for the second.  *)
(* The digits 2 to 7 and the letter c, which nothing tells from others,    *)
(* are left out.                                                           *)
(***************************************************************************)
EXTENDS Integers, Sequences, SequencesExt, FiniteSetsExt

CONSTANTS IntegerMax,   \* 2^128 - 1 in the code
          CodeMax,      \* 10FFFF in the code, hexadecimal
          ShortEscape,  \* 4 in the code: the digits of \uNNNN
          LongEscape    \* 8 in the code: the digits of \UNNNNNNNN

ASSUME WidthsAssumption ==
    {IntegerMax, CodeMax, ShortEscape, LongEscape} \subseteq Nat \ {0}

End == "end"  \* what currentChar and peekChar return behind the text
Quote == "quote"
Backslash == "backslash"
Apostrophe == "apostrophe"
Underscore == "underscore"
LeftBrace == "leftbrace"
RightBrace == "rightbrace"

White == {"sp", "nl"}
DigitValue == [c \in {"0", "1", "8", "9", "a", "b", "d", "e", "f"} |->
    CASE c = "0" -> 0 [] c = "1" -> 1 [] c = "8" -> 8 [] c = "9" -> 9 [] c = "a" -> 10
      [] c = "b" -> 11 [] c = "d" -> 13 [] c = "e" -> 14 [] c = "f" -> 15]
Digits(base) == {c \in DOMAIN DigitValue : DigitValue[c] < base}
Letters == {"a", "b", "d", "e", "f", "i", "l", "n", "o", "p", "r", "t", "u", "U", "x", "z"}
WordStart == Letters \cup {Underscore}

\* the characters of symbols that are not braces
SymbolStart == {"+", "-", "*", "/", "%", "=", "!", "<", ">", "&", "|", "^", "~", ";", ",",
                ":", "?", "@", "backtick", "#", ".", "(", ")", "[", "]"}
Others == {"$", "lead", "cont"}
Chars == White \cup Digits(16) \cup WordStart \cup SymbolStart
           \cup {Quote, Backslash, Apostrophe, LeftBrace, RightBrace} \cup Others

At(s, i) == IF i \in DOMAIN s THEN s[i] ELSE End

\* the first position from i on that has no character of C, or one of C
Past(s, i, C) == Min({j \in i .. Len(s) + 1 : At(s, j) \notin C})
Upto(s, i, C) == Min({j \in i .. Len(s) + 1 : At(s, j) \in C \cup {End}})

\* kind, the position behind the token, and the errors reported for it, named
\* for what is wrong
Lexeme(kind, to, errs) == [kind |-> kind, to |-> to, errors |-> errs, value |-> 0]
When(condition, err) == IF condition THEN {err} ELSE {}

-----------------------------------------------------------------------------
(* Blanks and comments.                                                    *)

\* skipBlockComment: comments nest
CommentEnd(s, i) ==
    LET end[p \in [to : i .. Len(s) + 1, depth : Nat]] ==
            LET next == <<At(s, p.to), At(s, p.to + 1)>>
            IN  CASE p.depth = 0 \/ p.to > Len(s) -> p
                  [] p.depth > 0 /\ next = <<"/", "*">> ->
                       end[[to |-> p.to + 2, depth |-> p.depth + 1]]
                  [] p.depth > 0 /\ next = <<"*", "/">> ->
                       end[[to |-> p.to + 2, depth |-> p.depth - 1]]
                  [] OTHER -> end[[to |-> p.to + 1, depth |-> p.depth]]
    IN  end[[to |-> i, depth |-> 1]]

\* What nextToken skips in a buffer: where it stops and whether in a comment
\* that does not end
Trivia(s) ==
    LET skip[i \in 1 .. Len(s) + 1] ==
            CASE At(s, i) \in White -> skip[i + 1]
              [] At(s, i) = "/" /\ At(s, i + 1) = "/" -> skip[Upto(s, i + 2, {"nl"})]
              [] At(s, i) = "/" /\ At(s, i + 1) = "*" ->
                   LET end == CommentEnd(s, i + 2)
                   IN  IF end.depth > 0 THEN [to |-> end.to, open |-> TRUE] ELSE skip[end.to]
              [] OTHER -> [to |-> i, open |-> FALSE]
    IN  skip[1]

-----------------------------------------------------------------------------
(* Words and symbols.                                                      *)

\* lexIdentifierOrKeyword; which words are keywords is left out
Word(s) == Lexeme("Word", Past(s, 1, WordStart \cup Digits(10)), {})

\* the symbols of lexNextToken
Symbols ==
    {<<c>> : c \in SymbolStart}
        \cup {<<c, "=">> : c \in {"+", "-", "*", "/", "%", "=", "!", "<", ">", "&", "|", "^"}}
        \cup {<<c, c>> : c \in {"+", "-", "<", ">", "&", "|", ":", ".", "#"}}
        \cup {<<"-", ">">>, <<"=", ">">>, <<"!", ":">>, <<"<", "<", "=">>, <<">", ">", "=">>,
              <<"&", ".">>, <<"#", ".">>, <<".", ".", "<">>, <<".", ".", ".">>}

\* The longest symbol; in a template context >> is not one
Symbol(s, inTemplate) ==
    LET found == {sym \in Symbols : IsPrefix(sym, s)
                                      /\ (inTemplate => ~IsPrefix(<<">", ">">>, sym))}
    IN  Lexeme("Symbol", Max({Len(sym) : sym \in found}) + 1, {})

-----------------------------------------------------------------------------
(* Numbers.                                                                *)

Base(s) ==
    CASE s[1] = "0" /\ At(s, 2) = "x" -> 16
      [] s[1] = "0" /\ At(s, 2) = "b" -> 2
      [] s[1] = "0" /\ At(s, 2) \in {"o"} \cup Digits(10) -> 8
      [] OTHER -> 10

\* where the digits begin
AfterPrefix(s) == IF s[1] = "0" /\ At(s, 2) \in {"x", "b", "o"} THEN 3 ELSE 1

\* Mutant: the multiplication is checked, the addition is not.
AppendDigitUnchecked(base, r, d) ==
    IF r.value > IntegerMax \div base
    THEN [value |-> IntegerMax, overflow |-> TRUE]
    ELSE [r EXCEPT !.value = (@ * base + d) % (IntegerMax + 1)]

\* One more digit; from an overflow on the value is the largest there is
AppendDigit(base, r, d) ==
    IF r.value > IntegerMax \div base \/ r.value * base > IntegerMax - d
    THEN [value |-> IntegerMax, overflow |-> TRUE]
    ELSE [r EXCEPT !.value = @ * base + d]

\* The number that the digits say, read one by one
ReadDigits(s, from, to, base) ==
    LET read[i \in from - 1 .. to - 1] ==
            IF i < from THEN [value |-> 0, overflow |-> FALSE]
            ELSE IF s[i] = Underscore THEN read[i - 1]
            ELSE AppendDigit(base, read[i - 1], DigitValue[s[i]])
    IN  read[to - 1]

DigitsOf(s, from, to) == SelectSeq(SubSeq(s, from, to - 1), LAMBDA c : c # Underscore)

\* the u of a suffix is a capital one or not, whatever the rest of it is
IntegerSuffixes ==
    {<<"i", "8">>, <<"u", "8">>, <<"l">>, <<"l", "l">>}
    \cup UNION {{<<u>>, <<u, "l">>, <<"l", u>>, <<u, "l", "l">>, <<"l", "l", u>>} : u \in {"u", "U"}}
FloatSuffixes == {<<"f">>, <<"d">>}

\* parseTypeSuffix and a token with the suffix at i; "i8" and "u8" stand for
\* the widths.  An unknown suffix is reported, the token is made all the same.
Suffixed(s, i, kind, suffixes, errs, value) ==
    LET to == Past(s, i, Letters \cup Digits(10))
    IN  [kind |-> kind, to |-> to, value |-> value,
         errors |-> errs \cup When(to > i /\ SubSeq(s, i, to - 1) \notin suffixes, "number")]

Exponent(base) == IF base = 16 THEN "p" ELSE "e"

\* What makes lexNumber go on as lexFloat; two points are a range
IsFloatAt(s, i, base) ==
    \/ At(s, i) = "." /\ At(s, i + 1) # "."
    \/ base \in {10, 16} /\ At(s, i) = Exponent(base)
    \/ base = 10 /\ At(s, i) \in {"f", "d"}

\* lexFloat, called at i; its value is left out
Float(s, base, i, hasIntegerPart, errs) ==
    LET hasDecimalPart == At(s, i) = "."
        point == IF hasDecimalPart THEN Past(s, i + 1, Digits(base) \cup {Underscore}) ELSE i
        hasExponent == At(s, point) = Exponent(base)
        signed == IF At(s, point + 1) \in {"+", "-"} THEN point + 2 ELSE point + 1
        to == IF hasExponent THEN Past(s, signed, Digits(10) \cup {Underscore}) ELSE point
    IN  IF \/ hasExponent /\ DigitsOf(s, signed, to) = <<>>
           \/ ~hasIntegerPart /\ ~hasDecimalPart
        THEN Lexeme("Error", to, errs \cup {"number"})
        ELSE Suffixed(s, to, "Float", FloatSuffixes, errs, 0)

Number(s) ==
    LET base == Base(s)
        stop == Past(s, AfterPrefix(s), Digits(base) \cup {Underscore})
        digits == DigitsOf(s, AfterPrefix(s), stop)
        int == ReadDigits(s, AfterPrefix(s), stop, base)
        errs == When(int.overflow, "overflow")
    IN  CASE IsFloatAt(s, stop, base) -> Float(s, base, stop, digits # <<>>, errs)
          [] ~IsFloatAt(s, stop, base) /\ digits = <<>> -> Lexeme("Error", stop, {"number"})
          [] OTHER -> Suffixed(s, stop, "Integer", IntegerSuffixes, errs, int.value)

-----------------------------------------------------------------------------
(* Strings.                                                                *)

\* The first position from i on with a character of C that no backslash
\* escapes, as the loops of lexRegularString and scanInterpolatedStringContent
\* find it
Unescaped(s, i, C) ==
    LET scan[j \in i .. Len(s) + 2] ==
            CASE j > Len(s) -> Len(s) + 1
              [] j <= Len(s) /\ At(s, j) \in C -> j
              [] j <= Len(s) /\ At(s, j) = Backslash -> scan[j + 2]
              [] OTHER -> scan[j + 1]
    IN  scan[i]

\* Mutant: an escaped brace interpolates.
HasInterpolationEscaped(s, i) == At(s, Upto(s, i, {Quote, LeftBrace})) = LeftBrace

\* hasInterpolation steps over an escape, and over \u{...} with its braces,
\* wherever the closing one is
HasInterpolation(s, i) ==
    LET look[j \in i .. Len(s) + 2] ==
            CASE j > Len(s) -> Len(s) + 1
              [] j <= Len(s) /\ At(s, j) \in {Quote, LeftBrace} -> j
              [] At(s, j) = Backslash /\ At(s, j + 1) = "u" /\ At(s, j + 2) = LeftBrace ->
                   look[Upto(s, j + 3, {RightBrace}) + 1]
              [] At(s, j) = Backslash /\ ~(At(s, j + 1) = "u" /\ At(s, j + 2) = LeftBrace) ->
                   look[j + 2]
              [] OTHER -> look[j + 1]
    IN  At(s, look[i]) = LeftBrace

\* lexRegularString, behind the quote
RegularString(s) ==
    LET end == Unescaped(s, 2, {Quote})
    IN  IF At(s, end) = End THEN Lexeme("Error", end, {"string"})
                            ELSE Lexeme("String", end + 1, {})

\* lexRawString; each byte that begins no character is reported
RawString(s) ==
    LET end == Upto(s, 3, {Quote})
        errs == When("cont" \in Range(SubSeq(s, 3, end - 1)), "utf8")
    IN  IF At(s, end) = End THEN Lexeme("Error", end, errs \cup {"string"})
                            ELSE Lexeme("String", end + 1, errs)

-----------------------------------------------------------------------------
(* Characters.                                                             *)

NumberOf(digits) == FoldLeft(LAMBDA v, c : v * 16 + DigitValue[c], 0, digits)

\* parseUnicodeEscape at i, of as many digits as there are up to most: where
\* it stops and whether it reports an error
UnicodeEscape(s, i, least, most) ==
    LET count == Min({most, Past(s, i, Digits(16)) - i})
        tooLarge == {k \in 1 .. count : NumberOf(SubSeq(s, i, i + k - 1)) > CodeMax}
    IN  IF tooLarge # {} THEN [to |-> i + Min(tooLarge), err |-> TRUE]
                         ELSE [to |-> i + count, err |-> count < least]

\* parseEscapeSequenceForChar, behind the backslash at i - 1
Escape(s, i) ==
    LET braced == UnicodeEscape(s, i + 2, 1, Len(s))
        closed == At(s, braced.to) = RightBrace
        hex == Min({2, Past(s, i + 1, Digits(16)) - (i + 1)})
    IN  CASE At(s, i) = "x" -> [to |-> i + 1 + hex, err |-> hex = 0]
          [] At(s, i) = "u" /\ At(s, i + 1) = LeftBrace ->
               [to |-> IF closed THEN braced.to + 1 ELSE braced.to,
                err |-> braced.err \/ ~closed]
          [] At(s, i) = "u" /\ At(s, i + 1) # LeftBrace ->
               UnicodeEscape(s, i + 1, ShortEscape, ShortEscape)
          [] At(s, i) = "U" -> UnicodeEscape(s, i + 1, LongEscape, LongEscape)
          [] OTHER -> [to |-> i + 1,
                       err |-> At(s, i) \notin {"n", "r", "t", Backslash, Apostrophe, Quote, "0"}]

\* parseUTF8Codepoint at i
UTF8(s, i) ==
    CASE At(s, i) = "lead" /\ At(s, i + 1) = "cont" -> [to |-> i + 2, err |-> FALSE]
      [] At(s, i) \notin {"lead", "cont"} -> [to |-> i + 1, err |-> FALSE]
      [] OTHER -> [to |-> i + 1, err |-> TRUE]

\* lexCharacter
Character(s) ==
    LET escaped == At(s, 2) = Backslash
        code == IF escaped THEN Escape(s, 3) ELSE UTF8(s, 2)
        ends == At(s, code.to) = Apostrophe
        Bad(to) == Lexeme("Error", to, {"character"})
    IN  CASE At(s, 2) \in {End, "nl"} -> Bad(2)
          [] escaped /\ At(s, 3) = End -> Bad(3)
          [] escaped /\ At(s, 3) # End /\ code.err -> Bad(IF ends THEN code.to + 1 ELSE code.to)
          [] ~escaped /\ At(s, 2) \notin {End, "nl"} /\ code.err -> Bad(code.to)
          [] OTHER -> IF ends THEN Lexeme("Character", code.to + 1, {}) ELSE Bad(code.to)

=============================================================================
