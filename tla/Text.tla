-------------------------------- MODULE Text --------------------------------
(***************************************************************************)
(* Characters.  A byte of a file or of a message is a string that names it: *)
(* a printable character names itself, the others have a name.  A text is a *)
(* sequence of characters.                                                  *)
(***************************************************************************)
EXTENDS Integers, Sequences, FiniteSets, SequencesExt

\* The characters of a string.
Chars(s) == [k \in 1 .. Len(s) |-> SubSeq(s, k, k)]

Printable ==
    Chars(" !\"#$%&'()*+,-./0123456789:;<=>?@ABCDEFGHIJKLMNOPQRSTUVWXYZ[\\]^_") \o <<"x60">>
        \o Chars("abcdefghijklmnopqrstuvwxyz{|}~")
HexChars == Chars("0123456789abcdef")
DigitChars == SubSeq(HexChars, 1, 10)

\* A byte and its two hexadecimal digits.
HexOf(n) == <<HexChars[n \div 16 + 1], HexChars[(n % 16) + 1]>>

CharOf ==
    [n \in 0 .. 255 |->
        CASE n = 0 -> "NUL" [] n = 9 -> "TAB" [] n = 10 -> "LF" [] n = 13 -> "CR"
          [] n \in 32 .. 126 -> Printable[n - 31]
          [] OTHER -> "x" \o HexOf(n)[1] \o HexOf(n)[2]]
Character == {CharOf[n] : n \in 0 .. 255}
Code == [c \in Character |-> CHOOSE n \in 0 .. 255 : CharOf[n] = c]

Crlf == <<"CR", "LF">>

\* std::string: the terminator stands behind the last character.
At(text, k) == IF k \in DOMAIN text THEN text[k] ELSE "NUL"
From(text, k) == SubSeq(text, k, Len(text))

\* The first position from k on whose character is not one of cs.
Span(text, k, cs) ==
    CHOOSE j \in k .. Len(text) + 1 :
        (j \in DOMAIN text => text[j] \notin cs) /\ \A i \in k .. j - 1 : text[i] \in cs

\* The places where pattern occurs, and what std::search and find() return.
Occurrences(text, pattern) ==
    {k \in 1 .. Len(text) + 1 - Len(pattern) : SubSeq(text, k, k + Len(pattern) - 1) = pattern}
First(positions) == CHOOSE k \in positions : \A j \in positions : k <= j

StartsAt(text, k, pattern) ==
    k + Len(pattern) - 1 <= Len(text) /\ SubSeq(text, k, k + Len(pattern) - 1) = pattern

\* What stands before the first c, and what stands behind it.
Place(text, c) == IF c \in ToSet(text) THEN First({k \in DOMAIN text : text[k] = c}) ELSE Len(text) + 1
Before(text, c) == SubSeq(text, 1, Place(text, c) - 1)
Behind(text, c) == From(text, Place(text, c) + 1)

\* Numbers in digits of a base.
IsDigit(c) == c \in ToSet(DigitChars)
DigitOf(c) == (CHOOSE k \in 1 .. 16 : HexChars[k] = c) - 1
IsNumber(text, base) == ToSet(text) \subseteq {HexChars[k] : k \in 1 .. base}
Numeral(text, base) == FoldLeft(LAMBDA n, c : base * n + DigitOf(c), 0, text)

Decimal[n \in Nat] ==
    (IF n < 10 THEN <<>> ELSE Decimal[n \div 10]) \o <<DigitChars[(n % 10) + 1]>>
=============================================================================
