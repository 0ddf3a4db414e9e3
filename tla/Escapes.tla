------------------------------- MODULE Escapes -------------------------------
(***************************************************************************)
(* The escape sequences of the string literals, escape and unescape of     *)
(* src/source/AST/PythonLexer.cc: between the characters of a literal and  *)
(* the codes of the string's characters.                                   *)
(***************************************************************************)
EXTENDS PythonLexer

Printable ==
  <<" ", "!", "\"", "#", "$", "%", "&", "'", "(", ")", "*", "+", ",", "-", ".", "/", "0", "1", "2", "3", "4",
    "5", "6", "7", "8", "9", ":", ";", "<", "=", ">", "?", "@", "A", "B", "C", "D", "E", "F", "G", "H", "I",
    "J", "K", "L", "M", "N", "O", "P", "Q", "R", "S", "T", "U", "V", "W", "X", "Y", "Z", "[", "\\", "]", "^",
    "_", "backtick", "a", "b", "c", "d", "e", "f", "g", "h", "i", "j", "k", "l", "m", "n", "o", "p", "q", "r", "s",
    "t", "u", "v", "w", "x", "y", "z", "{", "|", "}", "~", "DEL">>
Code(c) == IF c = "\n" THEN 10 ELSE 31 + CHOOSE i \in DOMAIN Printable : Printable[i] = c

\* The characters after a backslash that stand for another one.
Letters == <<"\\", "'", "\"", "a", "b", "f", "n", "r", "t", "v">>
Meant   == <<92, 39, 34, 7, 8, 12, 10, 13, 9, 11>>

(***************************************************************************)
(* Escaping                                                                *)
(***************************************************************************)
Hex(n, width) == [k \in 1 .. width |-> HexDigits[1 + ((n \div 16 ^ (width - k)) % 16)]]
Escaped(n) ==
  IF n \in ToSet(Meant) THEN <<"\\", Letters[CHOOSE k \in DOMAIN Meant : Meant[k] = n]>>
  ELSE IF n < 32 \/ n > 127 THEN <<"\\", "x">> \o Hex(n, 2)
  ELSE <<Printable[n - 31]>>
Escape(codes) == FlattenSeq([k \in DOMAIN codes |-> Escaped(codes[k])])

(***************************************************************************)
(* Unescaping.  The value of a \u or \U escape goes through a char, so its *)
(* upper bits are lost and its sign is extended: only its last two digits  *)
(* count.                                                                  *)
(***************************************************************************)
Narrow(n) == IF n % 256 < 128 THEN n % 256 ELSE (n % 256) - 256
Octal(c) == Digit(c) /\ DigitValue(c) < 8

RECURSIVE Unescape(_, _)
Unescape(chars, wide) ==
  LET c == At(chars, 2)
      Then(codes, n) == {codes \o rest : rest \in Unescape(SubSeq(chars, n + 1, Len(chars)), wide)}
      \* The n digits of the given base after the first m characters, of which the
      \* last ones count.
      Coded(m, n, last, base, IsOne(_), Value(_)) ==
        IF Len(chars) < m + n \/ \E k \in m + 1 .. m + n : ~IsOne(chars[k]) THEN {}
        ELSE Then(<<Value(Number(chars, m + n - last + 1, m + n + 1, base))>>, m + n)
      Same(n) == n
  IN  IF chars = <<>> THEN {<<>>}
      ELSE IF chars[1] # "\\" THEN Then(<<Code(chars[1])>>, 1)
      ELSE IF Len(chars) = 1 THEN {}
      ELSE IF c = "\n" THEN Then(<<>>, 2)
      ELSE IF c \in ToSet(Letters) THEN Then(<<Meant[CHOOSE k \in DOMAIN Letters : Letters[k] = c]>>, 2)
      ELSE IF c \in {"0", "1", "2", "3"} THEN Coded(1, 3, 3, 8, Octal, Same)
      ELSE IF c = "x" THEN Coded(2, 2, 2, 16, HexDigit, Same)
      ELSE IF wide /\ c = "N" THEN {}
      ELSE IF wide /\ c = "u" THEN Coded(2, 4, 2, 16, HexDigit, Narrow)
      ELSE IF wide /\ c = "U" THEN Coded(2, 8, 2, 16, HexDigit, Narrow)
      ELSE Then(<<92>>, 1)
=============================================================================
