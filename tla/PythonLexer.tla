----------------------------- MODULE PythonLexer -----------------------------
(***************************************************************************)
(* The lexer of src/source/AST/PythonLexer.cc: the text of a module as the *)
(* sequence of its tokens.                                                 *)
(*                                                                         *)
(* A text is a sequence of characters, except that a run of the characters *)
(* of a name is one element.  A token is a record of its type t, which for *)
(* a keyword or a symbol is its text, and its content s.  A function of    *)
(* the lexer that can throw gives the set of its results: empty when it    *)
(* throws.                                                                 *)
(***************************************************************************)
EXTENDS Integers, Sequences, SequencesExt

Words == {"del", "pass", "break", "continue", "return", "raise", "import", "from", "as", "def", "global",
          "exec", "assert", "if", "else", "elif", "with", "while", "for", "in", "not", "and", "or", "try",
          "except", "finally", "lambda", "class", "yield", "is"}

\* The symbols in the order of the table: the first that matches is the token.
Symbols ==
  << <<"\\", <<"\\", "\r", "\n">>>>, <<"\\", <<"\\", "\n">>>>, <<"newline", <<"\r", "\n">>>>,
     <<"<<=", <<"<", "<", "=">>>>, <<">>=", <<">", ">", "=">>>>, <<"**=", <<"*", "*", "=">>>>,
     <<"//=", <<"/", "/", "=">>>>, <<"//", <<"/", "/">>>>, <<"**", <<"*", "*">>>>, <<"<<", <<"<", "<">>>>,
     <<">>", <<">", ">">>>>, <<"==", <<"=", "=">>>>, <<">=", <<">", "=">>>>, <<"<=", <<"<", "=">>>>,
     <<"!=", <<"!", "=">>>>, <<"!=", <<"<", ">">>>>, <<"+=", <<"+", "=">>>>, <<"-=", <<"-", "=">>>>,
     <<"*=", <<"*", "=">>>>, <<"/=", <<"/", "=">>>>, <<"%=", <<"%", "=">>>>, <<"&=", <<"&", "=">>>>,
     <<"|=", <<"|", "=">>>>, <<"^=", <<"^", "=">>>>, <<"->", <<"-", ">">>>>, <<"newline", <<"\n">>>> >> \o
  [i \in 1 .. 22 |-> LET c == <<"@", "(", ")", ":", "<", ">", "=", ",", ";", ".", "+", "-", "*", "/", "|",
                                "^", "&", "%", "~", "[", "]", "{">>[i] IN <<c, <<c>>>>] \o
  << <<"}", <<"}">>>>, <<"backtick", <<"backtick">>>> >>

Digits == <<"0", "1", "2", "3", "4", "5", "6", "7", "8", "9">>
HexDigits == Digits \o <<"A", "B", "C", "D", "E", "F">>
Digit(c) == c \in ToSet(Digits)
HexDigit(c) == c \in ToSet(HexDigits)
DigitValue(c) == (CHOOSE i \in DOMAIN HexDigits : HexDigits[i] = c) - 1
IsWord(c) == c \notin ToSet(Digits) \cup {" ", "#", "'", "\"", "!", "$", "?", "\\", "\r", ""}
             /\ \A i \in DOMAIN Symbols : c \notin ToSet(Symbols[i][2])

\* Past the end there is the terminating zero of a C string.
At(text, i) == IF i \in DOMAIN text THEN text[i] ELSE ""
Matches(text, i, chars) == \A k \in DOMAIN chars : At(text, i + k - 1) = chars[k]
Least(S, otherwise) == IF S = {} THEN otherwise ELSE CHOOSE i \in S : \A j \in S : i <= j
Token(type, content) == [t |-> type, s |-> content]
\* What is read at i: the token and where the text goes on.
Taken(type, content, next) == {[token |-> Token(type, content), next |-> next]}

(***************************************************************************)
(* Comments, strings and names                                             *)
(***************************************************************************)
\* A backslash takes the newline after it into the comment.  With no newline behind it
\* the comment is read beyond the end of the text.
Comment(text, i) ==
  LET ends == {j \in i + 1 .. Len(text) : text[j] = "\n" /\ text[j - 1] # "\\"}
  IN  IF ends = {} THEN {} ELSE Taken("comment", <<>>, Least(ends, 0))

\* The string whose n opening quotes are at i: a quote after a backslash, whatever
\* is before that, does not end it.
Quoted(text, type, i, n) ==
  LET marks == [k \in 1 .. n |-> At(text, i)]
      ends  == {j \in i + n .. Len(text) : Matches(text, j, marks) /\ text[j - 1] # "\\"}
      last  == Least(ends, 0)
  IN  IF ends = {} THEN {} ELSE Taken(type, SubSeq(text, i + n, last - 1), last + n)

StringPrefixes == {"b", "u", "B", "U"}
QuotesAt(text, i) == IF At(text, i) \notin {"'", "\""} THEN 0
                     ELSE IF Matches(text, i, [k \in 1 .. 3 |-> text[i]]) THEN 3 ELSE 1
String(text, i) ==
  IF QuotesAt(text, i) > 0 THEN Quoted(text, "unicode", i, QuotesAt(text, i))
  ELSE Quoted(text, IF text[i] \in {"b", "B"} THEN "bytes" ELSE "unicode", i + 1, QuotesAt(text, i + 1))

Word(text, i) == IF text[i] \in Words THEN Taken(text[i], <<>>, i + 1) ELSE Taken("name", text[i], i + 1)

(***************************************************************************)
(* Numbers.  A float is <<m, x>> for m * 10^x, or "rounded" when the token,*)
(* which keeps it in single precision, has another value.                  *)
(***************************************************************************)
After(text, i, P(_)) == Least({j \in i .. Len(text) : ~P(text[j])}, Len(text) + 1)
Number(text, i, j, base) == FoldLeft(LAMBDA n, c : base * n + DigitValue(c), 0, SubSeq(text, i, j - 1))

RECURSIVE Float(_, _)
Float(m, x) ==
  LET odd == m \div 2 ^ (CHOOSE k \in 0 .. 30 : m % 2 ^ k = 0 /\ (m \div 2 ^ k) % 2 = 1)
  IN  IF m = 0 THEN <<0, 0>>
      ELSE IF m % 10 = 0 THEN Float(m \div 10, x + 1)
      ELSE IF x < 0 /\ m % 5 ^ (-x) # 0 THEN "rounded"
      ELSE IF odd * (IF x < 0 THEN 1 ELSE 5 ^ x) >= 2 ^ 24 * (IF x < 0 THEN 5 ^ (-x) ELSE 1) THEN "rounded"
      ELSE <<m, x>>

\* The integer part ends before i, the fraction, of k digits, at j; a number in
\* scientific notation needs the digits of its exponent.
Scientific(text, i, j, k, mantissa) ==
  LET sign  == IF At(text, j + 1) \in {"+", "-"} THEN 1 ELSE 0
      last  == After(text, j + 1 + sign, Digit)
      power == Number(text, j + 1 + sign, last, 10)
  IN  IF At(text, j) \notin {"e", "E"} THEN Taken("float", Float(mantissa, -k), j)
      ELSE IF last = j + 1 + sign THEN {}
      ELSE Taken("float", Float(mantissa, (IF At(text, j + 1) = "-" THEN -power ELSE power) - k), last)

Numeral(text, i) ==
  LET int  == After(text, i, Digit)
      frac == IF At(text, int) = "." THEN After(text, int + 1, Digit) ELSE int
      k    == IF frac = int THEN 0 ELSE frac - int - 1
      hex  == After(text, i + 2, HexDigit)
  IN  IF text[i] = "0" /\ At(text, i + 1) \in {"x", "X"} /\ hex > i + 2
      THEN Taken("integer", Number(text, i + 2, hex, 16), hex)
      ELSE IF frac > int \/ At(text, int) \in {"e", "E"}
      THEN Scientific(text, i, frac, k, Number(text, i, int, 10) * 10 ^ k + Number(text, int + 1, frac, 10))
      ELSE Taken("integer", Number(text, i, int, 10), IF At(text, int) = "L" THEN int + 1 ELSE int)

Symbol(text, i) ==
  LET fits == {k \in DOMAIN Symbols : Matches(text, i, Symbols[k][2])}
      k    == Least(fits, 0)
  IN  IF fits = {} THEN {} ELSE Taken(Symbols[k][1], <<>>, i + Len(Symbols[k][2]))

Read(text, i) ==
  IF text[i] = "#" THEN Comment(text, i)
  ELSE IF QuotesAt(text, i) > 0 \/ (text[i] \in StringPrefixes /\ QuotesAt(text, i + 1) > 0) THEN String(text, i)
  ELSE IF IsWord(text[i]) THEN Word(text, i)
  ELSE IF Digit(text[i]) \/ (text[i] = "." /\ Digit(At(text, i + 1))) THEN Numeral(text, i)
  ELSE Symbol(text, i)

(***************************************************************************)
(* Brackets and indentation.  The lexer is at a place of the text, with the*)
(* tokens so far, the brackets it is in and the indentations of the blocks.*)
(***************************************************************************)
Closing == [c \in {")", "]", "}"} |-> CASE c = ")" -> "(" [] c = "]" -> "[" [] c = "}" -> "{"]

\* Blank lines do not count for the indentation; lines of a comment do.
RECURSIVE SkipBlank(_, _)
SkipBlank(text, i) ==
  LET j == After(text, i, LAMBDA c : c = " ")
  IN  IF At(text, j) = "\n" THEN SkipBlank(text, j + 1)
      ELSE IF Matches(text, j, <<"\r", "\n">>) THEN SkipBlank(text, j + 2) ELSE i

Indented(l, n) ==
  LET kept == SelectSeq(l.indents, LAMBDA m : m <= n)
      gone == Len(l.indents) - Len(kept)
  IN  IF n > Last(l.indents)
      THEN {[l EXCEPT !.indents = Append(@, n), !.tokens = Append(@, Token("indent", <<>>))]}
      ELSE IF Last(kept) # n THEN {}
      ELSE {[l EXCEPT !.indents = kept, !.tokens = @ \o [k \in 1 .. gone |-> Token("unindent", <<>>)]]}

NewLine(text, l, next) ==
  LET line == SkipBlank(text, next)
      code == After(text, line, LAMBDA c : c = " ")
  IN  IF l.brackets # <<>> THEN {[l EXCEPT !.at = next]}
      ELSE Indented([l EXCEPT !.at = code, !.tokens = Append(@, Token("newline", <<>>))], code - line)

Accept(text, l, token, next) ==
  LET add == [l EXCEPT !.at = next, !.tokens = Append(@, token)]
  IN  CASE token.t \in {"(", "[", "{"} -> {[add EXCEPT !.brackets = Append(@, token.t)]}
        [] token.t \in DOMAIN Closing -> IF l.brackets # <<>> /\ Last(l.brackets) = Closing[token.t]
                                         THEN {[add EXCEPT !.brackets = Front(@)]} ELSE {}
        [] token.t = "newline" -> NewLine(text, l, next)
        [] token.t = "\\" -> {[l EXCEPT !.at = next]}
        [] OTHER -> {add}

\* One turn of the loop of the constructor.
LexOne(text, l) ==
  IF text[l.at] = " " THEN {[l EXCEPT !.at = @ + 1]}
  ELSE UNION {Accept(text, l, r.token, r.next) : r \in Read(text, l.at)}
\* The turns that begin before end, one half of the text after the other.
RECURSIVE LexTo(_, _, _)
LexTo(text, l, end) ==
  IF l.at >= end THEN {l}
  ELSE IF l.at + 1 = end THEN LexOne(text, l)
  ELSE UNION {LexTo(text, m, end) : m \in LexTo(text, l, (l.at + end) \div 2)}

(***************************************************************************)
(* The clean-up of the tokens                                              *)
(***************************************************************************)
Pair(ts, i, a, b) == {i, i + 1} \subseteq DOMAIN ts /\ ts[i].t = a /\ ts[i + 1].t = b
IsNot(ts, i) == Pair(ts, i, "is", "not")
NotIn(ts, i) == Pair(ts, i, "not", "in") /\ ~IsNot(ts, i - 1)
\* A newline before another is dropped; a semicolon is one, if it is not the last token.
Gone == Token("gone", <<>>)
ComposedAt(ts, i) ==
  CASE IsNot(ts, i) -> Token("is not", <<>>)
    [] NotIn(ts, i) -> Token("not in", <<>>)
    [] IsNot(ts, i - 1) \/ NotIn(ts, i - 1) -> Gone
    [] ts[i].t \in {"newline", ";"} /\ i < Len(ts) -> IF ts[i + 1].t = "newline" THEN Gone ELSE Token("newline", <<>>)
    [] OTHER -> ts[i]
Composed(ts) == SelectSeq([i \in DOMAIN ts |-> ComposedAt(ts, i)], LAMBDA t : t.t # Gone.t)

RECURSIVE WithoutLeadingNewlines(_)
WithoutLeadingNewlines(ts) ==
  IF ts # <<>> /\ ts[1].t = "newline" THEN WithoutLeadingNewlines(Tail(ts)) ELSE ts

Closed(l, ts) ==
  (IF ts = <<>> \/ Last(ts).t # "newline" THEN Append(ts, Token("newline", <<>>)) ELSE ts) \o
  [k \in 1 .. Len(l.indents) - 1 |-> Token("unindent", <<>>)]

\* PythonLexer::PythonLexer: the tokens, or none when the text is malformed.
Lex(text) ==
  {Closed(l, Composed(WithoutLeadingNewlines(SelectSeq(l.tokens, LAMBDA t : t.t # "comment")))) :
     l \in LexTo(text, [at |-> 1, tokens |-> <<>>, brackets |-> <<>>, indents |-> <<0>>], Len(text) + 1)}
=============================================================================
