---------------------------- MODULE PythonGrammar ----------------------------
(***************************************************************************)
(* Python's grammar as its reference gives it, read backwards: the text of *)
(* a syntax tree.  Nothing here is the parser's.                           *)
(*                                                                         *)
(* A text is made of tokens, and a token of characters.  What has no text  *)
(* has the empty set of them, what has one the set of it: an expression    *)
(* that would need parentheses has none, because this language reads a     *)
(* parenthesized expression as a tuple.                                    *)
(***************************************************************************)
EXTENDS Escapes

W(word) == {<<<<word>>>>}
\* One text after another.
Cat(texts) == IF \E i \in DOMAIN texts : texts[i] = {} THEN {}
              ELSE {FlattenSeq([i \in DOMAIN texts |-> CHOOSE t \in texts[i] : TRUE])}
Separated(texts, comma) == Cat([i \in 1 .. 2 * Len(texts) - 1 |-> IF i % 2 = 0 THEN W(comma) ELSE texts[(i + 1) \div 2]])
None == {<<>>}

Levels == << {"lambda"}, {"ternary"}, {"or"}, {"and"}, {"not"}, {"<", ">", "==", ">=", "<=", "!=", "in", "not in", "is", "is not"},
             {"|"}, {"^"}, {"&"}, {"<<", ">>"}, {"+", "-"}, {"*", "/", "//", "%"}, {"unary"}, {"**"} >>
LevelOf(kind) == IF \E k \in DOMAIN Levels : kind \in Levels[k]
                 THEN CHOOSE k \in DOMAIN Levels : kind \in Levels[k] ELSE Len(Levels) + 1
Level(x) == LevelOf(IF x.e = "binary" THEN x.op
                    ELSE IF x.e = "unary" THEN IF x.op = "not" THEN "not" ELSE "unary" ELSE x.e)
AnyLevel == 1
OrLevel == LevelOf("or")
UnaryLevel == LevelOf("unary")
PrimaryLevel == Len(Levels) + 1

Operator(op) == CASE op = "not in" -> Cat(<<W("not"), W("in")>>)
                  [] op = "is not" -> Cat(<<W("is"), W("not")>>)
                  [] \E i \in DOMAIN Symbols : Symbols[i][1] = op ->
                       {<<Symbols[CHOOSE i \in DOMAIN Symbols : Symbols[i][1] = op][2]>>}
                  [] OTHER -> W(op)

RECURSIVE Decimal(_)
Decimal(n) == IF n < 10 THEN <<Digits[n + 1]>> ELSE Append(Decimal(n \div 10), Digits[(n % 10) + 1])
\* m * 10^x in scientific notation.
FloatText(n) == Decimal(n[1]) \o <<"e">> \o (IF n[2] < 0 THEN <<"-">> \o Decimal(-n[2]) ELSE Decimal(n[2]))
StringText(prefix, codes) == {<<prefix \o <<"'">> \o Escape(codes) \o <<"'">>>>}

(***************************************************************************)
(* Expressions, whose operators must bind at least as min does             *)
(***************************************************************************)
RECURSIVE Text(_, _)
TextIf(before, x) == IF x = <<>> THEN None ELSE Cat(<<before, Text(x[1], AnyLevel)>>)
Items(xs) == Separated([i \in DOMAIN xs |-> Text(xs[i], AnyLevel)], ",")
Pairs(xs) == Separated([i \in DOMAIN xs |-> Cat(<<Text(xs[i][1], AnyLevel), W(":"), Text(xs[i][2], AnyLevel)>>)], ",")
Within(open, texts, close) == Cat(<<W(open)>> \o texts \o <<W(close)>>)

RECURSIVE TypeText(_)
TypeText(type) == IF type.args = <<>> THEN W(type.name)
                  ELSE Cat(<<W(type.name), Within("[", <<Separated([i \in DOMAIN type.args |-> TypeText(type.args[i])], ",")>>, "]")>>)
TypeTextIf(mark, type) == IF type = <<>> THEN None ELSE Cat(<<Operator(mark), TypeText(type[1])>>)
ParameterText(a) == Cat(<<W(a.name), TypeTextIf(":", a.type), TextIf(W("="), a.default)>>)
Parameters(p) ==
  Separated([i \in DOMAIN p.args |-> ParameterText(p.args[i])] \o
            (IF p.varargs = "" THEN <<>> ELSE <<Cat(<<W("*"), W(p.varargs)>>)>>) \o
            (IF p.varkwargs = "" THEN <<>> ELSE <<Cat(<<Operator("**"), W(p.varkwargs)>>)>>), ",")
ForIn(x) == <<W("for"), Text(x.var, AnyLevel), W("in"), Text(x.source, OrLevel)>> \o
            (IF x.pred = <<>> THEN <<>> ELSE <<W("if"), Text(x.pred[1], OrLevel)>>)
CallText(x) ==
  Separated([i \in DOMAIN x.args |-> Text(x.args[i], AnyLevel)] \o
            [i \in 1 .. Cardinality(x.kwargs) |-> LET k == SetToSeq(x.kwargs)[i] IN Cat(<<W(k[1]), W("="), Text(k[2], AnyLevel)>>)] \o
            (IF x.varargs = <<>> THEN <<>> ELSE <<TextIf(W("*"), x.varargs)>>) \o
            (IF x.varkwargs = <<>> THEN <<>> ELSE <<TextIf(Operator("**"), x.varkwargs)>>), ",")
SliceText(x) == Within("[", <<TextIf(None, x.from), W(":"), TextIf(None, x.to), TextIf(W(":"), x.step)>>, "]")

\* The places of the operands of a binary operator: only ** groups to the right,
\* and a comparison of comparisons is not a tree of two.
Operands(op, p) == CASE op = "**" -> <<PrimaryLevel, UnaryLevel>>
                     [] p = LevelOf("<") -> <<p + 1, p + 1>>
                     [] OTHER -> <<p, p + 1>>
BinaryText(x, levels) == Cat(<<Text(x.l, levels[1]), Operator(x.op), Text(x.r, levels[2])>>)
Text(x, min) ==
  IF Level(x) < min THEN {} ELSE
  CASE x.e = "binary"  -> BinaryText(x, Operands(x.op, LevelOf(x.op)))
    [] x.e = "unary"   -> Cat(<<W(x.op), Text(x.x, Level(x))>>)
    [] x.e = "ternary" -> Cat(<<Text(x.x, OrLevel), W("if"), Text(x.c, OrLevel), W("else"), Text(x.y, AnyLevel)>>)
    [] x.e = "lambda"  -> Cat(<<W("lambda"), Parameters(x.args), W(":"), Text(x.x, AnyLevel)>>)
    [] x.e = "list"    -> Within("[", <<Items(x.items)>>, "]")
    [] x.e = "set"     -> Within("{", <<Items(x.items)>>, "}")
    [] x.e = "dict"    -> Within("{", <<Pairs(x.pairs)>>, "}")
    [] x.e = "tuple"   -> Within("(", <<Items(x.items), IF Len(x.items) = 1 THEN W(",") ELSE None>>, ")")
    [] x.e = "ltuple"  -> Items(x.items)
    [] x.e = "listcomp" -> Within("[", <<Text(x.item, AnyLevel)>> \o ForIn(x), "]")
    [] x.e = "setcomp"  -> Within("{", <<Text(x.item, AnyLevel)>> \o ForIn(x), "}")
    [] x.e = "dictcomp" -> Within("{", <<Text(x.key, AnyLevel), W(":"), Text(x.item, AnyLevel)>> \o ForIn(x), "}")
    [] x.e = "call"    -> Cat(<<Text(x.f, PrimaryLevel), Within("(", <<CallText(x)>>, ")")>>)
    [] x.e \in {"index", "lindex"} -> Cat(<<Text(x.x, PrimaryLevel), Within("[", <<Text(x.i, AnyLevel)>>, "]")>>)
    [] x.e \in {"slice", "lslice"} -> Cat(<<Text(x.x, PrimaryLevel), SliceText(x)>>)
    [] x.e = "attr"    -> Cat(<<Text(x.x, PrimaryLevel), W("."), W(x.name)>>)
    [] x.e = "lname"   -> Cat(<<IF x.base = <<>> THEN None ELSE Cat(<<Text(x.base[1], PrimaryLevel), W(".")>>),
                                W(x.name), TypeTextIf(":", x.type)>>)
    [] x.e = "int"     -> {<<Decimal(x.n)>>}
    [] x.e = "float"   -> {<<FloatText(x.m)>>}
    [] x.e = "str"     -> StringText(<<>>, x.v)
    [] x.e = "bytes"   -> StringText(<<"b">>, x.v)
    [] x.e = "bool"    -> W(IF x.p THEN "True" ELSE "False")
    [] x.e = "none"    -> W("None")
    [] x.e = "var"     -> W(x.name)
    \* The pieces of a statement.
    [] x.e = "word"    -> Operator(x.w)
    [] x.e = "dotted"  -> {[i \in DOMAIN x.w |-> <<x.w[i]>>]}
    [] x.e = "type"    -> TypeText(x.type)
    [] x.e = "parameters" -> Parameters(x.args)
    [] x.e = "phrase"  -> Cat([i \in DOMAIN x.items |-> Text(x.items[i], AnyLevel)])

(***************************************************************************)
(* Statements: the lines of the text, each with its indentation; a block   *)
(* of one line may be on the line of its header.                           *)
(***************************************************************************)
Piece(w) == [e |-> "word", w |-> w]
Phrase(xs) == [e |-> "phrase", items |-> xs]
Listed(xs) == [e |-> "ltuple", items |-> xs]
If(condition, xs) == IF condition THEN xs ELSE <<>>
As(name) == If(name # "", <<Piece("as"), Piece(name)>>)
Between(open, x, close) == <<Piece(open), x, Piece(close)>>
ImportedName(n) == Phrase(<<[e |-> "dotted", w |-> n[1]]>> \o If(n[2] # n[1], <<Piece("as"), Piece(n[2][1])>>))
ImportedNames(names) == Listed([i \in 1 .. Cardinality(names) |-> ImportedName(SetToSeq(names)[i])])

Compound == {"if", "while", "for", "try", "with", "def", "class"}
Sentence(a) ==
  CASE a.s = "expr"    -> <<a.x>>
    [] a.s = "assign"  -> <<a.target, Piece("="), a.x>>
    [] a.s = "augment" -> <<a.target, Piece(a.op), a.x>>
    [] a.s = "del"     -> <<Piece("del"), a.target>>
    [] a.s \in {"pass", "break", "continue"} -> <<Piece(a.s)>>
    [] a.s \in {"raise", "exec", "assert"}   -> <<Piece(a.s), Listed(a.items)>>
    [] a.s = "return"  -> <<Piece("return")>> \o a.x
    [] a.s = "yield"   -> <<Piece("yield")>> \o If(a.from, <<Piece("from")>>) \o a.x
    [] a.s = "global"  -> <<Piece("global"), Listed([i \in DOMAIN a.names |-> Piece(a.names[i])])>>
    [] a.s = "import" /\ a.names = {} /\ ~a.star -> <<Piece("import"), ImportedNames(a.modules)>>
    [] a.s = "import" /\ (a.names # {} \/ a.star) ->
         <<Piece("from"), ImportedNames(a.modules), Piece("import"), IF a.star THEN Piece("*") ELSE ImportedNames(a.names)>>
\* A header and its block.
Clause(header, block) == <<[header |-> header, block |-> block]>>
ClauseIf(word, block) == IF block = <<>> THEN <<>> ELSE Clause(<<Piece(word)>>, block[1])
Clauses(a) ==
  CASE a.s = "if"    -> Clause(<<Piece("if"), a.check>>, a.body)
                        \o [i \in DOMAIN a.elifs |-> Clause(<<Piece("elif"), a.elifs[i].check>>, a.elifs[i].body)[1]]
                        \o ClauseIf("else", a.orelse)
    [] a.s = "while" -> Clause(<<Piece("while"), a.check>>, a.body) \o ClauseIf("else", a.orelse)
    [] a.s = "for"   -> Clause(<<Piece("for"), a.var, Piece("in"), a.x>>, a.body) \o ClauseIf("else", a.orelse)
    [] a.s = "try"   -> Clause(<<Piece("try")>>, a.body)
                        \o [i \in DOMAIN a.excepts |->
                              Clause(<<Piece("except")>> \o a.excepts[i].types \o As(a.excepts[i].name), a.excepts[i].body)[1]]
                        \o ClauseIf("else", a.orelse) \o ClauseIf("finally", a.finally)
    [] a.s = "with"  -> Clause(<<Piece("with"), Listed([i \in DOMAIN a.items |-> Phrase(<<a.items[i][1]>> \o As(a.items[i][2]))])>>, a.body)
    [] a.s = "def"   -> Clause(<<Piece("def"), Piece(a.name)>> \o Between("(", [e |-> "parameters", args |-> a.args], ")")
                               \o If(a.type # <<>>, <<Piece("->"), [e |-> "type", type |-> a.type[1]]>>), a.body)
    [] a.s = "class" -> Clause(<<Piece("class"), Piece(a.name)>> \o If(a.parents # <<>>, Between("(", Listed(a.parents), ")")), a.body)

Tokens(pieces) == Text(Phrase(pieces), AnyLevel)
Line(n, texts) == {<<[n |-> n, tokens |-> tokens]>> : tokens \in texts}
Simple(a) == "s" \in DOMAIN a /\ a.s \notin Compound
RECURSIVE Lines(_, _, _)
ClauseLines(c, header, n, inline) ==
  IF inline /\ Len(c.block) = 1 /\ Simple(c.block[1])
  THEN UNION {Line(n, Cat(<<header, {line[1].tokens}>>)) : line \in Lines(c.block, n, inline)}
  ELSE Cat(<<Line(n, header), Lines(c.block, n + 2, inline)>>)
\* The pieces before the colon and the clauses of a statement; for a simple one, none.
Sentences(a) == IF Simple(a) THEN <<Sentence(a)>>
                ELSE IF a.s \in {"def", "class"} THEN [i \in DOMAIN a.decorators |-> <<Piece("@"), a.decorators[i]>>] ELSE <<>>
StatementLines(a, n, inline, clauses) ==
  [i \in DOMAIN Sentences(a) |-> Line(n, Tokens(Sentences(a)[i]))]
  \o [i \in DOMAIN clauses |-> ClauseLines(clauses[i], Tokens(Append(clauses[i].header, Piece(":"))), n, inline)]
Lines(body, n, inline) ==
  Cat(FlattenSeq([i \in DOMAIN body |-> StatementLines(body[i], n, inline, IF Simple(body[i]) THEN <<>> ELSE Clauses(body[i]))]))

(***************************************************************************)
(* The layouts of a text: spaces everywhere or only between words, lines   *)
(* split, comments and blank lines, several statements on a line.          *)
(***************************************************************************)
Layouts == {"spaced", "tight", "inline", "folded", "commented", "windows", "joined"}
WordLike(c) == Digit(c) \/ IsWord(c)
Depth(tokens, i) == Cardinality({k \in 1 .. i : tokens[k][1] \in {"(", "[", "{"}}) -
                    Cardinality({k \in 1 .. i : tokens[k][1] \in {")", "]", "}"}})
Gap(layout, tokens, i) ==
  CASE layout = "tight"  -> IF WordLike(Last(tokens[i])) /\ WordLike(Head(tokens[i + 1])) THEN <<" ">> ELSE <<>>
    [] layout = "folded" -> IF Depth(tokens, i) > 0 THEN <<"\n", " ">> ELSE <<" ", "\\", "\n">>
    [] OTHER -> <<" ">>
LineText(layout, tokens) ==
  FlattenSeq([i \in DOMAIN tokens |-> IF i = Len(tokens) THEN tokens[i] ELSE tokens[i] \o Gap(layout, tokens, i)])
Spaces(n) == [i \in 1 .. n |-> " "]
AComment == <<"#", "it", "'", "s", "(", ":">>
\* A line is joined to the next by a semicolon when both are simple.
Joins(lines, i) == i < Len(lines) /\ lines[i].n = lines[i + 1].n /\ Last(lines[i].tokens) # <<":">>
                   /\ lines[i + 1].tokens[1][1] \notin Compound \cup {"elif", "else", "except", "finally", "@"}
                   /\ lines[i].tokens[1][1] \notin {"@"}
Render(layout, lines) ==
  LET Start(i) == IF i > 1 /\ layout = "joined" /\ Joins(lines, i - 1) THEN <<>> ELSE Spaces(lines[i].n)
      End(i) == CASE layout = "joined" /\ Joins(lines, i) -> <<" ", ";">>
                  [] layout = "commented" -> <<" ">> \o AComment \o <<"\n", "\n", " ", "\n">> \o
                                             (IF i = Len(lines) THEN <<>> ELSE Spaces(lines[i + 1].n) \o AComment \o <<"\n">>)
                  [] layout = "windows" -> IF i = Len(lines) THEN <<>> ELSE <<"\r", "\n", " ", "\r", "\n">>
                  [] ~(layout = "joined" /\ Joins(lines, i)) /\ layout \notin {"commented", "windows"} -> <<"\n">>
  IN  FlattenSeq([i \in DOMAIN lines |-> Start(i) \o LineText(layout, lines[i].tokens) \o End(i)])

\* The text of a module, if it has one.
Written(layout, body) == {Render(layout, lines) : lines \in Lines(body, 0, layout = "inline")}
=============================================================================
