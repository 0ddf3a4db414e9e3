----------------------------- MODULE PythonParser -----------------------------
(***************************************************************************)
(* The parser of src/source/AST/PythonParser.cc: the syntax tree of a      *)
(* sequence of tokens.                                                     *)
(*                                                                         *)
(* The parser looks for an operator between two places of the sequence ts, *)
(* lo and hi (hi excluded), that is in no bracket, and parses what is on   *)
(* its two sides.  A function of the parser that can throw gives the set   *)
(* of its results: empty when it throws.                                   *)
(***************************************************************************)
EXTENDS PythonASTNodes, Escapes, FiniteSetsExt

\* The type of the token at i.
T(ts, i) == IF i \in DOMAIN ts THEN ts[i].t ELSE "end"
IsName(ts, i, name) == T(ts, i) = "name" /\ ts[i].s = name

(***************************************************************************)
(* find_bracketed_any.  A lambda is a bracket that its colon closes.       *)
(***************************************************************************)
CloserOf == [c \in {"(", "[", "{", "indent", "lambda"} |->
               CASE c = "(" -> ")" [] c = "[" -> "]" [] c = "{" -> "}" [] c = "indent" -> "unindent" [] c = "lambda" -> ":"]
Closers == {")", "]", "}", "unindent"}
Broken == 0

\* Past the token at a place: the brackets open there and the places in none so far;
\* Broken is among them when a closing bracket with no opening one ends the search.
PastToken(type, at, search) ==
  LET outer == IF search.open = <<>> THEN search.outer \cup {at} ELSE search.outer
  IN  CASE search.open # <<>> /\ Last(search.open) = type -> [search EXCEPT !.open = Front(@)]
        [] OTHER -> [open  |-> IF type \in DOMAIN CloserOf THEN Append(search.open, CloserOf[type]) ELSE search.open,
                     outer |-> IF type \in Closers THEN outer \cup {Broken} ELSE outer]
\* Past those from lo to hi, one half after the other.
RECURSIVE Past(_, _, _, _)
Past(ts, lo, hi, search) ==
  IF lo >= hi \/ Broken \in search.outer THEN search
  ELSE IF lo + 1 = hi THEN PastToken(T(ts, lo), lo, search)
  ELSE Past(ts, (lo + hi) \div 2, hi, Past(ts, lo, (lo + hi) \div 2, search))
Outer(ts, lo, hi) == Past(ts, lo, hi, [open |-> <<>>, outer |-> {}]).outer

Places(ts, outer, types) == {i \in outer \ {Broken} : T(ts, i) \in types}
\* The first of several operators instead of the last.
FirstPlaceOf(ts, outer, types) == IF Places(ts, outer, types) = {} THEN 0 ELSE Min(Places(ts, outer, types))
\* find_last: the whole range is searched, so a broken one is reported elsewhere.
LastOf(ts, outer, types) == Max({0} \cup Places(ts, outer, types))
\* The first of some places; none in a broken range that has none.
Nearest(places, broken, otherwise) == IF places # {} THEN {Min(places)} ELSE IF broken THEN {} ELSE otherwise
FirstOf(ts, outer, types, otherwise) == Nearest(Places(ts, outer, types), Broken \in outer, otherwise)
\* The place of the first token of some types: a set, empty when the parser throws.
FoundOr(ts, lo, hi, types, otherwise) == FirstOf(ts, Outer(ts, lo, hi), types, {otherwise})
Found(ts, lo, hi, types) == FirstOf(ts, Outer(ts, lo, hi), types, {})
CommaOr(ts, lo, hi) == FoundOr(ts, lo, hi, {","}, hi)
NotFound == -1

(***************************************************************************)
(* Expressions                                                             *)
(***************************************************************************)
\* What is between two places, and the place after it: an expression (parse_expression),
\* a target of an assignment, or a suite.
RECURSIVE Parsed(_, _, _, _)
\* An expression that ends at hi (expect_offset).
UpTo(results, hi) == {r[1] : r \in {r \in results : r[2] = hi}}
Whole(ts, lo, hi) == UpTo(Parsed(ts, lo, hi, "value"), hi)
\* None, or such an expression.
WholeIf(given, ts, lo, hi) == IF given THEN {<<x>> : x \in Whole(ts, lo, hi)} ELSE {<<>>}
AfterComma(comma, hi) == IF comma < hi THEN comma + 1 ELSE comma

RECURSIVE ExprList(_, _, _, _)
ExprList(ts, lo, hi, what) ==
  IF lo >= hi THEN {<<>>}
  ELSE UNION {{<<x>> \o xs : x \in UpTo(Parsed(ts, lo, comma, what), comma), xs \in ExprList(ts, AfterComma(comma, hi), hi, what)} :
                comma \in CommaOr(ts, lo, hi)}

\* With a comma it is a tuple.
TupleNode(xs, what) == IF what = "target" THEN TupleLValueReference(xs) ELSE TupleConstructor(xs)
ExprTuple(ts, lo, hi, what) ==
  UNION {IF comma = hi THEN Parsed(ts, lo, hi, what) ELSE {<<TupleNode(xs, what), hi>> : xs \in ExprList(ts, lo, hi, what)} :
           comma \in CommaOr(ts, lo, hi)}
WholeTuple(ts, lo, hi, what) == UpTo(ExprTuple(ts, lo, hi, what), hi)

RECURSIVE DictItems(_, _, _)
\* The items from lo on, of which the first ends at comma.
ItemsFrom(ts, lo, comma, hi) ==
  UNION {{<<<<k, x>>>> \o rest : k \in Whole(ts, lo, colon), x \in Whole(ts, colon + 1, comma),
                                rest \in DictItems(ts, AfterComma(comma, hi), hi)} : colon \in Found(ts, lo, comma, {":"})}
DictItems(ts, lo, hi) ==
  IF lo >= hi THEN {<<>>} ELSE UNION {ItemsFrom(ts, lo, comma, hi) : comma \in CommaOr(ts, lo, hi)}

RECURSIVE TypeAt(_, _)
RECURSIVE TypeList(_, _)
\* The types after a bracket or a comma at i, and the place that ends them.
TypeList(ts, i) ==
  UNION {IF T(ts, r[2]) = "," THEN {<<<<r[1]>> \o more[1], more[2]>> : more \in TypeList(ts, r[2])}
         ELSE {<<<<r[1]>>, r[2]>>} : r \in TypeAt(ts, i + 1)}
TypeAt(ts, i) ==
  IF T(ts, i) # "name" THEN {}
  ELSE IF T(ts, i + 1) # "[" THEN {<<TypeAnnotation(ts[i].s, <<>>), i + 1>>}
  ELSE {<<TypeAnnotation(ts[i].s, r[1]), r[2] + 1>> : r \in {r \in TypeList(ts, i + 1) : T(ts, r[2]) = "]"}}
\* The annotation after a colon at i, if there is one and it may be there.
TypeIf(allowed, ts, i, mark) ==
  IF allowed /\ T(ts, i) = mark THEN {<<<<r[1]>>, r[2]>> : r \in TypeAt(ts, i + 1)} ELSE {<<<<>>, i>>}

\* parse_function_argument_definition: the arguments and the place after them.
RECURSIVE ArgumentDefinitions(_, _, _, _, _)
\* The definitions after one that ends at at.
Following(ts, at, comma, hi, types, args) ==
  IF comma < hi /\ T(ts, at) # "," THEN {} ELSE ArgumentDefinitions(ts, IF comma < hi THEN at + 1 ELSE at, hi, types, args)
StarDefinition(ts, lo, comma, hi, types, args, field) ==
  IF T(ts, lo + 1) # "name" \/ args[field] # "" THEN {}
  ELSE Following(ts, lo + 2, comma, hi, types, [args EXCEPT ![field] = ts[lo + 1].s])
DefaultIf(ts, at, comma) ==
  IF T(ts, at) = "=" THEN {<<<<r[1]>>, r[2]>> : r \in Parsed(ts, at + 1, comma, "value")} ELSE {<<<<>>, at>>}
NameDefinition(ts, lo, comma, hi, types, args) ==
  UNION {UNION {Following(ts, d[2], comma, hi, types, [args EXCEPT !.args = Append(@, Argument(ts[lo].s, type[1], d[1]))]) :
                  d \in DefaultIf(ts, type[2], comma)} : type \in TypeIf(types, ts, lo + 1, ":")}
ArgumentDefinition(ts, lo, comma, hi, types, args) ==
  CASE T(ts, lo) = "*"    -> StarDefinition(ts, lo, comma, hi, types, args, "varargs")
    [] T(ts, lo) = "**"   -> StarDefinition(ts, lo, comma, hi, types, args, "varkwargs")
    [] T(ts, lo) = "name" -> NameDefinition(ts, lo, comma, hi, types, args)
    [] OTHER -> {}
ArgumentDefinitions(ts, lo, hi, types, args) ==
  IF lo >= hi THEN {<<args, lo>>}
  ELSE UNION {ArgumentDefinition(ts, lo, comma, hi, types, args) : comma \in CommaOr(ts, lo, hi)}
\* Arguments that end at hi.
Arguments(ts, lo, hi, types) == UpTo(ArgumentDefinitions(ts, lo, hi, types, FunctionArguments(<<>>, "", "")), hi)

(***************************************************************************)
(* Operators, from the one that binds least                                *)
(***************************************************************************)
Lambda(ts, lo, hi) ==
  UNION {{<<LambdaDefinition(args, x), hi>> : args \in Arguments(ts, lo + 1, colon, FALSE), x \in Whole(ts, colon + 1, hi)} :
           colon \in Found(ts, lo + 1, hi, {":"})}
Ternary(ts, lo, if, else, hi) ==
  IF else < if THEN {}
  ELSE {<<TernaryOperation(x, c, y), hi>> : x \in Whole(ts, lo, if), c \in Whole(ts, if + 1, else), y \in Whole(ts, else + 1, hi)}
Binary(ts, lo, op, hi) == {<<BinaryOperation(T(ts, op), l, r), hi>> : l \in Whole(ts, lo, op), r \in Whole(ts, op + 1, hi)}
Unary(ts, lo, hi) == {<<UnaryOperation(T(ts, lo), x), hi>> : x \in Whole(ts, lo + 1, hi)}

Comparisons == {"in", "not in", "is", "is not", "<", "<=", ">", ">=", "!=", "=="}
OperatorTokens == Comparisons \cup {"not", "and", "or", "*", "**", "<<", ">>", ".", "+", "-", "/", "|", "^", "&", "%", "//", "~"}
Infix == <<{"if"}, {"or"}, {"and"}, {}, Comparisons, {"|"}, {"^"}, {"&"}, {"<<", ">>"}, {"+", "-"}, {"*", "/", "//", "%"}, {}, {"**"}>>
Signs == 10
Prefix == [k \in DOMAIN Infix |-> CASE k = 4 -> {"not"} [] k = 12 -> {"+", "-", "~"} [] OTHER -> {}]
Applies(ts, lo, k, last) ==
  \/ T(ts, lo) \in Prefix[k]
  \/ last > lo /\ (k = Signs => T(ts, last - 1) \notin OperatorTokens)
\* The level of the operator that binds least, or one more than there are.
Level(ts, lo, outer) == Min({Len(Infix) + 1} \cup {k \in DOMAIN Infix : Applies(ts, lo, k, LastOf(ts, outer, Infix[k]))})

SliceOf(x, a, b, c, what) == IF what = "target" THEN ArraySliceLValueReference(x, a, b, c) ELSE ArraySlice(x, a, b, c)
Slice(ts, x, lo, colon, hi, what) ==
  UNION {{<<SliceOf(x, a, b, c, what), hi + 1>> :
            a \in WholeIf(colon > lo, ts, lo, colon), b \in WholeIf(T(ts, colon + 1) \notin {":", "]"}, ts, colon + 1, second),
            c \in WholeIf(second < hi, ts, second + 1, hi)} : second \in FoundOr(ts, colon + 1, hi, {":"}, hi)}
IndexNode(x, i, what) == IF what = "target" THEN ArrayIndexLValueReference(x, i) ELSE ArrayIndex(x, i)
IndexTo(ts, lo, bracket, end, what) ==
  UNION {IF colon # NotFound THEN Slice(ts, x, bracket + 1, colon, end, what)
         ELSE {<<IndexNode(x, i, what), end + 1>> : i \in Whole(ts, bracket + 1, end)} :
           x \in Whole(ts, lo, bracket), colon \in FoundOr(ts, bracket + 1, end, {":"}, NotFound)}
Index(ts, lo, bracket, hi, what) == UNION {IndexTo(ts, lo, bracket, end, what) : end \in Found(ts, bracket + 1, hi, {"]"})}

\* The arguments of a call from lo to hi.  After a * argument one more token is skipped.
RECURSIVE CallArguments(_, _, _, _)
NextArgument(ts, at, comma, hi, call) ==
  IF comma < hi /\ T(ts, at) # "," THEN {} ELSE CallArguments(ts, IF comma < hi THEN at + 1 ELSE at, hi, call)
StarArgument(ts, start, comma, hi, call, field) ==
  IF call[field] # <<>> THEN {}
  ELSE UNION {NextArgument(ts, r[2] + 1, comma, hi, [call EXCEPT ![field] = <<r[1]>>]) : r \in Parsed(ts, start, comma, "value")}
Keyword(call, name, x) == IF \E k \in call.kwargs : k[1] = name THEN call ELSE [call EXCEPT !.kwargs = @ \cup {<<name, x>>}]
NamedArgument(ts, lo, comma, hi, call) ==
  UNION {NextArgument(ts, r[2], comma, hi, Keyword(call, ts[lo].s, r[1])) : r \in Parsed(ts, lo + 2, comma, "value")}
PlainArgument(ts, lo, comma, hi, call) ==
  UNION {NextArgument(ts, r[2], comma, hi, [call EXCEPT !.args = Append(@, r[1])]) : r \in Parsed(ts, lo, comma, "value")}
CallArgument(ts, lo, comma, equals, hi, call) ==
  CASE T(ts, lo) = "*" /\ T(ts, lo + 1) # "**" -> StarArgument(ts, lo + 1, comma, hi, call, "varargs")
    [] T(ts, lo) = "*" /\ T(ts, lo + 1) = "**" -> StarArgument(ts, lo + 2, comma, hi, call, "varkwargs")
    [] T(ts, lo) = "**" -> StarArgument(ts, lo + 1, comma, hi, call, "varkwargs")
    [] T(ts, lo) = "name" /\ equals = lo + 1 -> NamedArgument(ts, lo, comma, hi, call)
    [] T(ts, lo) \notin {"*", "**"} /\ equals = NotFound -> PlainArgument(ts, lo, comma, hi, call)
    [] OTHER -> {}
CallArguments(ts, lo, hi, call) ==
  IF lo >= hi THEN {<<call, lo>>}
  ELSE UNION {UNION {CallArgument(ts, lo, comma, equals, hi, call) : equals \in FoundOr(ts, lo, comma, {"="}, NotFound)} :
                comma \in CommaOr(ts, lo, hi)}
CallTo(ts, lo, paren, end) ==
  UNION {{<<call, end + 1>> : call \in UpTo(CallArguments(ts, paren + 1, end, FunctionCall(f, <<>>, {}, <<>>, <<>>)), end)} :
           f \in Whole(ts, lo, paren)}
Call(ts, lo, paren, hi) == UNION {CallTo(ts, lo, paren, end) : end \in Found(ts, paren + 1, hi, {")"})}

AttributeNode(x, name, type, what) ==
  IF what = "target" THEN AttributeLValueReference(<<x>>, name, type) ELSE AttributeLookup(x, name)
Attribute(ts, lo, dot, hi, what) ==
  {<<AttributeNode(x, ts[dot + 1].s, type, what), hi>> :
     x \in Whole(ts, lo, dot), type \in UpTo(TypeIf(what = "target", ts, dot + 2, ":"), hi)}

(***************************************************************************)
(* Constructors and comprehensions, between brackets at lo and hi - 1      *)
(***************************************************************************)
\* The variable, the source and the condition of a comprehension.
Clauses(ts, for, in, hi) ==
  UNION {{<<var, source, pred>> : var \in WholeTuple(ts, for + 1, in, "target"), source \in Whole(ts, in + 1, if),
                                  pred \in WholeIf(if < hi, ts, if + 1, hi)} : if \in FoundOr(ts, in + 1, hi, {"if"}, hi)}
ListFor(ts, lo, for, hi) ==
  UNION {{ListComprehension(x, c[1], c[2], c[3]) : x \in Whole(ts, lo, for), c \in Clauses(ts, for, in, hi)} :
           in \in Found(ts, for + 1, hi, {"in"})}
List(ts, lo, hi) ==
  UNION {IF for = NotFound THEN {ListConstructor(xs) : xs \in ExprList(ts, lo, hi, "value")} ELSE ListFor(ts, lo, for, hi) :
           for \in FoundOr(ts, lo, hi, {"for"}, NotFound)}
SetFor(ts, lo, for, c) == {SetComprehension(x, c[1], c[2], c[3]) : x \in Whole(ts, lo, for)}
DictFor(ts, lo, colon, for, c) ==
  {DictComprehension(k, x, c[1], c[2], c[3]) : k \in Whole(ts, lo, colon), x \in Whole(ts, colon + 1, for)}
SetOrDictFor(ts, lo, colon, for, in, hi) ==
  IF in < for THEN {}
  ELSE UNION {IF colon = NotFound THEN SetFor(ts, lo, for, c) ELSE DictFor(ts, lo, colon, for, c) : c \in Clauses(ts, for, in, hi)}
\* The last for and the last in are those of the comprehension.
DictOrSetOf(ts, lo, colon, outer, hi) ==
  IF Places(ts, outer, {"for"}) # {}
  THEN SetOrDictFor(ts, lo, colon, LastOf(ts, outer, {"for"}), LastOf(ts, outer, {"in"}), hi)
  ELSE IF colon = NotFound THEN {SetConstructor(xs) : xs \in ExprList(ts, lo, hi, "value")}
  ELSE {DictConstructor(xs) : xs \in DictItems(ts, lo, hi)}
DictOrSet(ts, lo, hi) ==
  IF lo = hi THEN {DictConstructor(<<>>)}
  ELSE UNION {DictOrSetOf(ts, lo, colon, Outer(ts, lo, hi), hi) : colon \in FoundOr(ts, lo, hi, {":"}, NotFound)}
Inside(ts, lo, hi) ==
  CASE T(ts, lo) = "[" -> List(ts, lo + 1, hi - 1)
    [] T(ts, lo) = "{" -> DictOrSet(ts, lo + 1, hi - 1)
    [] T(ts, lo) = "(" -> {TupleConstructor(xs) : xs \in ExprList(ts, lo + 1, hi - 1, "value")}
Bracketed(ts, lo, hi) == IF T(ts, hi - 1) # CloserOf[T(ts, lo)] THEN {} ELSE {<<x, hi>> : x \in Inside(ts, lo, hi)}

\* A name that is assigned: not a constant.
LValueName(ts, lo, hi) ==
  IF T(ts, lo) # "name" \/ ts[lo].s \in {"True", "False", "None"} THEN {}
  ELSE {<<AttributeLValueReference(<<>>, ts[lo].s, r[1]), hi>> : r \in {r \in TypeIf(TRUE, ts, lo + 1, ":") : r[2] = hi}}
Simple(ts, lo, hi) ==
  IF lo + 1 # hi THEN {}
  ELSE CASE T(ts, lo) = "integer" -> {<<IntegerConstant(ts[lo].s), hi>>}
         [] T(ts, lo) = "float"   -> {<<FloatConstant(ts[lo].s), hi>>}
         [] T(ts, lo) = "bytes"   -> {<<BytesConstant(codes), hi>> : codes \in Unescape(ts[lo].s, FALSE)}
         [] T(ts, lo) = "unicode" -> {<<UnicodeConstant(codes), hi>> : codes \in Unescape(ts[lo].s, TRUE)}
         [] IsName(ts, lo, "True")  -> {<<BoolConstant(TRUE), hi>>}
         [] IsName(ts, lo, "False") -> {<<BoolConstant(FALSE), hi>>}
         [] IsName(ts, lo, "None")  -> {<<NoneConstant, hi>>}
         [] T(ts, lo) = "name" /\ ts[lo].s \notin {"True", "False", "None"} -> {<<VariableLookup(ts[lo].s), hi>>}
         [] OTHER -> {}

Operand(ts, lo, hi, what, ref) ==
  CASE ref > lo /\ T(ts, ref) = "[" -> Index(ts, lo, ref, hi, what)
    [] ref > lo /\ T(ts, ref) = "." -> Attribute(ts, lo, ref, hi, what)
    [] ref > lo /\ T(ts, ref) = "(" /\ what = "value" -> Call(ts, lo, ref, hi)
    [] ~(ref > lo /\ T(ts, ref) \in {"[", "."}) /\ what = "target" -> LValueName(ts, lo, hi)
    [] ref <= lo /\ what = "value" -> IF lo < hi /\ T(ts, lo) \in {"[", "{", "("} THEN Bracketed(ts, lo, hi) ELSE Simple(ts, lo, hi)
Operation(ts, lo, hi, what, outer, level) ==
  CASE level = 1 -> Ternary(ts, lo, LastOf(ts, outer, {"if"}), LastOf(ts, outer, {"else"}), hi)
    [] level > Len(Infix) -> Operand(ts, lo, hi, what, LastOf(ts, outer, {"[", "(", "."}))
    [] level \in 2 .. Len(Infix) -> IF Prefix[level] # {} THEN Unary(ts, lo, hi) ELSE Binary(ts, lo, LastOf(ts, outer, Infix[level]), hi)
ExprIn(ts, lo, hi, what, outer) ==
  IF Broken \in outer THEN {}
  ELSE Operation(ts, lo, hi, what, outer, IF what = "target" THEN Len(Infix) + 1 ELSE Level(ts, lo, outer))
Expr(ts, lo, hi, what) ==
  IF what = "value" /\ T(ts, lo) = "lambda" THEN Lambda(ts, lo, hi) ELSE ExprIn(ts, lo, hi, what, Outer(ts, lo, hi))

(***************************************************************************)
(* Statements.  A suite is parsed from the place p.at; p.prev is the place *)
(* in the suite p.body of the if, for, while or try that a following else, *)
(* elif, except or finally belongs to, or 0.                               *)
(***************************************************************************)
\* parse_suite_from_colon: the statements and the place after them.
SuiteTo(ts, lo, hi, after) == {<<body, after>> : body \in UpTo(Parsed(ts, lo, hi, "suite"), hi)}
Block(ts, colon, hi) ==
  IF T(ts, colon) # ":" THEN {}
  ELSE IF T(ts, colon + 1) # "newline"
  THEN UNION {SuiteTo(ts, colon + 1, line + 1, line + 1) : line \in Found(ts, colon + 1, hi, {"newline"})}
  ELSE IF T(ts, colon + 2) # "indent" THEN {}
  ELSE UNION {SuiteTo(ts, colon + 3, inner, inner + 1) : inner \in Found(ts, colon + 3, hi, {"unindent"})}
\* The colon that ends what begins at lo.
ColonFrom(ts, lo, hi) == Found(ts, lo, hi, {":"})

Assigns == <<"=", "+=", "-=", "*=", "/=", "%=", "&=", "|=", "^=", "<<=", ">>=", "**=", "//=">>
AssignedBy(op, target, x) == IF op = "=" THEN AssignmentStatement(target, x) ELSE AugmentStatement(op, target, x)
SimpleIn(ts, lo, hi, outer, which) ==
  IF Broken \in outer THEN {}
  ELSE IF which = {} THEN {<<ExpressionStatement(r[1]), r[2]>> : r \in ExprTuple(ts, lo, hi, "value")}
  ELSE UNION {{<<AssignedBy(Assigns[Min(which)], target, r[1]), r[2]>> :
                 target \in WholeTuple(ts, lo, place, "target"), r \in ExprTuple(ts, place + 1, hi, "value")} :
                place \in FirstOf(ts, outer, {Assigns[Min(which)]}, {})}
SimpleStatement(ts, lo, hi) ==
  UNION {SimpleIn(ts, lo, hi, outer, {k \in DOMAIN Assigns : Places(ts, outer, {Assigns[k]}) # {}}) : outer \in {Outer(ts, lo, hi)}}

\* The names of an import statement, each with the one it is known by.
RECURSIVE Dotted(_, _, _)
Dotted(ts, i, name) ==
  IF T(ts, i) = "name" THEN Dotted(ts, i + 1, Append(name, ts[i].s))
  ELSE IF T(ts, i) = "." THEN Dotted(ts, i + 1, Append(name, ".")) ELSE <<name, i>>
RECURSIVE Imports(_, _, _, _)
ImportName(ts, i, dotted) == IF dotted THEN Dotted(ts, i, <<>>) ELSE IF T(ts, i) = "name" THEN <<<<ts[i].s>>, i + 1>> ELSE <<<<>>, i>>
Known(names, name, as) == IF \E n \in names : n[1] = name THEN names ELSE names \cup {<<name, as>>}
MoreImports(ts, i, names, dotted) == Imports(ts, IF T(ts, i) = "," THEN i + 1 ELSE i, names, dotted)
ImportOf(ts, name, i, names, dotted) ==
  CASE name = <<>> -> {}
    [] name # <<>> /\ T(ts, i) # "as" -> MoreImports(ts, i, Known(names, name, name), dotted)
    [] name # <<>> /\ T(ts, i) = "as" /\ T(ts, i + 1) = "name" -> MoreImports(ts, i + 2, Known(names, name, <<ts[i + 1].s>>), dotted)
    [] OTHER -> {}
Imports(ts, i, names, dotted) ==
  IF T(ts, i) = "newline" THEN {<<names, i>>}
  ELSE UNION {ImportOf(ts, read[1], read[2], names, dotted) : read \in {ImportName(ts, i, dotted)}}
Import(ts, lo) == {<<ImportStatement(r[1], {}, FALSE), r[2]>> : r \in Imports(ts, lo + 1, {}, TRUE)}
FromNode(module, names) == ImportStatement({<<module, module>>}, names, names = {})
FromModule(ts, module, i) ==
  IF module = <<>> \/ T(ts, i) # "import" \/ T(ts, i + 1) = "newline" THEN {}
  ELSE IF T(ts, i + 1) = "*" THEN {<<FromNode(module, {}), i + 2>>}
  ELSE {<<FromNode(module, r[1]), r[2]>> : r \in Imports(ts, i + 1, {}, FALSE)}
From(ts, lo) == UNION {FromModule(ts, read[1], read[2]) : read \in {Dotted(ts, lo + 1, <<>>)}}

\* parse_dynamic_list: commas are optional.
RECURSIVE NameList(_, _, _)
NameList(ts, i, names) ==
  IF T(ts, i) # "name" THEN <<names, i>>
  ELSE NameList(ts, IF T(ts, i + 1) = "," THEN i + 2 ELSE i + 1, Append(names, ts[i].s))

(***************************************************************************)
(* One statement at p.at: Line for a simple one, which a newline must      *)
(* follow, Begin for one that others may continue, Continue for those.     *)
(***************************************************************************)
Cleared(p) == [p EXCEPT !.prev = 0, !.decorators = <<>>]
Line(ts, p, results) ==
  {[Cleared(p) EXCEPT !.at = r[2] + 1, !.body = Append(@, r[1])] : r \in {r \in results : T(ts, r[2]) = "newline"}}
Begin(p, results) ==
  {[Cleared(p) EXCEPT !.at = r[2], !.body = Append(@, r[1]), !.prev = Len(p.body) + 1] : r \in results}
Definition(p, results) == {[Cleared(p) EXCEPT !.at = r[2], !.body = Append(@, r[1])] : r \in results}
Follows(p, kinds) == p.decorators = <<>> /\ p.prev > 0 /\ p.body[p.prev].s \in kinds
\* The statement that is continued becomes Node of it and of the block; kept when it
\* may be continued again.
Continue(p, kept, results, Node(_, _)) ==
  {[p EXCEPT !.at = r[2], !.body[p.prev] = Node(@, r[1]), !.prev = IF kept THEN @ ELSE 0] : r \in results}

\* A condition from lo on and the block after it.
Checked(ts, lo, hi) ==
  UNION {{<<<<check, b[1]>>, b[2]>> : check \in Whole(ts, lo, colon), b \in Block(ts, colon, hi)} : colon \in ColonFrom(ts, lo, hi)}
ForIn(ts, lo, in, hi) ==
  UNION {{<<ForStatement(var, x, b[1]), b[2]>> :
            var \in WholeTuple(ts, lo, in, "target"), x \in WholeTuple(ts, in + 1, colon, "value"), b \in Block(ts, colon, hi)} :
           colon \in ColonFrom(ts, in + 1, hi)}
For(ts, lo, hi) == UNION {ForIn(ts, lo, in, hi) : in \in Found(ts, lo, hi, {"in"})}
\* The name after mark, if that is not the end.
NameIf(ts, mark, end) ==
  CASE mark = end -> {""}
    [] mark # end /\ T(ts, mark + 1) = "name" /\ mark + 2 = end -> {ts[mark + 1].s}
    [] OTHER -> {}
ExceptTo(ts, lo, mark, colon, hi) ==
  IF mark = lo /\ mark # colon THEN {}
  ELSE {<<ExceptStatement(types, name, b[1]), b[2]>> :
          types \in WholeIf(mark > lo, ts, lo, mark), name \in NameIf(ts, mark, colon), b \in Block(ts, colon, hi)}
Except(ts, lo, hi) ==
  UNION {UNION {ExceptTo(ts, lo, mark, colon, hi) : mark \in FoundOr(ts, lo, colon, {",", "as"}, colon)} : colon \in ColonFrom(ts, lo, hi)}
DefTo(ts, p, end, type, hi) ==
  {<<FunctionDefinition(p.decorators, ts[p.at + 1].s, args, type[1], b[1]), b[2]>> :
     args \in Arguments(ts, p.at + 3, end, TRUE), b \in Block(ts, type[2], hi)}
Def(ts, p, hi) ==
  IF T(ts, p.at + 1) # "name" \/ T(ts, p.at + 2) # "(" THEN {}
  ELSE UNION {UNION {DefTo(ts, p, end, type, hi) : type \in TypeIf(TRUE, ts, end + 1, "->")} : end \in Found(ts, p.at + 3, hi, {")"})}
\* The parents between brackets at lo - 1 and end, or none.
ClassTo(ts, p, parents, after, hi) ==
  {<<ClassDefinition(p.decorators, ts[p.at + 1].s, xs, b[1]), b[2]>> : xs \in parents, b \in Block(ts, after, hi)}
Class(ts, p, line, hi) ==
  IF T(ts, p.at + 1) # "name" THEN {}
  ELSE IF T(ts, p.at + 2) # "(" THEN ClassTo(ts, p, {<<>>}, p.at + 2, hi)
  ELSE UNION {ClassTo(ts, p, ExprList(ts, p.at + 3, end, "value"), end + 1, hi) : end \in Found(ts, p.at + 3, line, {")"})}

\* The items of a with statement up to its colon.
RECURSIVE WithItems(_, _, _)
WithItem(ts, lo, as, comma, colon) ==
  {<<<<x, name>>>> \o rest : x \in Whole(ts, lo, as), name \in NameIf(ts, as, comma), rest \in WithItems(ts, AfterComma(comma, colon), colon)}
WithItems(ts, lo, colon) ==
  IF T(ts, lo) = ":" THEN {<<>>}
  ELSE UNION {UNION {WithItem(ts, lo, as, comma, colon) : as \in FoundOr(ts, lo, comma, {"as"}, comma)} : comma \in CommaOr(ts, lo, colon)}
With(ts, lo, hi) ==
  UNION {{<<WithStatement(items, b[1]), b[2]>> : items \in WithItems(ts, lo, colon), b \in Block(ts, colon, hi)} : colon \in ColonFrom(ts, lo, hi)}

\* At most so many expressions; one or none; or none, one or a tuple.
Expressions(ts, at, line, most) ==
  {<<ListStatement(T(ts, at), xs), line>> : xs \in {xs \in ExprList(ts, at + 1, line, "value") : Len(xs) <= most}}
OrNone(ts, lo, results) == IF T(ts, lo) = "newline" THEN {<<<<>>, lo>>} ELSE {<<<<r[1]>>, r[2]>> : r \in results}
Each(results, Node(_)) == {<<Node(r[1]), r[2]>> : r \in results}
Yielded(ts, lo, line, from) ==
  {<<YieldStatement(r[1], from), r[2]>> : r \in OrNone(ts, lo, Parsed(ts, lo, line, "value"))}
Globals(names) == IF names[1] = <<>> THEN {} ELSE {<<GlobalStatement(names[1]), names[2]>>}
Elif(a, b) == [a EXCEPT !.elifs = Append(@, ElifStatement(b[1], b[2]))]
Else(a, b) == [a EXCEPT !.orelse = <<b>>]
Excepted(a, b) == [a EXCEPT !.excepts = Append(@, b)]
Finally(a, b) == [a EXCEPT !.finally = <<b>>]

SimpleResults(ts, type, next, line) ==
  CASE type \in {"name", "(", "bytes", "unicode"} -> SimpleStatement(ts, next - 1, line)
    [] type = "del" -> Each(ExprTuple(ts, next, line, "target"), DeleteStatement)
    [] type \in {"pass", "break", "continue"} -> {<<BareStatement(type), next>>}
    [] type = "return" -> Each(OrNone(ts, next, ExprTuple(ts, next, line, "value")), ReturnStatement)
    [] type = "raise"  -> IF T(ts, next) = "newline" THEN {<<ListStatement("raise", <<>>), next>>} ELSE Expressions(ts, next - 1, line, 3)
    [] type = "exec"   -> Expressions(ts, next - 1, line, 3)
    [] type = "assert" -> Expressions(ts, next - 1, line, 2)
    [] type = "import" -> Import(ts, next - 1)
    [] type = "from"   -> From(ts, next - 1)
    [] type = "global" -> Globals(NameList(ts, next, <<>>))
    [] type = "yield"  -> Yielded(ts, IF T(ts, next) = "from" THEN next + 1 ELSE next, line, T(ts, next) = "from")
BeginResults(ts, type, next, hi) ==
  CASE type = "if"    -> Each(Checked(ts, next, hi), LAMBDA b : IfStatement(b[1], b[2], <<>>, <<>>))
    [] type = "while" -> Each(Checked(ts, next, hi), LAMBDA b : WhileStatement(b[1], b[2], <<>>))
    [] type = "for"   -> For(ts, next, hi)
    [] type = "try"   -> Each(Block(ts, next, hi), LAMBDA b : TryStatement(b, <<>>, <<>>, <<>>))
ContinueResults(ts, p, type, next, hi) ==
  CASE type = "elif"    -> IF Follows(p, {"if"}) THEN Continue(p, TRUE, Checked(ts, next, hi), Elif) ELSE {}
    [] type = "else"    -> IF Follows(p, {"if", "for", "while", "try"})
                           THEN Continue(p, p.body[p.prev].s = "try", Block(ts, next, hi), Else) ELSE {}
    [] type = "except"  -> IF Follows(p, {"try"}) THEN Continue(p, TRUE, Except(ts, next, hi), Excepted) ELSE {}
    [] type = "finally" -> IF Follows(p, {"try"}) THEN Continue(p, FALSE, Block(ts, next, hi), Finally) ELSE {}

\* One turn of the loop of parse_compound_statement_suite.
StatementOf(ts, p, type, next, line, hi) ==
  CASE type = "newline" -> {[p EXCEPT !.at = next]}
    [] type \in {"bytes", "unicode"} /\ T(ts, next) = "newline" -> {[Cleared(p) EXCEPT !.at = next + 1]}
    [] \/ type \in {"name", "(", "del", "pass", "break", "continue", "return", "raise", "exec", "assert", "import", "from", "global", "yield"}
       \/ type \in {"bytes", "unicode"} /\ T(ts, next) # "newline" -> Line(ts, p, SimpleResults(ts, type, next, line))
    [] type \in {"if", "while", "for", "try"} -> Begin(p, BeginResults(ts, type, next, hi))
    [] type \in {"elif", "else", "except", "finally"} -> ContinueResults(ts, p, type, next, hi)
    [] type = "def"   -> Definition(p, Def(ts, p, hi))
    [] type = "class" -> Definition(p, Class(ts, p, line, hi))
    \* A with statement clears nothing.
    [] type = "with"  -> {[p EXCEPT !.at = r[2], !.body = Append(@, r[1])] : r \in With(ts, next, hi)}
    [] type = "@"     -> {[p EXCEPT !.at = r[2] + 1, !.decorators = Append(@, r[1])] :
                            r \in {r \in Parsed(ts, next, line, "value") : T(ts, r[2]) = "newline"}}
    [] OTHER -> {}
Statement(ts, p, hi) ==
  UNION {StatementOf(ts, p, T(ts, p.at), p.at + 1, line, hi) : line \in FoundOr(ts, p.at, hi, {"newline"}, hi)}

RECURSIVE Statements(_, _, _)
Statements(ts, p, hi) ==
  IF p.at >= hi THEN IF p.decorators = <<>> THEN {<<p.body, p.at>>} ELSE {}
  ELSE UNION {Statements(ts, q, hi) : q \in Statement(ts, p, hi)}
Suite(ts, lo, hi) == Statements(ts, [at |-> lo, body |-> <<>>, prev |-> 0, decorators |-> <<>>], hi)

Parsed(ts, lo, hi, what) == IF what = "suite" THEN Suite(ts, lo, hi) ELSE Expr(ts, lo, hi, what)

\* PythonParser::PythonParser: the statements of the module.
Parse(ts) == {r[1] : r \in Parsed(ts, 1, Len(ts) + 1, "suite")}
=============================================================================
