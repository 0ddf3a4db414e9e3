-------------------------------- MODULE Value --------------------------------
(***************************************************************************)
(* What the compiler knows of a value while it analyses a program, and the *)
(* operators it applies to such values: src/source/Environment/Value.cc.   *)
(*                                                                         *)
(* A value has a type t and may be known.  A known one is, by its type, an *)
(* integer or identity n, characters chars, or items; a dictionary has its *)
(* keys too, a float is the quotient of two integers in chars.  The types  *)
(* of a collection's contents are in ext.  An item of a list or a tuple,  *)
(* or a value of a dictionary, is shared by the copies of its collection:  *)
(* cell says which one it is.  An  *)
(* operator that can throw gives the set of its results, empty when it     *)
(* throws or, as an integer division by zero does, kills the compiler.     *)
(***************************************************************************)
EXTENDS Format, Bitwise, FiniteSetsExt

Of(t, known) == [t |-> t, known |-> known, n |-> 0, chars |-> <<>>, items |-> <<>>, keys |-> <<>>, ext |-> <<>>, cell |-> <<>>]
\* The value of None is always known.
Unknown(t)      == Of(t, t = "None")
Indeterminate   == Unknown("Indeterminate")
Number(t, n)    == [Of(t, TRUE) EXCEPT !.n = n]
Bool(p)         == Number("Bool", IF p THEN 1 ELSE 0)
Float(num, den) == [Of("Float", TRUE) EXCEPT !.chars = <<num, den>>]
Text(t, chars)  == [Of(t, TRUE) EXCEPT !.chars = chars]
\* Of an instance only the class is known.
Instance(class) == [Of("Instance", FALSE) EXCEPT !.n = class]

Whole(n)       == {Number("Int", n)}

Integral(v) == v.t \in {"Bool", "Int"}
Numeric(v)  == v.t \in {"Bool", "Int", "Float"}
\* A number as a fraction.
Fraction(v) == IF v.t = "Float" THEN v.chars ELSE <<v.n, 1>>
Known(l, r) == l.known /\ r.known

TypeOnly(v) == [Of(v.t, FALSE) EXCEPT !.n = IF v.t \in {"Instance", "Class"} THEN v.n ELSE 0, !.ext = v.ext]

(***************************************************************************)
(* Comparisons of values by the compiler                                   *)
(***************************************************************************)
Below(p, q)     == p[1] * q[2] < q[1] * p[2]
SameNumber(p, q) == p[1] * q[2] = q[1] * p[2]

\* operator==: the items of lists and tuples and the values of dictionaries are
\* compared by their pointers, so what was made twice differs from itself.
RECURSIVE SameValue(_, _)
SameValue(v, w) ==
  LET Within(s, t) == \A i \in DOMAIN s : \E j \in DOMAIN t : SameValue(s[i], t[j])
      Pairs == \A i \in DOMAIN v.keys :
                 \E j \in DOMAIN w.keys : SameValue(v.keys[i], w.keys[j]) /\ v.items[i].cell = w.items[j].cell
  IN  /\ v.t = w.t /\ v.known = w.known
      /\ ~v.known => (v.t = "Instance" => v.n = w.n)
      /\ v.known =>
           CASE v.t = "Float" -> SameNumber(v.chars, w.chars)
             [] v.t \in {"Bytes", "Unicode", "Module"} -> v.chars = w.chars
             [] v.t \in {"List", "Tuple"} ->
                  Len(v.items) = Len(w.items) /\ \A i \in DOMAIN v.items : v.items[i].cell = w.items[i].cell
             [] v.t = "Set"  -> Len(v.items) = Len(w.items) /\ Within(v.items, w.items)
             [] v.t = "Dict" -> Len(v.keys) = Len(w.keys) /\ Pairs
             [] OTHER -> v.n = w.n
Among(v, s) == \E i \in DOMAIN s : SameValue(v, s[i])

\* types_equal
TypesEqual(v, w) ==
  v.t = w.t /\ IF v.t = "Instance" THEN v.n = w.n
               ELSE Len(v.ext) = Len(w.ext) /\ \A i \in DOMAIN v.ext : SameValue(v.ext[i], w.ext[i])

TruthValue(v) ==
  CASE v.t = "None"  -> FALSE
    [] v.t \in {"Bool", "Int"} -> v.n # 0
    [] v.t = "Float" -> v.chars[1] # 0
    [] v.t \in {"Bytes", "Unicode"} -> v.chars # <<>>
    [] v.t \in {"List", "Tuple", "Set", "Dict"} -> v.items # <<>>
    [] OTHER -> TRUE

(***************************************************************************)
(* Collections: the types of their contents.  A type that was found to vary*)
(* differs from every other one.                                           *)
(***************************************************************************)
CommonType(s) == IF s # <<>> /\ \A i \in DOMAIN s : SameValue(TypeOnly(s[1]), TypeOnly(s[i]))
                 THEN TypeOnly(s[1]) ELSE Indeterminate
Types(s) == [i \in DOMAIN s |-> TypeOnly(s[i])]
Collection(t, items) == [Of(t, TRUE) EXCEPT !.items = items, !.ext = IF t = "Tuple" THEN Types(items) ELSE <<CommonType(items)>>]
\* What has no hash cannot be in a set, nor be a key.
RECURSIVE Hashable(_)
Hashable(v) == v.known => /\ v.t \notin {"List", "Set", "Dict"}
                          /\ v.t = "Tuple" => \A i \in DOMAIN v.items : Hashable(v.items[i])
Distinct(s) == FoldLeft(LAMBDA r, v : IF Among(v, r) THEN r ELSE Append(r, v), <<>>, s)
SetOf(s) == Collection("Set", Distinct(s))
\* Of two items with the same key the first is kept.
DictOf(keys, items) ==
  LET First(i) == ~\E j \in 1 .. i - 1 : SameValue(keys[j], keys[i])
      kept  == SelectSeq([i \in DOMAIN keys |-> i], First)
      ks    == [i \in DOMAIN kept |-> keys[kept[i]]]
      xs    == [i \in DOMAIN kept |-> items[kept[i]]]
  IN  [Of("Dict", TRUE) EXCEPT !.keys = ks, !.items = xs, !.ext = <<CommonType(ks), CommonType(xs)>>]

(***************************************************************************)
(* Operators                                                               *)
(***************************************************************************)
\* execute_unary_operator
ExecuteUnary(op, v) ==
  LET Negated(w) == IF w.t = "Float" THEN Float(-w.chars[1], w.chars[2]) ELSE Number("Int", -w.n)
      Only(t, w) == IF v.known THEN {w} ELSE {Unknown(t)}
  IN  CASE op = "not" -> Only("Bool", Bool(~TruthValue(v)))
        [] op = "~" -> IF v.t = "Indeterminate" THEN {Unknown("Int")}
                       ELSE IF Integral(v) THEN Only("Int", Number("Int", -v.n - 1)) ELSE {}
        [] op = "+" -> IF v.t = "Bool" THEN Only("Int", Number("Int", v.n))
                       ELSE IF Numeric(v) \/ v.t = "Indeterminate" THEN {v} ELSE {}
        [] op = "-" -> IF v.t = "Indeterminate" THEN {v}
                       ELSE IF Numeric(v) THEN Only(IF v.t = "Float" THEN "Float" ELSE "Int", Negated(v)) ELSE {}

\* and, or
Choice(l, r, WhenLeft(_)) ==
  IF l.known THEN IF WhenLeft(l) THEN l ELSE r
  ELSE IF l.t \in {"Function", "Class", "Module"} THEN IF WhenLeft(Bool(TRUE)) THEN l ELSE r
  ELSE IF l.t = r.t THEN Unknown(l.t) ELSE Indeterminate
LogicalOr(l, r)  == Choice(l, r, TruthValue)
LogicalAnd(l, r) == Choice(l, r, LAMBDA v : ~TruthValue(v))
Inverted(results) == UNION {ExecuteUnary("not", v) : v \in results}

\* Characters or numbers in lexicographic order.
Lexicographic(s, t) ==
  \/ \E i \in DOMAIN s \cap DOMAIN t : s[i] < t[i] /\ SubSeq(s, 1, i - 1) = SubSeq(t, 1, i - 1)
  \/ Len(s) < Len(t) /\ SubSeq(t, 1, Len(s)) = s

RECURSIVE Equality(_, _)
Equality(l, r) ==
  LET Each(i) == Equality(l.items[i], r.items[i])
      Stops(i) == \A v \in Each(i) : ~v.known \/ v.n = 0
      stop == SelectInSeq([i \in DOMAIN l.items |-> i], Stops)
  IN  IF ~Known(l, r) THEN {Unknown("Bool")}
      ELSE IF Numeric(l) THEN {Bool(Numeric(r) /\ SameNumber(Fraction(l), Fraction(r)))}
      ELSE IF l.t # r.t THEN {Bool(FALSE)}
      ELSE CASE l.t \in {"Bytes", "Unicode"} -> {Bool(l.chars = r.chars)}
             [] l.t \in {"List", "Tuple"} -> IF Len(l.items) # Len(r.items) THEN {Bool(FALSE)}
                                             ELSE IF stop = 0 THEN {Bool(TRUE)} ELSE Each(stop)
             [] OTHER -> {}

\* The first of two that is known to be true, or unknown, else the second.
Either(results, others) == {LogicalOr(v, w) : v \in results, w \in others}
RECURSIVE LessThan(_, _)
LessThan(l, r) ==
  LET Less(i) == LessThan(l.items[i], r.items[i])
      More(i) == Inverted(Either(Less(i), Equality(l.items[i], r.items[i])))
      \* The comparison is decided, or given up, at item i.
      Decides(i) == \E v \in Less(i) : ~v.known \/ v.n = 1 \/ \E w \in More(i) : ~w.known \/ w.n = 1
      Throws(i) == Less(i) = {} \/ More(i) = {}
      common == [i \in 1 .. (IF Len(l.items) < Len(r.items) THEN Len(l.items) ELSE Len(r.items)) |-> i]
      stop == SelectInSeq(common, LAMBDA i : Throws(i) \/ Decides(i))
  IN  IF ~Known(l, r) THEN {Unknown("Bool")}
      ELSE IF Numeric(l) THEN IF Numeric(r) THEN {Bool(Below(Fraction(l), Fraction(r)))} ELSE {}
      ELSE IF l.t # r.t THEN {}
      ELSE CASE l.t \in {"Bytes", "Unicode"} -> {Bool(Lexicographic(l.chars, r.chars))}
             [] l.t \in {"List", "Tuple"} ->
                  IF stop = 0 THEN {Bool(Len(l.items) < Len(r.items))}
                  ELSE IF Throws(stop) THEN {}
                  ELSE IF \E v \in Less(stop) : v.known /\ v.n = 0
                  THEN {IF w.known THEN Bool(FALSE) ELSE w : w \in More(stop)} ELSE Less(stop)
             [] OTHER -> {}

Inside(l, r) ==
  LET Each(i) == Equality(l, r.items[i])
      Stops(i) == \A v \in Each(i) : ~v.known \/ v.n = 1
      stop == SelectInSeq([i \in DOMAIN r.items |-> i], Stops)
  IN  CASE r.t = "Indeterminate" -> {r}
        [] r.t \in {"Bytes", "Unicode"} ->
             IF l.t # r.t THEN {}
             ELSE IF l.known /\ l.chars = <<>> THEN {Bool(TRUE)}
             ELSE IF ~Known(l, r) THEN {Unknown("Bool")}
             ELSE {Bool(\E i \in 1 .. Len(r.chars) - Len(l.chars) + 1 : SubSeq(r.chars, i, i + Len(l.chars) - 1) = l.chars)}
        [] r.t \in {"List", "Tuple", "Set", "Dict"} ->
             IF r.known /\ r.items = <<>> THEN {Bool(FALSE)}
             ELSE IF ~Known(l, r) THEN {Unknown("Bool")}
             ELSE IF r.t \in {"Set", "Dict"}
             THEN IF Hashable(l) THEN {Bool(Among(l, IF r.t = "Set" THEN r.items ELSE r.keys))} ELSE {}
             ELSE IF stop = 0 THEN {Bool(FALSE)} ELSE Each(stop)
        [] OTHER -> {}

\* The bits of a negative number are those of its complement, inverted.
AndBits(m, n) == CASE m >= 0 /\ n >= 0 -> m & n
                   [] m >= 0 /\ n < 0  -> m - (m & (-n - 1))
                   [] m < 0 /\ n >= 0  -> n - (n & (-m - 1))
                   [] m < 0 /\ n < 0   -> -((-m - 1) | (-n - 1)) - 1
OrBits(m, n)  == m + n - AndBits(m, n)
\* |, & and ^ of numbers: the result is a Bool when the left operand is one.
IntBits(op, m, n) == CASE op = "&" -> AndBits(m, n) [] op = "|" -> OrBits(m, n) [] op = "^" -> OrBits(m, n) - AndBits(m, n)
Bits(op, l, r) ==
  LET Has(p) == \E v \in {l, r} : v.known /\ (v.n # 0) = p
  IN  IF ~Integral(l) \/ ~Integral(r) THEN {}
      ELSE IF l.t = "Int" THEN IF Known(l, r) THEN Whole(IntBits(op, l.n, r.n)) ELSE {Unknown("Int")}
      ELSE IF op = "|" /\ Has(TRUE) THEN {Bool(TRUE)}
      ELSE IF op = "&" /\ Has(FALSE) THEN {Bool(FALSE)}
      ELSE IF ~Known(l, r) THEN {Unknown("Bool")}
      ELSE {Bool(op = "&" \/ (op = "^" /\ l.n # r.n))}

\* The intersection steps over an element after each one it examines; with an odd
\* number of them it steps past the end.
Intersection(l, r) ==
  LET n == Len(l.items)
      Unexamined == {S \in SUBSET DOMAIN l.items : 2 * Cardinality(S) = n}
      Kept(S) == {i \in DOMAIN l.items : i \in S \/ Among(l.items[i], r.items)}
  IN  {SetOf([k \in 1 .. Cardinality(Kept(S)) |-> l.items[SetToSortSeq(Kept(S), <)[k]]]) : S \in Unexamined}
Sets(op, l, r) ==
  LET Outside(s, t) == SelectSeq(s, LAMBDA v : ~Among(v, t))
  IN  IF ~Known(l, r) THEN {Unknown("Set")}
      ELSE CASE op = "|" -> {SetOf(l.items \o r.items)}
             [] op = "&" -> Intersection(l, r)
             [] op = "^" -> {SetOf(Outside(l.items, r.items) \o Outside(r.items, l.items))}
             [] op = "-" -> {SetOf(Outside(l.items, r.items))}

\* A number of two: an integer of integers, otherwise a float.
Arithmetic(l, r, Ints(_, _), Floats(_, _)) ==
  IF ~Numeric(l) \/ ~Numeric(r) THEN {}
  ELSE IF Integral(l) /\ Integral(r) THEN IF Known(l, r) THEN Ints(l.n, r.n) ELSE {Unknown("Int")}
  ELSE IF Known(l, r) THEN Floats(Fraction(l), Fraction(r)) ELSE {Unknown("Float")}
Added(p, q)    == {Float(p[1] * q[2] + q[1] * p[2], p[2] * q[2])}
Times(p, q)    == {Float(p[1] * q[1], p[2] * q[2])}
\* The quotient of two doubles; of zero it is no number.
Quotient(p, q) == {IF q[1] >= 0 THEN Float(p[1] * q[2], p[2] * q[1]) ELSE Float(-p[1] * q[2], p[2] * (-q[1]))}
\* C++ division rounds towards zero, and the remainder has the dividend's sign.
Magnitude(n) == IF n < 0 THEN -n ELSE n
Truncated(m, n) == IF (m < 0) = (n < 0) THEN Magnitude(m) \div Magnitude(n) ELSE -(Magnitude(m) \div Magnitude(n))
Remainder(m, n) == m - n * Truncated(m, n)
Floors(p, q) == {IF v.chars[2] = 0 THEN v ELSE Float(v.chars[1] \div v.chars[2], 1) : v \in Quotient(p, q)}
Fmod(p, q) == IF q[1] = 0 THEN {Float(0, 0)} ELSE {Float(Remainder(p[1] * q[2], q[1] * p[2]), p[2] * q[2])}

Addition(l, r) ==
  IF l.t \in {"Bytes", "Unicode"}
  THEN IF r.t # l.t THEN {} ELSE IF Known(l, r) THEN {Text(l.t, l.chars \o r.chars)} ELSE {Unknown(l.t)}
  \* The contents are read although they may be unknown: a null pointer.
  ELSE IF l.t \in {"List", "Tuple"} THEN IF r.t = l.t /\ Known(l, r) THEN {Collection(l.t, l.items \o r.items)} ELSE {}
  ELSE Arithmetic(l, r, LAMBDA m, n : Whole(m + n), Added)

Repeated(list, times) ==
  IF ~Integral(times) THEN {}
  ELSE IF (list.known /\ list.items = <<>>) \/ (times.known /\ times.n = 0) THEN {Collection(list.t, <<>>)}
  ELSE IF times.known /\ times.n = 1 THEN {list}
  ELSE IF ~Known(list, times) THEN {Unknown(list.t)}
  ELSE IF times.n < 0 THEN {}
  ELSE {Collection(list.t, FlattenSeq([k \in 1 .. times.n |-> list.items]))}
Multiplication(l, r) ==
  IF l.t \in {"List", "Tuple"} THEN Repeated(l, r)
  ELSE IF r.t \in {"List", "Tuple"} THEN Repeated(r, l)
  ELSE Arithmetic(l, r, LAMBDA m, n : Whole(m * n), Times)
Division(l, r) == IF Integral(l) /\ Integral(r) /\ ~Known(l, r) THEN {Unknown("Float")}
                  ELSE Arithmetic(l, r, LAMBDA m, n : Quotient(<<m, 1>>, <<n, 1>>), Quotient)

\* A double to an integral power; of another power nothing is known here.
Power(p, q) == IF q[1] = 0 THEN {Float(1, 1)}
               ELSE IF q[1] % q[2] # 0 THEN {Unknown("Float")}
               ELSE IF q[1] >= 0 THEN {Float(p[1] ^ (q[1] \div q[2]), p[2] ^ (q[1] \div q[2]))}
               ELSE Quotient(<<1, 1>>, <<p[1] ^ (-(q[1] \div q[2])), p[2] ^ (-(q[1] \div q[2]))>>)
Exponentiation(l, r) ==
  \* A negative power of an integer is truncated.
  LET Raised(m, n) == IF n >= 0 THEN Whole(m ^ n)
                     ELSE IF m = 0 THEN {Unknown("Int")}
                     ELSE IF m = -1 THEN Whole((-1) ^ (-n)) ELSE Whole(0)
  IN  IF Integral(l) /\ Integral(r) /\ ((r.known /\ r.n = 0) \/ (l.known /\ l.n = 1)) THEN Whole(1)
      ELSE Arithmetic(l, r, Raised, Power)

Shift(l, r, Shifted(_, _)) ==
  IF ~Integral(l) \/ ~Integral(r) THEN {}
  ELSE IF Known(l, r) /\ r.n >= 0 THEN Whole(Shifted(l.n, r.n)) ELSE {Unknown("Int")}
LeftShift(l, r)  == Shift(l, r, LAMBDA m, n : m * 2 ^ n)
RightShift(l, r) == Shift(l, r, LAMBDA m, n : m \div 2 ^ n)
Modulus(l, r) ==
  LET types == IF r.t = "Tuple" THEN r.ext ELSE <<r>>
  IN  IF l.t \in {"Bytes", "Unicode"} THEN IF l.known /\ TypecheckFormat(l.chars, types) THEN {Unknown(l.t)} ELSE {}
      ELSE Arithmetic(l, r, LAMBDA m, n : IF n = 0 THEN {} ELSE Whole(Remainder(m, n)), Fmod)
IntegerDivision(l, r) == Arithmetic(l, r, LAMBDA m, n : IF n = 0 THEN {} ELSE Whole(Truncated(m, n)), Floors)
Subtraction(l, r) == UNION {Addition(l, v) : v \in ExecuteUnary("-", r)}

\* execute_binary_operator
ExecuteBinary(op, l, r) ==
  CASE op = "or"  -> {LogicalOr(l, r)}
    [] op = "and" -> {LogicalAnd(l, r)}
    [] op = "<"   -> LessThan(l, r)
    [] op = ">="  -> Inverted(LessThan(l, r))
    [] op = "<="  -> Either(LessThan(l, r), Equality(l, r))
    [] op = ">"   -> Inverted(Either(LessThan(l, r), Equality(l, r)))
    [] op \in {"==", "is"}     -> Equality(l, r)
    [] op \in {"!=", "is not"} -> Inverted(Equality(l, r))
    [] op = "in"     -> Inside(l, r)
    [] op = "not in" -> Inverted(Inside(l, r))
    [] op \in {"|", "&", "^", "-"} /\ l.t = "Set" /\ r.t = "Set" -> Sets(op, l, r)
    [] op \in {"|", "&", "^", "<<", ">>", "+", "-", "*", "/", "%", "//", "**"} /\ ~(l.t = "Set" /\ r.t = "Set") ->
         IF l.t = "Indeterminate" \/ r.t = "Indeterminate" THEN {Indeterminate}
         ELSE CASE op \in {"|", "&", "^"} -> Bits(op, l, r)
                [] op = "<<" -> LeftShift(l, r)
                [] op = ">>" -> RightShift(l, r)
                [] op = "+"  -> Addition(l, r)
                [] op = "-"  -> Subtraction(l, r)
                [] op = "*"  -> Multiplication(l, r)
                [] op = "/"  -> Division(l, r)
                [] op = "%"  -> Modulus(l, r)
                [] op = "//" -> IntegerDivision(l, r)
                [] op = "**" -> Exponentiation(l, r)
    [] OTHER -> {}

\* execute_ternary_operator
ExecuteTernary(x, c, y) ==
  IF c.known THEN {IF TruthValue(c) THEN x ELSE y}
  ELSE {IF same.known /\ same.n = 1 THEN x ELSE IF x.t = y.t THEN Unknown(x.t) ELSE Indeterminate : same \in Equality(x, y)}
=============================================================================
