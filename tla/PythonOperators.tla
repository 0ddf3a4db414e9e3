---------------------------- MODULE PythonOperators ----------------------------
(***************************************************************************)
(* The operators of Python, from its reference: what the values are that   *)
(* they give.  Nothing here is the compiler's; a value has the form of a   *)
(* known one of module Value.  No result is an exception.                  *)
(***************************************************************************)
EXTENDS Value

Truthy(v) == CASE v.t = "None" -> FALSE
               [] v.t \in {"Bool", "Int"} -> v.n # 0
               [] v.t = "Float" -> v.chars[1] # 0
               [] v.t \in {"Bytes", "Unicode"} -> Len(v.chars) > 0
               [] v.t \in {"List", "Tuple", "Set", "Dict"} -> Len(v.items) > 0
               [] OTHER -> TRUE
IsNumber(v) == v.t \in {"Bool", "Int", "Float"}
Num(v) == IF v.t = "Float" THEN v.chars[1] ELSE v.n
Den(v) == IF v.t = "Float" THEN v.chars[2] ELSE 1
RECURSIVE Same(_, _)
Same(v, w) ==
  IF IsNumber(v) /\ IsNumber(w) THEN Num(v) * Den(w) = Num(w) * Den(v)
  ELSE v.t = w.t /\ CASE v.t \in {"Bytes", "Unicode", "Function", "Class"} -> v.chars = w.chars
                      [] v.t \in {"List", "Tuple"} -> Len(v.items) = Len(w.items) /\ \A i \in DOMAIN v.items : Same(v.items[i], w.items[i])
                      [] v.t \in {"Set", "Dict"} ->
                           /\ Len(v.items) = Len(w.items)
                           /\ \A i \in DOMAIN v.items : \E j \in DOMAIN w.items :
                                Same(v.items[i], w.items[j]) /\ (v.t = "Dict" => Same(v.keys[i], w.keys[j]))
                      [] OTHER -> v.n = w.n
Holds(s, v) == \E i \in DOMAIN s : Same(s[i], v)
\* The place of the first difference, and the order it gives.
RECURSIVE Before(_, _)
Before(v, w) ==
  LET s == IF v.t \in {"Bytes", "Unicode"} THEN [i \in DOMAIN v.chars |-> Number("Int", v.chars[i])] ELSE v.items
      t == IF v.t \in {"Bytes", "Unicode"} THEN [i \in DOMAIN w.chars |-> Number("Int", w.chars[i])] ELSE w.items
      differs == {i \in DOMAIN s \cap DOMAIN t : ~Same(s[i], t[i])}
  IN  IF IsNumber(v) THEN Num(v) * Den(w) < Num(w) * Den(v)
      ELSE IF differs = {} THEN Len(s) < Len(t)
      ELSE LET i == CHOOSE i \in differs : \A j \in differs : i <= j IN Before(s[i], t[i])
Ordered(v, w) == (IsNumber(v) /\ IsNumber(w)) \/ (v.t = w.t /\ v.t \in {"Bytes", "Unicode", "List", "Tuple"})

FloorDiv(m, n) == IF n > 0 THEN m \div n ELSE (-m) \div (-n)
Raise(m, n) == IF n = 0 THEN 1 ELSE m ^ n
Fraction2(num, den) == IF den > 0 THEN Float(num, den) ELSE Float(-num, -den)
IntegerOp(op, m, n) ==
  CASE op = "+"  -> {Number("Int", m + n)}
    [] op = "-"  -> {Number("Int", m - n)}
    [] op = "*"  -> {Number("Int", m * n)}
    [] op = "/"  -> IF n = 0 THEN {} ELSE {Fraction2(m, n)}
    [] op = "//" -> IF n = 0 THEN {} ELSE {Number("Int", FloorDiv(m, n))}
    [] op = "%"  -> IF n = 0 THEN {} ELSE {Number("Int", m - n * FloorDiv(m, n))}
    [] op = "**" -> IF n >= 0 THEN {Number("Int", Raise(m, n))} ELSE IF m = 0 THEN {} ELSE {Fraction2(1, m ^ (-n))}
    [] op = "<<" -> IF n < 0 THEN {} ELSE {Number("Int", m * 2 ^ n)}
    [] op = ">>" -> IF n < 0 THEN {} ELSE {Number("Int", m \div 2 ^ n)}
    [] OTHER -> {}
\* A bit of a number in two's complement; eight are enough here.
Bit(n, k) == (n \div 2 ^ k) % 2
FromBits(Has(_)) == FoldLeft(LAMBDA n, k : n + IF Has(k) = 1 THEN IF k = 7 THEN -128 ELSE 2 ^ k ELSE 0, 0, <<0, 1, 2, 3, 4, 5, 6, 7>>)
Bitwise2(op, m, n) ==
  FromBits(LAMBDA k : CASE op = "&" -> Bit(m, k) * Bit(n, k)
                        [] op = "|" -> IF Bit(m, k) + Bit(n, k) > 0 THEN 1 ELSE 0
                        [] op = "^" -> (Bit(m, k) + Bit(n, k)) % 2)
RationalOp(op, a, b, c, d) ==
  LET q == FloorDiv(a * d, b * c)
  IN  CASE op = "+"  -> {Float(a * d + c * b, b * d)}
        [] op = "-"  -> {Float(a * d - c * b, b * d)}
        [] op = "*"  -> {Float(a * c, b * d)}
        [] op = "/"  -> IF c = 0 THEN {} ELSE {Fraction2(a * d, b * c)}
        [] op = "//" -> IF c = 0 THEN {} ELSE {Float(q, 1)}
        [] op = "%"  -> IF c = 0 THEN {} ELSE {Float(a * d - q * c * b, b * d)}
        [] op = "**" -> IF d # 1 \/ c < 0 THEN {} ELSE {Float(Raise(a, c), Raise(b, c))}
        [] OTHER -> {}

Plain(t, items) == [Of(t, TRUE) EXCEPT !.items = items]
Times2(s, n) == IF n <= 0 THEN <<>> ELSE FlattenSeq([k \in 1 .. n |-> s])
SequenceOp(op, v, w) ==
  CASE op = "+" /\ v.t = w.t /\ v.t \in {"Bytes", "Unicode"} -> {Text(v.t, v.chars \o w.chars)}
    [] op = "+" /\ v.t = w.t /\ v.t \in {"List", "Tuple"}    -> {Plain(v.t, v.items \o w.items)}
    [] op = "*" /\ w.t \in {"Bool", "Int"} /\ v.t \in {"Bytes", "Unicode"} -> {Text(v.t, Times2(v.chars, w.n))}
    [] op = "*" /\ w.t \in {"Bool", "Int"} /\ v.t \in {"List", "Tuple"}    -> {Plain(v.t, Times2(v.items, w.n))}
    [] OTHER -> {}
SetOp(op, v, w) ==
  LET Kept(p, Test(_)) == SelectSeq(p.items, Test)
      new == Kept(w, LAMBDA x : ~Holds(v.items, x))
  IN  CASE op = "|" -> {Plain("Set", v.items \o new)}
        [] op = "&" -> {Plain("Set", Kept(v, LAMBDA x : Holds(w.items, x)))}
        [] op = "-" -> {Plain("Set", Kept(v, LAMBDA x : ~Holds(w.items, x)))}
        [] op = "^" -> {Plain("Set", Kept(v, LAMBDA x : ~Holds(w.items, x)) \o new)}
        [] OTHER -> {}
Membership(v, w) ==
  CASE w.t \in {"List", "Tuple", "Set"} -> {Bool(Holds(w.items, v))}
    [] w.t = "Dict" -> {Bool(Holds(w.keys, v))}
    [] w.t \in {"Bytes", "Unicode"} /\ v.t = w.t ->
         {Bool(\E i \in 0 .. Len(w.chars) - Len(v.chars) : SubSeq(w.chars, i + 1, i + Len(v.chars)) = v.chars)}
    [] OTHER -> {}
Opposite(results) == {Bool(~Truthy(v)) : v \in results}

\* A binary operator; no result is an exception.
Apply(op, v, w) ==
  CASE op = "<"  -> IF Ordered(v, w) THEN {Bool(Before(v, w))} ELSE {}
    [] op = ">"  -> IF Ordered(v, w) THEN {Bool(Before(w, v))} ELSE {}
    [] op = "<=" -> IF Ordered(v, w) THEN {Bool(Before(v, w) \/ Same(v, w))} ELSE {}
    [] op = ">=" -> IF Ordered(v, w) THEN {Bool(Before(w, v) \/ Same(v, w))} ELSE {}
    [] op \in {"==", "is"} -> {Bool(Same(v, w))}
    [] op \in {"!=", "is not"} -> {Bool(~Same(v, w))}
    [] op = "in" -> Membership(v, w)
    [] op = "not in" -> Opposite(Membership(v, w))
    [] op \in {"&", "|", "^"} /\ IsNumber(v) /\ IsNumber(w) ->
         IF "Float" \in {v.t, w.t} THEN {}
         ELSE {Number(IF v.t = "Bool" /\ w.t = "Bool" THEN "Bool" ELSE "Int", Bitwise2(op, v.n, w.n))}
    [] v.t = "Set" /\ w.t = "Set" /\ op \in {"&", "|", "^", "-"} -> SetOp(op, v, w)
    [] op \in {"+", "-", "*", "/", "//", "%", "**", "<<", ">>"} /\ IsNumber(v) /\ IsNumber(w) ->
         IF "Float" \in {v.t, w.t} THEN RationalOp(op, Num(v), Den(v), Num(w), Den(w)) ELSE IntegerOp(op, v.n, w.n)
    [] op \in {"+", "*"} /\ ~IsNumber(v) -> SequenceOp(op, v, w)
    [] op = "*" /\ IsNumber(v) /\ ~IsNumber(w) -> SequenceOp(op, w, v)
    [] OTHER -> {}
ApplyUnary(op, v) ==
  CASE op = "not" -> {Bool(~Truthy(v))}
    [] op = "-" /\ IsNumber(v) -> {IF v.t = "Float" THEN Float(-Num(v), Den(v)) ELSE Number("Int", -v.n)}
    [] op = "+" /\ IsNumber(v) -> {IF v.t = "Float" THEN v ELSE Number("Int", v.n)}
    [] op = "~" /\ v.t \in {"Bool", "Int"} -> {Number("Int", -1 - v.n)}
    [] OTHER -> {}
=============================================================================
