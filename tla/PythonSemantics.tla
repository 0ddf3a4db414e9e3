--------------------------- MODULE PythonSemantics ---------------------------
(***************************************************************************)
(* What the programs of CompiledCode mean: Python as its reference says,   *)
(* with no compiler, no registers and no references.                       *)
(*                                                                         *)
(* A value is a tuple of its type and its content; <<"Instance", n>> is    *)
(* the n-th object.  A state is a record: g and l (the global and local    *)
(* variables), objects, and how: "next", or "raise", "return", "break",    *)
(* "continue" with the exception or the returned value in value.           *)
(***************************************************************************)
EXTENDS Integers, Sequences, SequencesExt

IntV(n)  == <<"Int", n>>
BoolV(p) == <<"Bool", IF p THEN 1 ELSE 0>>
NoneV    == <<"None">>
Tag(x)   == x[1]
Numeric(x) == Tag(x) \in {"Int", "Bool"}

Truthy(x) == CASE Tag(x) = "None" -> FALSE
               [] Tag(x) \in {"Int", "Bool", "Float"} -> x[2] # 0
               [] Tag(x) = "Instance" -> TRUE
               [] OTHER -> x[2] # <<>>

Go(s)    == s.how = "next"
Give(s, x) == [s EXCEPT !.value = x]
\* A built-in exception is an object whose attribute is its message.
RaiseNew(s, class) == [s EXCEPT !.objects = Append(@, [class |-> class, attrs |-> <<<<"Unicode", <<>>>>>>]),
                                !.how = "raise", !.value = <<"Instance", Len(s.objects) + 1>>]

(***************************************************************************)
(* Operators.  Floats have one decimal place, truncated towards zero.      *)
(***************************************************************************)
Tenths(x) == IF Tag(x) = "Float" THEN x[2] ELSE 10 * x[2]
Toward0(a, b) == LET q == (IF a < 0 THEN -a ELSE a) \div (IF b < 0 THEN -b ELSE b)
                 IN  IF (a < 0) = (b < 0) THEN q ELSE -q
RECURSIVE Raised(_, _)
Raised(x, n) == IF n = 0 THEN 1 ELSE x * Raised(x, n - 1)
RECURSIVE RaisedFloat(_, _)
RaisedFloat(x, n) == IF n = 0 THEN 10 ELSE Toward0(x * RaisedFloat(x, n - 1), 10)
RECURSIVE BitOp(_, _, _, _)
BitOp(op, x, y, n) ==
  LET a == x % 2
      b == y % 2
      bit == CASE op = "&" -> a * b [] op = "|" -> a + b - a * b [] op = "^" -> (a + b) % 2
  IN  IF n = 0 THEN IF bit = 1 THEN -1 ELSE 0 ELSE bit + 2 * BitOp(op, x \div 2, y \div 2, n - 1)

Ordered(op, d) == CASE op = "lt" -> d < 0 [] op = "le" -> d <= 0 [] op = "gt" -> d > 0
                    [] op = "ge" -> d >= 0 [] op = "eq" -> d = 0 [] op = "ne" -> d # 0
RECURSIVE StringOrder(_, _)
StringOrder(a, b) ==
  IF a = b THEN 0
  ELSE IF a = <<>> THEN -1
  ELSE IF b = <<>> THEN 1
  ELSE IF Head(a) = Head(b) THEN StringOrder(Tail(a), Tail(b)) ELSE Head(a) - Head(b)
Occurs(a, b) == \E i \in 0 .. Len(b) - Len(a) : SubSeq(b, i + 1, i + Len(a)) = a

RECURSIVE FormatString(_, _)
FormatString(format, parts) ==
  IF format = <<>> THEN <<>>
  ELSE IF Head(format) = 0 THEN Head(parts) \o FormatString(Tail(format), Tail(parts))
  ELSE <<Head(format)>> \o FormatString(Tail(format), parts)

Apply(s, op, x, y) ==
  LET floats == "Float" \in {Tag(x), Tag(y)}
      a == x[2]
      b == y[2]
      A == Tenths(x)
      B == Tenths(y)
  IN
  CASE op \in {"lt", "le", "gt", "ge", "eq", "ne"} ->
         Give(s, BoolV(Ordered(op, IF Tag(x) = "Unicode" THEN StringOrder(a, b) ELSE A - B)))
    [] op \in {"in", "not in"} -> Give(s, BoolV(Occurs(a, b) = (op = "in")))
    [] op \in {"is", "is not"} -> Give(s, BoolV((x = y) = (op = "is")))
    [] op \in {"&", "|", "^"}  -> Give(s, IntV(BitOp(op, a, b, 18)))
    [] op = "<<" -> Give(s, IntV(a * 2 ^ b))
    [] op = ">>" -> Give(s, IntV(a \div 2 ^ b))
    [] op = "/"  -> Give(s, <<"Float", IF B = 0 THEN 0 ELSE Toward0(A * 10, B)>>)
    [] op = "%" /\ Tag(x) = "Unicode" ->
         Give(s, <<"Unicode", FormatString(a, IF Tag(y) = "Tuple" THEN [i \in DOMAIN b |-> b[i][2]] ELSE <<b>>)>>)
    [] op = "**" /\ ~floats -> IF b < 0 THEN RaiseNew(s, "ValueError") ELSE Give(s, IntV(Raised(a, b)))
    [] op = "**" -> Give(s, <<"Float", RaisedFloat(A, B \div 10)>>)
    [] floats -> Give(s, <<"Float", CASE op = "+" -> A + B [] op = "-" -> A - B
                                      [] op = "*" -> Toward0(A * B, 10)
                                      [] op = "//" -> 10 * (A \div B)
                                      [] op = "%" -> A - B * (A \div B)>>)
    [] Tag(x) = "Unicode" -> Give(s, <<"Unicode", a \o b>>)
    [] OTHER -> Give(s, IntV(CASE op = "+" -> a + b [] op = "-" -> a - b [] op = "*" -> a * b
                               [] op = "//" -> a \div b [] op = "%" -> a % b))

ApplyOne(op, x) == CASE op = "not" -> BoolV(~Truthy(x))
                     [] op = "~"   -> IntV(-1 - x[2])
                     [] op = "+"   -> IF Tag(x) = "Float" THEN x ELSE IntV(x[2])
                     [] op = "-"   -> IF Tag(x) = "Float" THEN <<"Float", -x[2]>> ELSE IntV(-x[2])

(***************************************************************************)
(* Expressions and statements of program p                                 *)
(***************************************************************************)
RECURSIVE Do(_, _, _)

\* Does what is in seq, a step at a time, until one leaves it.
RECURSIVE Run(_, _, _)
Run(p, s, suite) == IF ~Go(s) \/ suite = <<>> THEN s ELSE Run(p, Do(p, s, Head(suite)), Tail(suite))
If(s, next(_)) == IF Go(s) THEN next(s) ELSE s

\* Evaluates the expressions in order; value is the sequence of their values.
RECURSIVE EvalFrom(_, _, _)
EvalFrom(p, s, exprs) ==
  LET Next(r) == EvalFrom(p, IF Go(r) THEN Give(r, Append(s.value, r.value)) ELSE r, Tail(exprs))
  IN  IF ~Go(s) \/ exprs = <<>> THEN s ELSE Next(Do(p, s, Head(exprs)))
EvalAll(p, s, exprs) == EvalFrom(p, Give(s, <<>>), exprs)

Variable(s, name) == IF name \in DOMAIN s.l THEN s.l[name] ELSE s.g[name]
SetVariable(s, name, x) == IF name \in DOMAIN s.l THEN [s EXCEPT !.l[name] = x] ELSE [s EXCEPT !.g[name] = x]
AttributeIndex(p, class, name) == CHOOSE i \in DOMAIN p.classes[class] : p.classes[class][i].name = name

\* The expressions of a call's arguments: the object of a method, the positional
\* ones, then the keyword arguments and the defaults.
Arguments(fn, a) ==
  LET self == IF fn.class = "" THEN 0 ELSE 1
      Named(k) == {j \in DOMAIN a.kwargs : a.kwargs[j].name = fn.args[k].name}
      Later(k) == IF Named(k) = {} THEN fn.args[k].default ELSE a.kwargs[CHOOSE j \in Named(k) : TRUE].value
  IN  (IF self = 1 /\ ~fn.init THEN <<a.function.x>> ELSE <<>>) \o a.args \o
      [i \in 1 .. Len(fn.args) - Len(a.args) - self |-> Later(Len(a.args) + self + i)]

\* A call of a class makes the object that its __init__ gets.
Frame(fn, args) ==
  [x \in {fn.locals[i].name : i \in DOMAIN fn.locals} |->
     IF \E i \in DOMAIN fn.args : fn.args[i].name = x
     THEN args[CHOOSE i \in DOMAIN fn.args : fn.args[i].name = x] ELSE NoneV]
CallFunctionOf(p, s, a, fn) ==
  LET object == [class |-> fn.class, attrs |-> [i \in DOMAIN p.classes[fn.class] |-> NoneV]]
      Back(r, self) ==
        CASE r.how = "raise"  -> [r EXCEPT !.l = s.l]
          [] fn.init          -> [r EXCEPT !.l = s.l, !.how = "next", !.value = self]
          [] r.how = "return" -> [r EXCEPT !.l = s.l, !.how = "next"]
          [] OTHER            -> [r EXCEPT !.l = s.l, !.value = NoneV]
      Enter(r, args) == Back(Run(p, [r EXCEPT !.l = Frame(fn, args)], fn.body), args[1])
      Made(r) == [r EXCEPT !.objects = Append(@, object),
                           !.value = <<<<"Instance", Len(r.objects) + 1>>>> \o @]
      Ready(r) == IF r.value = <<>> THEN Enter(r, <<NoneV>>) ELSE Enter(r, r.value)
      Given(r) == IF fn.broken THEN RaiseNew(r, "PyJitCompilerError")
                  ELSE Ready(IF fn.init THEN Made(r) ELSE r)
  IN  If(EvalAll(p, s, Arguments(fn, a)), Given)

Item(s, items, n) ==
  LET place == IF n < 0 THEN n + Len(items) ELSE n
  IN  IF place \in 0 .. Len(items) - 1 THEN Give(s, items[place + 1]) ELSE RaiseNew(s, "IndexError")
Attribute(p, s, o, name) == Give(s, o.attrs[AttributeIndex(p, o.class, name)])

Eval(p, s, a) ==
  LET Of(x, next(_)) == If(Do(p, s, x), next)
      Right(l) == If(Do(p, l, a.r), LAMBDA r : Apply(r, a.op, l.value, r.value))
  IN
  CASE a.e = "int"   -> Give(s, IntV(a.n))
    [] a.e = "bool"  -> Give(s, <<"Bool", a.n>>)
    [] a.e = "none"  -> Give(s, NoneV)
    [] a.e = "float" -> Give(s, <<"Float", a.n>>)
    [] a.e = "str"   -> Give(s, <<"Unicode", p.text[a.name]>>)
    [] a.e = "var"   -> Give(s, Variable(s, a.name))
    [] a.e = "unary" -> Of(a.x, LAMBDA x : Give(x, ApplyOne(a.op, x.value)))
    [] a.e = "binary" /\ a.op \in {"and", "or"} ->
         Of(a.l, LAMBDA l : IF Truthy(l.value) = (a.op = "or") THEN l ELSE Do(p, l, a.r))
    [] a.e = "binary" -> Of(a.l, Right)
    [] a.e = "if"    -> Of(a.c, LAMBDA c : Do(p, c, IF Truthy(c.value) THEN a.x ELSE a.y))
    [] a.e \in {"list", "tuple"} ->
         If(EvalAll(p, s, a.items), LAMBDA r : Give(r, <<IF a.e = "list" THEN "List" ELSE "Tuple", r.value>>))
    [] a.e = "index" -> Of(a.x, LAMBDA x : If(Do(p, x, a.i), LAMBDA i : Item(i, x.value[2], i.value[2])))
    [] a.e = "attr"  -> Of(a.x, LAMBDA x : Attribute(p, x, x.objects[x.value[2]], a.name))
    [] a.e = "call"  -> CallFunctionOf(p, s, a, p.functions[a.f])

\* Another turn of a loop, unless the body left it.
Turned(s, again(_)) == CASE s.how \in {"next", "continue"} -> again([s EXCEPT !.how = "next"])
                         [] s.how = "break" -> [s EXCEPT !.how = "next"]
                         [] OTHER -> s

RECURSIVE Loop(_, _, _)
Loop(p, s, a) ==
  LET Again(r) == Loop(p, r, a)
      Checked(c) == IF Truthy(c.value) THEN Turned(Run(p, c, a.body), Again) ELSE Run(p, c, a.orelse)
  IN  If(Do(p, s, a.check), Checked)

RECURSIVE Iterate(_, _, _, _)
Iterate(p, s, a, items) ==
  LET Again(r) == Iterate(p, r, a, Tail(items))
  IN  IF items = <<>> THEN Run(p, s, a.orelse)
      ELSE Turned(Run(p, SetVariable(s, a.name, Head(items)), a.body), Again)

RECURSIVE Choose(_, _, _, _)
Choose(p, s, arms, orelse) ==
  LET Checked(c) == IF Truthy(c.value) THEN Run(p, c, Head(arms).body) ELSE Choose(p, c, Tail(arms), orelse)
  IN  IF arms = <<>> THEN Run(p, s, orelse) ELSE If(Do(p, s, Head(arms).check), Checked)

\* The first clause for the class of the exception takes it.
Handle(p, s, excepts, class) ==
  LET Fits(i) == class \in ToSet(excepts[i].classes)
      Taken(e) == Run(p, IF e.name = "" THEN [s EXCEPT !.how = "next"]
                         ELSE SetVariable([s EXCEPT !.how = "next"], e.name, s.value), e.body)
  IN  IF \A i \in DOMAIN excepts : ~Fits(i) THEN s
      ELSE Taken(excepts[CHOOSE i \in DOMAIN excepts : Fits(i) /\ \A j \in 1 .. i - 1 : ~Fits(j)])
TryIt(p, s, a) ==
  LET Left(r, last) == IF Go(last) THEN [last EXCEPT !.how = r.how, !.value = r.value] ELSE last
      Ended(r) == Left(r, Run(p, [r EXCEPT !.how = "next"], a.finally))
      Body(r) == CASE r.how = "raise" -> Handle(p, r, a.excepts, r.objects[r.value[2]].class)
                   [] r.how = "next"  -> Run(p, r, a.orelse)
                   [] OTHER           -> r
  IN  Ended(Body(Run(p, s, a.body)))

SetAttribute(p, s, a, n, x) == [s EXCEPT !.objects[n].attrs[AttributeIndex(p, s.objects[n].class, a.name)] = x]
AssertionFails(p, s, a) ==
  LET Filled(m, r) == [r EXCEPT !.objects[Len(r.objects)].attrs[1] = m.value]
  IN  IF a.message = <<>> THEN RaiseNew(s, "AssertionError")
      ELSE If(Do(p, s, a.message[1]), LAMBDA m : Filled(m, RaiseNew(m, "AssertionError")))

Exec(p, s, a) ==
  LET Of(next(_)) == If(Do(p, s, a.x), next)
  IN
  CASE a.s = "expr"      -> Do(p, s, a.x)
    [] a.s = "assign"    -> Of(LAMBDA x : SetVariable(x, a.name, x.value))
    [] a.s = "attribute" -> Of(LAMBDA x : If(Do(p, x, a.base), LAMBDA o : SetAttribute(p, o, a, o.value[2], x.value)))
    [] a.s = "assert"    -> Of(LAMBDA x : IF Truthy(x.value) THEN x ELSE AssertionFails(p, x, a))
    [] a.s \in {"raise", "return"}   -> Of(LAMBDA x : [x EXCEPT !.how = a.s])
    [] a.s \in {"break", "continue"} -> [s EXCEPT !.how = a.s]
    [] a.s = "if"        -> Choose(p, s, a.arms, a.orelse)
    [] a.s = "while"     -> Loop(p, s, a)
    [] a.s = "for"       -> Of(LAMBDA x : Iterate(p, x, a, x.value[2]))
    [] a.s = "try"       -> TryIt(p, s, a)
    [] a.s = "define"    -> s

Do(p, s, a) == IF "e" \in DOMAIN a THEN Eval(p, s, a) ELSE Exec(p, s, a)

(***************************************************************************)
(* The outcome of a program: its global variables, with the objects they   *)
(* refer to written out, and the class of the exception that ended it.     *)
(***************************************************************************)
RECURSIVE Whole(_, _)
Whole(objects, x) ==
  CASE Tag(x) \in {"List", "Tuple"} -> <<Tag(x), [i \in DOMAIN x[2] |-> Whole(objects, x[2][i])]>>
    [] Tag(x) = "Instance" -> <<"Instance", objects[x[2]].class,
                                [i \in DOMAIN objects[x[2]].attrs |-> Whole(objects, objects[x[2]].attrs[i])]>>
    [] OTHER -> x

Meaning(p) ==
  LET Outcome(s) == [globals   |-> [n \in DOMAIN s.g |-> Whole(s.objects, s.g[n])],
                     exception |-> IF s.how = "raise" THEN s.objects[s.value[2]].class ELSE ""]
  IN  Outcome(Run(p, [g |-> [n \in {p.globals[i].name : i \in DOMAIN p.globals} |-> NoneV], l |-> <<>>,
                      objects |-> <<>>, how |-> "next", value |-> NoneV], p.body))
=============================================================================
