------------------------------ MODULE PythonRun ------------------------------
(***************************************************************************)
(* What a program does when Python runs it, from the Python reference: the *)
(* scopes of its names, and the values its expressions have.  Nothing here *)
(* is the compiler's.                                                      *)
(*                                                                         *)
(* A function, a class or an instance has in chars the path of the         *)
(* definition of the function or class, or in n a negative number when it  *)
(* is built in; a class or an instance has in n its place in the heap, a   *)
(* bound method its instance in items.  The run of a program sees facts    *)
(* about it, and stops when no fuel is left.                               *)
(***************************************************************************)
EXTENDS PythonASTVisitor, PythonOperators

CONSTANTS BuiltinNames,  \* the values of the built-in functions and classes
          Answers        \* what the built-in functions return, by n

(***************************************************************************)
(* Scopes: the names bound in a block, outside the blocks defined in it    *)
(***************************************************************************)
RECURSIVE Targets(_)
Targets(a) == CASE a.e = "lname"  -> IF a.base = <<>> THEN {a.name} ELSE {}
                [] a.e = "ltuple" -> UNION {Targets(a.items[i]) : i \in DOMAIN a.items}
                [] OTHER -> {}
Spelled(name) == FoldLeft(LAMBDA s, token : s \o token, "", name)
RECURSIVE Bound(_)
BoundIn(block) == UNION {Bound(block[i]) : i \in DOMAIN block}
Binds(a) == CASE a.s \in {"assign", "augment"} -> Targets(a.target)
               [] a.s = "for"    -> Targets(a.var)
               [] a.s = "except" -> {a.name} \ {""}
               [] a.s = "with"   -> {a.items[i][2] : i \in DOMAIN a.items} \ {""}
               [] a.s = "import" -> {Spelled(n[2]) : n \in IF a.names = {} THEN a.modules ELSE a.names}
               [] a.s \in {"def", "class"} -> {a.name}
               [] OTHER -> {}
Kids(a) == {kid[2] : kid \in Range(Children(a))}
Bound(a) == IF IsExpression(a) THEN {}
            ELSE Binds(a) \cup IF a.s \in {"def", "class"} THEN {} ELSE UNION {Bound(kid) : kid \in Kids(a)}
RECURSIVE DeclaredGlobal(_)
GlobalIn(kids) == UNION {DeclaredGlobal(kid) : kid \in kids}
DeclaredGlobal(a) == IF IsExpression(a) \/ a.s \in {"def", "class"} THEN {}
                     ELSE IF a.s = "global" THEN Range(a.names) ELSE GlobalIn(Kids(a))
ParameterNames(args) == {args.args[i].name : i \in DOMAIN args.args} \cup ({args.varargs, args.varkwargs} \ {""})
LocalNames(a) == IF IsExpression(a) THEN ParameterNames(a.args)
                 ELSE (ParameterNames(a.args) \cup BoundIn(a.body)) \ GlobalIn(Range(a.body))

(***************************************************************************)
(* The state of a run                                                      *)
(***************************************************************************)
Frame(scope, locals, vars) == [scope |-> scope, locals |-> locals, vars |-> vars]
Start(fuel) == [frames |-> <<Frame(<<>>, {}, <<>>)>>, heap |-> <<>>, seen |-> {}, fuel |-> fuel, value |-> Unknown("None"), signal |-> ""]
See(r, kind, path, v) == [r EXCEPT !.seen = @ \cup {[kind |-> kind, path |-> path, name |-> "", v |-> v]}]
SeeName(r, kind, path, name, v) == [r EXCEPT !.seen = @ \cup {[kind |-> kind, path |-> path, name |-> name, v |-> v]}]
Give(r, v) == [r EXCEPT !.value = v]
Signal(r, signal) == [r EXCEPT !.signal = signal]
GiveOne(r, results) == IF results = {} THEN Signal(r, "raise") ELSE Give(r, CHOOSE v \in results : TRUE)
Halted(r) == r.signal # ""

Top(r) == Last(r.frames)
\* The frame a name of the current block lives in.
FrameOf(r, name) == IF Len(r.frames) = 1 \/ name \in Top(r).locals THEN Len(r.frames) ELSE 1
Find(r, name) ==
  LET vars == r.frames[FrameOf(r, name)].vars
  IN  IF name \in DOMAIN vars THEN {vars[name]}
      ELSE IF FrameOf(r, name) = 1 /\ name \in DOMAIN BuiltinNames THEN {BuiltinNames[name]} ELSE {}
Store(r, name, v) ==
  LET k == FrameOf(r, name)
  IN  SeeName([r EXCEPT !.frames[k].vars = (name :> v) @@ @], "name", r.frames[k].scope, name, v)

RECURSIVE NodeIn(_, _)
NodeIn(kids, path) ==
  LET a == kids[CHOOSE i \in DOMAIN kids : kids[i][1] = path[1]][2]
  IN  IF Len(path) = 1 THEN a ELSE NodeIn(Children(a), Tail(path))

\* The attributes of an instance are its own and those of its class.
ClassOf(r, v) == r.heap[v.n].class
AttributesOf(r, v) == IF v.t = "Instance" THEN r.heap[v.n].attributes @@ r.heap[ClassOf(r, v)].attributes ELSE r.heap[v.n].attributes
SetAttribute(r, v, name, x) ==
  SeeName([r EXCEPT !.heap[v.n].attributes = (name :> x) @@ @], "attribute", r.heap[ClassOf(r, v)].path, name, x)
Method(r, v, x) == IF v.t = "Instance" /\ x.t = "Function" THEN [x EXCEPT !.items = <<v>>] ELSE x
GetAttribute(r, v, name) ==
  IF v.t \notin {"Instance", "Class"} \/ v.n < 0 THEN {}
  ELSE IF name \in DOMAIN AttributesOf(r, v) THEN {Method(r, v, AttributesOf(r, v)[name])} ELSE {}

(***************************************************************************)
(* Running                                                                 *)
(***************************************************************************)
RECURSIVE Run(_, _, _, _)
\* body is the whole program.
RunAll(body, r, path, kids) == FoldLeft(LAMBDA s, kid : Run(body, s, Append(path, kid[1]), kid[2]), r, kids)
Values(body, r, path, kids) ==
  LET Next(p, kid) == LET s == Run(body, p.r, Append(path, kid[1]), kid[2]) IN [r |-> s, values |-> Append(p.values, s.value)]
  IN  FoldLeft(Next, [r |-> r, values |-> <<>>], kids)
RunStep(body, r, path, step, a) == Run(body, r, Append(path, step), a)

\* What follows, unless the run has stopped or left what it was in.
Then(r, Next(_)) == IF Halted(r) THEN r ELSE Next(r)
Spend(r) == [r EXCEPT !.fuel = IF @ = 0 THEN 0 ELSE @ - 1]

\* A call of the function defined at path: a is its node.
BindOne(body, s, path, a, args, i) ==
  IF i <= Len(args) THEN Store(s, a.args.args[i].name, args[i])
  ELSE Then(RunStep(body, s, path, Nth(1, i), a.args.args[i].default[1]), LAMBDA d : Store(d, a.args.args[i].name, d.value))
BindAll(body, s, path, a, args) == FoldLeft(LAMBDA t, i : BindOne(body, t, path, a, args, i), s, [i \in DOMAIN a.args.args |-> i])
RunBody(body, s, path, a) ==
  IF IsExpression(a) THEN RunStep(body, s, path, 2, a.x) ELSE RunAll(body, Give(s, Unknown("None")), path, List(2, a.body))
\* A function that no return statement leaves returns None.
Left(s, a) == CASE s.signal = "return" -> Signal(s, "")
                [] s.signal = "" /\ ~IsExpression(a) -> Give(s, Unknown("None"))
                [] OTHER -> s
Return(frames, path, s) == Then([s EXCEPT !.frames = frames], LAMBDA t : See(t, "return", path, t.value))
InvokeNode(body, r, path, a, args) ==
  IF Len(args) > Len(a.args.args) \/ \E i \in Len(args) + 1 .. Len(a.args.args) : a.args.args[i].default = <<>>
  THEN Signal(r, "raise")
  ELSE IF r.fuel = 0 THEN Signal(r, "stop")
  ELSE Return(r.frames, path,
              Left(RunBody(body, BindAll(body, [r EXCEPT !.frames = Append(@, Frame(path, LocalNames(a), <<>>))], path, a, args), path, a), a))
Invoke(body, r, path, args) == InvokeNode(body, r, path, NodeIn(List(2, body), path), args)

\* A new instance; the constructor of its class is called on it.
Initialize(body, s, v, init, args) ==
  IF init = {} THEN Give(s, v) ELSE Give(Invoke(body, s, (CHOOSE f \in init : TRUE).chars, <<v>> \o args), v)
Construct(body, s, v, args) == Initialize(body, s, v, GetAttribute(s, v, "__init__"), args)
Call(body, s, v, args) ==
  CASE v.t = "Class" /\ v.n < 0 -> Give(s, [v EXCEPT !.t = "Instance"])
    [] v.t = "Class" /\ v.n >= 0 -> Construct(body, [s EXCEPT !.heap = Append(@, [path |-> <<>>, class |-> v.n, attributes |-> <<>>])],
                                              [Text("Instance", v.chars) EXCEPT !.n = Len(s.heap) + 1], args)
    [] v.t = "Function" /\ v.n < 0 -> Give(s, Answers[v.n])
    [] v.t = "Function" /\ v.n >= 0 -> Invoke(body, s, v.chars, v.items \o args)
CallWith(body, path, v, p) ==
  Then(p.r, LAMBDA s : IF v.t \in {"Class", "Function"} THEN Call(body, See(Spend(s), "call", path, v), v, p.values) ELSE Signal(s, "raise"))
RunCall(body, r, path, a) ==
  IF a.kwargs # {} THEN Signal(r, "stop")
  ELSE Then(RunStep(body, r, path, 1, a.f), LAMBDA f : CallWith(body, path, f.value, Values(body, f, path, List(2, a.args))))

\* The items of a set and the keys of a dictionary are distinct; of two equal
\* keys the last item is kept.
Build(a, values) ==
  LET Distinct2(s) == FoldLeft(LAMBDA t, v : IF Holds(t, v) THEN t ELSE Append(t, v), <<>>, s)
      Half(k) == [i \in 1 .. Len(values) \div 2 |-> values[2 * i - k]]
      keys    == Distinct2(Half(1))
      LastOf(key) == CHOOSE i \in DOMAIN Half(1) : Same(Half(1)[i], key) /\ \A j \in DOMAIN Half(1) : Same(Half(1)[j], key) => j <= i
  IN  CASE a.e = "list"  -> Plain("List", values)
        [] a.e = "tuple" -> Plain("Tuple", values)
        [] a.e = "set"   -> Plain("Set", Distinct2(values))
        [] a.e = "dict"  -> [Plain("Dict", [i \in DOMAIN keys |-> Half(0)[LastOf(keys[i])]]) EXCEPT !.keys = keys]

Subscript(v, i) ==
  LET n  == IF v.t \in {"Bytes", "Unicode"} THEN Len(v.chars) ELSE Len(v.items)
      at == IF i.n < 0 THEN i.n + n + 1 ELSE i.n + 1
  IN  CASE v.t \in {"List", "Tuple"} /\ i.t \in {"Bool", "Int"} -> IF at \in 1 .. n THEN {v.items[at]} ELSE {}
        [] v.t \in {"Bytes", "Unicode"} /\ i.t \in {"Bool", "Int"} -> IF at \in 1 .. n THEN {Text(v.t, <<v.chars[at]>>)} ELSE {}
        [] v.t = "Dict" -> {v.items[k] : k \in {k \in DOMAIN v.keys : Same(v.keys[k], i)}}
        [] OTHER -> {}

\* An expression of the values of its parts.
Combined(path, a, p) ==
  Then(p.r, LAMBDA s :
    CASE a.e = "unary"  -> GiveOne(s, ApplyUnary(a.op, p.values[1]))
      [] a.e = "binary" -> GiveOne(s, Apply(a.op, p.values[1], p.values[2]))
      [] a.e = "index"  -> GiveOne(See(s, "index", path, p.values[2]), Subscript(p.values[1], p.values[2]))
      [] a.e \in {"list", "tuple", "set", "dict"} -> LET v == Build(a, p.values) IN Give(See(s, "items", path, v), v))
RunExpression(body, r, path, a) ==
  CASE a.e = "int"   -> Give(r, Number("Int", a.n))
    [] a.e = "float" -> Give(r, IF a.m[2] < 0 THEN Float(a.m[1], 10 ^ (-a.m[2])) ELSE Float(a.m[1] * 10 ^ a.m[2], 1))
    [] a.e = "bytes" -> Give(r, Text("Bytes", a.v))
    [] a.e = "str"   -> Give(r, Text("Unicode", a.v))
    [] a.e = "bool"  -> Give(r, Bool(a.p))
    [] a.e = "none"  -> Give(r, Unknown("None"))
    [] a.e = "var"   -> GiveOne(r, Find(r, a.name))
    [] a.e = "lambda" -> Give(r, Text("Function", path))
    [] a.e = "call"  -> RunCall(body, r, path, a)
    [] a.e = "attr"  -> Then(RunStep(body, r, path, 1, a.x), LAMBDA s : GiveOne(s, GetAttribute(s, s.value, a.name)))
    [] a.e = "binary" /\ a.op \in {"and", "or"} ->
         Then(RunStep(body, r, path, 1, a.l), LAMBDA s : IF Truthy(s.value) = (a.op = "or") THEN s ELSE RunStep(body, s, path, 2, a.r))
    [] a.e = "ternary" ->
         Then(RunStep(body, r, path, 2, a.c), LAMBDA s : IF Truthy(s.value) THEN RunStep(body, s, path, 1, a.x) ELSE RunStep(body, s, path, 3, a.y))
    [] a.e \in {"unary", "binary", "index", "list", "tuple", "set", "dict"} /\ ~(a.e = "binary" /\ a.op \in {"and", "or"}) ->
         Combined(path, a, Values(body, r, path, Children(a)))
    [] OTHER -> Signal(r, "stop")

\* The assignment of r's value to a target.
RECURSIVE AssignTo(_, _, _, _)
AssignItems(body, r, path, a, v) ==
  IF v.t \notin {"List", "Tuple"} \/ Len(v.items) # Len(a.items) THEN Signal(r, "raise")
  ELSE FoldLeft(LAMBDA s, i : AssignTo(body, Give(s, v.items[i]), Append(path, Nth(1, i)), a.items[i]), r, [i \in DOMAIN a.items |-> i])
AssignAttribute(b, name, v) == IF b.value.t # "Instance" THEN Signal(b, "raise") ELSE SetAttribute(b, b.value, name, v)
AssignTo(body, r, path, a) ==
  Then(r, LAMBDA s :
    CASE a.e = "lname" /\ a.base = <<>> -> Store(s, a.name, s.value)
      [] a.e = "lname" /\ a.base # <<>> -> Then(RunStep(body, s, path, 1, a.base[1]), LAMBDA b : AssignAttribute(b, a.name, s.value))
      [] a.e = "ltuple" -> AssignItems(body, s, path, a, s.value)
      [] OTHER -> Signal(s, "stop"))

\* After the iterations of a loop its else clause is run, unless it was left.
EndLoop(body, r, path, a) ==
  IF r.signal = "break" THEN Signal(r, "") ELSE RunAll(body, r, path, MaybeSuite(4, a.orelse))
Continued(s) == IF s.signal = "continue" THEN Signal(s, "") ELSE s
Iteration(body, r, path, a) == Continued(RunAll(body, r, path, List(2, a.body)))
RECURSIVE Loop(_, _, _, _)
LoopOn(body, s, path, a) == IF Halted(s) THEN EndLoop(body, s, path, a) ELSE Loop(body, s, path, a)
Loop(body, r, path, a) ==
  Then(RunStep(body, r, path, 1, a.check), LAMBDA d :
    IF ~Truthy(d.value) THEN EndLoop(body, d, path, a)
    ELSE IF d.fuel = 0 THEN Signal(d, "stop")
    ELSE LoopOn(body, Iteration(body, Spend(See(d, "branch", path, Bool(TRUE))), path, a), path, a))
ItemsOf(v) == CASE v.t = "Dict" -> v.keys
                [] v.t \in {"Bytes", "Unicode"} -> [i \in DOMAIN v.chars |-> Text(v.t, <<v.chars[i]>>)]
                [] OTHER -> v.items
ForEach(body, s, path, a, x) == Then(s, LAMBDA t : Iteration(body, AssignTo(body, Give(t, x), Append(path, 5), a.var), path, a))
RunFor(body, r, path, a) ==
  Then(RunStep(body, r, path, 1, a.x), LAMBDA d :
    IF d.value.t \notin {"Bytes", "Unicode", "List", "Tuple", "Set", "Dict"} THEN Signal(d, "raise")
    ELSE EndLoop(body, FoldLeft(LAMBDA s, x : ForEach(body, s, path, a, x), d, ItemsOf(d.value)), path, a))

\* The first of the branches whose condition holds; an elif is a step below its if.
RECURSIVE Branch(_, _, _, _, _)
OtherBranch(body, r, path, rest) ==
  IF rest = <<>> THEN r
  ELSE IF rest[1][2].s = "elif" THEN Branch(body, r, Append(path, rest[1][1]), rest[1][2], Tail(rest))
  ELSE RunAll(body, r, path, rest)
BranchOn(body, r, holds, path, a, rest) ==
  IF holds THEN RunAll(body, r, path, List(2, a.body)) ELSE OtherBranch(body, r, IF a.s = "elif" THEN Front(path) ELSE path, rest)
Branch(body, r, path, a, rest) ==
  Then(RunStep(body, r, path, 1, a.check), LAMBDA s :
    BranchOn(body, See(s, "branch", path, Bool(Truthy(s.value))), Truthy(s.value), path, a, rest))

EndClass(frames, path, name, k, s) ==
  IF Halted(s) THEN [s EXCEPT !.frames = frames]
  ELSE Store([s EXCEPT !.frames = frames, !.heap[k].attributes = Top(s).vars @@ @], name, [Text("Class", path) EXCEPT !.n = k])
RunClass(body, r, path, a, inherited) ==
  EndClass(r.frames, path, a.name, Len(r.heap) + 1,
           RunAll(body, [r EXCEPT !.heap = Append(@, [path |-> path, class |-> Len(@) + 1, attributes |-> inherited]),
                                  !.frames = Append(@, Frame(path, BoundIn(a.body), <<>>))], path, List(2, a.body)))
RunDefinition(body, r, path, a) ==
  IF a.s = "def" THEN Store(r, a.name, Text("Function", path))
  ELSE IF a.parents = <<>> THEN RunClass(body, r, path, a, <<>>)
  ELSE Then(RunStep(body, r, path, Nth(1, 1), a.parents[1]), LAMBDA s :
              RunClass(body, s, path, a, IF s.value.n < 0 THEN <<>> ELSE s.heap[s.value.n].attributes))

RunStatement(body, r, path, a) ==
  CASE a.s = "expr"   -> RunStep(body, r, path, 1, a.x)
    [] a.s = "assign" -> AssignTo(body, RunStep(body, r, path, 2, a.x), Append(path, 1), a.target)
    [] a.s \in {"pass", "global"} -> r
    [] a.s \in {"break", "continue"} -> Signal(r, a.s)
    [] a.s = "return" -> Then(RunStep(body, r, path, 1, a.x[1]), LAMBDA d : Signal(d, "return"))
    [] a.s = "if"     -> Branch(body, r, path, a, List(3, a.elifs) \o MaybeSuite(4, a.orelse))
    [] a.s = "while"  -> Loop(body, r, path, a)
    [] a.s = "for"    -> RunFor(body, r, path, a)
    [] a.s \in {"def", "class"} -> RunDefinition(body, r, path, a)
    [] OTHER -> Signal(r, "stop")

Run(body, r, path, a) ==
  IF Halted(r) THEN r ELSE IF IsExpression(a) THEN RunExpression(body, r, path, a) ELSE RunStatement(body, r, path, a)

\* What is seen of a program.
Seen(body, fuel) == RunAll(body, Start(fuel), <<>>, List(2, body)).seen
=============================================================================
