------------------------------ MODULE MCFrontEnd ------------------------------
(***************************************************************************)
(* Programs for FrontEnd: what the tests of the repository are made of, in *)
(* every layout; every construct of the language; and every operator, with *)
(* operands whose values are known and with operands whose types only are. *)
(***************************************************************************)
EXTENDS FrontEnd, TLC

(***************************************************************************)
(* Short names for the nodes                                               *)
(***************************************************************************)
V(name)        == VariableLookup(name)
N(n)           == IntegerConstant(n)
S(code)        == UnicodeConstant(<<code>>)
Blank          == UnicodeConstant(<<>>)
Bin(l, op, r)  == BinaryOperation(op, l, r)
Minus(x)       == UnaryOperation("-", x)
Dot(x, name)   == AttributeLookup(x, name)
CallOf(f, args) == FunctionCall(f, args, {}, <<>>, <<>>)
Call(f, args)  == CallOf(V(f), args)
LName(name)    == AttributeLValueReference(<<>>, name, <<>>)
LAttr(x, name) == AttributeLValueReference(<<V(x)>>, name, <<>>)
Let(name, x)   == AssignmentStatement(LName(name), x)
LetAttr(y, name, x) == AssignmentStatement(LAttr(y, name), x)
Do(x)          == ExpressionStatement(x)
Show(x)        == Do(Call("print", <<x>>))
If(c, body)    == IfStatement(c, body, <<>>, <<>>)
IfElse(c, body, rest) == IfStatement(c, body, <<>>, <<rest>>)
For(name, x, body) == ForStatement(LName(name), x, body)
While(c, body) == WhileStatement(c, body, <<>>)
Pass           == BareStatement("pass")
Break          == BareStatement("break")
Return(x)      == ReturnStatement(<<x>>)
Param(name)    == Argument(name, <<>>, <<>>)
Given(name, x) == Argument(name, <<>>, <<x>>)
Typed(name, type) == Argument(name, <<TypeAnnotation(type, <<>>)>>, <<>>)
Def(name, args, body) == FunctionDefinition(<<>>, name, FunctionArguments(args, "", ""), <<>>, body)
Class(name, body)     == ClassDefinition(<<>>, name, <<>>, body)
Try(body, excepts)    == TryStatement(body, excepts, <<>>, <<>>)
Except(type, body)    == ExceptStatement(<<V(type)>>, "", body)
Raise(type)           == ListStatement("raise", <<Call(type, <<>>)>>)
Lambda(args, x)       == LambdaDefinition(FunctionArguments(args, "", ""), x)

(***************************************************************************)
(* The built-in module, and two that can be imported                       *)
(***************************************************************************)
Function(id, name, returns) ==
  id :> [FunctionContext(0, name) EXCEPT !.returns = returns]
MCBuiltins ==
  [print |-> Number("Function", -1), input |-> Number("Function", -2), int |-> Number("Function", -3),
   repr |-> Number("Function", -4), len |-> Number("Function", -5),
   IndexError |-> Number("Class", -20), ValueError |-> Number("Class", -21), AssertionError |-> Number("Class", -22)]
MCAnswers == (-1 :> Unknown("None")) @@ (-2 :> Text("Unicode", <<98>>)) @@ (-3 :> Number("Int", 1)) @@
             (-4 :> Text("Unicode", <<97, 98>>)) @@ (-5 :> Number("Int", 2))
MCBuiltinFunctions ==
  Function(-1, "print", {Unknown("None")}) @@ Function(-2, "input", {Unknown("Unicode")}) @@
  Function(-3, "int", {Unknown("Int")}) @@ Function(-4, "repr", {Unknown("Unicode")}) @@
  Function(-5, "len", {Unknown("Int")}) @@ Function(-6, "time", {Unknown("Float")}) @@ Function(-10, "append", {Unknown("None")}) @@
  Function(-20, "IndexError", {Instance(-20)}) @@ Function(-21, "ValueError", {Instance(-21)}) @@
  Function(-22, "AssertionError", {Instance(-22)})
WithInit(name, id) == id :> [ClassContext(name) EXCEPT !.attributes = <<[name |-> "__init__", value |-> Number("Function", id)]>>]
MCBuiltinClasses ==
  WithInit("IndexError", -20) @@ WithInit("ValueError", -21) @@ WithInit("AssertionError", -22) @@
  (-30 :> [ClassContext("list") EXCEPT !.attributes = <<[name |-> "append", value |-> Number("Function", -10)]>>]) @@
  (-31 :> ClassContext("bytes"))
MCTypeClasses == [List |-> -30, Bytes |-> -31]
MCModules == [time |-> [time |-> Number("Function", -6)],
              errno |-> [EPERM |-> Number("Int", 1), errorcode |-> Unknown("Int")]]
Named(code) == [__name__ |-> <<code>>, __file__ |-> <<47, code>>]
MCModuleTexts == [main |-> Named(109), time |-> Named(116), errno |-> Named(101)]

(***************************************************************************)
(* What the tests are made of                                              *)
(***************************************************************************)
\* tests/static_analysis.py
NeverCompiled ==
  <<If(Bin(Bin(N(2), "+", N(2)), "==", N(5)),
       <<Show(S(97)), Do(Call("hex", <<S(98)>>)), Let("x", N(7)), Let("x", S(99))>>),
    If(Bin(TupleConstructor(<<Bin(Bin(N(2), "+", N(2)), "==", N(4))>>), "or", Call("len", <<S(98)>>)), <<Show(S(97))>>)>>
\* tests/conditions.py
Conditions ==
  <<IfElse(BoolConstant(TRUE), <<Show(S(97))>>, <<Do(Call("nonexistent_function", <<>>))>>),
    IfElse(BoolConstant(FALSE), <<Do(Call("nonexistent_function", <<>>))>>, <<Show(S(97))>>),
    Let("x", Call("int", <<Call("input", <<>>)>>)),
    IfStatement(Bin(V("x"), "==", N(0)), <<Show(N(0))>>,
                <<ElifStatement(Bin(V("x"), "==", N(1)), <<Show(N(1))>>), ElifStatement(Bin(V("x"), "==", N(2)), <<Show(N(2))>>)>>,
                <<<<Show(S(97))>>>>)>>
\* tests/loops.py
Loops ==
  <<Def("test_while", <<>>,
        <<Let("z", N(3)),
          WhileStatement(Bin(V("z"), ">", N(0)), <<Show(Bin(S(97), "+", Call("repr", <<V("z")>>))), Let("z", Bin(V("z"), "-", N(3)))>>,
                         <<<<Show(S(98))>>>>),
          Return(V("z"))>>),
    Def("test_for", <<>>,
        <<[For("x", TupleConstructor(<<N(1), N(2)>>), <<Show(Call("repr", <<V("x")>>))>>) EXCEPT !.orelse = <<<<Show(S(98))>>>>],
          Return(V("x"))>>),
    Def("test_break", <<>>,
        <<For("x", ListConstructor(<<N(1), N(2), N(3)>>),
              <<If(Bin(V("x"), "==", N(1)), <<BareStatement("continue")>>), If(Bin(V("x"), "==", N(2)), <<Break>>), Show(V("x"))>>)>>),
    Let("a", Call("test_while", <<>>)), Let("b", Call("test_for", <<>>)), Do(Call("test_break", <<>>))>>
\* tests/tuples.py, tests/lists.py
Indexing ==
  <<Let("a", TupleConstructor(<<N(1), N(2), N(3)>>)), For("x", V("a"), <<Let("y", Bin(V("x"), "*", N(2)))>>),
    Let("p", ArrayIndex(V("a"), Minus(N(3)))), Let("q", ArrayIndex(V("a"), N(2))),
    Let("c", TupleConstructor(<<S(99), N(3), FloatConstant(<<55, -1>>), BoolConstant(TRUE)>>)),
    Let("r", ArrayIndex(V("c"), Minus(N(2)))), Let("s", ArrayIndex(V("c"), N(3))),
    Let("d", ListConstructor(<<S(97), S(98)>>)), Do(CallOf(Dot(V("d"), "append"), <<S(99)>>)),
    Try(<<Show(ArrayIndex(V("d"), N(5)))>>, <<Except("IndexError", <<Show(S(97))>>)>>)>>
\* tests/functions.py
Imports ==
  <<ImportStatement({<<<<"time">>, <<"time">>>>}, {}, FALSE),
    ImportStatement({<<<<"errno">>, <<"errno">>>>}, {<<<<"EPERM">>, <<"EPERM">>>>, <<<<"errorcode">>, <<"codes">>>>}, FALSE),
    Let("now", CallOf(Dot(V("time"), "time"), <<>>)), LetAttr("time", "__name__", S(97))>>
FunctionsAndLambdas ==
  <<Let("z", N(10)),
    Def("g", <<Param("v")>>, <<Show(V("z")), Return(V("v"))>>),
    Def("f", <<>>, <<Let("z", N(7)), Return(V("z"))>>),
    Let("w", Call("g", <<Call("f", <<>>)>>)),
    Def("sum_all", <<Param("a"), Param("b"), Given("e", N(0)), Given("f", N(0))>>,
        <<Return(Bin(Bin(Bin(V("a"), "+", V("b")), "+", V("e")), "+", V("f")))>>),
    Let("u", Call("sum_all", <<N(1), N(2), N(3)>>)),
    Do(FunctionCall(V("sum_all"), <<S(97), S(98)>>, {<<"f", S(99)>>, <<"e", S(99)>>}, <<>>, <<>>)),
    Let("double", Lambda(<<Param("x")>>, Bin(V("x"), "+", V("x")))), Show(Call("double", <<N(2)>>))>>
\* tests/explicit_globals.py
ExplicitGlobals ==
  <<Let("x", N(0)),
    Def("f", <<Given("delta", N(0))>>, <<GlobalStatement(<<"x">>), Let("x", Bin(V("x"), "+", V("delta"))), Show(V("x"))>>),
    Do(Call("f", <<N(1)>>)), Do(Call("f", <<Minus(N(7))>>))>>
\* tests/classes.py
Classes1 ==
  <<Let("num_objects", N(0)),
    Class("BoringTestClass",
      <<Def("__init__", <<Param("self"), Given("name", Blank), Given("value", N(0))>>,
            <<GlobalStatement(<<"num_objects">>), LetAttr("self", "name", V("name")), LetAttr("self", "value", V("value")),
              Let("num_objects", Bin(V("num_objects"), "+", N(1)))>>),
        Def("set_value", <<Param("self"), Given("value", N(0))>>,
            <<Let("old_value", Dot(V("self"), "value")), LetAttr("self", "value", V("value")), Return(V("old_value"))>>),
        Def("print_value", <<Param("self")>>, <<Show(Bin(Dot(V("self"), "name"), "+", Call("repr", <<Dot(V("self"), "value")>>)))>>)>>),
    Def("test", <<>>, <<Let("x", Call("BoringTestClass", <<S(120), N(30)>>)), Do(CallOf(Dot(V("x"), "print_value"), <<>>)),
                        Let("o", CallOf(Dot(V("x"), "set_value"), <<N(50)>>)), Let("n", Dot(V("x"), "value"))>>),
    Do(Call("test", <<>>)), Let("y", Call("BoringTestClass", <<S(121), N(40)>>)), Let("m", Dot(V("y"), "name"))>>
\* tests/classes_inheritance_basic.py
Inheritance ==
  <<Class("Parent", <<Def("__init__", <<Param("self"), Given("v1", N(0))>>, <<LetAttr("self", "v1", V("v1"))>>),
                      Def("set_v1", <<Param("self"), Given("v1", N(0))>>, <<LetAttr("self", "v1", V("v1"))>>)>>),
    ClassDefinition(<<>>, "Child", <<V("Parent")>>,
      <<Def("__init__", <<Param("self"), Given("v2", N(0))>>,
            <<Do(CallOf(Dot(V("Parent"), "__init__"), <<V("self"), Bin(V("v2"), "*", N(2))>>)), LetAttr("self", "v2", V("v2"))>>),
        Def("set_v1", <<Param("self"), Given("v1", N(0))>>, <<LetAttr("self", "v1", Bin(V("v1"), "*", V("v1")))>>)>>),
    Let("x", Call("Child", <<N(3)>>)), Do(CallOf(Dot(V("x"), "set_v1"), <<N(4)>>)), Show(Call("repr", <<Dot(V("x"), "v2")>>))>>
\* tests/exceptions_basic.py
Exceptions ==
  <<TryStatement(
      <<Let("value", Call("input", <<>>)),
        ListStatement("assert", <<Bin(S(121), "not in", V("value")), Bin(S(97), "+", V("value"))>>)>>,
      <<ExceptStatement(<<V("AssertionError")>>, "e1", <<Show(S(97))>>), ExceptStatement(<<V("ValueError")>>, "e2", <<Raise("IndexError")>>)>>,
      <<<<Show(S(98))>>>>, <<<<Show(S(99))>>>>)>>
Tests == <<NeverCompiled, Conditions, Loops, Indexing, Imports, FunctionsAndLambdas, ExplicitGlobals, Classes1, Inheritance, Exceptions>>

(***************************************************************************)
(* The rest of the language: some of it only until the analysis refuses it *)
(***************************************************************************)
Dictionary == DictConstructor(<< <<N(1), S(97)>>, <<N(2), S(98)>> >>)
Operators ==
  <<Let("a", Bin(Bin(N(1), "+", Bin(N(2), "*", N(3))), "-", N(4))), Let("b", Bin(Bin(N(1), "<<", N(2)), "|", Bin(N(6), "&", Bin(N(3), "-", N(1))))),
    Let("c", Bin(UnaryOperation("not", Bin(N(1), "<", N(2))), "or", Bin(Bin(N(1), "is not", N(2)), "and", Bin(N(1), "in", ListConstructor(<<N(1)>>))))),
    Let("d", TernaryOperation(Bin(N(2), "**", N(3)), Bin(N(7), "%", N(4)), UnaryOperation("~", N(5)))),
    Let("e", Bin(Bin(N(9), "//", N(2)), "^", Bin(N(8), ">>", N(1)))), Let("f", Bin(Minus(N(3)), "/", N(2))),
    Let("g", TernaryOperation(V("a"), Bin(Call("int", <<S(49)>>), ">=", N(0)), V("b"))), Let("h", Bin(N(3), "!=", N(4)))>>
Formats ==
  <<Let("a", Bin(UnicodeConstant(<<37, 100, 32, 37, 115>>), "%", TupleConstructor(<<N(1), S(97)>>))),
    Let("b", Bin(BytesConstant(<<37, 48, 42, 120>>), "%", TupleConstructor(<<N(4), N(3)>>))),
    Let("c", Bin(UnicodeConstant(<<37, 43, 56, 108, 103, 37, 37>>), "%", FloatConstant(<<15, -1>>))), Show(V("c"))>>
BadFormat == <<Let("a", Bin(UnicodeConstant(<<37, 46, 50, 102>>), "%", FloatConstant(<<15, -1>>)))>>
Collections ==
  <<Let("d", Dictionary), For("k", V("d"), <<Let("kk", V("k"))>>), Let("x", ArrayIndex(V("d"), N(2))),
    Let("s", SetConstructor(<<N(1), N(2)>>)), For("m", V("s"), <<Let("mm", V("m"))>>),
    Let("t", BytesConstant(<<97, 39, 98, 10, 200>>)), For("b", V("t"), <<Let("bb", V("b"))>>), Let("y", ArrayIndex(V("t"), Minus(N(1)))),
    For("i", ListConstructor(<<N(0), N(1)>>), <<Let("z", ArrayIndex(V("t"), V("i"))), Let("l", ArrayIndex(TupleConstructor(<<N(4), N(5)>>), V("i"))),
                                                Let("e", ArrayIndex(V("d"), Bin(V("i"), "+", N(1))))>>),
    For("q", ListConstructor(<<N(3), UnicodeConstant(<<233, 127, 0>>)>>), <<Let("r", N(1))>>), For("o", ListConstructor(<<>>), <<Let("j", V("o"))>>)>>
Comprehensions ==
  <<Let("a", ListComprehension(Bin(V("x"), "+", N(1)), LName("x"), ListConstructor(<<N(1)>>), <<Bin(V("x"), ">", N(0))>>)),
    Let("b", SetComprehension(V("y"), LName("y"), V("a"), <<>>)),
    Let("c", DictComprehension(V("z"), N(1), LName("z"), V("a"), <<V("z")>>))>>
Unpacking ==
  <<AssignmentStatement(TupleLValueReference(<<LName("a"), LName("b")>>), TupleConstructor(<<N(1), S(97)>>)), Let("c", V("b")),
    Let("l", ListConstructor(<<N(3), N(4)>>)), Let("p", V("l")),
    AssignmentStatement(TupleLValueReference(<<LName("x"), LName("y")>>), V("l")), Let("z", ArrayIndex(V("p"), N(0))),
    AssignmentStatement(TupleLValueReference(<<LName("u"), LName("v")>>), Bin(ListConstructor(<<N(6)>>), "*", N(2))), Let("w", V("v"))>>
ImportInFunction ==
  <<Def("f", <<>>, <<ImportStatement({<<<<"errno">>, <<"errno">>>>}, {<<<<"EPERM">>, <<"EPERM">>>>}, FALSE), Return(V("EPERM"))>>), Let("x", Call("f", <<>>))>>
Nested ==
  <<Def("outer", <<Param("a")>>,
        <<Let("b", N(1)), Def("inner", <<Param("c")>>, <<Let("d", V("c")), Return(Bin(V("c"), "+", N(1)))>>),
          Let("h", Lambda(<<Param("e")>>, Bin(V("e"), "-", N(1)))),
          If(V("a"), <<Return(Call("inner", <<V("b")>>))>>), Return(Call("inner", <<Call("inner", <<N(2)>>)>>))>>),
    Let("x", Call("outer", <<N(0)>>)), Let("y", Call("outer", <<BoolConstant(TRUE)>>))>>
Annotations ==
  <<FunctionDefinition(<<>>, "f", FunctionArguments(<<Typed("a", "int"), Argument("b", <<TypeAnnotation("List", <<TypeAnnotation("str", <<>>)>>)>>, <<>>),
                       Argument("c", <<TypeAnnotation("bool", <<>>)>>, <<BoolConstant(TRUE)>>)>>, "", ""), <<TypeAnnotation("int", <<>>)>>,
      <<AssignmentStatement(AttributeLValueReference(<<>>, "d", <<TypeAnnotation("int", <<>>)>>), Bin(V("a"), "*", N(2))), Return(V("d"))>>),
    Let("x", Call("f", <<N(1), ListConstructor(<<S(97)>>)>>))>>
WrongAnnotation ==
  <<FunctionDefinition(<<>>, "f", FunctionArguments(<<Typed("a", "int")>>, "", ""), <<TypeAnnotation("str", <<>>)>>, <<Return(V("a"))>>)>>
Variadic ==
  <<FunctionDefinition(<<>>, "f", FunctionArguments(<<Param("a")>>, "b", "c"), <<>>, <<Let("d", V("b")), Return(V("d"))>>),
    Do(Call("f", <<N(1)>>))>>
ConstructorOnly ==
  <<Class("A", <<Let("k", N(5)),
                 Def("__init__", <<Param("self"), Given("x", N(1))>>,
                     <<LetAttr("self", "u", V("x")), Def("helper", <<>>, <<Return(N(3))>>), LetAttr("self", "w", Call("len", <<S(97)>>)),
                       LetAttr("self", "u", N(2))>>),
                 Def("get", <<Param("self")>>, <<Return(Dot(V("self"), "u"))>>)>>),
    Class("B", <<Def("__init__", <<Param("self")>>, <<LetAttr("self", "peer", Call("A", <<N(2)>>)), LetAttr("self", "u", S(97))>>)>>),
    Let("a", Call("A", <<N(4)>>)), Let("b", Call("B", <<>>)), Let("p", Dot(V("b"), "peer")), Let("g", CallOf(Dot(V("a"), "get"), <<>>)),
    Let("k", Dot(V("a"), "k"))>>
Handlers ==
  <<Def("f", <<Param("x")>>,
        <<Try(<<If(V("x"), <<Raise("ValueError")>>), Do(Call("print", <<N(1)>>))>>,
              <<Except("ValueError", <<Return(N(1))>>), ExceptStatement(<<TupleConstructor(<<V("IndexError")>>)>>, "e", <<Return(N(2))>>)>>),
          TryStatement(<<Pass>>, <<>>, <<>>, <<<<Show(N(3))>>>>), Return(N(4))>>),
    WithStatement(<< <<Call("f", <<N(1)>>), "">>, <<Call("f", <<N(0)>>), "">> >>, <<Pass>>)>>
WithAs == <<WithStatement(<< <<Call("len", <<S(97)>>), "h">> >>, <<Pass>>)>>
BareExcept == <<Try(<<ListStatement("raise", <<V("ValueError")>>)>>, <<ExceptStatement(<<>>, "", <<Show(N(1))>>)>>)>>
\* Assigned again, outside loops and functions.
Reassigned ==
  <<Let("x", N(1)), Let("y", V("x")), Let("x", N(2)), Let("z", V("x")), Let("s", S(97)), Let("s", Bin(Blank, "+", S(97))), Let("t", V("s")),
    If(V("y"), <<Let("x", N(3))>>), Let("d", Bin(V("x"), "+", V("y"))), IfElse(Call("int", <<V("s")>>), <<Let("b", N(0))>>, <<Let("b", N(1))>>),
    Let("c", V("b")), Let("l", ListConstructor(<<N(1)>>)), Let("m", ArrayIndex(V("l"), N(0))), Let("l", ListConstructor(<<N(2)>>)), Let("n", ArrayIndex(V("l"), N(0))),
    Let("p", TupleConstructor(<<N(1)>>)), Let("p", TupleConstructor(<<N(1)>>)), Let("q", ArrayIndex(V("p"), N(0)))>>
\* One name for two classes: which of them it is is not known.
TwoClasses ==
  <<Class("A", <<Let("x", N(1))>>), Class("B", <<Let("x", N(2))>>), Let("k", V("A")), Let("k", V("B")), Let("h", V("k")),
    Let("y", Dot(V("k"), "x")), Let("z", Dot(V("h"), "x"))>>
Generators == <<Def("f", <<Param("x")>>, <<YieldStatement(<<V("x")>>, FALSE), YieldStatement(<<Call("f", <<V("x")>>)>>, TRUE)>>)>>
Unsupported ==
  << <<AugmentStatement("+=", LName("a"), N(1))>>, <<Let("a", N(1)), DeleteStatement(LName("a"))>>, <<ListStatement("exec", <<S(97)>>)>>,
     <<Let("a", ArraySlice(S(97), <<N(1)>>, <<>>, <<>>))>>, <<FunctionDefinition(<<V("print")>>, "f", FunctionArguments(<<>>, "", ""), <<>>, <<Pass>>)>>,
     <<Let("a", Lambda(<<Given("x", N(1))>>, V("x"))), Let("b", Lambda(<<>>, Lambda(<<Given("y", Lambda(<<>>, N(1)))>>, V("y"))))>>,
     <<AssignmentStatement(ArrayIndexLValueReference(V("int"), N(0)), N(1))>>,
     <<AssignmentStatement(ArraySliceLValueReference(V("int"), <<N(0)>>, <<N(1)>>, <<N(2)>>), ListConstructor(<<>>))>>,
     <<ImportStatement({<<<<"time">>, <<"time">>>>}, {}, TRUE)>> >>
\* What Python reads otherwise, or the parser does not.
Unread ==
  << <<Do(FunctionCall(V("print"), <<>>, {}, <<V("a")>>, <<>>))>>, <<Let("a", Bin(N(1), "+", Minus(N(2))))>>, <<Do(Bin(N(1), "+", N(2)))>>,
     <<Do(S(97)), Let("a", N(1))>>, <<Let("a", Bin(N(2), "**", Bin(N(2), "**", N(3))))>> >>
\* Errors that the annotation finds, and the analysis.
Errors ==
  << <<GlobalStatement(<<"x">>)>>, <<Def("f", <<>>, <<Let("x", N(1)), GlobalStatement(<<"x">>)>>)>>, <<Let("print", N(1))>>,
     <<Def("f", <<>>, <<Class("A", <<Pass>>)>>)>>, <<Class("A", <<Def("__init__", <<Param("me")>>, <<Pass>>)>>)>>,
     <<Class("A", <<Let("x", N(1)), Let("x", N(2))>>)>>, <<Def("f", <<>>, <<ReturnStatement(<<>>)>>)>>, <<Let("x", N(1)), Let("x", S(97))>>,
     <<ImportStatement({<<<<"nowhere">>, <<"nowhere">>>>}, {}, FALSE)>>, <<Return(N(1))>>, <<YieldStatement(<<N(1)>>, FALSE)>>,
     <<Show(V("unknown"))>>, <<Let("a", Dot(BoolConstant(TRUE), "real"))>>, <<For("x", N(1), <<Pass>>)>>, <<Let("x", ArrayIndex(Dictionary, ListConstructor(<<>>)))>>,
     <<Class("A", <<Def("__init__", <<Param("self")>>, <<Return(N(1))>>)>>)>>, <<Do(Call("f", <<>>)), Def("f", <<>>, <<Pass>>)>>,
     <<ListStatement("assert", <<N(0), N(1)>>)>>, <<Let("x", SetConstructor(<<ListConstructor(<<>>)>>))>>, <<Let("x", Bin(N(1), "+", S(97)))>> >>
Language == <<Operators, Formats, BadFormat, Collections, Comprehensions, Unpacking, Nested, Annotations, WrongAnnotation, Variadic,
              ConstructorOnly, ImportInFunction, Handlers, WithAs, BareExcept, Generators, Reassigned, TwoClasses>> \o Unsupported \o Unread \o Errors

(***************************************************************************)
(* The operators: x is l op r, w and q are u op r and l op v where of u and*)
(* v the type is known.                                                    *)
(***************************************************************************)
Applied(l, op, r) ==
  <<Let("x", Bin(l, op, r)), IfElse(V("x"), <<Let("y", N(1))>>, <<Let("z", N(2))>>),
    For("u", ListConstructor(<<l>>), <<Let("w", Bin(V("u"), op, r))>>), For("v", ListConstructor(<<r>>), <<Let("q", Bin(l, op, V("v")))>>)>>
\* A program for each left operand, operator and right operand.
Group(ls, ops, rs) ==
  [k \in 1 .. Len(ls) * Len(ops) * Len(rs) |->
     LET i == k - 1 IN Applied(ls[1 + (i % Len(ls))], ops[1 + ((i \div Len(ls)) % Len(ops))], rs[1 + (i \div (Len(ls) * Len(ops)))])]
Compared == <<"<", ">", "<=", ">=", "==", "!=">>
Ints   == <<N(0), N(1), N(6)>>
Bools  == <<BoolConstant(TRUE), BoolConstant(FALSE)>>
Floats == <<N(2), FloatConstant(<<25, -1>>), FloatConstant(<<1, 0>>)>>
Lists  == <<ListConstructor(<<>>), ListConstructor(<<N(1)>>), ListConstructor(<<N(1), N(2)>>)>>
Tuples == <<TupleConstructor(<<N(1), S(97)>>), TupleConstructor(<<N(1), S(98)>>), TupleConstructor(<<N(2)>>)>>
SomeSets == <<SetConstructor(<<N(1)>>), SetConstructor(<<N(2), N(1)>>)>>
Texts  == <<Blank, S(97), UnicodeConstant(<<97, 98>>)>>
Bytes  == <<BytesConstant(<<98>>), BytesConstant(<<97>>)>>
Negative == <<Minus(N(3)), UnaryOperation("~", N(1)), UnaryOperation("+", BoolConstant(TRUE))>>
OperatorPrograms ==
  Group(Ints, Compared \o <<"and", "or", "|", "^", "&", "<<", ">>", "+", "-", "*", "/", "//", "%", "**">>, Ints)
  \o Group(Bools, <<"and", "or", "|", "^", "&", "==", "<">>, Bools)
  \o Group(Floats, Compared \o <<"+", "-", "*", "/", "//", "%", "and">>, Floats)
  \o Group(Texts, Compared \o <<"in", "not in", "+", "and", "or">>, Texts) \o Group(Bytes, <<"==", "<", "in", "+">>, Bytes)
  \o Group(Lists, <<"==", "!=", "+", "and">>, Lists) \o Group(Tuples, Compared \o <<"+", "or">>, Tuples)
  \o Group(<<N(1), N(3)>>, <<"in", "not in">>, Lists \o <<SomeSets[1], Dictionary>>)
  \o Group(Lists, <<"*">>, Ints) \o Group(<<N(2)>>, <<"*">>, Tuples) \o Group(SomeSets, <<"|", "-", "^">>, SomeSets) \o Group(<<SomeSets[2]>>, <<"&">>, <<SomeSets[2]>>)
  \o Group(Negative, Compared \o <<"|", "^", "&", ">>", "<<", "*">>, <<N(2)>>)

MCPrograms == Tests \o Language \o OperatorPrograms
MCLayouts  == [i \in DOMAIN MCPrograms |-> IF i > Len(Tests \o Language) THEN {"tight"} ELSE Source!Layouts]
MCValid    == DOMAIN Tests

(***************************************************************************)
(* A value known at first, and changed later                               *)
(***************************************************************************)
ChangedInLoop ==
  <<Let("x", BoolConstant(FALSE)), Let("n", N(0)),
    While(Bin(V("n"), "<", N(3)), <<If(V("x"), <<Break>>), Let("x", BoolConstant(TRUE)), Let("n", Bin(V("n"), "+", N(1)))>>)>>
StalePrograms == <<ChangedInLoop>>
StaleLayouts  == [i \in DOMAIN StalePrograms |-> {"spaced"}]
=============================================================================
