--------------------------- MODULE MCCompiledCode ---------------------------
(***************************************************************************)
(* Programs for CodeMeaning: every operator on every pair of types it      *)
(* takes, and one program or more for every other thing the compiler       *)
(* compiles; most are run with and without fragments for their functions   *)
(* and with reference counting inline or not.                              *)
(***************************************************************************)
EXTENDS CodeMeaning

BoolT == <<"Bool">>
IntT  == <<"Int">>
FloatT == <<"Float">>
StrT  == <<"Unicode">>
ListOf(t) == <<"List", t>>
InstanceOf(c) == <<"Instance", c>>

I(n) == [e |-> "int", n |-> n]
B(n) == [e |-> "bool", n |-> n]
F(n) == [e |-> "float", n |-> n]
S(x) == [e |-> "str", name |-> x]
None == [e |-> "none"]
V(x) == [e |-> "var", name |-> x]
Un(op, x)     == [e |-> "unary", op |-> op, x |-> x]
Bin(op, l, r) == [e |-> "binary", op |-> op, l |-> l, r |-> r]
Cond(c, x, y) == [e |-> "if", c |-> c, x |-> x, y |-> y]
ListE(t, items)   == [e |-> "list", type |-> t, items |-> items]
TupleE(ts, items) == [e |-> "tuple", types |-> ts, items |-> items]
Ix(x, i)   == [e |-> "index", x |-> x, i |-> i]
At(x, n)   == [e |-> "attr", x |-> x, name |-> n]
Call0(f, args, split) == [e |-> "call", f |-> f, args |-> args, kwargs |-> <<>>, split |-> split]
Named(n, x)  == [name |-> n, value |-> x]
CallK(f, args, kwargs, split) == [Call0(f, args, split) EXCEPT !.kwargs = kwargs]
Method(x, f, args, split) ==
  [e |-> "call", f |-> f, args |-> args, kwargs |-> <<>>, split |-> split, function |-> At(x, f)]

Do(x)        == [s |-> "expr", x |-> x]
Set(n, x)    == [s |-> "assign", name |-> n, x |-> x]
SetAt(b, n, x) == [s |-> "attribute", base |-> b, name |-> n, x |-> x]
Arm(c, body) == [check |-> c, body |-> body]
IfS(arms, orelse) == [s |-> "if", arms |-> arms, orelse |-> orelse]
WhileS(c, body, orelse) == [s |-> "while", check |-> c, body |-> body, orelse |-> orelse]
ForS(n, x, body, orelse) == [s |-> "for", name |-> n, x |-> x, body |-> body, orelse |-> orelse]
RaiseS(x)    == [s |-> "raise", x |-> x]
ReturnS(x)   == [s |-> "return", x |-> x]
AssertS(x, m) == [s |-> "assert", x |-> x, message |-> m]
Clause1(classes, n, body) == [classes |-> classes, name |-> n, body |-> body]
TryS(body, excepts, orelse, final) ==
  [s |-> "try", body |-> body, excepts |-> excepts, orelse |-> orelse, finally |-> final]
Leave(how)   == [s |-> how]
Define(n)    == [s |-> "define", name |-> n]

G(n, t) == [name |-> n, type |-> t]
Arg(n, t) == [name |-> n, type |-> t, default |-> None]
ArgD(n, t, d) == [name |-> n, type |-> t, default |-> d]
Fn(args, returns, more, body) ==
  [args |-> args, returns |-> returns, exc |-> FALSE, class |-> "", init |-> FALSE,
   annotation |-> Indeterminate, broken |-> FALSE, body |-> body,
   locals |-> [i \in DOMAIN args |-> G(args[i].name, args[i].type)] \o more]
Init0(class, args, body) ==
  LET self == Arg("self", InstanceOf(class))
  IN  [Fn(<<self>> \o args, InstanceOf(class), <<>>, body) EXCEPT !.class = class, !.init = TRUE]

Message == <<G("message", StrT)>>
Classes == [AssertionError |-> Message, ValueError |-> Message, IndexError |-> Message,
            PyJitCompilerError |-> Message, Oops |-> Message,
            Pair |-> <<G("first", IntT), G("name", StrT)>>]
ClassIds == [AssertionError |-> 1, ValueError |-> 2, IndexError |-> 3, PyJitCompilerError |-> 4,
             Oops |-> 5, Pair |-> 6]
Texts == [a |-> <<1>>, b |-> <<2>>, ab |-> <<1, 2>>, fmt |-> <<3, 0>>, fmt2 |-> <<0, 4, 0>>] @@ ("" :> <<>>)
         @@ ("exponent must be nonnegative" :> <<5>>)

Strings == <<"", "a", "b", "ab", "fmt", "fmt2", "exponent must be nonnegative">>

MakeOops == Init0("Oops", <<ArgD("m", StrT, S("a"))>>, <<SetAt(V("self"), "message", V("m"))>>)
MakePair == Init0("Pair", <<Arg("f", IntT), ArgD("n", StrT, S("b"))>>,
                  <<SetAt(V("self"), "first", V("f")), SetAt(V("self"), "name", V("n"))>>)
OopsE(split) == Call0("Oops_init", <<>>, split)

NoFunctions == [f \in {} |-> Fn(<<>>, IntT, <<>>, <<>>)]
Program(globals, functions, body) ==
  [globals |-> globals, classes |-> Classes, classId |-> ClassIds, functions |-> functions,
   text |-> Texts, strings |-> Strings, body |-> body, inline |-> TRUE, known |-> <<>>]

(***************************************************************************)
(* Operators: the operands come from variables.                            *)
(***************************************************************************)
ResultType(op, lt, rt) ==
  CASE op \in {"lt", "le", "gt", "ge", "eq", "ne", "in", "not in", "is", "is not"} -> BoolT
    [] op = "/" -> FloatT
    [] StrT = lt -> StrT
    [] FloatT \in {lt, rt} -> FloatT
    [] OTHER -> IntT
Numbers(lt, rt) == <<"lt", "le", "gt", "ge", "eq", "ne">> \o
                   (IF BoolT \in {lt, rt} THEN <<>> ELSE <<"+", "-", "*", "/", "%", "//", "**">>) \o
                   (IF FloatT \in {lt, rt} \/ BoolT \in {lt, rt} THEN <<>> ELSE <<"&", "|", "^", "<<", ">>">>)
Operators(lt, rt) == IF lt = StrT THEN <<"lt", "le", "gt", "ge", "eq", "ne", "in", "not in", "+">> ELSE Numbers(lt, rt)
ResultNames == [i \in 1 .. 20 |-> <<"r1", "r2", "r3", "r4", "r5", "r6", "r7", "r8", "r9", "r10", "r11", "r12", "r13",
                                    "r14", "r15", "r16", "r17", "r18", "r19", "r20">>[i]]
OperatorProgram(lt, rt, x, y) ==
  LET ops == Operators(lt, rt)
  IN  Program(<<G("x", lt), G("y", rt)>> \o [i \in DOMAIN ops |-> G(ResultNames[i], ResultType(ops[i], lt, rt))],
              NoFunctions,
              <<Set("x", x), Set("y", y)>> \o [i \in DOMAIN ops |-> Set(ResultNames[i], Bin(ops[i], V("x"), V("y")))])

OperatorPrograms ==
  <<OperatorProgram(IntT, IntT, I(7), I(2)), OperatorProgram(IntT, IntT, I(2), I(7)),
    OperatorProgram(IntT, IntT, I(6), I(3)),
    OperatorProgram(IntT, FloatT, I(3), F(20)), OperatorProgram(FloatT, IntT, F(35), I(2)),
    OperatorProgram(FloatT, FloatT, F(35), F(20)), OperatorProgram(FloatT, FloatT, F(10), F(20)),
    OperatorProgram(BoolT, IntT, B(1), I(1)), OperatorProgram(BoolT, BoolT, B(0), B(1)),
    OperatorProgram(StrT, StrT, S("ab"), S("b")), OperatorProgram(StrT, StrT, S("b"), S("ab")),
    OperatorProgram(StrT, StrT, S("a"), S("a"))>>

UnaryProgram ==
  Program(<<G("x", IntT), G("b", BoolT), G("f", FloatT), G("s", StrT), G("r1", BoolT), G("r2", IntT), G("r3", IntT),
            G("r4", BoolT), G("r5", BoolT), G("r6", FloatT), G("r7", BoolT), G("r8", IntT), G("r9", FloatT), G("r10", BoolT)>>,
          NoFunctions,
          <<Set("x", I(5)), Set("b", B(0)), Set("f", F(-15)), Set("s", S("ab")),
            Set("r1", Un("not", V("x"))), Set("r2", Un("~", V("x"))), Set("r3", Un("-", V("x"))),
            Set("r4", Un("not", V("b"))), Set("r5", Un("not", V("f"))), Set("r6", Un("-", V("f"))),
            Set("r7", Un("not", V("s"))), Set("r8", Un("+", V("b"))), Set("r9", Un("+", V("f"))),
            Set("r10", Un("not", None)), Do(V("s"))>>)

\* Truth of every type, on both branches of and, or, the conditional expression and if.
TruthProgram(x, t, other) ==
  Program(<<G("x", t), G("y", t), G("r1", t), G("r2", t), G("r3", t), G("n", IntT), G("m", IntT)>>, NoFunctions,
          <<Set("x", x), Set("y", other), Set("r1", Bin("and", V("x"), V("y"))), Set("r2", Bin("or", V("x"), V("y"))),
            Set("r3", Cond(V("x"), V("y"), V("x"))), Set("n", I(0))>>
          \o (IF HasRefcount(t) THEN <<>>
              ELSE <<IfS(<<Arm(V("x"), <<Set("n", I(1))>>), Arm(V("y"), <<Set("n", I(2))>>)>>, <<Set("n", I(3))>>),
                     IfS(<<Arm(I(0), <<>>), Arm(V("x"), <<Set("m", I(1))>>), Arm(I(1), <<Set("m", I(2))>>)>>, <<>>),
                     AssertS(Bin("or", V("x"), V("y")), <<>>)>>))

(***************************************************************************)
(* Collections, strings and instances                                      *)
(***************************************************************************)
CollectionProgram ==
  Program(<<G("l", ListOf(StrT)), G("k", ListOf(IntT)), G("t", <<"Tuple", StrT, IntT, FloatT>>), G("s", StrT), G("n", IntT),
            G("f", FloatT), G("fl", ListOf(FloatT)), G("u", StrT)>>, NoFunctions,
          <<Set("s", Bin("+", S("a"), S("b"))), Set("l", ListE(StrT, <<V("s"), S("a"), Bin("+", V("s"), V("s"))>>)),
            Set("k", ListE(IntT, <<I(4), Bin("+", I(1), I(2))>>)),
            Set("t", TupleE(<<StrT, IntT, FloatT>>, <<Bin("+", S("a"), V("s")), I(3), F(25)>>)),
            Set("fl", ListE(FloatT, <<F(15), F(-5)>>)),
            Set("n", I(0)), Do(ListE(StrT, <<Bin("+", V("s"), S("b"))>>)),
            ForS("s", V("l"), <<Set("n", Bin("+", V("n"), I(1)))>>, <<Set("n", Bin("*", V("n"), I(10)))>>),
            ForS("f", V("fl"), <<Set("n", Bin("+", V("n"), I(1)))>>, <<>>),
            ForS("s", TupleE(<<StrT, StrT>>, <<S("a"), V("s")>>),
                 <<IfS(<<Arm(Bin("eq", V("n"), I(32)), <<Leave("continue")>>)>>, <<>>), Set("n", Bin("+", V("n"), I(5))),
                   Leave("break")>>, <<Set("n", I(1))>>)>>)

FormatProgram ==
  Program(<<G("s", StrT), G("t", StrT)>>, NoFunctions,
          <<Set("s", Bin("%", S("fmt"), S("ab"))),
            Set("t", Bin("%", S("fmt2"), TupleE(<<StrT, StrT>>, <<V("s"), S("b")>>)))>>)

LoopProgram ==
  Program(<<G("i", IntT), G("n", IntT), G("j", IntT)>>, NoFunctions,
          <<Set("i", I(0)), Set("n", I(0)),
            WhileS(Bin("lt", V("i"), I(4)),
                   <<Set("i", Bin("+", V("i"), I(1))),
                     IfS(<<Arm(Bin("eq", V("i"), I(2)), <<Leave("continue")>>)>>, <<>>),
                     ForS("j", ListE(IntT, <<I(1), I(2)>>), <<Set("n", Bin("+", V("n"), V("j")))>>, <<>>)>>,
                   <<Set("n", Bin("+", V("n"), I(100)))>>),
            WhileS(I(1), <<Leave("break")>>, <<Set("n", I(0))>>)>>)

InstanceProgram ==
  Program(<<G("Pair", InstanceOf("Pair")), G("p", InstanceOf("Pair")), G("q", InstanceOf("Pair")), G("n", IntT),
            G("s", StrT), G("b", BoolT)>>,
          [Pair_init |-> MakePair],
          <<Set("p", Call0("Pair_init", <<I(3)>>, 1)), Set("q", V("p")), Set("n", At(V("q"), "first")),
            SetAt(V("q"), "name", Bin("+", At(V("p"), "name"), S("a"))), Set("s", At(V("p"), "name")),
            Set("b", Bin("is", V("p"), V("q"))), SetAt(V("p"), "first", I(8)),
            Set("q", CallK("Pair_init", <<I(4)>>, <<Named("n", S("ab"))>>, 2))>>)

MethodProgram ==
  LET bump == [Fn(<<Arg("self", InstanceOf("Pair")), Arg("by", IntT)>>, StrT, <<>>,
                  <<SetAt(V("self"), "first", Bin("+", At(V("self"), "first"), V("by"))), ReturnS(At(V("self"), "name"))>>)
               EXCEPT !.class = "Pair"]
  IN  Program(<<G("p", InstanceOf("Pair")), G("s", StrT)>>, [Pair_init |-> MakePair, bump |-> bump],
              <<Set("p", Call0("Pair_init", <<I(3)>>, 1)), Set("s", Method(V("p"), "bump", <<I(2)>>, 2)),
                Do(Method(V("p"), "bump", <<I(2)>>, 3))>>)

(***************************************************************************)
(* Functions                                                               *)
(***************************************************************************)
Args7 == [i \in 1 .. 7 |-> Arg(<<"a", "b", "c", "d", "e", "f", "g">>[i], IF i = 7 THEN StrT ELSE IntT)]
ManyArguments ==
  Program(<<G("n", IntT), G("s", StrT)>>,
          [many |-> Fn(Args7, IntT, <<>>,
                       <<IfS(<<Arm(Bin("eq", V("g"), S("a")), <<ReturnS(Bin("-", V("a"), V("f")))>>)>>, <<>>),
                         ReturnS(Bin("+", V("a"), Bin("*", V("e"), V("f"))))>>)],
          <<Set("s", S("a")), Set("n", Call0("many", <<I(1), I(2), I(3), I(4), I(5), I(6), V("s")>>, 1)),
            Set("n", Bin("+", V("n"), Call0("many", <<I(1), I(2), I(3), I(4), I(5), I(6), S("b")>>, 2)))>>)

FloatArguments2 ==
  Program(<<G("f", FloatT), G("n", IntT)>>,
          [mix |-> Fn(<<Arg("a", IntT), Arg("x", FloatT), ArgD("y", FloatT, F(15)), ArgD("b", IntT, I(2))>>, FloatT, <<G("z", FloatT)>>,
                      <<Set("z", Bin("-", V("x"), V("y"))), ReturnS(Bin("*", V("z"), V("b")))>>)],
          <<Set("f", Call0("mix", <<I(1), F(45)>>, 1)),
            Set("f", Bin("+", V("f"), CallK("mix", <<I(1), F(20)>>, <<Named("b", I(3))>>, 2)))>>)

\* half calls twice in a loop: the first call of twice splits half.
Calls ==
  LET half == Fn(<<Arg("n", IntT), Arg("s", StrT)>>, IntT, <<G("i", IntT), G("t", StrT)>>,
                 <<Set("i", I(0)),
                   WhileS(Bin("lt", V("i"), V("n")),
                          <<Set("t", Call0("twice", <<V("s")>>, 1)), Set("i", Bin("+", V("i"), I(2)))>>,
                          <<IfS(<<Arm(Bin("gt", V("n"), I(3)), <<ReturnS(I(0))>>)>>, <<>>)>>),
                   ReturnS(Bin("//", V("n"), I(2)))>>)
      twice == Fn(<<Arg("s", StrT)>>, StrT, <<G("t", StrT)>>,
                  <<Set("t", Bin("+", V("s"), V("s"))), ReturnS(V("t"))>>)
  IN  Program(<<G("twice", IntT), G("n", IntT), G("s", StrT), G("t", StrT)>>, [half |-> half, twice |-> twice],
              <<Define("twice"), Set("n", Call0("half", <<I(3), S("b")>>, 1)), Set("s", Call0("twice", <<S("ab")>>, 2)),
                Set("t", Bin("+", V("s"), Call0("twice", <<S("a")>>, 3))), Set("n", Call0("half", <<I(4), V("t")>>, 4))>>)

(***************************************************************************)
(* Exceptions                                                              *)
(***************************************************************************)
\* check(n) raises for 2, asserts n # 3 and answers n otherwise.
CheckFn == Fn(<<Arg("n", IntT), ArgD("s", StrT, S("ab"))>>, IntT, <<G("t", StrT)>>,
              <<Set("t", Bin("+", V("s"), S("a"))),
                IfS(<<Arm(Bin("eq", V("n"), I(2)), <<RaiseS(OopsE(7))>>)>>, <<>>),
                AssertS(Bin("ne", V("n"), I(3)), <<V("t")>>), ReturnS(V("n"))>>)
ExceptionProgram(n) ==
  Program(<<G("n", IntT), G("m", IntT), G("e", InstanceOf("Oops"))>>, [check |-> CheckFn, Oops_init |-> MakeOops],
          <<Set("n", I(0)), Set("m", I(0)),
            TryS(<<Set("n", Call0("check", <<I(n)>>, 1)), Set("n", Bin("+", V("n"), I(10)))>>,
                 <<Clause1(<<"ValueError", "Oops">>, "", <<Set("m", I(1))>>),
                   Clause1(<<"AssertionError">>, "", <<Set("m", I(2))>>)>>,
                 <<Set("m", I(3))>>,
                 <<Set("n", Bin("+", V("n"), I(100)))>>),
            TryS(<<TryS(<<Set("n", Call0("check", <<I(n)>>, 2))>>, <<>>, <<>>, <<Set("m", Bin("+", V("m"), I(10)))>>)>>,
                 <<Clause1(<<"Oops">>, "e", <<Set("m", Bin("+", V("m"), I(20)))>>)>>, <<>>,
                 <<Set("m", Bin("+", V("m"), I(40)))>>),
            Set("n", Bin("+", V("n"), I(1)))>>)

\* An index leaks the reference to its collection: the exception at the end,
\* which leaks as well, lets ReferencesExact accept that.
IndexErrorProgram ==
  Program(<<G("l", ListOf(StrT)), G("t", <<"Tuple", IntT, StrT, FloatT>>), G("s", StrT), G("u", StrT), G("n", IntT), G("f", FloatT)>>,
          NoFunctions,
          <<Set("n", I(0)), Set("l", ListE(StrT, <<S("a"), Bin("+", S("a"), S("b"))>>)),
            Set("t", TupleE(<<IntT, StrT, FloatT>>, <<I(4), S("b"), F(25)>>)),
            Set("s", Ix(V("l"), I(-1))), Set("u", Ix(V("t"), I(1))), Set("f", Ix(V("t"), I(-1))),
            TryS(<<Set("n", Ix(V("t"), I(0))), Do(Bin("+", S("a"), Ix(V("l"), V("n")))), Set("n", I(2))>>,
                 <<Clause1(<<"IndexError">>, "", <<Set("n", Bin("+", V("n"), I(5)))>>)>>,
                 <<Set("n", I(1))>>, <<>>)>>)

\* An item of a list of floats is moved from rsi, wherever it was put: it is right as
\* the second argument in an integer register, and where nobody looks at it.
FloatItemProgram ==
  Program(<<G("fl", ListOf(FloatT)), G("f", FloatT), G("n", IntT)>>,
          [mix |-> Fn(<<Arg("a", IntT), Arg("x", FloatT)>>, FloatT, <<>>, <<ReturnS(Bin("+", V("x"), V("a")))>>)],
          <<Set("fl", ListE(FloatT, <<F(15), F(-5), F(25)>>)),
            Set("f", Call0("mix", <<I(1), Ix(V("fl"), I(-1))>>, 1)), Do(Ix(V("fl"), I(0))),
            TryS(<<Set("f", Call0("mix", <<I(2), Ix(V("fl"), I(3))>>, 2))>>,
                 <<Clause1(<<"IndexError">>, "", <<Set("n", I(1))>>)>>, <<>>, <<>>)>>)

AttributeIndexProgram ==
  Program(<<G("n", IntT)>>, [many |-> Fn(<<>>, IntT, <<>>, <<AssertS(B(0), <<>>), ReturnS(I(1))>>)],
          <<TryS(<<Set("n", Call0("many", <<>>, 1))>>, <<>>, <<>>, <<Set("n", I(4))>>), Set("n", I(5))>>)

BrokenProgram ==
  LET bad == [Fn(<<Arg("s", StrT)>>, IntT, <<>>, <<ReturnS(Un("-", V("s")))>>) EXCEPT !.broken = TRUE]
  IN  Program(<<G("n", IntT)>>, [bad |-> bad],
              <<TryS(<<Set("n", I(1)), Set("n", Call0("bad", <<S("a")>>, 1))>>,
                     <<Clause1(<<"PyJitCompilerError">>, "", <<Set("n", Bin("+", V("n"), I(1)))>>)>>, <<>>, <<>>)>>)

(***************************************************************************)
(* All of them                                                             *)
(***************************************************************************)
\* Every function, those that another one calls first.
CalledFirst  == <<"Oops_init", "Pair_init", "twice", "half", "bump", "many", "mix", "check">>
Eager(p)     == [p EXCEPT !.known = SelectSeq(CalledFirst, LAMBDA f : f \in DOMAIN p.functions)]
OutOfLine(p) == [p EXCEPT !.inline = FALSE]

PlainPrograms == OperatorPrograms \o
  <<UnaryProgram, TruthProgram(I(0), IntT, I(3)), TruthProgram(F(5), FloatT, F(0)), TruthProgram(B(1), BoolT, B(0)),
    TruthProgram(S(""), StrT, S("a")), TruthProgram(S("a"), StrT, S("b")),
    CollectionProgram, FormatProgram, LoopProgram, IndexErrorProgram>>
CallingPrograms ==
  <<InstanceProgram, MethodProgram, ManyArguments, FloatArguments2, Calls, ExceptionProgram(1), ExceptionProgram(2),
    ExceptionProgram(3), AttributeIndexProgram, FloatItemProgram>>

Sound == PlainPrograms \o CallingPrograms \o [i \in DOMAIN CallingPrograms |-> Eager(CallingPrograms[i])]
         \o [i \in DOMAIN CallingPrograms |-> OutOfLine(CallingPrograms[i])]
         \o <<BrokenProgram, OutOfLine(CollectionProgram), OutOfLine(FormatProgram)>>

\* Two nested loops whose inner one is left by an exception.
RaiseInLoop ==
  <<Program(<<G("i", IntT), G("j", IntT), G("n", IntT)>>, [Oops_init |-> MakeOops],
            <<Set("n", I(0)),
              ForS("i", ListE(IntT, <<I(1), I(2), I(3)>>),
                   <<TryS(<<ForS("j", ListE(IntT, <<I(5), I(6), I(7)>>),
                                 <<IfS(<<Arm(Bin("eq", V("j"), I(7)), <<RaiseS(OopsE(1))>>)>>, <<>>)>>, <<>>)>>,
                          <<Clause1(<<"Oops">>, "", <<Set("n", Bin("+", V("n"), I(1)))>>)>>, <<>>, <<>>)>>, <<>>)>>)>>

\* An exception that no clause of the try statement takes.
NotTaken ==
  <<Program(<<G("n", IntT)>>, [Oops_init |-> MakeOops],
            <<Set("n", I(0)),
              TryS(<<RaiseS(OopsE(1))>>, <<Clause1(<<"ValueError">>, "", <<Set("n", I(1))>>)>>, <<>>, <<>>),
              Set("n", I(2))>>)>>
=============================================================================
