------------------------- MODULE CompilationVisitor -------------------------
(***************************************************************************)
(* The code that CompilationVisitor writes for a function or a root scope  *)
(* (src/source/Compiler/CompilationVisitor.cc): one operator per visit     *)
(* method, and one per family of operators of BinaryOperation.             *)
(*                                                                         *)
(* An expression is a record whose field e names its node, a statement one *)
(* whose field s does; a suite is a sequence of statements, and an else or *)
(* finally suite that is not there is empty.  The value of an expression   *)
(* goes to the target register (a float to the float target register); the *)
(* visitor's type and held say what it is and whether the code owns a      *)
(* reference to it.  Bytes are compiled as Unicode strings are.            *)
(***************************************************************************)
EXTENDS Emitter

IsNumber(t) == Kind(t) \in {"Bool", "Int", "Float"}
IsInt(t)    == Kind(t) \in {"Bool", "Int"}
IsFloat(t)  == t = <<"Float">>
IsString(t) == t = <<"Unicode">>
Condition(cc) == [K(0) EXCEPT !.r = cc]

T(v)  == R(v.target)
FT(v) == R(v.ftarget)
SetCondition(v, cc) == Emit1(v, "set", T(v), Condition(cc))
NotHeld(v) == HasRefcount(v.type) /\ ~v.held
Discard(v) == DeleteHeld(v, T(v))
Free(v)    == Retarget(v, Available(v))

\* catch (const terminated_by_split &), and a catch clause, w afterwards, that
\* throws the split again.
Caught(w)     == IF w.thrown = "split" THEN [w EXCEPT !.thrown = ""] ELSE w
Rethrow(v, w) == IF v.thrown = "split" THEN Throw(w, "split") ELSE w

(***************************************************************************)
(* Truth values                                                            *)
(***************************************************************************)
AlwaysFalse(t) == t = <<"None">>
TruthTest(v) ==
  CASE IsInt(v.type)   -> Emit1(v, "test", T(v), T(v))
    [] IsFloat(v.type) -> LET tmp == R(Available(v))
                          IN  Emit(v, <<Instr("movq", tmp, FT(v)), Instr("shl", tmp, K(1)),
                                        Instr("test", tmp, tmp)>>)
    [] IsContainer(v.type) -> LET size == R(AvailableExcept(v, {v.target}))
                              IN  Emit(v, <<Instr("mov", size, M(v.target, 2)),
                                            Instr("test", size, size)>>)
    [] OTHER -> Throw(v, "compile_error")

(***************************************************************************)
(* Unary operators                                                         *)
(***************************************************************************)
IsZero(v) == SetCondition(Emit(v, <<Instr("test", T(v), T(v)), Instr("mov", T(v), K(0))>>), "z")
LogicalNot(v) ==
  LET size == AvailableExcept(v, {v.target})
      IsEmpty(w) == Release(SetCondition(Emit(w, <<Instr("test", R(size), R(size)),
                                                   Instr("mov", T(v), K(0))>>), "z"), size)
  IN
  CASE v.type = <<"None">> -> Mov(v, T(v), K(1))
    [] v.type = <<"Bool">> -> Emit1(v, "xor", T(v), K(1))
    [] v.type = <<"Int">>  -> IsZero(v)
    [] IsFloat(v.type)     -> IsZero(Emit(v, <<Instr("movq", T(v), FT(v)), Instr("shl", T(v), K(1))>>))
    [] IsContainer(v.type) -> IsEmpty(Discard(Mov(Reserve(v, size), R(size), M(v.target, 2))))
    [] OTHER               -> Discard(Mov(v, T(v), K(1)))

NegateFloat(v) ==
  LET tmp == R(Available(v))
  IN  Emit(v, <<Instr("movq", tmp, FT(v)), Instr("rol", tmp, K(1)), Instr("xor", tmp, K(1)),
                Instr("ror", tmp, K(1)), Instr("movq", FT(v), tmp)>>)

Retyped(v, t) == Typed(v, t, v.held)
ApplyUnary(v, op) ==
  CASE ~Running(v) -> v
    [] op = "not" -> Retyped(LogicalNot(v), <<"Bool">>)
    [] op = "~"   -> Retyped(CompileError(Emit1(v, "not", T(v), Nothing), ~IsInt(v.type)), <<"Int">>)
    [] op = "+"   -> Typed(CompileError(v, ~IsNumber(v.type)),
                           IF v.type = <<"Bool">> THEN <<"Int">> ELSE v.type, v.held)
    [] op = "-" /\ IsInt(v.type)   -> Typed(Emit1(v, "neg", T(v), Nothing), <<"Int">>, v.held)
    [] op = "-" /\ IsFloat(v.type) -> NegateFloat(v)
    [] OTHER -> Throw(v, "compile_error")

(***************************************************************************)
(* Binary operators.  Both operands are on the stack, the right one on     *)
(* top, and the right one is also in the target register.                  *)
(***************************************************************************)
Left  == M("rsp", 1)
Right == M("rsp", 0)
Temp(v) == R(AvailableExcept(v, {v.target}))

IntCondition   == [lt |-> "l", gt |-> "g", le |-> "le", ge |-> "ge", eq |-> "z", ne |-> "nz"]
FloatRight     == [lt |-> "cmpltsd", gt |-> "cmpnlesd", le |-> "cmplesd", ge |-> "cmpnltsd",
                   eq |-> "cmpeqsd", ne |-> "cmpneqsd"]
\* Mutant: the operands of a comparison in the wrong order.
FloatSame      == [lt |-> "cmpltsd", gt |-> "cmpnlesd", le |-> "cmplesd", ge |-> "cmpnltsd",
                   eq |-> "cmpeqsd", ne |-> "cmpneqsd"]
\* The right operand is compared with the left one here.
FloatLeft      == [lt |-> "cmpnltsd", gt |-> "cmplesd", le |-> "cmpnlesd", ge |-> "cmpltsd",
                   eq |-> "cmpeqsd", ne |-> "cmpneqsd"]

CompareNumbers(v, op, lt, rt) ==
  LET x     == R(AvailableFloat(v))
      clear == Emit1(v, "xor", T(v), T(v))
  IN  CASE IsInt(lt) /\ IsInt(rt) ->
             SetCondition(Emit(clear, <<Instr("mov", Temp(v), Left), Instr("cmp", Temp(v), Right)>>),
                          IntCondition[op])
        [] IsFloat(lt) /\ IsInt(rt) ->
             Emit(clear, <<Instr("cvtsi2sd", x, Right), Instr(FloatLeft[op], x, Left),
                           Instr("movq", T(v), x)>>)
        [] IsFloat(rt) ->
             Emit(clear, <<IF IsInt(lt) THEN Instr("cvtsi2sd", x, Left) ELSE Instr("movsd", x, Left),
                           Instr(FloatRight[op], x, Right), Instr("movq", T(v), x)>>)

CompareStrings(v, op) ==
  LET equality  == op \in {"eq", "ne"}
      Answer(w) == CASE op = "eq" -> w
                     [] op = "ne" -> Emit1(w, "xor", T(v), K(1))
                     [] OTHER -> SetCondition(Emit(w, <<Instr("cmp", T(v), K(0)), Instr("mov", T(v), K(0))>>),
                                              IntCondition[op])
  IN  Answer(CallFunction(v, Code(IF equality THEN "unicode_equal" ELSE "unicode_compare"),
                          IF equality THEN <<T(v), Left>> ELSE <<Left, Right>>, <<>>, v.target))

Compare(v, op, lt, rt) ==
  CASE IsNumber(lt) /\ IsNumber(rt) -> Typed(CompareNumbers(v, op, lt, rt), <<"Bool">>, FALSE)
    [] IsString(lt) /\ IsString(rt) -> Typed(CompareStrings(v, op), <<"Bool">>, FALSE)
    [] OTHER -> Throw(v, "compile_error")

ContainsString(v, op, lt, rt) ==
  LET Answer(w) == IF op = "not in" THEN Emit1(w, "xor", T(v), K(1)) ELSE w
  IN  Typed(CompileError(Answer(CallFunction(v, Code("unicode_contains"), <<T(v), Left>>, <<>>, v.target)),
                         ~IsString(lt) \/ ~IsString(rt)), <<"Bool">>, FALSE)

Identity(v, op, lt, rt) ==
  LET isnot == op = "is not"
      Always(answer) == IF answer THEN Mov(v, T(v), K(1)) ELSE Emit1(v, "xor", T(v), T(v))
      compared == SetCondition(Emit(v, <<Instr("xor", T(v), T(v)), Instr("mov", Temp(v), Left),
                                         Instr("cmp", Temp(v), Right)>>),
                               IF isnot THEN "nz" ELSE "z")
  IN  Typed(CASE Kind(lt) # Kind(rt)  -> Always(isnot)
              [] lt = <<"None">>      -> Always(~isnot)
              [] Kind(lt) \in {"Int", "Float"} -> Throw(v, "compile_error")
              [] OTHER -> compared,
            <<"Bool">>, FALSE)

Bitwise2(v, op, lt, rt) ==
  CompileError(Emit1(v, CASE op = "|" -> "or" [] op = "&" -> "and" [] op = "^" -> "xor", T(v), Left),
               ~IsInt(lt) \/ ~IsInt(rt))

Shift(v, op, lt, rt) ==
  Emit(CompileError(v, ~IsInt(lt) \/ ~IsInt(rt) \/ "rcx" \notin v.ints),
       <<Instr("mov", R("rcx"), T(v)), Instr("mov", T(v), Left),
         Instr(IF op = "<<" THEN "shl" ELSE "sar", T(v), R("rcx"))>>)

Add(v, lt, rt) ==
  CASE IsString(lt) /\ IsString(rt) ->
         CallFunction(v, Code("unicode_concat"), <<Left, T(v), R("r14")>>, <<>>, v.target)
    [] IsInt(lt) /\ IsInt(rt)     -> Emit1(v, "add", T(v), Left)
    [] IsInt(lt) /\ IsFloat(rt)   -> Emit(v, <<Instr("cvtsi2sd", FT(v), Left), Instr("addsd", FT(v), Right)>>)
    [] IsFloat(lt) /\ IsInt(rt)   -> Typed(Emit(v, <<Instr("cvtsi2sd", FT(v), T(v)), Instr("addsd", FT(v), Left)>>),
                                           <<"Float">>, v.held)
    [] IsFloat(lt) /\ IsFloat(rt) -> Emit1(v, "addsd", FT(v), Left)
    [] OTHER -> Throw(v, "compile_error")

Subtract(v, lt, rt) ==
  CASE IsInt(lt) /\ IsInt(rt)     -> Emit(v, <<Instr1("neg", T(v)), Instr("add", T(v), Left)>>)
    [] IsInt(lt) /\ IsFloat(rt)   -> Emit(v, <<Instr("cvtsi2sd", FT(v), Left), Instr("subsd", FT(v), Right)>>)
    [] IsFloat(lt) /\ IsInt(rt)   -> Typed(Emit(v, <<Instr1("neg", T(v)), Instr("cvtsi2sd", FT(v), T(v)),
                                                     Instr("addsd", FT(v), Left)>>), <<"Float">>, v.held)
    [] IsFloat(lt) /\ IsFloat(rt) -> Emit(v, <<Instr("movq", FT(v), Left), Instr("subsd", FT(v), Right)>>)
    [] OTHER -> Throw(v, "compile_error")

Multiply(v, lt, rt) ==
  CASE IsInt(lt) /\ IsInt(rt)     -> Emit1(v, "imul", T(v), Left)
    [] IsInt(lt) /\ IsFloat(rt)   -> Emit(v, <<Instr("cvtsi2sd", FT(v), Left), Instr("mulsd", FT(v), Right)>>)
    [] IsFloat(lt) /\ IsInt(rt)   -> Typed(Emit(v, <<Instr("cvtsi2sd", FT(v), Right), Instr("mulsd", FT(v), Left)>>),
                                           <<"Float">>, v.held)
    [] IsFloat(lt) /\ IsFloat(rt) -> Emit1(v, "mulsd", FT(v), Left)
    [] OTHER -> Throw(v, "compile_error")

\* An operand as a float in register x.
LoadFloat(x, mem, t) == Instr(IF IsFloat(t) THEN "movsd" ELSE "cvtsi2sd", x, mem)

Divide(v, lt, rt) ==
  LET tmp  == R(AvailableFloatExcept(v, {v.ftarget}))
      rest == IF IsFloat(rt) THEN <<Instr("divsd", FT(v), Right)>>
              ELSE <<Instr("cvtsi2sd", tmp, Right), Instr("divsd", FT(v), tmp)>>
  IN  Typed(CompileError(Emit(v, <<LoadFloat(FT(v), Left, lt)>> \o rest), ~IsNumber(lt) \/ ~IsNumber(rt)),
            <<"Float">>, v.held)

Format(v, rt) ==
  LET r      == R(Prefer(v, "rdx"))
      tuple  == Kind(rt) = "Tuple"
      Object == CASE tuple -> v
                  [] HasRefcount(rt) -> Mov(v, r, K(1))
                  [] OTHER -> Emit1(v, "xor", r, r)
  IN  Typed(CallFunction(Object, Code(IF tuple THEN "unicode_format" ELSE "unicode_format_one"),
                         IF tuple THEN <<Left, Right, R("r14")>> ELSE <<Left, Right, r, R("r14")>>, <<>>, v.target),
            <<"Unicode">>, TRUE)

\* idiv divides rdx:rax; pushing them first moves the operands on the stack.
DivideInts(v, op) ==
  LET saved  == SelectSeq(<<"rax", "rdx">>, LAMBDA r : r # v.target /\ r \notin v.ints)
      result == IF op = "%" THEN "rdx" ELSE "rax"
      Done(w)  == Emit(w, <<Instr("mov", R("rax"), Left), Instr("xor", R("rdx"), R("rdx")), Instr1("idiv", Right)>>)
      Moved(w) == IF v.target = result THEN w ELSE Mov(w, T(v), R(result))
  IN  Typed(Each(Pop, Moved(Done(Each(LAMBDA w, r : Push(w, R(r)), v, saved))), Reverse(saved)), <<"Int">>, v.held)

DivideFloats(v, op, lt, rt) ==
  LET r    == AvailableFloatExcept(v, {v.ftarget})
      tmp  == R(AvailableFloatExcept(v, {v.ftarget, r}))
      both == <<LoadFloat(FT(v), Left, lt), LoadFloat(R(r), Right, rt)>>
      rest == IF op = "%"
              THEN <<Instr("movsd", tmp, FT(v)), Instr("divsd", tmp, R(r)), Instr("roundsd", tmp, tmp),
                     Instr("mulsd", tmp, R(r)), Instr("subsd", FT(v), tmp)>>
              ELSE <<Instr("divsd", FT(v), R(r)), Instr("roundsd", FT(v), FT(v))>>
  IN  Typed(Emit(v, both \o rest), <<"Float">>, v.held)

IntegerDivide(v, op, lt, rt) ==
  CASE ~IsNumber(lt) \/ ~IsNumber(rt) -> Throw(v, "compile_error")
    [] IsInt(lt) /\ IsInt(rt) -> DivideInts(v, op)
    [] OTHER -> DivideFloats(v, op, lt, rt)

PowerInts(v) ==
  LET positive == v.labels + 1
      again    == v.labels + 2
      skip     == v.labels + 3
      Checked(w) == Put(RaiseWithMessage(Jump(Emit1(w, "cmp", Right, K(0)), "ge", positive),
                                         "ValueError", "exponent must be nonnegative"), positive)
      Start(w) == Put(Emit(w, <<Instr("mov", T(v), K(1)), Instr("mov", Temp(v), Left)>>), again)
      Odd(w)   == Put(Emit1(Jump(Emit1(w, "test", Right, K(1)), "z", skip), "imul", T(v), Temp(v)), skip)
      Next0(w) == Jump(Emit(w, <<Instr("imul", Temp(v), Temp(v)), Instr("shr", Right, K(1))>>), "nz", again)
  IN  Next0(Odd(Start(Checked(FreshLabels(v, 3)))))

PowerFloats(v, lt, rt) ==
  LET l == AvailableFloat(v)
      r == AvailableFloatExcept(v, {l})
  IN  Typed(CallFunction(Emit(v, <<LoadFloat(R(l), Left, lt), LoadFloat(R(r), Right, rt)>>),
                         Code("pow"), <<>>, <<R(l), R(r)>>, v.ftarget), <<"Float">>, v.held)

Power(v, lt, rt) ==
  CASE IsInt(lt) /\ IsInt(rt)       -> PowerInts(v)
    [] IsFloat(lt) \/ IsFloat(rt)   -> PowerFloats(v, lt, rt)
    [] OTHER -> Throw(v, "compile_error")

Combine(v, op, lt, rt) ==
  CASE ~Running(v) -> v
    [] op \in DOMAIN IntCondition -> Compare(v, op, lt, rt)
    [] op \in {"in", "not in"}    -> ContainsString(v, op, lt, rt)
    [] op \in {"is", "is not"}    -> Identity(v, op, lt, rt)
    [] op \in {"|", "&", "^"}     -> Bitwise2(v, op, lt, rt)
    [] op \in {"<<", ">>"}        -> Shift(v, op, lt, rt)
    [] op = "+"  -> Add(v, lt, rt)
    [] op = "-"  -> Subtract(v, lt, rt)
    [] op = "*"  -> Multiply(v, lt, rt)
    [] op = "/"  -> Divide(v, lt, rt)
    [] op = "%" /\ IsString(lt) -> Format(v, rt)
    [] op \in {"%", "//"}       -> IntegerDivide(v, op, lt, rt)
    [] op = "**" -> Power(v, lt, rt)

\* The operands are destroyed once the result is on top of them.
DestroyOperands(v, lt, rt) ==
  LET Delete(w, i) == LET t == <<lt, rt>>[i]
                      IN  IF HasRefcount(t) THEN DeleteReference(w, M("rsp", i), t) ELSE w
  IN  IF ~HasRefcount(lt) /\ ~HasRefcount(rt) THEN Adjust(v, 2)
      ELSE Adjust(Mov(Each(Delete, Push(v, T(v)), <<1, 2>>), T(v), M("rsp", 0)), 3)

\* A value about to be pushed: a float goes through the integer target register.
PushValue(v) ==
  CompileError(Push(IF IsFloat(v.type) THEN Emit1(v, "movq", T(v), FT(v)) ELSE v, T(v)), NotHeld(v))

\* accept: an expression or a statement; visit_list: a suite.
RECURSIVE Visit(_, _), Block(_, _)
Block(v, suite) == IF ~Running(v) \/ suite = <<>> THEN v
                   ELSE Block(Visit(v, Head(suite)), Tail(suite))
\* A suite that a call without a fragment may cut off.
Suite(v, suite) == IF Running(v) THEN Caught(Block(v, suite)) ELSE v

\* `and` and `or` may skip the right operand.
ShortCircuit(v, a) ==
  LET Joined(right, left) ==
        Put(IF right.thrown = "split" THEN Typed(Caught(right), left.type, left.held)
            ELSE CompileError(right, NotHeld(right) \/ right.type # left.type \/ right.held # left.held),
            left.labels + 1)
      Tested(left) == Jump(TruthTest(CompileError(FreshLabels(left, 1), NotHeld(left))),
                           IF a.op = "or" THEN "nz" ELSE "z", left.labels + 1)
      Right2(left) == IF ~Running(left) \/ (a.op = "and" /\ AlwaysFalse(left.type)) THEN left
                      ELSE Joined(Visit(DeleteHeld(Tested(left), T(v)), a.r), left)
  IN  Right2(Visit(v, a.l))

Binary(v, a) ==
  LET Joined(w, lt, rt) == DestroyOperands(Combine(w, a.op, lt, rt), lt, rt)
      Both(right, lt) == IF right.thrown = "split" THEN Throw(Adjust(Caught(right), 1), "split")
                         ELSE Joined(PushValue(right), lt, right.type)
      Right2(left) == IF ~Running(left) THEN left ELSE Both(Visit(PushValue(left), a.r), left.type)
  IN  Right2(Visit(v, a.l))

Ternary(v, a) ==
  LET Joined(w, left, right) ==
        CASE left.thrown = "split" /\ right.thrown = "split" -> Throw(w, "split")
          [] right.thrown = "split"  -> Typed(w, left.type, left.held)
          [] left.thrown = "split"   -> w
          [] OTHER -> CompileError(w, left.type # right.type \/ left.held # right.held)
      Second(right, left, n) == Joined(Put(Caught(right), n + 2), left, right)
      First(left, n) ==
        Second(Visit(DeleteHeld(Put(Jump(Caught(left), "always", n + 2), n + 1), T(v)), a.y), left, n)
      Test(test) ==
        CASE ~Running(test)         -> test
          [] AlwaysFalse(test.type) -> Visit(DeleteHeld(test, T(v)), a.y)
          [] OTHER -> First(Visit(DeleteHeld(Jump(TruthTest(FreshLabels(test, 2)), "z", test.labels + 1), T(v)), a.x),
                            test.labels)
  IN  Test(Visit(v, a.c))

(***************************************************************************)
(* Constructors.  rbx points to the items while they are evaluated; the    *)
(* collection itself is on the stack.                                      *)
(***************************************************************************)
Items(v, items, types) ==
  LET Stored(w, i) == CompileError(Emit1(w, IF IsFloat(w.type) THEN "movsd" ELSE "mov", M("rbx", i - 1),
                                         IF IsFloat(w.type) THEN FT(w) ELSE T(w)),
                                   w.type # types[i])
  IN  Each(LAMBDA w, i : Stored(Visit(w, items[i]), i), v, Indices(items))

\* A split in an item takes the collection off the stack; the pop of rbx is not
\* counted and the reserved registers stay on it.
Construct(v, items, types, Allocate(_), first, marks, type) ==
  LET Ready(w) == Push(Emit1(w, first.op, R("rbx"), first.b), R("rax"))
      Done(w)  == Typed(Pop(PopReserved(Pop(Emit(w, marks), v.target), v), "rbx"), type, TRUE)
      Full(w)  == IF w.thrown = "split"
                  THEN Throw(Emit1(Adjust(Caught(w), 1), "pop", R("rbx"), Nothing), "split")
                  ELSE Done(w)
  IN  Full(Items(Ready(Allocate(PushReserved(Push(v, R("rbx"))))), items, types))

ListConstructor(v, a) ==
  LET flag == IF HasRefcount(a.type) THEN Instr("mov", R("rsi"), K(1))
              ELSE Instr("xor", R("rsi"), R("rsi"))
      New(w) == CallFunction(Emit(w, <<Instr("mov", R("rdi"), K(Len(a.items))), flag>>),
                             Code("list_new"), <<R("rdi"), R("rsi"), R("r14")>>, <<>>, v.target)
  IN  Construct(v, a.items, [i \in DOMAIN a.items |-> a.type], New, Instr("mov", Nothing, M(v.target, 5)),
                <<>>, <<"List", a.type>>)

\* A byte after the items says which of them are objects, the first item in its
\* highest bit (one byte: tuples of at most eight items).
RefcountMap(types) == FoldLeft(LAMBDA sum, i : sum + (IF HasRefcount(types[i]) THEN 2 ^ (8 - i) ELSE 0),
                               0, Indices(types))

TupleConstructor(v, a) ==
  LET New(w) == CallFunction(Mov(w, R("rdi"), K(Len(a.items))), Code("tuple_new"),
                             <<R("rdi"), R("r14")>>, <<>>, v.target)
      n == Len(a.items)
  IN  Construct(v, a.items, a.types, New, Instr("lea", Nothing, M(v.target, 3)),
                IF n = 0 THEN <<>> ELSE <<Instr("mov", M("rbx", n), K(RefcountMap(a.types)))>>,
                <<"Tuple">> \o a.types)

\* The collection, and the key of a dictionary, keep the reference they hold.  An item
\* goes to the register asked for, but a float is moved from where the visitor's target
\* is: that is still rsi if the collection is a list.
Index(v, a) ==
  LET Place(n)    == IF a.i.e # "int" THEN -1 ELSE IF a.i.n < 0 THEN a.i.n + n ELSE a.i.n
      Moved(w)    == IF v.target = "rdi" THEN w ELSE Mov(w, R("rdi"), T(v))
      ListKey(w)  == Release(CompileError(w, w.type # <<"Int">>), "rdi")
      TupleKey(w, n) == Mov(CompileError(w, Place(n) \notin 0 .. n - 1), R("rsi"), K(Place(n)))
      Key(w, t)   == IF Kind(t) = "Tuple" THEN TupleKey(w, Len(t) - 1)
                     ELSE ListKey(Visit(Reserve(Retarget(w, "rsi"), "rdi"), a.i))
      Done(w, t)  == Typed(IF IsFloat(t) THEN Emit1(w, "movq", FT(v), T(w)) ELSE w, t, HasRefcount(t))
      Got(w, t)   == Done(CallFunction(w, Code(IF Kind(t) = "List" THEN "list_get_item" ELSE "tuple_get_item"),
                                       <<R("rdi"), R("rsi"), R("r14")>>, <<>>, v.target),
                          IF Kind(t) = "List" THEN t[2] ELSE t[2 + Place(Len(t) - 1)])
      Item(w, coll) == Rethrow(w, Retarget(PopReserved(IF Running(w) THEN Got(w, coll.type) ELSE Caught(w), coll),
                                           v.target))
      On(coll) == CASE ~Running(coll) -> coll
                    [] Kind(coll.type) \notin {"List", "Tuple"} -> Throw(coll, "compile_error")
                    [] OTHER -> Item(Key(Moved(PushReserved(coll)), coll.type), coll)
      Holding(w) == CompileError(w, ~w.held)
  IN  On(Holding(Visit(v, a.x)))

(***************************************************************************)
(* Attributes.  The base is evaluated into another register.               *)
(***************************************************************************)
Attribute(v, a) ==
  LET base == AvailableExcept(v, {v.target})
      Freed(w, at) == IF at.held THEN Release(DeleteHeld(Reserve(w, v.target), R(base)), v.target) ELSE w
      Read(at, loc) ==
        Typed(Retarget(Freed(Release(ReadVariable(Reserve(at, base), v.target, v.ftarget, loc), base), at),
                       v.target),
              loc.type, HasRefcount(loc.type))
      Got(at) == CASE ~Running(at) -> at
                   [] Kind(at.type) # "Instance" -> Throw(at, "compile_error")
                   [] OTHER -> Read(at, LocationOfAttribute(at, at.type[2], a.name, at.target))
      Self(w) == CompileError(w, ~w.held)
  IN  IF v.instance THEN Self(Visit([v EXCEPT !.instance = FALSE], a.x))
      ELSE Got(Visit(Retarget(v, base), a.x))

(***************************************************************************)
(* Calls                                                                   *)
(***************************************************************************)
\* A default value: the visitor's held flag keeps what the last argument left.
LoadDefault(v, c) ==
  CASE c.e = "none"  -> Typed(Emit1(v, "xor", T(v), T(v)), <<"None">>, v.held)
    [] c.e = "bool"  -> Typed(Mov(v, T(v), K(c.n)), <<"Bool">>, v.held)
    [] c.e = "int"   -> Typed(Mov(v, T(v), K(c.n)), <<"Int">>, v.held)
    [] c.e = "float" -> Typed(LoadDouble(v, c.n), <<"Float">>, v.held)
    [] c.e = "str"   -> LoadConstant(v, c.name)
    [] OTHER         -> Throw(v, "compile_error")

\* What is passed for each parameter, in the order of the parameters: a new
\* instance, the instance of a method call, the positional arguments, and the
\* keyword arguments or defaults of the rest.
PassedArguments(fn, a) ==
  LET implicit == fn.class # ""
      first    == IF ~implicit THEN <<>>
                  ELSE IF fn.init THEN <<[e |-> "new", class |-> fn.class]>>
                  ELSE <<[e |-> "self", x |-> a.function]>>
      positional == first \o a.args
      Rest(i)  == LET named == {j \in DOMAIN a.kwargs : a.kwargs[j].name = fn.args[i].name}
                  IN  IF named # {} THEN a.kwargs[CHOOSE j \in named : TRUE].value
                      ELSE [e |-> "default", c |-> fn.args[i].default]
      all      == positional \o [i \in 1 .. Len(fn.args) - Len(positional) |-> Rest(Len(positional) + i)]
  IN  IF fn.exc THEN all \o <<[e |-> "exc"]>> ELSE all

LoadArgument(v, p) ==
  LET Self(w) == CompileError(w, w.instance \/ ~HasRefcount(w.type))
  IN
  CASE p.e = "exc"     -> Typed(Mov(v, T(v), R("r14")), <<"Int">>, v.held)
    [] p.e = "new"     -> Typed(AllocInstance(v, p.class, TRUE), <<"Instance", p.class>>, TRUE)
    [] p.e = "default" -> LoadDefault(v, p.c)
    [] p.e = "self"    -> Self(Visit([v EXCEPT !.instance = TRUE], p.x))
    [] OTHER           -> Visit(v, p)

\* The seventh integer argument and those after it go to the stack.
PassArgument(s, p) ==
  LET target  == IF s.ints = 6 THEN Available(s.v) ELSE IntArguments[s.ints + 1]
      ftarget == IF s.floats = 8 THEN AvailableFloat(s.v) ELSE FloatArguments[s.floats + 1]
      Placed(w) ==
        CASE IsFloat(w.type) /\ s.floats < 8 -> [s EXCEPT !.v = ReserveFloat(w, ftarget), !.floats = @ + 1]
          [] IsFloat(w.type) -> [s EXCEPT !.v = Emit1(w, "movsd", M("rsp", s.words), R(ftarget)), !.words = @ + 1]
          [] s.ints < 6      -> [s EXCEPT !.v = Reserve(w, target), !.ints = @ + 1]
          [] OTHER           -> [s EXCEPT !.v = Mov(w, M("rsp", s.words), R(target)), !.words = @ + 1]
      Recorded(w) == IF Running(w) THEN [Placed(w) EXCEPT !.types = Append(@, w.type)] ELSE [s EXCEPT !.v = w]
      Checked(w)  == CompileError(w, p.e # "exc" /\ NotHeld(w))
  IN  Recorded(Checked(LoadArgument([s.v EXCEPT !.target = target, !.ftarget = ftarget], p)))

\* The callee has no fragment: write a call of the compiler and stop there.  The
\* instruction resolve pushes the address of the unwinder as its return address
\* (a push the visitor does not count) and jumps to _resolve_function_call.
CallCompiler(v, a) ==
  Throw(Typed(Emit(v, <<Instr("mov", R("r10"), K(0)), Instr("mov", R("r11"), K(a.split)),
                        Instr("resolve", Code(a.f), K(a.split))>>),
              Indeterminate, FALSE), "split")

CallFragment(v, a, fn, target, ftarget) ==
  LET Marked == Then(v, [FreshLabels(v, 1) EXCEPT !.splits = Append(@, [id |-> a.split, at |-> Len(v.code) + 1])])
      Called(w) == Emit(w, <<Instr("mov", R("rax"), K(v.env.compiled[a.f])), Instr1("call", R("rax")),
                             Instr("test", R("r15"), R("r15"))>>)
      Alright(w) == Put(Unwind(Jump(w, "z", v.labels + 1)), v.labels + 1)
      Result(w) == CASE target = "rax" -> w
                     [] IsFloat(fn.returns) -> Emit1(w, "movsd", R(ftarget), R("xmm0"))
                     [] OTHER -> Mov(w, R(target), R("rax"))
  IN  Typed(Result(Alright(Called(Marked))), fn.returns, HasRefcount(fn.returns))

Call(v, a) ==
  LET fn == v.env.functions[a.f]
      Written(w) == CASE ~Running(w) -> w
                      [] a.f \in DOMAIN v.env.compiled -> CallFragment(w, a, fn, v.target, v.ftarget)
                      [] OTHER -> CallCompiler(w, a)
      Restored(w, extra) == Rethrow(w, PopReserved(Adjust(Caught(w), extra), v))
      Badly(types) == \E i \in DOMAIN fn.args : types[i] # fn.args[i].type
      Ready(w) == ReleaseAll(Then(w, [w EXCEPT !.target = v.target, !.ftarget = v.ftarget]))
      Checked(s) == CompileError(Ready(s.v), Running(s.v) /\ Badly(s.types))
      Passed(w, args) == Checked(InTurn(LAMBDA s : Running(s.v), PassArgument,
                                        [v |-> w, ints |-> 0, floats |-> 0, words |-> 0, types |-> <<>>], args))
      Given(w, args, extra) == Restored(Written(Passed(Adjust(w, -extra), args)), extra)
      Aside(w, args) == Given(w, args, StackArguments(w, Len(args)))
      With(args) == IF v.target \notin v.ints \/ Len(args) # Len(fn.args) + (IF fn.exc THEN 1 ELSE 0)
                    THEN Throw(v, "compile_error")
                    ELSE Aside(PushReserved(v), args)
  IN  With(PassedArguments(fn, a))

(***************************************************************************)
(* Every visit method but AttributeLookup's refuses to be the function of  *)
(* a method call.                                                          *)
(***************************************************************************)
Variable(v, loc) == Typed(ReadVariable(v, v.target, v.ftarget, loc), loc.type, HasRefcount(loc.type))

Expr(v, a) ==
  CASE v.instance /\ a.e # "attr" -> Throw(v, "compile_error")
    [] a.e = "int"    -> Typed(Mov(v, T(v), K(a.n)), <<"Int">>, FALSE)
    [] a.e = "bool"   -> Typed(IF a.n = 1 THEN Mov(v, T(v), K(1)) ELSE Emit1(v, "xor", T(v), T(v)), <<"Bool">>, FALSE)
    [] a.e = "none"   -> Typed(Emit1(v, "xor", T(v), T(v)), <<"None">>, FALSE)
    [] a.e = "float"  -> Typed(LoadDouble(v, a.n), <<"Float">>, FALSE)
    [] a.e = "str"    -> LoadConstant(v, a.name)
    [] a.e = "var"    -> Variable(v, LocationOf(v, a.name))
    [] a.e = "unary"  -> ApplyUnary(Visit(v, a.x), a.op)
    [] a.e = "binary" -> IF a.op \in {"and", "or"} THEN ShortCircuit(v, a) ELSE Binary(v, a)
    [] a.e = "if"     -> Ternary(v, a)
    [] a.e = "list"   -> ListConstructor(v, a)
    [] a.e = "tuple"  -> TupleConstructor(v, a)
    [] a.e = "index"  -> Index(v, a)
    [] a.e = "attr"   -> Attribute(v, a)
    [] a.e = "call"   -> Call(v, a)

(***************************************************************************)
(* Assignments: AttributeLValueReference with and without a base.          *)
(***************************************************************************)
Assign(v, s) ==
  LET Stored(w) == Typed(Release(WriteVariable(Reserve(w, w.target), w.target, w.ftarget, LocationOf(w, s.name)),
                                 w.target), w.type, FALSE)
      Valued(w) == IF Running(w) THEN Stored(CompileError(w, NotHeld(w))) ELSE w
  IN  Valued(Visit(Free(v), s.x))

\* A class does not know the type of an attribute before it is written, so the
\* check compares the attribute with itself.
AssignAttribute(v, s) ==
  LET Stored(base, value, loc) ==
        Typed(Release(Retarget(DeleteHeld(Release(WriteVariable(Reserve(base, base.target), value.target,
                                                                base.ftarget, loc), base.target),
                                          R(base.target)), value.target), value.target),
              base.type, FALSE)
      Based(base, value) == CASE ~Running(base) -> base
                              [] Kind(base.type) # "Instance" -> Throw(base, "compile_error")
                              [] OTHER -> Stored(base, value, LocationOfAttribute(base, base.type[2], s.name, base.target))
      Valued(value) == IF ~Running(value) THEN value
                       ELSE Based(Visit(Free(Reserve(CompileError(value, NotHeld(value)), value.target)), s.base), value)
  IN  Valued(Visit(Free(v), s.x))

ExpressionStatement(v, s) == Discard(Visit(Free(v), s.x))

(***************************************************************************)
(* Exceptions, return, break and continue                                  *)
(***************************************************************************)
AssertStatement(v, s) ==
  LET Said(w) == IF s.message = <<>> THEN AddReference(Mov(w, T(w), Code("")), w.target)
                 ELSE Visit(w, s.message[1])
      Made(w) == AllocInstance(Push(w, T(w)), "AssertionError", FALSE)
      Filled(w, tmp) ==
        Emit(Pop(w, tmp), <<Instr("mov", M(w.target, AttributeOffset(w, "AssertionError", "message")), R(tmp)),
                            Instr("mov", R("r15"), T(w))>>)
      Raised(w) == Unwind(Filled(w, AvailableExcept(w, {w.target})))
      Passed(w, check) == Discard(Typed(Put(w, check.labels + 1), check.type, check.held))
      Checked(check) ==
        IF ~Running(check) THEN check
        ELSE Passed(Raised(Made(Said(Discard(Jump(TruthTest(FreshLabels(check, 1)), "nz", check.labels + 1))))), check)
  IN  Checked(Visit(Free(v), s.x))

Raise(v, s) == LET Raised(w) == Unwind(Mov(w, R("r15"), T(w))) IN Raised(Visit(v, s.x))

\* The target of the innermost loop; enclosing try statements are not left.
LeaveLoop(v, stack) == IF stack = <<>> THEN Throw(v, "compile_error")
                       ELSE Jump(v, "always", Last(stack))

Return(v, s) ==
  LET Bad(w) == NotHeld(w) \/ v.env.annotation \notin {Indeterminate, w.type} \/ w.finally
      Typed1(w, t) == [w EXCEPT !.returns = @ \cup {t}]
      Left1(w) == CASE w.thrown = "split" -> Typed1(w, Indeterminate)
                    [] ~Running(w) -> w
                    [] OTHER -> Jump(CompileError(Typed1(w, w.type), Bad(w)), "always", v.return)
  IN  Left1(Visit(Retarget(v, "rax"), s.x))

(***************************************************************************)
(* if: a condition that the analysis knows has no code.                    *)
(***************************************************************************)
AlwaysTrue(c)  == c.e \in {"int", "bool"} /\ c.n # 0
NeverTrue(c)   == c.e = "none" \/ (c.e \in {"int", "bool"} /\ c.n = 0)

\* An if or elif clause: state s has the visitor v, the label that the clause
\* before it jumps to when it is false (0: no clause has written a jump), and
\* whether a clause that is always true has been met.
Clause(s, arm, first, end) ==
  LET here  == IF s.false = 0 \/ first THEN s.v ELSE Put(s.v, s.false)
      false == s.v.labels + 1
      Tested(w) == Jump(Suite(Discard(Jump(TruthTest(w), "z", false)), arm.body), "always", end)
      Checked(w) == IF Running(w) THEN [s EXCEPT !.v = Tested(w), !.false = false] ELSE [s EXCEPT !.v = w]
  IN  CASE s.done \/ NeverTrue(arm.check) -> s
        [] AlwaysTrue(arm.check) -> [v |-> Suite(here, arm.body), false |-> 0, done |-> TRUE]
        [] OTHER -> Checked(Visit(Free(FreshLabels(here, 1)), arm.check))

If(v, s) ==
  LET end == v.labels + 1
      Else(arms) ==
        CASE ~Running(arms.v) -> arms.v
          [] arms.done -> Put(arms.v, end)
          [] OTHER -> Put(Suite(Discard(IF arms.false = 0 THEN arms.v ELSE Put(arms.v, arms.false)), s.orelse), end)
  IN  Else(InTurn(LAMBDA t : Running(t.v), LAMBDA t, i : Clause(t, s.arms[i], i = 1, end),
                  [v |-> FreshLabels(v, 1), false |-> 0, done |-> FALSE], Indices(s.arms)))

(***************************************************************************)
(* Loops                                                                   *)
(***************************************************************************)
InLoop(v, break, continue) ==
  Then(v, [v EXCEPT !.breaks = Append(@, break), !.continues = Append(@, continue)])
OutOfLoop(w) == [w EXCEPT !.breaks = Front(@), !.continues = Front(@)]

While(v, s) ==
  LET start  == v.labels + 1
      end    == v.labels + 2
      broken == v.labels + 3
      Again(w)  == Discard(Put(Jump(OutOfLoop(w), "always", start), end))
      Looped(w) == Put(Suite(Again(Suite(InLoop(Discard(w), broken, start), s.body)), s.orelse), broken)
      Checked(w) == IF Running(w) THEN Looped(Jump(TruthTest(w), "z", end)) ELSE w
  IN  Checked(Visit(Free(Put(FreshLabels(v, 3), start)), s.check))

\* for over a list or a tuple; rbx is the index of the next item.
NextItem(v, t) ==
  LET items == IF Kind(t) = "List" THEN <<Instr("mov", T(v), M(v.target, 5))>> ELSE <<>>
      item  == MX(v.target, "rbx", IF Kind(t) = "List" THEN 0 ELSE 3)
      load  == IF IsFloat(t[2]) THEN Instr("movq", FT(v), item) ELSE Instr("mov", T(v), item)
      Counted(w) == IF HasRefcount(t[2]) THEN AddReference(w, v.target) ELSE w
  IN  Counted(Emit(v, items \o <<load, Instr1("inc", R("rbx"))>>))

Uniform(t) == \A i, j \in 2 .. Len(t) : t[i] = t[j]

\* The labels are n + 1 (the next turn), n + 2 (the end) and n + 3 (after break).
For(v, s) ==
  LET Dropped(w, t) == DeleteReference(Pop(Pop(w, "rbx"), w.target), T(w), t)
      Else(w, n)   == Put(Suite(Put(Jump(OutOfLoop(w), "always", n + 1), n + 2), s.orelse), n + 3)
      Ended(w, n, t) == Rethrow(w, Dropped(IF w.thrown = "split" THEN Caught(OutOfLoop(w)) ELSE Else(w, n), t))
      Saved(w)     == Emit1(Push(Push(FreshLabels(w, 3), T(w)), R("rbx")), "xor", R("rbx"), R("rbx"))
      Top(w, n)    == Jump(Emit(Put(w, n + 1), <<Instr("mov", T(v), M("rsp", 1)),
                                                 Instr("cmp", R("rbx"), M(v.target, 2))>>), "ge", n + 2)
      Item(w, t)   == Retyped(NextItem(w, t), t[2])
      Stored(w)    == Release(WriteVariable(Reserve(w, v.target), v.target, v.ftarget, LocationOf(w, s.name)),
                              v.target)
      Looped(w, n, t) == Ended(Block(InLoop(Stored(Item(Top(Saved(w), n), t)), n + 3, n + 1), s.body), n, t)
      Over(w) == CASE ~Running(w) -> w
                   [] Kind(w.type) \notin {"List", "Tuple"} \/ ~Uniform(w.type) -> Throw(w, "compile_error")
                   [] OTHER -> Looped(w, w.labels, w.type)
  IN  Over(Visit(v, s.x))

(***************************************************************************)
(* try.  Without a finally suite there is no code at the finally label,    *)
(* where an exception that no clause takes arrives.                        *)
(***************************************************************************)
Finally(v, s) ==
  LET noExc == v.labels + 1
      end   == v.labels + 2
      IsRaised(w, label) == Jump(Emit1(w, "test", R("r15"), R("r15")), "z", label)
      Saved(w)  == Emit1(Push(FreshLabels(w, 2), R("r15")), "xor", R("r15"), R("r15"))
      Other(w)  == Unwind(DeleteReference(IsRaised(w, noExc), M("r15", 0), <<"Instance">>))
      Resume(w) == Put(Unwind(IsRaised(Pop(Put(w, noExc), "r15"), end)), end)
  IN  [Resume(Other(Suite(Saved([v EXCEPT !.finally = TRUE]), s.finally))) EXCEPT !.finally = v.finally]

\* Mutants: the block stays linked; it stays on the stack.
RemoveUnlinked(v, depth) == AdjustTo(v, depth)
RemoveLeft(v, depth)     == Mov(v, R("r14"), M("rsp", 0))
RemoveBlock(v, depth) == AdjustTo(Mov(v, R("r14"), M("rsp", 0)), depth)

\* The exception is destroyed, or moved to the variable of the clause.
Except(v, depth, e) ==
  LET Kept(w, loc) ==
        Mov(DeleteReference(CompileError(w, \A c \in ToSet(e.classes) : loc.type # <<"Instance", c>>),
                            loc.mem, loc.type), loc.mem, R("r15"))
      Taken(w) == IF e.name = "" THEN DeleteReference(w, R("r15"), <<"Instance">>)
                  ELSE Kept(w, LocationOf(w, e.name))
  IN  Suite(Emit1(Taken(Assume(Put(v, e.label), depth)), "xor", R("r15"), R("r15")), e.body)

Try(v, s) ==
  LET n        == Len(s.excepts)
      finally  == v.labels + 1
      handlers == [i \in 1 .. n |-> [label |-> v.labels + 1 + i, classes |-> s.excepts[i].classes,
                                     name |-> s.excepts[i].name, body |-> s.excepts[i].body]]
      Tried(w, depth) == RemoveBlock(Suite(CreateExceptionBlock(w, handlers, finally), s.body), depth)
      Elsed(w, depth) == Rethrow(w, RemoveBlock(Caught(w), depth))
      Else(w, depth)  == IF s.orelse = <<>> THEN w
                         ELSE Elsed(Block(CreateExceptionBlock(w, <<>>, finally), s.orelse), depth)
      Left1(w, i)     == IF i = n THEN w ELSE Jump(w, "always", finally)
      Excepts(w, depth) == Each(LAMBDA x, i : Left1(Except(x, depth, handlers[i]), i),
                                Jump(w, "always", finally), Indices(s.excepts))
      Last1(w, depth) == Put(Assume(Excepts(Else(Tried(w, depth), depth), depth), depth), finally)
      Ended(w) == PopReserved(IF s.finally = <<>> THEN w ELSE Finally(w, s), v)
      Opened(w) == Ended(Last1(w, w.depth))
  IN  Opened(FreshLabels(PushReserved(v), n + 1))

(***************************************************************************)
(* A definition stores its context, wherever the target register is.       *)
(***************************************************************************)
Definition(v, s) ==
  Mov(Mov(v, T(v), Code(s.name)), LocationOf(v, s.name).mem, T(v))

Statement(v, s) ==
  CASE s.s = "expr"       -> ExpressionStatement(v, s)
    [] s.s = "assign"     -> Assign(v, s)
    [] s.s = "attribute"  -> AssignAttribute(v, s)
    [] s.s = "assert"     -> AssertStatement(v, s)
    [] s.s = "raise"      -> Raise(v, s)
    [] s.s = "break"      -> LeaveLoop(v, v.breaks)
    [] s.s = "continue"   -> LeaveLoop(v, v.continues)
    [] s.s = "return"     -> Return(v, s)
    [] s.s = "if"         -> If(v, s)
    [] s.s = "while"      -> While(v, s)
    [] s.s = "for"        -> For(v, s)
    [] s.s = "try"        -> Try(v, s)
    [] s.s = "define"     -> Definition(v, s)

Visit(v, a) == CASE ~Running(v)       -> v
                 [] "e" \in DOMAIN a -> Expr(v, a)
                 [] OTHER             -> Statement(v, a)

(***************************************************************************)
(* Functions and root scopes.  __init__ returns its instance.  A split     *)
(* ends a function after its cleanup.                                      *)
(***************************************************************************)
Function(w) ==
  LET Self(x) == AddReference(Mov(x, R("rax"), LocationOf(x, "self").mem), "rax")
      Result  == IF w.env.init /\ Running(w) THEN Self(Retarget(w, "rax")) ELSE w
  IN  Rethrow(w, FunctionCleanup(Caught(Result)))

ModuleSetup(v) ==
  LET Enter(w, r, a) == Mov(Push(w, R(r)), R(r), a)
      Clear(w, r)    == Emit1(Push(w, R(r)), "xor", R(r), R(r))
      Framed(w) == Enter(Enter(Enter(w, "rbp", R("rsp")), "r12", Code("common")), "r13", Code("globals"))
      Cleared(w) == Clear(Clear(w, "r14"), "r15")
  IN  CreateExceptionBlock(FreshLabels(Cleared(Framed(Assume(v, 1))), 1), <<>>, 1)

Module(w) ==
  LET Result(x) == Mov(Put(Adjust(x, ReturnBlockSize), 1), R("rax"), R("r15"))
      Left1(x)  == Each(Pop, Result(x), <<"r15", "r14", "r13", "r12", "rbp">>)
      Ended(x)  == Emit1(CompileError(x, x.depth # 1), "ret", Nothing, Nothing)
  IN  Ended(Left1(Caught(w)))

Scope(env, body, isModule) ==
  LET Start(v)  == IF isModule THEN ModuleSetup(v) ELSE Retarget(FunctionSetup(v), "rax")
      Finish(w) == IF isModule THEN Module(w) ELSE Function(w)
  IN  Finish(Block(Start(NewVisitor(env)), body))
=============================================================================
