------------------------------ MODULE Emitter ------------------------------
(***************************************************************************)
(* The state of a CompilationVisitor and the helpers its visit methods     *)
(* share (src/source/Compiler/CompilationVisitor.cc): register             *)
(* reservation, the accounting of the stack, calls of C functions,         *)
(* reference counting, exception blocks, function frames and the location  *)
(* of variables.                                                           *)
(*                                                                         *)
(* The visitor is a value that every helper takes and returns.  A C++      *)
(* exception is kept in its field thrown; while one is in flight every     *)
(* helper returns its argument unchanged, so only the catch clauses of the *)
(* source see it.                                                          *)
(***************************************************************************)
EXTENDS Amd64, SequencesExt

(***************************************************************************)
(* Types are tuples: <<"Int">>, <<"List", t>>, <<"Tuple", t1, ..., tn>>,   *)
(* <<"Instance", class>>.                                                  *)
(***************************************************************************)
Kind(t) == t[1]
Indeterminate == <<"Indeterminate">>
HasRefcount(t) == Kind(t) \notin {"Indeterminate", "None", "Bool", "Int", "Float"}
IsContainer(t) == Kind(t) \in {"Unicode", "List", "Tuple"}

(***************************************************************************)
(* Registers                                                               *)
(***************************************************************************)
IntOrder   == <<"rax", "rcx", "rdx", "rsi", "rdi", "r8", "r9", "r10", "r11">>
FloatOrder == <<"xmm0", "xmm1", "xmm2", "xmm3", "xmm4", "xmm5", "xmm6", "xmm7",
                "xmm8", "xmm9", "xmm10", "xmm11", "xmm12", "xmm13", "xmm14", "xmm15">>
IntArguments   == <<"rdi", "rsi", "rdx", "rcx", "r8", "r9">>
FloatArguments == SubSeq(FloatOrder, 1, 8)
DefaultInts    == ToSet(IntOrder)
DefaultFloats  == ToSet(FloatOrder)

(***************************************************************************)
(* The visitor of a scope.  env describes the scope: its name, its locals  *)
(* (sequence of names, in the order of their stack slots), the types of    *)
(* its variables, the functions it may call, the ones that have a compiled *)
(* fragment, and whether reference counting is written inline.             *)
(***************************************************************************)
NewVisitor(env) ==
  [env |-> env, code |-> <<>>, ints |-> DefaultInts, floats |-> DefaultFloats,
   target |-> "rax", ftarget |-> "xmm0", depth |-> 0, type |-> Indeterminate,
   held |-> FALSE, instance |-> FALSE, finally |-> FALSE,
   breaks |-> <<>>, continues |-> <<>>, return |-> 0, unwound |-> 0,
   returns |-> {}, labels |-> 0, splits |-> <<>>, thrown |-> ""]

Running(v) == v.thrown = ""
\* op applied to one element of seq after another, as long as ok holds.
InTurn(ok(_), op(_, _), start, seq) ==
  LET RECURSIVE From(_, _)
      From(s, rest) == IF ~ok(s) \/ rest = <<>> THEN s ELSE From(op(s, Head(rest)), Tail(rest))
  IN  From(start, seq)
Each(op(_, _), v, seq) == InTurn(Running, op, v, seq)
Indices(seq) == [i \in DOMAIN seq |-> i]
Then(v, w) == IF Running(v) THEN w ELSE v
Throw(v, what) == Then(v, [v EXCEPT !.thrown = what])
CompileError(v, condition) == IF condition THEN Throw(v, "compile_error") ELSE v
Typed(v, t, h) == Then(v, [v EXCEPT !.type = t, !.held = h])
Retarget(v, r) == Then(v, [v EXCEPT !.target = r])

\* Labels are numbered from 1 in the order in which the visitor asks for them.
FreshLabels(v, n) == Then(v, [v EXCEPT !.labels = @ + n])

\* Every instruction carries the depth of the stack the visitor assumes before it.
Emit(v, instrs) ==
  Then(v, [v EXCEPT !.code = @ \o [i \in DOMAIN instrs |-> [instrs[i] EXCEPT !.at = v.depth]]])
Emit1(v, op, a, b) == Emit(v, <<Instr(op, a, b)>>)
Mov(v, a, b)       == Emit(v, <<Instr("mov", a, b)>>)
Jump(v, cc, l)     == Emit(v, <<Instr("j", K(0), [Label(l) EXCEPT !.r = cc])>>)
Put(v, l)          == Emit(v, <<Instr1("label", Label(l))>>)
Unwind(v)          == Emit(v, <<Instr1("unwind", Nothing)>>)

(***************************************************************************)
(* Reserving registers                                                     *)
(***************************************************************************)
FirstOf(order, S) == order[CHOOSE i \in DOMAIN order :
                             order[i] \in S /\ \A j \in 1 .. i - 1 : order[j] \notin S]

\* "no registers are available" cannot happen: at most six of each kind are reserved.
AvailableExcept(v, no) == FirstOf(IntOrder, v.ints \ no)
Available(v)           == AvailableExcept(v, {})
AvailableFloatExcept(v, no) == FirstOf(FloatOrder, v.floats \ no)
AvailableFloat(v)      == AvailableFloatExcept(v, {})
Prefer(v, r)           == IF r \in v.ints THEN r ELSE Available(v)

Reserve(v, r)      == CompileError([v EXCEPT !.ints = @ \ {r}], r \notin v.ints)
ReserveFloat(v, r) == CompileError([v EXCEPT !.floats = @ \ {r}], r \notin v.floats)
Release(v, r)      == Then(v, [v EXCEPT !.ints = @ \cup {r}])
ReleaseAll(v)      == Then(v, [v EXCEPT !.ints = DefaultInts, !.floats = DefaultFloats])

(***************************************************************************)
(* The stack                                                               *)
(***************************************************************************)
Deeper(v, n) == Then(v, [v EXCEPT !.depth = @ + n])
Push(v, a)   == Deeper(Emit1(v, "push", a, Nothing), 1)
\* Mutant: the visitor does not count the word that it pops.
PopUncounted(v, r) == Emit1(v, "pop", R(r), Nothing)
Pop(v, r)    == Deeper(Emit1(v, "pop", R(r), Nothing), -1)

\* adjust_stack: a positive count gives words back.
Adjust(v, n) == IF n = 0 THEN v ELSE Deeper(Emit1(v, "add", R("rsp"), K(n)), -n)
AdjustTo(v, depth) == Adjust(v, v.depth - depth)
\* adjust_stack_to with write_opcode false
Assume(v, depth)   == Then(v, [v EXCEPT !.depth = depth])

ReservedOf(order, S) == SelectSeq(order, LAMBDA r : r \notin S)

PushFloat(v, x) == Emit1(Adjust(v, -1), "movsd", M("rsp", 0), R(x))
PopFloat(v, x)  == Adjust(Emit1(v, "movsd", R(x), M("rsp", 0)), 1)

PushReserved(v) ==
  ReleaseAll(Each(PushFloat,
                  Each(LAMBDA w, r : Push(w, R(r)), v, ReservedOf(IntOrder, v.ints)),
                  ReservedOf(FloatOrder, v.floats)))

\* mask is the visitor whose registers were pushed.
PopReserved(v, mask) ==
  LET Reserved(w) == Then(w, [w EXCEPT !.ints = mask.ints, !.floats = mask.floats])
  IN  Reserved(Each(Pop,
                    Each(PopFloat, CompileError(v, v.ints # DefaultInts \/ v.floats # DefaultFloats),
                         Reverse(ReservedOf(FloatOrder, mask.floats))),
                    Reverse(ReservedOf(IntOrder, mask.ints))))

(***************************************************************************)
(* Calls                                                                   *)
(***************************************************************************)
StackArguments(v, n) == LET over == IF n > 6 THEN n - 6 ELSE 0
                        IN  over + ((v.depth + over) % 2)

\* The moves of the arguments into their registers, each before the moves that
\* overwrite its source.  The source sorts depth first; every topological order
\* leaves the same registers, so the least ready move comes first here.
RECURSIVE MoveArguments(_, _, _)
MoveArguments(v, moves, left) ==
  IF left = {} THEN v
  ELSE LET ready == {x \in left : \A y \in left \ {x} : moves[y].from # moves[x].to}
           x == CHOOSE i \in ready : \A j \in ready : i <= j
       IN  IF ready = {} THEN Throw(v, "compile_error")
           ELSE MoveArguments(IF moves[x].from = moves[x].to THEN v
                              ELSE Mov(v, moves[x].to, moves[x].source),
                              moves, left \ {x})

\* Operands relative to rsp are corrected by the words the call's own
\* preparation takes, but not by the reserved registers pushed before it.
Corrected(a, n) == IF a.k = "mem" /\ a.r = "rsp" THEN [a EXCEPT !.n = @ + n] ELSE a

CallFunction(v, function, args, floats, result) ==
  LET Moves(extra) == [i \in DOMAIN args |-> [from |-> args[i], to |-> R(IntArguments[i]),
                                              source |-> Corrected(args[i], extra)]]
      LoadFloat(w, i, extra) ==
        IF floats[i] = R(FloatArguments[i]) THEN w
        ELSE Emit1(w, "movsd", R(FloatArguments[i]), Corrected(floats[i], extra))
      Loaded(w, extra) == Each(LAMBDA x, i : LoadFloat(x, i, extra),
                               MoveArguments(w, Moves(extra), DOMAIN args), Indices(floats))
      Aligned(w) == CompileError(w, w.depth % 2 # 0)
      Stored(w)  == IF result \in {"", "rax", "xmm0"} THEN w
                    ELSE IF result \in DefaultFloats THEN Emit1(w, "movsd", R(result), R("xmm0"))
                    ELSE Mov(w, R(result), R("rax"))
      Called(w, extra) ==
        Adjust(Stored(Emit1(Aligned(Loaded(Adjust(w, -extra), extra)), "call", function, Nothing)), extra)
      Aside(w)   == Called(w, StackArguments(w, Len(args)))
  IN  PopReserved(Aside(PushReserved(v)), v)

(***************************************************************************)
(* Reference counting                                                      *)
(***************************************************************************)
\* Mutant: a reference that is not counted.
AddNothing(v, r) == v

AddReference(v, r) ==
  IF v.env.inline THEN Emit1(v, "inc", M(r, 0), Nothing)
  ELSE Release(CallFunction(Reserve(v, r), Code("add_reference"), <<R(r)>>, <<>>, ""), r)

\* r is a free register and skip the label behind the code.
DeleteInline(v, a, r, skip) ==
  LET Loaded(w) == IF a = R(r) THEN w ELSE Mov(w, R(r), a)
      Tested(w) == Jump(Emit1(w, "test", R(r), R(r)), "z", skip)
      Less(w)   == Jump(Emit1(w, "dec", M(r, 0), Nothing), "nz", skip)
  IN  Less(Tested(Loaded(FreshLabels(v, 1))))

DeleteReference(v, a, t) ==
  CASE Kind(t) = "Indeterminate" -> Throw(v, "compile_error")
    [] ~HasRefcount(t) -> v
    [] v.env.inline ->
         Put(CallFunction(DeleteInline(v, a, Available(v), v.labels + 1),
                          M(Available(v), 1), <<R(Available(v))>>, <<>>, ""),
             v.labels + 1)
    [] OTHER -> CallFunction(v, Code("delete_reference"), <<a, R("r14")>>, <<>>, "")

\* Mutant: a reference that is forgotten.
DeleteNothing(v, a) == Typed(v, v.type, FALSE)

DeleteHeld(v, a) ==
  IF ~v.held THEN v
  ELSE Typed(DeleteReference(CompileError(v, ~HasRefcount(v.type)), a, v.type), v.type, FALSE)

(***************************************************************************)
(* Instances and exceptions.  An instance has its count, its destructor,   *)
(* its class and then its attributes.                                      *)
(***************************************************************************)
\* malloc does not fail here: the code written for a null result is left out.
AllocInstance(v, class, attributes) ==
  LET n     == Len(v.env.classes[class])
      tmp   == R(AvailableExcept(v, {"rax"}))
      Called(w, extra) ==
        Adjust(Emit(Adjust(w, -extra), <<Instr("mov", R("rdi"), K(3 + n)), Instr1("call", Code("malloc"))>>),
               extra)
      Moved(w) == IF v.target = "rax" THEN w ELSE Mov(w, R(v.target), R("rax"))
      header == <<Instr("mov", M(v.target, 0), K(1)),
                  Instr("mov", tmp, Code("destructor")),
                  Instr("mov", M(v.target, 1), tmp),
                  Instr("mov", M(v.target, 2), K(v.env.classId[class]))>>
      zeros  == IF ~attributes \/ n = 0 THEN <<>>
                ELSE <<Instr("xor", tmp, tmp)>> \o [i \in 1 .. n |-> Instr("mov", M(v.target, 2 + i), tmp)]
  IN  Emit(Moved(Called(v, StackArguments(v, 0))), header \o zeros)

AttributeOffset(v, class, name) ==
  2 + CHOOSE i \in DOMAIN v.env.classes[class] : v.env.classes[class][i].name = name

\* The message is the constant itself: no reference is added for the exception.
RaiseWithMessage(v, class, message) ==
  Unwind(Emit(AllocInstance(v, class, FALSE),
              <<Instr("mov", R("r15"), Code(message)),
                Instr("mov", M(v.target, AttributeOffset(v, class, "message")), R("r15")),
                Instr("mov", R("r15"), R(v.target))>>))

\* An exception block: where to resume for which classes, what to restore.
CreateExceptionBlock(v, handlers, unwound) ==
  LET saved  == Available(v)
      tmp    == R(AvailableExcept(v, {saved}))
      Class(w, c) == Push(w, K(v.env.classId[c]))
      Handler(w, label, classes) ==
        Push(Mov(Push(Each(Class, CompileError(w, classes = <<>> /\ label # unwound), classes),
                      K(Len(classes))), tmp, Label(label)), tmp)
      All(w)   == Each(LAMBDA x, h : Handler(x, h.label, h.classes), w,
                       <<[label |-> unwound, classes |-> <<>>]>> \o Reverse(handlers))
      Frame(w) == Each(LAMBDA x, r : Push(x, R(r)), w, <<"r13", "r12", "rbp", saved, "r14">>)
  IN  Mov(Frame(All(Mov(v, R(saved), R("rsp")))), R("r14"), R("rsp"))
ReturnBlockSize == 7

(***************************************************************************)
(* Constants and variables                                                 *)
(***************************************************************************)
LoadDouble(v, n) ==
  LET tmp == Available(v)
  IN  Emit(v, <<Instr("mov", R(tmp), K(Bits(n))), Instr("movq", R(v.ftarget), R(tmp))>>)

LoadConstant(v, name) ==
  Typed(AddReference(Mov(v, R(v.target), Code(name)), v.target), <<"Unicode">>, TRUE)

ReadVariable(v, target, ftarget, loc) ==
  CASE loc.type = <<"Float">>  -> Emit1(v, "movq", R(ftarget), loc.mem)
    [] HasRefcount(loc.type)   -> AddReference(Mov(v, R(target), loc.mem), target)
    [] OTHER                   -> Mov(v, R(target), loc.mem)

WriteVariable(v, value, fvalue, loc) ==
  LET Written(w) == IF loc.type = <<"Float">> THEN Emit1(w, "movsd", loc.mem, R(fvalue))
                    ELSE Mov(w, loc.mem, R(value))
  IN  Written(IF HasRefcount(loc.type) THEN DeleteReference(v, loc.mem, loc.type) ELSE v)

IsLocal(v, name) == \E i \in DOMAIN v.env.locals : v.env.locals[i] = name
SlotOf(v, name)  == CHOOSE i \in DOMAIN v.env.locals : v.env.locals[i] = name

LocationOf(v, name) ==
  [mem  |-> IF IsLocal(v, name) THEN M("rbp", -SlotOf(v, name))
            ELSE M("r13", v.env.globals[name]),
   type |-> v.env.types[name]]

LocationOfAttribute(v, class, name, r) ==
  LET i == CHOOSE j \in DOMAIN v.env.classes[class] : v.env.classes[class][j].name = name
  IN  [mem |-> M(r, 2 + i), type |-> v.env.classes[class][i].type]

(***************************************************************************)
(* The frame of a function.  An argument is a local; the first six that    *)
(* are not floats arrive in registers, as do the first eight floats.       *)
(***************************************************************************)
ArgumentsOf(v, isFloat) == SelectSeq(v.env.args, LAMBDA a : (v.env.types[a] = <<"Float">>) = isFloat)
PlaceOf(name, args) == CHOOSE i \in DOMAIN args : args[i] = name

FunctionSetup(v) ==
  LET ints   == ArgumentsOf(v, FALSE)
      floats == ArgumentsOf(v, TRUE)
      Fill(w, i, name) ==
        CASE name \in ToSet(floats) -> Emit1(w, "movsd", M("rbp", -i), R(FloatArguments[PlaceOf(name, floats)]))
          [] name \notin ToSet(ints) -> Mov(w, M("rbp", -i), K(0))
          [] PlaceOf(name, ints) <= 6 -> Mov(w, M("rbp", -i), R(IntArguments[PlaceOf(name, ints)]))
          [] OTHER -> Mov(Mov(w, R("rax"), M("rbp", PlaceOf(name, ints) - 5)), M("rbp", -i), R("rax"))
      Framed(w) == Adjust(Mov(Push(Assume(w, 1), R("rbp")), R("rbp"), R("rsp")), -Len(v.env.locals))
      Filled(w) == Each(LAMBDA x, i : Fill(x, i, v.env.locals[i]), w, Indices(v.env.locals))
      Marked(w) == [w EXCEPT !.labels = @ + 2, !.return = w.labels + 1, !.unwound = w.labels + 2]
      Blocked(w) == CreateExceptionBlock(w, <<>>, w.unwound)
  IN  Blocked(Marked(Filled(Framed(v))))

FunctionCleanup(v) ==
  LET Unblocked(w) == Put(Adjust(Pop(Put(w, v.return), "r14"), ReturnBlockSize - 1), v.unwound)
      Drop(w, t) ==
        IF HasRefcount(t)
        THEN Pop(DeleteReference(Emit1(w, "xchg", R("rax"), M("rsp", 0)), R("rax"), t), "rax")
        ELSE Adjust(w, 1)
      Emptied(w) == Pop(Each(LAMBDA x, name : Drop(x, v.env.types[name]), w, Reverse(v.env.locals)), "rbp")
      Ended(w) == Emit1(CompileError(w, w.depth # 1), "ret", Nothing, Nothing)
  IN  Ended(Emptied(Unblocked(v)))
=============================================================================
