---------------------------- MODULE CompiledCode ----------------------------
(***************************************************************************)
(* Compiled programs at work: the processor executes what the compiler     *)
(* wrote, calls the C functions of the run-time library, unwinds           *)
(* exceptions (src/source/Compiler/Exception-Assembly.s) and, at a call    *)
(* whose callee has no fragment, calls the compiler, which compiles the    *)
(* callee, compiles the caller again and goes on in the new code           *)
(* (src/source/Compiler/Compile-Assembly.s, Compile.cc).                   *)
(*                                                                         *)
(* Programs is a sequence of records:                                      *)
(*   globals   sequence of [name, type]                                    *)
(*   classes   class -> sequence of [name, type], its attributes           *)
(*   functions function -> [args, returns, exc, class, init, annotation,   *)
(*             locals, body]; args are [name, type, default], locals are   *)
(*             [name, type], the arguments first                           *)
(*   strings   sequence of the names of the string constants               *)
(*   text      name of a string constant -> its characters                 *)
(*   body      the statements of the root scope                            *)
(*   inline    whether reference counting is written inline                *)
(*   known     sequence of the functions compiled before the root scope     *)
(***************************************************************************)
EXTENDS CompilationVisitor

CONSTANT Programs

\* prog is the program that runs, todo the scopes that the compiler is to compile
\* and resume where the program goes on afterwards.
VARIABLES prog, segments, todo, resume, pc, regs, flags, stack, heap, raised, status
vars == <<prog, segments, todo, resume, pc, regs, flags, stack, heap, raised, status>>

P == prog

(***************************************************************************)
(* Addresses: fragments, then heap objects, then the functions of the      *)
(* run-time library that are called through a pointer.                     *)
(***************************************************************************)
PerSegment == 1000
PerObject  == 100
ItemsAt    == 50
CompilerAddress   == 9
UnwinderAddress   == 8
DestructorAddress == 7
ContextAddress    == 6
ReturnToCaller    == 5
Junk == 4
Globals == 1

Address(s, i) == 100000 + s * PerSegment + i
IsCode(a)     == a > 100000
SegmentOf(a)  == (a - 100000) \div PerSegment
OffsetOf(a)   == (a - 100000) % PerSegment
Current(f)    == CHOOSE s \in DOMAIN segments :
                   segments[s].f = f /\ \A t \in s + 1 .. Len(segments) : segments[t].f # f
Compiled == {segments[s].f : s \in DOMAIN segments} \ {""}

\* The functions that have a fragment when scope f is compiled, and its address;
\* the fragment of f itself has none before it has been compiled once.
FragmentAddress(f) == [g \in Compiled \cup ({f} \ {""}) |-> IF g \in Compiled THEN Address(Current(g), 1) ELSE 0]

(***************************************************************************)
(* Compilation.  The root scope is called "".                              *)
(***************************************************************************)
Names(seq) == [i \in DOMAIN seq |-> seq[i].name]
TypeIn(seq, name) == seq[CHOOSE i \in DOMAIN seq : seq[i].name = name].type

Environment(p, f) ==
  LET locals == IF f = "" THEN <<>> ELSE p.functions[f].locals
      mine   == ToSet(Names(locals))
      all    == mine \cup ToSet(Names(p.globals)) \cup {""}
  IN  [args |-> IF f = "" THEN <<>> ELSE Names(p.functions[f].args),
       locals |-> Names(locals),
       types |-> [x \in all |-> IF x = "" THEN Indeterminate
                                ELSE TypeIn(IF x \in mine THEN locals ELSE p.globals, x)],
       globals |-> [x \in ToSet(Names(p.globals)) |-> CHOOSE i \in DOMAIN p.globals : p.globals[i].name = x],
       classes |-> p.classes, classId |-> p.classId, functions |-> p.functions, compiled |-> FragmentAddress(f),
       init |-> f # "" /\ p.functions[f].init,
       annotation |-> IF f = "" THEN Indeterminate ELSE p.functions[f].annotation,
       inline |-> p.inline]

\* What compiling scope f gives.
Fragment(p, f) ==
  LET Labels(code) == {i \in DOMAIN code : code[i].op = "label"}
      Numbered(code, at) == [l \in {code[i].a.n : i \in at} |-> CHOOSE i \in at : code[i].a.n = l]
      Made(v) == [f |-> f, code |-> v.code, labels |-> Numbered(v.code, Labels(v.code)),
                  splits |-> v.splits, thrown |-> v.thrown, returns |-> v.returns]
  IN  Made(Scope(Environment(p, f), IF f = "" THEN p.body ELSE p.functions[f].body, f = ""))

ConstantNames == P.strings
ConstantAddress(name) == PerObject * (1 + CHOOSE i \in DOMAIN ConstantNames : ConstantNames[i] = name)

AddressOf(name) ==
  CASE name = "globals"    -> PerObject * Globals
    [] name = "common"     -> 0
    [] name = "destructor" -> DestructorAddress
    [] name \in DOMAIN P.text -> ConstantAddress(name)
    [] OTHER -> ContextAddress

(***************************************************************************)
(* Memory                                                                  *)
(***************************************************************************)
ObjectAt(a) == a \div PerObject
FieldAt(a)  == a % PerObject
Live(h, a)  == a > 0 /\ ObjectAt(a) \in DOMAIN h /\ h[ObjectAt(a)].live
HasField(o, n) == IF n < ItemsAt THEN n < Len(o.words) ELSE n - ItemsAt < Len(o.items)

Valid(a) == IF a < 0 THEN -a \in DOMAIN stack
            ELSE Live(heap, a) /\ HasField(heap[ObjectAt(a)], FieldAt(a))
Word(h, a) == LET o == h[ObjectAt(a)]
              IN  IF FieldAt(a) < ItemsAt THEN o.words[FieldAt(a) + 1] ELSE o.items[FieldAt(a) - ItemsAt + 1]
Load(a)  == IF a < 0 THEN stack[-a] ELSE Word(heap, a)
Stored(h, a, x) == IF FieldAt(a) < ItemsAt
                   THEN [h EXCEPT ![ObjectAt(a)].words[FieldAt(a) + 1] = x]
                   ELSE [h EXCEPT ![ObjectAt(a)].items[FieldAt(a) - ItemsAt + 1] = x]

Object(words, items, text, kind) ==
  [words |-> words, items |-> items, text |-> text, kind |-> kind, live |-> TRUE]
NewAddress(h) == PerObject * (Len(h) + 1)

\* The objects that an object owns a reference to.
ClassOf(id) == CHOOSE c \in DOMAIN P.classId : P.classId[c] = id
Owned(o) ==
  CASE o.kind = "list"  -> IF o.words[5] = 1 THEN o.items ELSE <<>>
    [] o.kind = "tuple" -> LET n == o.words[3]
                               Flag(i) == (o.words[4 + n] \div 2 ^ (8 - i)) % 2
                           IN  [i \in 1 .. n |-> IF n > 0 /\ Flag(i) = 1 THEN o.words[3 + i] ELSE 0]
    [] o.kind = "instance" -> LET attrs == P.classes[ClassOf(o.words[3])]
                              IN  [i \in DOMAIN attrs |-> IF HasRefcount(attrs[i].type) THEN o.words[3 + i] ELSE 0]
    [] OTHER -> <<>>

\* Destroying an object drops the references it owns; ok is FALSE when that
\* touches an object that is gone.
RECURSIVE Dropped(_, _), Destroyed(_, _)
Destroyed(s, a) ==
  LET gone == FoldLeft(Dropped, s, Owned(s.heap[ObjectAt(a)]))
  IN  [gone EXCEPT !.heap[ObjectAt(a)].live = FALSE]
Dropped(s, a) ==
  IF a = 0 \/ ~s.ok THEN s
  ELSE IF ~Live(s.heap, a) \/ Word(s.heap, a) < 1 THEN [s EXCEPT !.ok = FALSE]
  ELSE LET less == [s EXCEPT !.heap = Stored(s.heap, a, Word(s.heap, a) - 1)]
       IN  IF Word(less.heap, a) = 0 THEN Destroyed(less, a) ELSE less

(***************************************************************************)
(* Init: the root scope of a program is about to run.                      *)
(***************************************************************************)
Registers == ToSet(IntOrder) \cup ToSet(FloatOrder) \cup {"rbx", "rbp", "r12", "r13", "r14", "r15"}

InitialHeap(p) ==
  LET names == p.strings
  IN  <<Object([i \in 1 .. Len(p.globals) + 1 |-> 0], <<>>, <<>>, "globals")>> \o
      [i \in DOMAIN names |-> Object(<<1, DestructorAddress, Len(p.text[names[i]])>>, <<>>, p.text[names[i]], "str")]

Init ==
  /\ \E i \in DOMAIN Programs : prog = Programs[i]
  /\ segments = <<>>
  /\ todo = P.known \o <<"">>
  /\ resume = [f |-> "", split |-> 0]
  /\ pc = CompilerAddress
  /\ regs = [r \in Registers |-> Junk]
  /\ flags = 0
  /\ stack = <<ReturnToCaller>>
  /\ heap = InitialHeap(P)
  /\ raised = FALSE
  /\ status = "running"

(***************************************************************************)
(* Operands                                                                *)
(***************************************************************************)
Here == segments[SegmentOf(pc)].code[OffsetOf(pc)]
Reg(r) == IF r = "rsp" THEN -Len(stack) ELSE regs[r]
Effective(o) == Reg(o.r) + o.n + (IF o.x = "" THEN 0 ELSE Reg(o.x))
LabelAddress(n) == Address(SegmentOf(pc), segments[SegmentOf(pc)].labels[n])
Readable(o) == o.k = "mem" => Valid(Effective(o))
Value(o) == CASE o.k = "reg"   -> Reg(o.r)
              [] o.k = "const" -> o.n
              [] o.k = "mem"   -> Load(Effective(o))
              [] o.k = "label" -> LabelAddress(o.n)
              [] o.k = "code"  -> AddressOf(o.r)

Goto(a) == pc' = a
Step    == Goto(pc + 1)
Fault   == status' = "fault" /\ UNCHANGED <<prog, segments, todo, resume, pc, regs, flags, stack, heap, raised>>

\* Write x to operand o.
Write(o, x) ==
  CASE o.k = "reg" -> regs' = [regs EXCEPT ![o.r] = x] /\ UNCHANGED <<stack, heap>>
    [] o.k = "mem" /\ Effective(o) < 0 ->
         stack' = [stack EXCEPT ![-Effective(o)] = x] /\ UNCHANGED <<regs, heap>>
    [] OTHER -> heap' = Stored(heap, Effective(o), x) /\ UNCHANGED <<regs, stack>>

Same == UNCHANGED <<prog, segments, todo, resume, raised, status>>
Running1 == status = "running" /\ IsCode(pc)
Op(ops) == Running1 /\ Here.op \in ops
Operands == IF Readable(Here.a) /\ Readable(Here.b) THEN TRUE ELSE FALSE

(***************************************************************************)
(* Instructions                                                            *)
(***************************************************************************)
Move ==
  /\ Op({"mov", "movq", "movsd", "lea"})
  /\ IF Here.op = "lea" THEN Write(Here.a, Effective(Here.b)) /\ Step /\ UNCHANGED flags /\ Same
     ELSE IF Operands THEN Write(Here.a, Value(Here.b)) /\ Step /\ UNCHANGED flags /\ Same
     ELSE Fault

Exchange ==
  /\ Op({"xchg"})
  /\ regs' = [regs EXCEPT ![Here.a.r] = Load(Effective(Here.b))]
  /\ stack' = [stack EXCEPT ![-Effective(Here.b)] = regs[Here.a.r]]
  /\ Step /\ Same /\ UNCHANGED <<flags, heap>>

PushWord ==
  /\ Op({"push"})
  /\ stack' = Append(stack, Value(Here.a))
  /\ Step /\ Same /\ UNCHANGED <<flags, heap, regs>>

PopWord ==
  /\ Op({"pop"})
  /\ regs' = [regs EXCEPT ![Here.a.r] = Last(stack)]
  /\ stack' = Front(stack)
  /\ Step /\ Same /\ UNCHANGED <<flags, heap>>

AdjustStack ==
  /\ Op({"add"}) /\ Here.a = R("rsp")
  /\ LET n == Here.b.n
     IN  stack' = IF n >= 0 THEN SubSeq(stack, 1, Len(stack) - n)
                  ELSE stack \o [i \in 1 .. -n |-> Junk]
  /\ Step /\ Same /\ UNCHANGED <<flags, heap, regs>>

Compute(op, x, y) ==
  CASE op = "add"  -> Wrap(x + y)
    [] op = "imul" -> Wrap(x * y)
    [] op = "neg"  -> Wrap(-x)
    [] op = "not"  -> NotW(x)
    [] op = "inc"  -> Wrap(x + 1)
    [] op = "dec"  -> Wrap(x - 1)
    [] op = "and"  -> AndW(x, y)
    [] op = "or"   -> OrW(x, y)
    [] op = "xor"  -> XorW(x, y)
    [] op = "shl"  -> Shl(x, y)
    [] op = "sar"  -> Sar(x, y)
    [] op = "shr"  -> Wrap(Unsigned(x) \div 2)
    [] op = "rol"  -> Rol1(x)
    [] op = "ror"  -> Ror1(x)
    [] op = "addsd" -> AddF(x, y)
    [] op = "subsd" -> SubF(x, y)
    [] op = "mulsd" -> MulF(x, y)
    [] op = "divsd" -> DivF(x, y)
    [] op = "roundsd"  -> TruncateF(y)
    [] op = "cvtsi2sd" -> FromInt(y)
    [] OTHER -> IF CompareF(op, x, y) THEN -1 ELSE 0
IntOps   == {"add", "imul", "neg", "not", "inc", "dec", "and", "or", "xor", "shl", "sar", "shr", "rol", "ror"}
FloatOps == {"addsd", "subsd", "mulsd", "divsd", "roundsd", "cvtsi2sd",
             "cmpltsd", "cmplesd", "cmpeqsd", "cmpneqsd", "cmpnltsd", "cmpnlesd"}

Arithmetic ==
  /\ Op(IntOps \cup FloatOps) /\ Here.a # R("rsp")
  /\ IF ~Operands THEN Fault
     ELSE LET x == Compute(Here.op, Value(Here.a), Value(Here.b))
          IN  /\ Write(Here.a, x)
              /\ flags' = IF Here.op \in IntOps THEN x ELSE flags
              /\ Step /\ Same

\* idiv takes the sign of the dividend from rdx, which the compiler clears.
Divide128 ==
  /\ Op({"idiv"})
  /\ LET x == IF regs["rdx"] = 0 THEN Unsigned(regs["rax"]) ELSE regs["rax"]
         y == Value(Here.a)
     IN  IF y = 0 \/ Quotient(x, y) # Wrap(Quotient(x, y)) THEN Fault
         ELSE /\ regs' = [regs EXCEPT !["rax"] = Quotient(x, y), !["rdx"] = Remainder(x, y)]
              /\ Step /\ Same /\ UNCHANGED <<flags, heap, stack>>

CompareWords ==
  /\ Op({"cmp", "test"})
  /\ IF ~Operands THEN Fault
     ELSE /\ flags' = IF Here.op = "cmp" THEN Value(Here.a) - Value(Here.b)
                      ELSE AndW(Value(Here.a), Value(Here.b))
          /\ Step /\ Same /\ UNCHANGED <<regs, heap, stack>>

\* Only the lowest byte is written.
SetByte ==
  /\ Op({"set"})
  /\ LET x == regs[Here.a.r]
     IN  regs' = [regs EXCEPT ![Here.a.r] = (x - (x % 256)) + (IF Holds(Here.b.r, flags) THEN 1 ELSE 0)]
  /\ Step /\ Same /\ UNCHANGED <<flags, heap, stack>>

Branch ==
  /\ Op({"j", "label"})
  /\ IF Here.op = "j" /\ Holds(Here.b.r, flags) THEN Goto(LabelAddress(Here.b.n)) ELSE Step
  /\ Same /\ UNCHANGED <<flags, heap, stack, regs>>

(***************************************************************************)
(* Calls and returns                                                       *)
(***************************************************************************)
CallFragmentCode ==
  /\ Op({"call"}) /\ Readable(Here.a) /\ Here.a.k # "code" /\ IsCode(Value(Here.a))
  /\ stack' = Append(stack, pc + 1)
  /\ Goto(Value(Here.a))
  /\ Same /\ UNCHANGED <<flags, heap, regs>>

ReturnFromCode ==
  /\ Op({"ret"})
  /\ stack' = Front(stack)
  /\ Goto(Last(stack))
  /\ status' = IF Last(stack) = ReturnToCaller THEN "done" ELSE status
  /\ UNCHANGED <<prog, segments, todo, resume, raised, flags, heap, regs>>

\* What a C function leaves in the registers that it need not keep.
Clobbered(rs) == [r \in Registers |-> IF r \in ToSet(IntOrder) \cup ToSet(FloatOrder) THEN Junk ELSE rs[r]]
Done(h, rax) == /\ heap' = h
                /\ regs' = [Clobbered(regs) EXCEPT !["rax"] = rax]
                /\ Step /\ Same /\ UNCHANGED <<flags, stack>>

External(f) == Op({"call"}) /\ Here.a = Code(f)
Rdi == regs["rdi"]
Rsi == regs["rsi"]
Rdx == regs["rdx"]
Text(a) == heap[ObjectAt(a)].text
IsText(a) == Live(heap, a) /\ heap[ObjectAt(a)].kind = "str"
NewText(h, text) == Append(h, Object(<<1, DestructorAddress, Len(text)>>, <<>>, text, "str"))
WithReference(a) == Stored(heap, a, Word(heap, a) + 1)

CountUp == External("add_reference") /\
           IF Live(heap, Rdi) THEN Done(WithReference(Rdi), Junk) ELSE Fault

CountDown == External("delete_reference") /\
             LET s == Dropped([heap |-> heap, ok |-> TRUE], Rdi)
             IN  IF s.ok THEN Done(s.heap, Junk) ELSE Fault

\* A destructor, called through the object's second word.
CallDestructor ==
  /\ Op({"call"}) /\ Here.a.k = "mem"
  /\ IF ~Readable(Here.a) \/ Value(Here.a) # DestructorAddress THEN Fault
     ELSE LET s == Destroyed([heap |-> heap, ok |-> TRUE], Rdi)
          IN  IF s.ok THEN Done(s.heap, Junk) ELSE Fault

Malloc == External("malloc") /\
          Done(Append(heap, Object([i \in 1 .. Rdi |-> Junk], <<>>, <<>>, "instance")), NewAddress(heap))

ListNew == External("list_new") /\
           Done(Append(heap, Object(<<1, DestructorAddress, Rdi, Rdi, Rsi, NewAddress(heap) + ItemsAt>>,
                                    [i \in 1 .. Rdi |-> 0], <<>>, "list")), NewAddress(heap))

TupleNew == External("tuple_new") /\
            Done(Append(heap, Object(<<1, DestructorAddress, Rdi>> \o [i \in 1 .. Rdi + 1 |-> 0],
                                     <<>>, <<>>, "tuple")), NewAddress(heap))

(***************************************************************************)
(* Exceptions.  An exception block is the block below it, rsp, rbp, r12,   *)
(* r13 and the handlers: an address, a count and the classes; one without  *)
(* classes takes every exception.                                          *)
(***************************************************************************)
\* The stack word n words above the one at address a
Above(a, n) == stack[-(a + n)]
RECURSIVE HandlerFor(_, _)
HandlerFor(a, class) ==
  LET n == Above(a, 1)
  IN  IF n = 0 \/ \E i \in 1 .. n : Above(a, 1 + i) = class THEN Above(a, 0)
      ELSE HandlerFor(a + n + 2, class)

Unwound(h, block, exception) ==
  /\ heap' = h
  /\ Goto(HandlerFor(block + 5, Word(h, exception + 2)))
  /\ stack' = SubSeq(stack, 1, -Above(block, 1))
  /\ regs' = [regs EXCEPT !["rbp"] = Above(block, 2), !["r12"] = Above(block, 3),
                          !["r13"] = Above(block, 4), !["r14"] = Above(block, 0),
                          !["r15"] = exception,
                          !["rax"] = Junk, !["rdx"] = Junk, !["r8"] = Junk, !["r9"] = Junk]
  /\ raised' = TRUE
  /\ UNCHANGED <<prog, segments, todo, resume, flags, status>>

UnwindException ==
  /\ status = "running"
  /\ IF IsCode(pc) THEN Here.op = "unwind" ELSE pc = UnwinderAddress
  /\ IF -regs["r14"] \in DOMAIN stack THEN Unwound(heap, regs["r14"], regs["r15"]) ELSE Fault

\* An exception of the run-time library: a new instance with a message.
NewException(h, class) ==
  Append(NewText(h, <<>>), Object(<<1, DestructorAddress, P.classId[class], NewAddress(h)>>, <<>>, <<>>, "instance"))
RaiseFromLibrary(class, block) ==
  LET h == NewException(heap, class)
  IN  Unwound(h, block, PerObject * Len(h))

\* list_get_item and tuple_get_item
GetItem ==
  /\ External("list_get_item") \/ External("tuple_get_item")
  /\ IF ~Live(heap, Rdi) THEN Fault
     ELSE LET o     == heap[ObjectAt(Rdi)]
              n     == o.words[3]
              place == IF Rsi < 0 THEN Rsi + n ELSE Rsi
              item  == IF o.kind = "list" THEN o.items[place + 1] ELSE o.words[4 + place]
              owned == Owned(o) # <<>> /\ Owned(o)[place + 1] # 0
          IN  IF place \notin 0 .. n - 1 THEN RaiseFromLibrary("IndexError", Rdx)
              ELSE Done(IF owned THEN WithReference(item) ELSE heap, item)

(***************************************************************************)
(* Strings.  The character 0 of a format stands for %s.                    *)
(***************************************************************************)
RECURSIVE Filled(_, _)
Filled(format, parts) ==
  IF format = <<>> THEN <<>>
  ELSE IF Head(format) # 0 THEN <<Head(format)>> \o Filled(Tail(format), parts)
  ELSE Head(parts) \o Filled(Tail(format), Tail(parts))

RECURSIVE TextOrder(_, _)
TextOrder(a, b) == CASE a = <<>> /\ b = <<>> -> 0
                     [] a = <<>> -> -1
                     [] b = <<>> -> 1
                     [] Head(a) # Head(b) -> Head(a) - Head(b)
                     [] OTHER -> TextOrder(Tail(a), Tail(b))
IsPart(a, b) == \E i \in 0 .. Len(b) - Len(a) : SubSeq(b, i + 1, i + Len(a)) = a
Bit(p) == IF p THEN 1 ELSE 0

StringFunction ==
  \E f \in {"unicode_concat", "unicode_equal", "unicode_compare", "unicode_contains", "unicode_format_one"} :
    /\ External(f)
    /\ IF ~IsText(Rdi) \/ ~IsText(Rsi) THEN Fault
       ELSE CASE f = "unicode_concat"   -> Done(NewText(heap, Text(Rdi) \o Text(Rsi)), NewAddress(heap))
              [] f = "unicode_equal"    -> Done(heap, Bit(Text(Rdi) = Text(Rsi)))
              [] f = "unicode_compare"  -> Done(heap, TextOrder(Text(Rdi), Text(Rsi)))
              [] f = "unicode_contains" -> Done(heap, Bit(IsPart(Text(Rsi), Text(Rdi))))
              [] f = "unicode_format_one" ->
                   Done(NewText(heap, Filled(Text(Rdi), <<Text(Rsi)>>)), NewAddress(heap))

FormatTuple ==
  /\ External("unicode_format")
  /\ IF ~IsText(Rdi) \/ ~Live(heap, Rsi) THEN Fault
     ELSE LET items == Owned(heap[ObjectAt(Rsi)])
          IN  Done(NewText(heap, Filled(Text(Rdi), [i \in DOMAIN items |-> Text(items[i])])), NewAddress(heap))

\* pow of the C library, for the exponents 0.0, 1.0, 2.0, ...
PowerOf(x, n) == FoldLeft(LAMBDA y, i : MulF(y, x), FromInt(1), [i \in 1 .. n |-> i])
Pow ==
  /\ External("pow")
  /\ regs' = [Clobbered(regs) EXCEPT !["xmm0"] = PowerOf(regs["xmm0"], FromBits(regs["xmm1"]) \div 10)]
  /\ Step /\ Same /\ UNCHANGED <<flags, stack, heap>>

(***************************************************************************)
(* A call whose callee has no fragment.  The return address that the call  *)
(* pushes is the unwinder's; it is used when the compiler fails.           *)
(***************************************************************************)
HasSplit(fragment, id) == \E i \in DOMAIN fragment.splits : fragment.splits[i].id = id
ResolveCall ==
  /\ Op({"resolve"})
  /\ LET callee == Here.a.r
         caller == segments[SegmentOf(pc)].f
     IN  /\ todo' = IF HasSplit(segments[Current(caller)], Here.b.n) THEN <<>>
                    ELSE (IF callee \in Compiled THEN <<>> ELSE <<callee>>) \o <<caller>>
         /\ resume' = [f |-> caller, split |-> Here.b.n]
  /\ Goto(CompilerAddress)
  /\ UNCHANGED <<prog, segments, regs, flags, stack, heap, raised, status>>

\* A scope that the compiler refuses ends the program before it starts, or
\* raises PyJitCompilerError at the call.
RefuseScope ==
  LET h == NewException(heap, "PyJitCompilerError")
  IN  IF resume.split = 0
      THEN status' = "refused" /\ UNCHANGED <<prog, segments, todo, resume, pc, regs, flags, stack, heap, raised>>
      ELSE /\ heap' = h
           /\ regs' = [Clobbered(regs) EXCEPT !["r15"] = PerObject * Len(h)]
           /\ todo' = <<>>
           /\ Goto(UnwinderAddress)
           /\ UNCHANGED <<prog, segments, resume, flags, stack, raised, status>>

CompileScope ==
  /\ status = "running" /\ todo # <<>>
  /\ \E new \in {Fragment(P, Head(todo))} :
       IF new.thrown = "compile_error" THEN RefuseScope
       ELSE /\ segments' = Append(segments, new)
            /\ todo' = Tail(todo)
            /\ UNCHANGED <<prog, resume, pc, regs, flags, stack, heap, raised, status>>

SplitIn(fragment) == CHOOSE i \in DOMAIN fragment.splits : fragment.splits[i].id = resume.split
Resume ==
  /\ status = "running" /\ pc = CompilerAddress /\ todo = <<>>
  /\ LET new == Current(resume.f)
     IN  Goto(Address(new, IF resume.split = 0 THEN 1 ELSE segments[new].splits[SplitIn(segments[new])].at))
  /\ UNCHANGED <<prog, segments, todo, resume, regs, flags, stack, heap, raised, status>>

Halted == status # "running" /\ UNCHANGED vars

Next == \/ Move \/ Exchange \/ PushWord \/ PopWord \/ AdjustStack
        \/ Arithmetic \/ Divide128 \/ CompareWords \/ SetByte \/ Branch
        \/ CallFragmentCode \/ ReturnFromCode \/ CountUp \/ CountDown \/ CallDestructor
        \/ Malloc \/ ListNew \/ TupleNew \/ GetItem \/ StringFunction \/ FormatTuple \/ Pow
        \/ UnwindException \/ ResolveCall \/ CompileScope \/ Resume \/ Halted

Spec == Init /\ [][Next]_vars
=============================================================================
