----------------------------- MODULE CodeMeaning -----------------------------
(***************************************************************************)
(* What the code of CompilationVisitor promises, whatever the program:     *)
(* the stack is where the visitor thinks it is, objects are counted, the   *)
(* exception blocks are those of the code that runs, and the program does  *)
(* what Python says.                                                       *)
(***************************************************************************)
EXTENDS CompiledCode

Python == INSTANCE PythonSemantics

(***************************************************************************)
(* What the visitor assumed about the stack when it wrote the next         *)
(* instruction (CompilationVisitor.cc, stack_bytes_used) is true when it   *)
(* runs: the frame between rbp and rsp has the planned size.  The first    *)
(* two instructions of a fragment set rbp; before its return rbp is the    *)
(* caller's.  Calls are made with an aligned stack, which                  *)
(* write_function_call checks for the planned size only.                   *)
(***************************************************************************)
InFrame == Running1 /\ OffsetOf(pc) > 2 /\ Here.op # "ret"
StackAsPlanned == InFrame => /\ Here.at = Len(stack) + regs["rbp"] + 2
                             /\ Here.op = "call" => Len(stack) % 2 = 0

(***************************************************************************)
(* Whenever something may be raised, in a call or here, the exception      *)
(* blocks that r14 and the blocks themselves point to are in the part of   *)
(* the stack in use, and each is in the part that the one before it        *)
(* unwinds to: no frame and no try statement is left with its block still  *)
(* linked.                                                                 *)
(***************************************************************************)
RECURSIVE Linked(_)
Linked(a) == LET unwindsTo == Above(a, 1)
                 next      == Above(a, 0)
             IN  /\ -a \in 6 .. Len(stack)
                 /\ unwindsTo \in a .. 0
                 /\ next = 0 \/ (next >= unwindsTo /\ Linked(next))
HandlersLinked == Op({"call", "resolve", "unwind"}) => regs["r14"] = 0 \/ Linked(regs["r14"])

(***************************************************************************)
(* No instruction or library function touches a freed object, an address   *)
(* that is none, or a count that is already 0.                             *)
(***************************************************************************)
NothingFreedIsUsed == status # "fault"

(***************************************************************************)
(* The references to an object that are left when the root scope returns:  *)
(* those of global variables, of live objects and of the table of          *)
(* constants.                                                              *)
(***************************************************************************)
Referring(a) ==
  LET fromGlobals == {i \in DOMAIN P.globals : HasRefcount(P.globals[i].type) /\ heap[Globals].words[i + 1] = a}
      fromObjects == {<<n, i>> \in UNION {{<<n, j>> : j \in DOMAIN Owned(heap[n])} :
                                           n \in {m \in 2 .. Len(heap) : heap[m].live}} :
                        Owned(heap[n])[i] = a}
      constant    == IF ObjectAt(a) - 1 \in DOMAIN ConstantNames THEN 1 ELSE 0
  IN  Cardinality(fromGlobals) + Cardinality(fromObjects) + constant +
      (IF regs["rax"] = a THEN 1 ELSE 0)

(***************************************************************************)
(* When a program ends, no object has fewer references counted than there  *)
(* are; if no exception was raised (the unwinder drops the temporaries of  *)
(* the code it leaves), the count is exact and all else has been freed.    *)
(***************************************************************************)
ReferencesExact ==
  status = "done" => \A n \in 2 .. Len(heap) :
    LET count == IF heap[n].live THEN heap[n].words[1] ELSE 0
        refs  == Referring(PerObject * n)
    IN  refs <= count /\ (raised \/ refs = count)

(***************************************************************************)
(* A program ends with the global variables, and the exception, that       *)
(* Python gives it.                                                        *)
(***************************************************************************)
RECURSIVE Denoted(_, _)
Denoted(t, x) ==
  CASE Kind(t) = "Int"   -> <<"Int", x>>
    [] Kind(t) = "Bool"  -> <<"Bool", IF x = 0 THEN 0 ELSE 1>>
    [] Kind(t) = "Float" -> <<"Float", FromBits(x)>>
    [] Kind(t) = "None"  -> <<"None">>
    [] x = 0 -> <<"None">>
    [] Kind(t) = "Unicode" -> <<"Unicode", Text(x)>>
    [] Kind(t) = "List"  -> <<"List", [i \in DOMAIN heap[ObjectAt(x)].items |->
                                         Denoted(t[2], heap[ObjectAt(x)].items[i])]>>
    [] Kind(t) = "Tuple" -> <<"Tuple", [i \in 1 .. Len(t) - 1 |-> Denoted(t[i + 1], heap[ObjectAt(x)].words[3 + i])]>>
    [] Kind(t) = "Instance" ->
         LET class == ClassOf(heap[ObjectAt(x)].words[3])
         IN  <<"Instance", class, [i \in DOMAIN P.classes[class] |->
                                     Denoted(P.classes[class][i].type, heap[ObjectAt(x)].words[3 + i])]>>

Agrees(meant) ==
  LET Same1(x, type, word) == x = <<"None">> \/ x = Denoted(type, word)
  IN  /\ meant.exception = IF regs["rax"] = 0 THEN "" ELSE ClassOf(heap[ObjectAt(regs["rax"])].words[3])
      /\ \A i \in DOMAIN P.globals :
           Same1(meant.globals[P.globals[i].name], P.globals[i].type, heap[Globals].words[i + 1])
MeansWhatPythonMeans == status = "done" => Agrees(Python!Meaning(P))

(***************************************************************************)
(* The compiler accepts the programs it is given: no internal check of it  *)
(* (a register reserved twice, a reference not held, a stack that does not *)
(* end where it began) fails, and no function is compiled to return        *)
(* another type than its callers were compiled for.                        *)
(***************************************************************************)
CompilerAccepts ==
  /\ status # "refused"
  /\ \A s \in DOMAIN segments :
       /\ segments[s].thrown \in {"", "split"}
       /\ segments[s].f # "" /\ segments[s].thrown = "" /\ ~P.functions[segments[s].f].init =>
            segments[s].returns \subseteq {P.functions[segments[s].f].returns}
=============================================================================
