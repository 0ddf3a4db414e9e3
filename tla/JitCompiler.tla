------------------------------ MODULE JitCompiler ------------------------------
(***************************************************************************)
(* The just-in-time compiler: fragments, splits and call sites.            *)
(*                                                                         *)
(* compile_fragment (Compile.cc) drives a CompilationVisitor over the body *)
(* of a function, for one combination of argument types.  A call whose     *)
(* callee has a fragment becomes a direct call; otherwise the callee is    *)
(* compiled on the spot (eager compilation), or the call becomes a stub    *)
(* that leads to jit_compile_scope with a call site token and compilation  *)
(* stops there: the fragment is split.  When the stub is executed,         *)
(* jit_compile_scope compiles the callee, compiles the caller again and    *)
(* execution goes on in the new code at the split.                         *)
(*                                                                         *)
(* compile_fragment is re-entrant; its live activations form "compiling".  *)
(* The frames of the compiled code form "frames".  One thread does both.   *)
(***************************************************************************)
EXTENDS JitProgram, FiniteSets

VARIABLES
  program,
  fragments,   \* function -> its fragments (FunctionContext::fragments)
  code,        \* code objects appended to the code buffer, never freed: of which
               \* function, and what its calls became
  callsites,   \* GlobalContext::unresolved_callsites; the token is the index
  inProgress,  \* scopes_in_progress: <<function, argument type>>
  compiling,   \* activations of compile_fragment, innermost last
  resolving,   \* the token that jit_compile_scope is working on, or 0
  frames,      \* frames of compiled code, innermost last
  raising,     \* an exception is active (r15)
  outcome      \* "none", "ended", "refused", "null call" or "bad jump"

vars == <<program, fragments, code, callsites, inProgress, compiling,
          resolving, frames, raising, outcome>>

(* A Fragment; compiled is 0 for the null pointer, splits is the set of    *)
(* calls whose call_split_offsets entry is not -1.                         *)
Fragment == [arg : FragmentTypes, returnType : FragmentTypes,
             compiled : Nat, splits : SUBSET Nat]

(* What compiled code has in the place of a call. *)
Absent == [kind |-> "absent", target |-> 0, type |-> Indeterminate]
Stub(token) == [kind |-> "stub", target |-> token, type |-> Indeterminate]
Direct(c, t) == [kind |-> "direct", target |-> c, type |-> t]
Site == [kind : {"absent", "stub", "direct"}, target : Nat, type : FragmentTypes]

(* One activation of compile_fragment: "why" tells who called it.          *)
Activation == [fn : Scopes, index : Nat, why : {"root", "eager", "callee", "caller"},
               pc : Nat, sites : Seq(Site), splits : SUBSET Nat,
               last : FragmentTypes, returned : SUBSET FragmentTypes]

(* One frame of compiled code; arg and last are the types that the values  *)
(* really have, whatever the compiler took them for.                       *)
Frame == [fn : Scopes, index : Nat, code : Nat, arg : FragmentTypes,
          pc : Nat, last : FragmentTypes]

TypeOK ==
  /\ WellFormedProgram(program)
  /\ fragments \in [Scopes -> Seq(Fragment)]
  /\ code \in Seq([fn : Scopes, sites : Seq(Site)])
  /\ callsites \in Seq([callee : Functions, arg : FragmentTypes, fn : Scopes,
                        index : Nat, split : Nat])
  /\ inProgress \subseteq Scopes \X FragmentTypes
  /\ compiling \in Seq(Activation)
  /\ resolving \in 0..Len(callsites)
  /\ frames \in Seq(Frame)
  /\ raising \in BOOLEAN
  /\ outcome \in {"none", "ended", "refused", "null call", "bad jump"}
-------------------------------------------------------------------------------
Top      == compiling[Len(compiling)]
Running  == frames[Len(frames)]
ButLast(s) == SubSeq(s, 1, Len(s) - 1)
SetLast(s, r) == [s EXCEPT ![Len(s)] = r]

ArgType(c, last) == IF c.arg = "result" THEN last ELSE c.arg
ReturnType(f, last) == IF program.returns[f] = "result" THEN last
                                                        ELSE program.returns[f]

(* FunctionContext::fragment_index_for_call_args, 0 for -1.                *)
FragmentIndex(f, type) ==
  LET match == {i \in 1..Len(fragments[f]) : fragments[f][i].arg = type}
  IN IF match = {} THEN 0 ELSE CHOOSE i \in match : \A j \in match : i <= j

NewFragment(f, type) ==
  [arg |-> type, returnType |-> Indeterminate, compiled |-> 0, splits |-> {}]

ScopeName(table, f, i) == <<f, table[f][i].arg>>

(* compile_fragment takes its scope's name out of scopes_in_progress.      *)
ForgetToLeave(f, i) == inProgress' = inProgress
LeaveScope(f, i) == inProgress' = inProgress \ {ScopeName(fragments, f, i)}

(* Activation a of the visitor goes on after a direct call to code object  *)
(* c, whose result has type t.                                             *)
AfterCallNoSplit(a, c, t) ==
  [a EXCEPT !.sites[a.pc] = Direct(c, t), !.last = t, !.pc = @ + 1]
AfterCall(a, c, t) ==
  [a EXCEPT !.sites[a.pc] = Direct(c, t), !.splits = @ \cup {a.pc},
            !.last = t, !.pc = @ + 1]

(* _resolve_function_call jumps into code object c of the same fragment,   *)
(* where the code that ran has stopped.                                    *)
StartAgainIn(c) == frames' = SetLast(frames, [Running EXCEPT !.code = c, !.pc = 1])
ContinueIn(c) == frames' = SetLast(frames, [Running EXCEPT !.code = c])

(* caller_fragment->call_split_offsets[callsite->caller_split_id] >= 0     *)
AlwaysHasSplit(fragment, site) == TRUE
HasSplit(fragment, site) == site.split \in fragment.splits

(* compile_fragment up to the visit, for fragment i of function f in the   *)
(* table "table": the return type is reset to the annotation, and the      *)
(* constructor of CompilationVisitor forgets all splits.                   *)
StartCompiling(table, stack, f, i, why) ==
  /\ fragments' = [table EXCEPT ![f][i].returnType = program.annotation[f],
                                ![f][i].splits = {}]
  /\ inProgress' = inProgress \cup {ScopeName(table, f, i)}
  /\ compiling' = Append(stack,
       [fn |-> f, index |-> i, why |-> why, pc |-> 1,
        sites |-> [k \in 1..Len(program.body[f]) |-> Absent],
        splits |-> {}, last |-> None, returned |-> {}])
-------------------------------------------------------------------------------
Init ==
  /\ program \in Programs
  /\ fragments = [f \in Scopes |-> IF f = Root THEN <<NewFragment(Root, None)>>
                                               ELSE <<>>]
  /\ code = <<>>
  /\ callsites = <<>>
  /\ inProgress = {}
  /\ compiling = <<>>
  /\ resolving = 0
  /\ frames = <<>>
  /\ raising = FALSE
  /\ outcome = "none"

(* advance_module_phase compiles the root scope. *)
CompileRoot ==
  /\ outcome = "none" /\ code = <<>> /\ compiling = <<>>
  /\ StartCompiling(fragments, <<>>, Root, 1, "root")
  /\ UNCHANGED <<program, code, callsites, resolving, frames, raising, outcome>>

InCall == compiling # <<>> /\ Top.pc <= Len(program.body[Top.fn])
TheCall == program.body[Top.fn][Top.pc]
TheType == ArgType(TheCall, Top.last)
AtCall == InCall /\ TheType # Indeterminate

(* visit(FunctionCall): the fragment exists, call it. *)
VisitDirectCall ==
  LET i == FragmentIndex(TheCall.callee, TheType)
      callee == fragments[TheCall.callee][i]
  IN /\ AtCall
     /\ i # 0
     /\ compiling' = SetLast(compiling,
                             AfterCall(Top, callee.compiled, callee.returnType))
     /\ UNCHANGED <<program, fragments, code, callsites, inProgress, resolving,
                    frames, raising, outcome>>

(* visit(FunctionCall): no fragment; compile one now. *)
VisitEagerCall ==
  LET f == TheCall.callee
      table == [fragments EXCEPT ![f] = Append(@, NewFragment(f, TheType))]
  IN /\ AtCall
     /\ FragmentIndex(f, TheType) = 0
     /\ program.eager
     /\ StartCompiling(table, compiling, f, Len(table[f]), "eager")
     /\ UNCHANGED <<program, code, callsites, resolving, frames, raising, outcome>>

(* The stub for the call that activation a is at, and what follows it: the *)
(* split ends the innermost suite, and a split in the function's own suite *)
(* ends the function.  A return statement that contains the call has an    *)
(* indeterminate type.                                                     *)
AfterStub(a, token) ==
  LET c == program.body[a.fn][a.pc]
      n == Len(program.body[a.fn])
  IN [a EXCEPT !.sites[a.pc] = Stub(token),
               !.last = Indeterminate,
               !.pc = IF c.suite = 0 THEN n + 2 ELSE c.suite,
               !.returned = IF a.pc = n /\ c.suite = 0
                               /\ program.returns[a.fn] = "result"
                            THEN @ \cup {Indeterminate} ELSE @]

(* The UnresolvedFunctionCall for call c in activation a. *)
CallsiteOf(a, c) ==
  [callee |-> c.callee, arg |-> ArgType(c, a.last),
   fn |-> a.fn, index |-> a.index, split |-> a.pc]

WriteStub(stack) ==
  LET a == stack[Len(stack)]
      c == program.body[a.fn][a.pc]
  IN /\ callsites' = Append(callsites, CallsiteOf(a, c))
     /\ compiling' = SetLast(stack, AfterStub(a, Len(callsites) + 1))

(* visit(FunctionCall): no fragment, and eager compilation is off. *)
VisitLazyCall ==
  /\ AtCall
  /\ FragmentIndex(TheCall.callee, TheType) = 0
  /\ ~program.eager
  /\ WriteStub(compiling)
  /\ UNCHANGED <<program, fragments, code, inProgress, resolving, frames,
                 raising, outcome>>

(* The visitor is past the last call.  If no split ended the function, it  *)
(* comes to the code at its end and to its return statement.               *)
AtEnd == compiling # <<>> /\ Top.pc > Len(program.body[Top.fn])
CutOff == Top.pc = Len(program.body[Top.fn]) + 2
Returned == Top.returned \cup
            IF CutOff \/ Top.fn = Root THEN {} ELSE {ReturnType(Top.fn, Top.last)}
TopType == fragments[Top.fn][Top.index].arg

(* The code at the end is refused; or the function's return type cannot be *)
(* inferred; or a call has an argument of a type that is not known.        *)
CompileFails ==
  \/ /\ AtEnd
     /\ \/ ~CutOff /\ TopType \in program.refused[Top.fn]
        \/ program.annotation[Top.fn] = Indeterminate /\ Indeterminate \in Returned
  \/ InCall /\ TheType = Indeterminate

(* The return type of the fragment just compiled: as annotated, else the   *)
(* one type that its return statements have, else None.                    *)
InferredNone(f) ==
  IF program.annotation[f] # Indeterminate THEN program.annotation[f] ELSE None
InferredType(f) ==
  IF program.annotation[f] # Indeterminate THEN program.annotation[f]
  ELSE IF Returned = {} THEN None ELSE CHOOSE t \in Returned : TRUE

(* The address compile_fragment gets from CodeBuffer::append.              *)
OldCode(f) == fragments[f][Top.index].compiled
NewCode(f) == Len(code) + 1

(* compile_fragment returns: the return type is inferred unless annotated, *)
(* the code is appended to the code buffer and the split offsets are set.  *)
FinishFragment ==
  LET f == Top.fn
      inferred == InferredType(f)
  IN /\ AtEnd
     /\ ~CompileFails
     /\ code' = Append(code, [fn |-> f, sites |-> Top.sites])
     /\ fragments' = [fragments EXCEPT
          ![f][Top.index].returnType = inferred,
          ![f][Top.index].compiled = NewCode(f),
          ![f][Top.index].splits = Top.splits]
     /\ LeaveScope(f, Top.index)
     /\ CASE Top.why = "root" ->
               /\ compiling' = <<>>
               /\ frames' = <<[fn |-> Root, index |-> 1, code |-> Len(code) + 1,
                               arg |-> None, pc |-> 1, last |-> None]>>
               /\ UNCHANGED <<resolving, outcome>>
          [] Top.why = "eager" ->
               \* visit(FunctionCall) goes on with the new fragment
               /\ LET a == compiling[Len(compiling) - 1]
                  IN compiling' = SetLast(ButLast(compiling),
                                          AfterCall(a, NewCode(f), inferred))
               /\ UNCHANGED <<frames, resolving, outcome>>
          [] Top.why = "callee" ->
               /\ compiling' = <<>>
               /\ UNCHANGED <<frames, resolving, outcome>>
          [] Top.why = "caller" ->
               /\ compiling' = <<>>
               /\ resolving' = 0
               /\ IF callsites[resolving].split \in Top.splits
                  THEN /\ ContinueIn(NewCode(f))
                       /\ UNCHANGED outcome
                  ELSE outcome' = "bad jump" /\ UNCHANGED frames
     /\ UNCHANGED <<program, callsites, raising>>

(* compile_fragment throws a compile_error.  visit(FunctionCall) drops the *)
(* fragment and writes a stub; jit_compile_scope raises PyJitCompilerError *)
(* in the calling code and leaves the fragment in the table.               *)
FailFragment ==
  LET f == Top.fn
  IN /\ CompileFails
     /\ LeaveScope(f, Top.index)
     /\ IF Top.why = "eager"
        THEN /\ fragments' = [fragments EXCEPT ![f] = ButLast(@)]
             /\ WriteStub(ButLast(compiling))
             /\ UNCHANGED <<resolving, raising, outcome>>
        ELSE /\ compiling' = <<>>
             /\ resolving' = 0
             /\ raising' = (Top.why # "root")
             /\ outcome' = IF Top.why = "root" THEN "refused" ELSE outcome
             /\ UNCHANGED <<fragments, callsites>>
     /\ UNCHANGED <<program, code, frames>>
-------------------------------------------------------------------------------
Executing == /\ outcome = "none" /\ frames # <<>> /\ compiling = <<>>
             /\ resolving = 0 /\ ~raising
RunBody == program.body[Running.fn]
SiteHere == code[Running.code].sites[Running.pc]

(* What jit_compile_scope compiles first: the callee, before its caller.   *)
CalleeFirst(table, site) ==
  StartCompiling(table, <<>>, site.callee, Len(table[site.callee]), "callee")

(* Where a frame goes on that leaves the nested suite it is in.            *)
AfterSuite(frame) == program.body[frame.fn][frame.pc].suite

(* A stub is executed: _resolve_function_call enters jit_compile_scope.    *)
(* If the caller has been compiled again since, nothing is to be done.     *)
Resolve ==
  LET token == SiteHere.target
      site == callsites[token]
      caller == fragments[site.fn][site.index]
      i == FragmentIndex(site.callee, site.arg)
      table == [fragments EXCEPT ![site.callee] =
                  Append(@, NewFragment(site.callee, site.arg))]
  IN /\ Executing
     /\ Running.pc <= Len(RunBody)
     /\ SiteHere.kind = "stub"
     /\ IF HasSplit(caller, site)
        THEN /\ ContinueIn(caller.compiled)
             /\ UNCHANGED <<fragments, inProgress, compiling, resolving>>
        ELSE /\ resolving' = token
             /\ frames' = frames
             /\ IF i = 0
                THEN CalleeFirst(table, site)
                ELSE StartCompiling(fragments, <<>>, site.fn, site.index, "caller")
     /\ UNCHANGED <<program, code, callsites, raising, outcome>>

(* jit_compile_scope compiles the caller after the callee. *)
RecompileCaller ==
  LET site == callsites[resolving]
  IN /\ resolving # 0 /\ compiling = <<>>
     /\ StartCompiling(fragments, <<>>, site.fn, site.index, "caller")
     /\ UNCHANGED <<program, code, callsites, resolving, frames, raising, outcome>>

(* A direct call is executed: the address was written into the code when   *)
(* it was compiled.                                                        *)
CallFragment ==
  /\ Executing
  /\ Running.pc <= Len(RunBody)
  /\ SiteHere.kind = "direct"
  /\ IF SiteHere.target = 0
     THEN outcome' = "null call" /\ frames' = frames
     ELSE LET f == RunBody[Running.pc].callee
              type == ArgType(RunBody[Running.pc], Running.last)
          IN /\ outcome' = outcome
             /\ frames' = Append(frames,
                  [fn |-> f, index |-> FragmentIndex(f, type),
                   code |-> SiteHere.target, arg |-> type, pc |-> 1, last |-> None])
  /\ UNCHANGED <<program, fragments, code, callsites, inProgress, compiling,
                 resolving, raising>>

(* A condition is false, or a loop ends: the rest of the suite is skipped. *)
SkipSuite ==
  /\ Executing
  /\ SuiteStart(program, Running.fn, Running.pc)
  /\ frames' = SetLast(frames, [Running EXCEPT !.pc = AfterSuite(Running)])
  /\ UNCHANGED <<program, fragments, code, callsites, inProgress, compiling,
                 resolving, raising, outcome>>

(* The function returns; the root scope's return ends the run. *)
ReturnFromFragment ==
  /\ Executing
  /\ Running.pc = Len(RunBody) + 1
  /\ IF Len(frames) = 1
     THEN frames' = <<>> /\ outcome' = "ended"
     ELSE LET caller == frames[Len(frames) - 1]
              result == ReturnType(Running.fn, Running.last)
          IN /\ frames' = Append(SubSeq(frames, 1, Len(frames) - 2),
                                 [caller EXCEPT !.pc = @ + 1, !.last = result])
             /\ outcome' = outcome
  /\ UNCHANGED <<program, fragments, code, callsites, inProgress, compiling,
                 resolving, raising>>

(* _unwind_exception_internal: an enclosing try statement handles the      *)
(* exception, or the frame is left and its caller sees r15 set.            *)
HandleException ==
  /\ raising /\ outcome = "none"
  /\ RunBody[Running.pc].suite # 0
  /\ raising' = FALSE
  /\ frames' = SetLast(frames, [Running EXCEPT !.pc = AfterSuite(Running), !.last = None])
  /\ UNCHANGED <<program, fragments, code, callsites, inProgress, compiling,
                 resolving, outcome>>

LeaveFrame ==
  /\ raising /\ outcome = "none"
  /\ frames' = ButLast(frames)
  /\ raising' = (Len(frames) > 1)
  /\ outcome' = IF Len(frames) = 1 THEN "ended" ELSE outcome
  /\ UNCHANGED <<program, fragments, code, callsites, inProgress, compiling, resolving>>

Step ==
  \/ CompileRoot \/ VisitDirectCall \/ VisitEagerCall \/ VisitLazyCall
  \/ FinishFragment \/ FailFragment
  \/ Resolve \/ RecompileCaller
  \/ CallFragment \/ SkipSuite \/ ReturnFromFragment
  \/ HandleException \/ LeaveFrame

Terminated == outcome # "none" /\ UNCHANGED vars

Next == Step \/ Terminated

(* One thread compiles and runs: it never stops between two steps. *)
Spec == Init /\ [][Next]_vars /\ WF_vars(Step)
-------------------------------------------------------------------------------
(* A direct call never goes to a fragment that has no code yet:            *)
(* CompilationVisitor.cc 2281, "the fragment exists, so we can call it".   *)
NoNullCall == outcome # "null call"

(* After the caller has been compiled again, the split that the running    *)
(* code waits at exists in the new code: Compile.cc 765, "now the caller   *)
(* fragment should have more splits than needed".                          *)
ResumesAtSplit == outcome # "bad jump"

(* The type that a call was compiled for is the type its callee returns:   *)
(* when a function is about to return, the code of its caller takes the    *)
(* result for what it is.                                                  *)
TypesHonest ==
  Executing /\ Len(frames) > 1 /\ Running.pc = Len(RunBody) + 1 =>
    LET caller == frames[Len(frames) - 1]
    IN code[caller.code].sites[caller.pc].type = ReturnType(Running.fn, Running.last)

(* scopes_in_progress holds exactly the scopes that compile_fragment is    *)
(* working on, no scope twice, so that nothing is left behind when code    *)
(* runs, after failures neither; and a function never has two fragments    *)
(* for the same types.                                                     *)
NothingLeftInProgress ==
  /\ inProgress = {ScopeName(fragments, compiling[i].fn, compiling[i].index) :
                     i \in 1..Len(compiling)}
  /\ Cardinality(inProgress) = Len(compiling)
  /\ \A f \in Scopes : \A i, j \in 1..Len(fragments[f]) :
        fragments[f][i].arg = fragments[f][j].arg => i = j

(* The call that a frame stands for, and the stack of calls.               *)
CallOf(frame) == [fn |-> frame.fn, arg |-> frame.arg, pc |-> frame.pc, last |-> frame.last]
CallsOf(stack) == [i \in 1..Len(stack) |-> CallOf(stack[i])]

(* What the program does is what a program is meant to do: compiling,      *)
(* resolving and moving to new code are not to be seen.                    *)
Meaning == INSTANCE CallSemantics WITH
  calls <- CallsOf(frames), ended <- outcome \in {"ended", "refused"}
ImplementsCalls == Meaning!Spec

(* The program comes to its end: compiling and resolving never go round in *)
(* circles.                                                                *)
Ends == <>(outcome # "none")
===============================================================================
