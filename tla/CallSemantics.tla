----------------------------- MODULE CallSemantics -----------------------------
(***************************************************************************)
(* What running a program means, with no compiler in sight: a call enters  *)
(* its callee with the argument's type, a return hands the result to the   *)
(* caller, a suite may be skipped, and a call may raise PyJitCompilerError *)
(* - but only if the callee or the calling function holds code that does   *)
(* not compile (notes/design.md, "Compilation phase").                     *)
(***************************************************************************)
EXTENDS JitProgram

VARIABLES
  program,
  calls,     \* the call stack: [fn, arg, pc, last], innermost last
  raising,   \* an exception is active (r15)
  ended      \* the root scope is over

cvars == <<program, calls, raising, ended>>

Call == [fn : Scopes, arg : FragmentTypes, pc : Nat, last : FragmentTypes]

Current == calls[Len(calls)]
Body    == program.body[Current.fn]
Here    == Body[Current.pc]
SetCurrent(r) == [calls EXCEPT ![Len(calls)] = r]
Running == ~ended /\ ~raising /\ calls # <<>>

(* The type of the argument that call c gets, after a result of type last. *)
ArgType(c, last) == IF c.arg = "result" THEN last ELSE c.arg

(* The type of what function f returns, after a result of type last. *)
ReturnType(p, f, last) == IF p.returns[f] = "result" THEN last ELSE p.returns[f]

(* The functions with no return type to be inferred: they return what a    *)
(* function returns that does not compile, directly or through others.     *)
Uninferable(p) ==
  LET LastCallee(f) == p.body[f][Len(p.body[f])].callee
      Fails(f, D) ==
        /\ p.returns[f] = "result"
        /\ p.annotation[f] = Indeterminate
        /\ p.refused[LastCallee(f)] # {} \/ LastCallee(f) \in D
      Closed(D) == \A f \in Functions : Fails(f, D) => f \in D
  IN {f \in Functions : \A D \in SUBSET Functions : Closed(D) => f \in D}

(* A call may be refused because its callee does not compile for the type  *)
(* it gets, or because the calling function does not compile to its end.   *)
CanRefuse(r) ==
  LET c == program.body[r.fn][r.pc]
  IN \/ ArgType(c, r.last) \in program.refused[c.callee]
     \/ r.arg \in program.refused[r.fn]
     \/ {c.callee, r.fn} \cap Uninferable(program) # {}
-------------------------------------------------------------------------------
Init ==
  /\ WellFormedProgram(program)
  /\ calls = <<>>
  /\ raising = FALSE
  /\ ended = FALSE

(* The module's root scope is called. *)
Begin ==
  /\ calls = <<>> /\ ~ended
  /\ calls' = <<[fn |-> Root, arg |-> None, pc |-> 1, last |-> None]>>
  /\ UNCHANGED <<program, raising, ended>>

(* The root scope does not compile: nothing runs. *)
NeverBegin ==
  /\ calls = <<>> /\ ~ended
  /\ None \in program.refused[Root]
  /\ ended' = TRUE
  /\ UNCHANGED <<program, calls, raising>>

Enter ==
  /\ Running
  /\ Current.pc <= Len(Body)
  /\ calls' = Append(calls, [fn |-> Here.callee,
                             arg |-> ArgType(Here, Current.last),
                             pc |-> 1, last |-> None])
  /\ UNCHANGED <<program, raising, ended>>

SkipSuite ==
  /\ Running
  /\ SuiteStart(program, Current.fn, Current.pc)
  /\ calls' = SetCurrent([Current EXCEPT !.pc = Here.suite])
  /\ UNCHANGED <<program, raising, ended>>

Return ==
  /\ Running
  /\ Current.pc = Len(Body) + 1
  /\ IF Len(calls) = 1
     THEN calls' = <<>> /\ ended' = TRUE
     ELSE LET caller == calls[Len(calls) - 1]
              result == ReturnType(program, Current.fn, Current.last)
          IN /\ calls' = Append(SubSeq(calls, 1, Len(calls) - 2),
                                [caller EXCEPT !.pc = @ + 1, !.last = result])
             /\ ended' = ended
  /\ UNCHANGED <<program, raising>>

Raise ==
  /\ Running
  /\ Current.pc <= Len(Body)
  /\ CanRefuse(Current)
  /\ raising' = TRUE
  /\ UNCHANGED <<program, calls, ended>>

Handle ==
  /\ raising
  /\ Here.suite # 0
  /\ raising' = FALSE
  /\ calls' = SetCurrent([Current EXCEPT !.pc = Here.suite, !.last = None])
  /\ UNCHANGED <<program, ended>>

Propagate ==
  /\ raising
  /\ calls' = SubSeq(calls, 1, Len(calls) - 1)
  /\ raising' = (Len(calls) > 1)
  /\ ended' = (Len(calls) = 1)
  /\ UNCHANGED program

Next == \/ Begin \/ NeverBegin \/ Enter \/ SkipSuite \/ Return
        \/ Raise \/ Handle \/ Propagate

Spec == Init /\ [][Next]_cvars
===============================================================================
