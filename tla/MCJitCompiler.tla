---------------------------- MODULE MCJitCompiler ----------------------------
(***************************************************************************)
(* Instances of JitCompiler with three functions.  The root scope makes at *)
(* most RootCalls calls, functions 1 and 2 at most one each, function 3    *)
(* none; without recursion a function calls higher-numbered ones only.     *)
(***************************************************************************)
EXTENDS JitSound, TLC

CONSTANT RootCalls

MCFunctions == 1..3
MCTypes == {"int", "str"}

(* Bodies of function f with at most n calls, passing ints or results. *)
Bodies(f, n) ==
  {b \in UNION {[1..k -> [callee : {c \in Functions : c > f},
                          arg : {"int", "result"}, suite : 0..(n + 1)]] : k \in 0..n} :
     \A i \in 1..Len(b) :
        /\ b[i].suite = 0 \/ b[i].suite \in (i + 1)..(Len(b) + 1)
        /\ b[i].arg = "result" => i > 1 /\ b[i - 1].suite \in {0, b[i].suite}
        /\ i > 1 => b[i - 1].suite \in {0, i, b[i].suite}}

MCBodies == {r @@ p : r \in [{Root} -> Bodies(Root, RootCalls)],
                      p \in {q \in [{1, 2} -> Bodies(1, 1)] : q[2] \in Bodies(2, 1)}}
MCBody == {(3 :> <<>>) @@ b : b \in MCBodies}

(* A function returns a str, or the result of its last call. *)
MCReturns(body) ==
  {r \in [Scopes -> {"str", "result"}] :
     /\ r[Root] = "str"
     /\ \A f \in Functions : r[f] = "result" =>
          body[f] # <<>> /\ body[f][Len(body[f])].suite = 0}

Annotated   == [f \in Scopes |-> IF f = Root THEN Indeterminate ELSE "str"]
Unannotated == [f \in Scopes |-> Indeterminate]
NoneRefused == [f \in Scopes |-> {}]

ProgramsWith(annotations, refusals(_), eager) ==
  UNION {[body : {b}, returns : MCReturns(b), annotation : annotations,
          refused : refusals(b), eager : {eager}] : b \in MCBody}

(* Programs all of whose functions compile. *)
SoundPrograms(annotations, eager) == ProgramsWith(annotations, LAMBDA b : {NoneRefused}, eager)

(* They are sound, lazily compiled ones if they are annotated.             *)
ASSUME SoundAssumption ==
  \A p \in SoundPrograms({Annotated, Unannotated}, TRUE) \cup SoundPrograms({Annotated}, FALSE) :
     SoundProgram(p)

(* Programs in which one function does not compile; every function is      *)
(* called from one place at most.                                          *)
CalledOnce(b) ==
  \A f \in Functions :
     Cardinality({p \in Scopes \X (1..3) :
                    p[2] <= Len(b[p[1]]) /\ b[p[1]][p[2]].callee = f}) <= 1

RefusedPrograms(annotations, eager) ==
  {p \in ProgramsWith(annotations,
           LAMBDA b : {[NoneRefused EXCEPT ![f] = t] :
                         f \in Scopes, t \in {FragmentTypes, {"str"}}}, eager) :
     CalledOnce(p.body)}

(* Eager compilation, with and without annotated return types.             *)
EagerPrograms ==
  SoundPrograms({Annotated, Unannotated}, TRUE) \cup RefusedPrograms({Annotated, Unannotated}, TRUE)
(* -XNoEagerCompilation, where the return type is annotated of each        *)
(* function that a split can end before it returns: without the annotation *)
(* it is taken to return None, and its callers may end before their split. *)
ReachesReturn(b, f) == \A i \in 1..Len(b[f]) : b[f][i].suite # 0
AnnotatedWhereCut(b) ==
  [f \in Scopes |-> IF f = Root \/ ReachesReturn(b, f) THEN Indeterminate ELSE "str"]
LazyPrograms ==
  SoundPrograms({Annotated}, FALSE) \cup RefusedPrograms({Annotated}, FALSE) \cup
  {[p EXCEPT !.annotation = AnnotatedWhereCut(p.body)] : p \in SoundPrograms({Annotated}, FALSE)}
CallPrograms == EagerPrograms \cup LazyPrograms

(* One call of function 1, which calls itself. *)
ToFunction1(s) == [callee |-> 1, arg |-> "int", suite |-> s]
RecursivePrograms ==
  {[body |-> [f \in Scopes |-> IF f <= 1 THEN <<ToFunction1(s)>> ELSE <<>>],
    returns |-> [f \in Scopes |-> "str"], annotation |-> Annotated,
    refused |-> NoneRefused, eager |-> TRUE] : s \in {0, 2}}

(* Two calls of function 1, which does not compile, in try statements. *)
RepeatedPrograms ==
  {[body |-> [f \in Scopes |-> IF f = Root THEN <<ToFunction1(2), ToFunction1(3)>> ELSE <<>>],
    returns |-> [f \in Scopes |-> "str"], annotation |-> Annotated,
    refused |-> [NoneRefused EXCEPT ![1] = {"int"}], eager |-> e] : e \in BOOLEAN}

(* Functions that are in the table without code when they are called.      *)
CodelessPrograms == RecursivePrograms \cup RepeatedPrograms
===============================================================================
