------------------------------- MODULE JitProgram -------------------------------
(***************************************************************************)
(* Programs as the just-in-time compiler sees them: functions and the      *)
(* calls in their bodies.  Function 0 is the root scope of a module.       *)
(*                                                                         *)
(* A program is an element of Programs:                                    *)
(*   body       - function -> sequence of calls in source order, each a    *)
(*                record [callee, arg, suite]: arg is the type of the      *)
(*                argument, or "result" for the result of the call before  *)
(*                it; suite is 0 for a call in the function's own suite,   *)
(*                and for a call in a nested suite (if, try, while) the    *)
(*                position of the first call after that suite.             *)
(*   returns    - function -> type it returns at its end, or "result" if   *)
(*                it returns the result of its last call.                  *)
(*   annotation - function -> annotated return type, or "indeterminate".   *)
(*   refused    - function -> argument types for which the code at its end *)
(*                does not compile.                                        *)
(*   eager      - FALSE iff -XNoEagerCompilation was given.                *)
(***************************************************************************)
EXTENDS Integers, Sequences

CONSTANTS Functions, Types, Programs

Root == 0
Scopes == Functions \cup {Root}
Indeterminate == "indeterminate"
None == "none"
ValueTypes == Types \cup {None}
FragmentTypes == ValueTypes \cup {Indeterminate}

Item == [callee : Functions, arg : Types \cup {"result"}, suite : Nat]

WellFormedProgram(p) ==
  /\ p.body \in [Scopes -> Seq(Item)]
  /\ p.returns \in [Scopes -> Types \cup {"result"}]
  /\ p.annotation \in [Scopes -> Types \cup {Indeterminate}]
  /\ p.refused \in [Scopes -> SUBSET FragmentTypes]
  /\ p.eager \in BOOLEAN
  /\ \A f \in Scopes : \A i \in 1..Len(p.body[f]) :
        LET c == p.body[f][i]
        IN /\ c.suite = 0 \/ c.suite \in (i + 1)..(Len(p.body[f]) + 1)
           /\ c.arg = "result" => i > 1 /\ p.body[f][i - 1].suite \in {0, c.suite}

ASSUME ProgramsAssumption ==
  /\ Functions \subseteq Nat \ {0}
  /\ None \notin Types /\ Indeterminate \notin Types /\ "result" \notin Types
  /\ \A p \in Programs : WellFormedProgram(p)

(* Position i is where a nested suite of f begins. *)
SuiteStart(p, f, i) ==
  /\ i <= Len(p.body[f])
  /\ p.body[f][i].suite # 0
  /\ i > 1 => p.body[f][i - 1].suite # p.body[f][i].suite
===============================================================================
