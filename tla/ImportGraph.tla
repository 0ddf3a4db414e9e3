------------------------------ MODULE ImportGraph ------------------------------
(***************************************************************************)
(* Programs as the module loader sees them: modules, the references among  *)
(* them, and the phase in which each visitor needs the module referred to. *)
(*                                                                         *)
(* A program is an element of Programs:                                    *)
(*   edges  - the references to another module, each a record              *)
(*            [src, dst, kind, place]: kind "name" is `from dst import y`, *)
(*            kind "attr" is an attribute `dst.y`; place "root" is code of *)
(*            the module's root scope, "func" is code of a function that   *)
(*            the root scope calls.                                        *)
(*   defect - the stage at which the module's own code is refused, or      *)
(*            "raise" if its root scope raises, or "none".                 *)
(***************************************************************************)
EXTENDS Integers

CONSTANTS
  Modules,     \* names of modules
  Main,        \* the module given on the command line
  Builtins,    \* modules with no source: created in phase Imported
  Programs     \* the programs considered

Kinds   == {"name", "attr"}
Places  == {"root", "func"}
Edge    == [src : Modules, dst : Modules, kind : Kinds, place : Places]
Defects == {"none", "parse", "annotate", "analyze", "compile", "raise"}

WellFormed(p) ==
  /\ p.edges \subseteq Edge
  /\ p.defect \in [Modules -> Defects]
  /\ \A e \in p.edges : e.src \notin Builtins

ASSUME ModulesAssumption ==
  /\ Main \in Modules
  /\ Builtins \subseteq Modules \ {Main}
  /\ \A p \in Programs : WellFormed(p)

(* enum class ModuleContext::Phase *)
Initial   == 0
Parsed    == 1
Annotated == 2
Analyzed  == 3
Imported  == 4
Phase     == Initial .. Imported

(* What the visitor that takes module m out of phase p asks for. *)
Requests(prog, m, p) ==
  {e \in prog.edges :
     /\ e.src = m
     /\ \/ p = Parsed /\ e.kind = "name"
        \/ p \in {Annotated, Analyzed}}

(* The phase it asks for: each visitor needs its imports one phase ahead. *)
NeededTooFar(p) == p + 2
Needed(p) == CASE p = Parsed    -> Annotated
               [] p = Annotated -> Analyzed
               [] OTHER         -> Imported

(* The phase every module has when it is created. *)
FirstPhase == [m \in Modules |-> IF m \in Builtins THEN Imported ELSE Initial]
===============================================================================
