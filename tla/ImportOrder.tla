------------------------------ MODULE ImportOrder ------------------------------
(***************************************************************************)
(* What the import of modules promises, with no word about how: a module   *)
(* climbs one phase at a time, and it reaches a phase only when the        *)
(* modules it refers to are as far as the visitor of that phase needs them *)
(* to be.  A reference in code that runs may be excused: its failure was   *)
(* reported to the running program, which went on without it.              *)
(***************************************************************************)
EXTENDS ImportGraph

VARIABLES program, phase, excused

Ready(e, p) == phase[e.dst] >= Needed(p) \/ (p = Analyzed /\ e \in excused)
-------------------------------------------------------------------------------
Init ==
  /\ WellFormed(program)
  /\ phase = FirstPhase
  /\ excused = {}

Climb(m) ==
  /\ phase[m] < Imported
  /\ \A e \in Requests(program, m, phase[m]) : Ready(e, phase[m])
  /\ phase' = [phase EXCEPT ![m] = @ + 1]
  /\ UNCHANGED <<program, excused>>

Excuse(e) ==
  /\ excused' = excused \cup {e}
  /\ UNCHANGED <<program, phase>>

Next == \/ \E m \in Modules : Climb(m)
        \/ \E e \in program.edges : Excuse(e)

Spec == Init /\ [][Next]_<<program, phase, excused>>
-------------------------------------------------------------------------------
TypeOK ==
  /\ WellFormed(program)
  /\ phase \in [Modules -> Phase]
  /\ excused \subseteq program.edges

(* A module is never further than the modules it refers to allow: an       *)
(* annotated module's `from x import y` sees an annotated x, an analyzed   *)
(* module refers to analyzed ones only, and when a root scope has run,     *)
(* every module it refers to had its globals written before, unless the    *)
(* failure was handed to the running code.  (CompilationVisitor.cc 2622:   *)
(* "make sure the module's globals are written before the code we're       *)
(* generating executes".)                                                  *)
ImportsReady ==
  \A e \in program.edges :
     /\ phase[e.src] >= Annotated /\ e.kind = "name" =>
           phase[e.dst] >= Annotated
     /\ phase[e.src] >= Analyzed => phase[e.dst] >= Analyzed
     /\ phase[e.src] = Imported => phase[e.dst] = Imported \/ e \in excused
===============================================================================
