--------------------------- MODULE ImportOrderProofs ---------------------------
(***************************************************************************)
(* Theorems about the abstract import order, for every set of modules and  *)
(* every program.                                                          *)
(***************************************************************************)
EXTENDS ImportOrder, TLAPS

(* Every state is a well-formed one: the program stays a program of the    *)
(* set, every module has a phase, only its references are excused.         *)
THEOREM OrderTypeCorrect == Spec => []TypeOK
<1>1. Init => TypeOK
  BY DEF Init, TypeOK, FirstPhase, Phase, Imported, Initial
<1>2. TypeOK /\ [Next]_<<program, phase, excused>> => TypeOK'
  <2> SUFFICES ASSUME TypeOK, [Next]_<<program, phase, excused>>
               PROVE  TypeOK'
    OBVIOUS
  <2>1. ASSUME NEW m \in Modules, Climb(m) PROVE TypeOK'
    BY <2>1 DEF Climb, TypeOK, Phase, Imported, Initial
  <2>2. ASSUME NEW e \in program.edges, Excuse(e) PROVE TypeOK'
    BY <2>2 DEF Excuse, TypeOK
  <2>3. CASE UNCHANGED <<program, phase, excused>>
    BY <2>3 DEF TypeOK
  <2> QED
    BY <2>1, <2>2, <2>3 DEF Next
<1> QED
  BY <1>1, <1>2, PTL DEF Spec

(* What Climb asks of the references of the module that climbs.            *)
LEMMA ClimbKeepsImportsReady ==
  ASSUME TypeOK, ImportsReady, NEW m \in Modules, Climb(m)
  PROVE  ImportsReady'
<1> SUFFICES ASSUME NEW e \in program.edges
             PROVE  /\ phase'[e.src] >= Annotated /\ e.kind = "name" =>
                          phase'[e.dst] >= Annotated
                    /\ phase'[e.src] >= Analyzed => phase'[e.dst] >= Analyzed
                    /\ phase'[e.src] = Imported =>
                          phase'[e.dst] = Imported \/ e \in excused
  BY DEF ImportsReady, Climb
<1>1. e.src \in Modules /\ e.dst \in Modules
  BY DEF TypeOK, WellFormed, Edge
<1>2. /\ phase \in [Modules -> Phase]
      /\ phase[m] < Imported
      /\ phase' = [phase EXCEPT ![m] = phase[m] + 1]
      /\ \A r \in Requests(program, m, phase[m]) : Ready(r, phase[m])
  BY DEF TypeOK, Climb
<1>3. phase'[e.dst] \in Phase /\ phase'[e.dst] >= phase[e.dst]
  BY <1>1, <1>2 DEF Phase, Initial, Imported
<1>4. CASE e.src # m
  <2>1. phase'[e.src] = phase[e.src]
    BY <1>1, <1>2, <1>4
  <2>2. phase[e.dst] \in Phase
    BY <1>1, <1>2
  <2> QED
    BY <1>3, <2>1, <2>2
    DEF ImportsReady, Phase, Initial, Parsed, Annotated, Analyzed, Imported
<1>5. CASE e.src = m
  <2>1. phase'[m] = phase[m] + 1 /\ phase[m] \in Phase /\ phase[e.dst] \in Phase
    BY <1>1, <1>2
  <2>2. phase[m] = Parsed /\ e.kind = "name" => phase[e.dst] >= Annotated
    <3>1. phase[m] = Parsed /\ e.kind = "name" => e \in Requests(program, m, phase[m])
      BY <1>5 DEF Requests
    <3> QED
      BY <1>2, <3>1 DEF Ready, Needed, Parsed, Annotated, Analyzed, Imported
  <2>3. phase[m] = Annotated => phase[e.dst] >= Analyzed
    <3>1. phase[m] = Annotated => e \in Requests(program, m, phase[m])
      BY <1>5 DEF Requests
    <3> QED
      BY <1>2, <3>1 DEF Ready, Needed, Parsed, Annotated, Analyzed, Imported
  <2>4. phase[m] = Analyzed => phase[e.dst] >= Imported \/ e \in excused
    <3>1. phase[m] = Analyzed => e \in Requests(program, m, phase[m])
      BY <1>5 DEF Requests
    <3> QED
      BY <1>2, <3>1 DEF Ready, Needed, Parsed, Annotated, Analyzed, Imported
  <2> QED
    BY <1>2, <1>3, <1>5, <2>1, <2>2, <2>3, <2>4
    DEF ImportsReady, Phase, Initial, Parsed, Annotated, Analyzed, Imported
<1> QED
  BY <1>4, <1>5

(* No module is ever further than the modules it refers to allow.          *)
THEOREM OrderImportsReady == Spec => []ImportsReady
<1>1. Init => ImportsReady
  <2> SUFFICES ASSUME Init, NEW e \in program.edges
               PROVE  phase[e.src] = Initial
    BY DEF ImportsReady, Initial, Annotated, Analyzed, Imported
  <2> QED
    BY DEF Init, FirstPhase, WellFormed, Edge
<1>2. TypeOK /\ ImportsReady /\ [Next]_<<program, phase, excused>> => ImportsReady'
  <2> SUFFICES ASSUME TypeOK, ImportsReady, [Next]_<<program, phase, excused>>
               PROVE  ImportsReady'
    OBVIOUS
  <2>1. ASSUME NEW m \in Modules, Climb(m) PROVE ImportsReady'
    BY <2>1, ClimbKeepsImportsReady
  <2>2. ASSUME NEW e \in program.edges, Excuse(e) PROVE ImportsReady'
    BY <2>2 DEF Excuse, ImportsReady
  <2>3. CASE UNCHANGED <<program, phase, excused>>
    BY <2>3 DEF ImportsReady
  <2> QED
    BY <2>1, <2>2, <2>3 DEF Next
<1> QED
  BY <1>1, <1>2, OrderTypeCorrect, PTL DEF Spec
===============================================================================
