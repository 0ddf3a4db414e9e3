------------------------- MODULE LoaderInvariantProofs -------------------------
(***************************************************************************)
(* The inductive invariant of the module loader, the properties that       *)
(* follow from it, and the proof that the loader implements ImportOrder:   *)
(* for every set of modules, every program, either compilation mode and    *)
(* any number of retries.                                                  *)
(***************************************************************************)
EXTENDS ModuleLoaderProofs

(* Only two steps change a phase: they take the module of the innermost    *)
(* activation one phase further.                                           *)
LEMMA PhaseStep ==
  ASSUME TypeOK, StagesFit, [Next]_vars
  PROVE  /\ program' = program
         /\ caught \subseteq caught'
         /\ \/ phase' = phase
            \/ /\ FinishStage \/ FinishRoot
               /\ Top.mod \in Modules
               /\ phase[Top.mod] \in Phase \ {Imported}
               /\ phase' = [phase EXCEPT ![Top.mod] = phase[Top.mod] + 1]
<1>1. program' = program /\ caught \subseteq caught'
  BY DEF Next, Advance, Terminated, vars, Start, AlreadyThere, Enter,
       RefuseCycle, Split, FinishStage, RunRoot, FinishRoot, Fail, SwallowEager,
       HandleInPython, Unwind, Exit
<1>2. phase' = phase \/ FinishStage \/ FinishRoot
  BY DEF Next, Advance, Terminated, vars, Start, AlreadyThere, Enter,
       RefuseCycle, Split, RunRoot, Fail, SwallowEager, HandleInPython, Unwind, Exit
<1>3. ASSUME stack # <<>> PROVE Top \in Frame /\ FitsAt(Len(stack))
                                /\ Top = stack[Len(stack)]
  BY <1>3, TopIsFrame DEF TypeOK, StagesFit
<1>4. CASE FinishStage
  <2>1. /\ Top.mod \in Modules
        /\ phase[Top.mod] \in Phase /\ phase[Top.mod] < Analyzed
        /\ phase' = [phase EXCEPT ![Top.mod] = phase[Top.mod] + 1]
    BY <1>3, <1>4 DEF FinishStage, Promote, Active, Frame, TypeOK
  <2>2. phase[Top.mod] # Imported
    BY <2>1 DEF Analyzed, Imported
  <2> QED
    BY <1>1, <1>4, <2>1, <2>2
<1>5. CASE FinishRoot
  <2>1. /\ Top.mod \in Modules /\ phase[Top.mod] = Analyzed
        /\ phase' = [phase EXCEPT ![Top.mod] = Imported]
    BY <1>3, <1>5 DEF FinishRoot, Active, Frame, FitsAt
  <2>2. Imported = Analyzed + 1 /\ Analyzed \in Phase \ {Imported}
    BY DEF Analyzed, Imported, Phase, Initial
  <2> QED
    BY <1>1, <1>5, <2>1, <2>2
<1> QED
  BY <1>1, <1>2, <1>4, <1>5

(* What that leaves alone.                                                 *)
LEMMA PhaseFrame ==
  ASSUME TypeOK, StagesFit, [Next]_vars, NEW m \in Modules
  PROVE  /\ phase[m] \in Phase /\ phase'[m] \in Phase
         /\ phase'[m] >= phase[m]
         /\ stack = <<>> \/ m # Top.mod => phase'[m] = phase[m]
<1>1. phase \in [Modules -> Phase] /\ phase' \in [Modules -> Phase]
  BY TypeCorrectStep DEF TypeOK
<1>2. \/ phase' = phase
      \/ /\ FinishStage \/ FinishRoot
         /\ phase' = [phase EXCEPT ![Top.mod] = phase[Top.mod] + 1]
  BY PhaseStep
<1>3. FinishStage \/ FinishRoot => stack # <<>>
  BY DEF FinishStage, FinishRoot, Active
<1> QED
  BY <1>1, <1>2, <1>3 DEF Phase, Initial, Imported

(* The other activations advance other modules.                            *)
LEMMA OthersDiffer ==
  ASSUME TypeOK, ScopesAreActivations, NEW i \in 1..Len(stack)
  PROVE  /\ stack # <<>> /\ stack[i] \in Frame /\ stack[i].mod \in Modules
         /\ stack[i].target \in Phase
         /\ i # Len(stack) => stack[i].mod # Top.mod
<1>1. stack \in Seq(Frame) /\ Len(stack) \in Nat /\ stack # <<>>
  BY DEF TypeOK
<1>2. stack[i] \in Frame
  BY <1>1
<1>3. stack[i].mod \in Modules /\ stack[i].target \in Phase
  BY <1>2 DEF Frame
<1>4. Len(stack) \in 1..Len(stack) /\ Top = stack[Len(stack)]
  BY <1>1 DEF Top
<1> QED
  BY <1>1, <1>2, <1>3, <1>4 DEF ScopesAreActivations
-------------------------------------------------------------------------------
(* An activation whose stage is over either goes on or returns.            *)
LEMMA WorkStep ==
  ASSUME TypeOK, FreshAtStart, ScopesAreActivations, StagesFit,
         ActivationsHaveWork, [Next]_vars
  PROVE  ActivationsHaveWork'
<1> DEFINE n == Len(stack)
<1>1. stack \in Seq(Frame) /\ n \in Nat
  BY DEF TypeOK
<1>2. \A i \in 1..n : /\ stack[i].mod \in Modules /\ stack[i].target \in Phase
                      /\ phase[stack[i].mod] \in Phase
                      /\ phase[stack[i].mod] < stack[i].target
  BY OthersDiffer DEF TypeOK, ActivationsHaveWork
<1>3. \A i \in 1..n - 1 : phase'[stack[i].mod] < stack[i].target
  BY <1>1, <1>2, OthersDiffer, PhaseFrame
<1>4. CASE Stays
  <2>1. SUFFICES ASSUME stack # <<>> PROVE phase'[stack[n].mod] < stack[n].target
    BY <1>1, <1>3, <1>4 DEF Stays, ActivationsHaveWork
  <2>2. n \in 1..n /\ Top = stack[n]
    BY <1>1, <2>1 DEF Top
  <2>3. CASE phase' = phase
    BY <1>2, <2>2, <2>3
  <2>4. CASE FinishStage /\ phase' = [phase EXCEPT ![Top.mod] = phase[Top.mod] + 1]
    <3>1. phase[Top.mod] + 1 # Top.target
      BY <1>1, <1>4, <2>1, <2>4, PopStack DEF FinishStage, Leave, Stays
    <3>2. phase'[Top.mod] = phase[Top.mod] + 1
      BY <1>2, <2>2, <2>4 DEF TypeOK
    <3> QED
      BY <1>2, <2>2, <3>1, <3>2 DEF Phase, Initial, Imported
  <2>5. ~FinishRoot
    BY <1>1, <1>4, <2>1, PopStack DEF FinishRoot, Leave, Stays
  <2> QED
    BY <2>3, <2>4, <2>5, PhaseStep
<1>5. ASSUME NEW m \in Modules, NEW t \in Phase, NEW e \in Edge \cup {NoEdge},
             Pushes(m, t, e)
      PROVE  ActivationsHaveWork'
  <2> DEFINE f == NewFrame(m, t, e)
  <2>1. f \in Frame /\ f.mod = m /\ f.target = t
    BY NewFrameIsFrame DEF NewFrame
  <2> HIDE DEF f
  <2>2. /\ Len(stack') = n + 1
        /\ \A i \in 1..n : stack'[i] = stack[i]
        /\ stack'[n + 1] = f
    BY <1>1, <1>5, <2>1, PushStack DEF Pushes, f
  <2>3. phase' = phase /\ phase[m] < t
    BY <1>5 DEF Pushes
  <2> QED
    BY <1>1, <1>2, <2>1, <2>2, <2>3 DEF ActivationsHaveWork
<1>6. CASE Returns \/ Throws
  <2>1. /\ Len(stack') = n - 1
        /\ \A i \in 1..n - 1 : stack'[i] = stack[i]
    BY <1>1, <1>6, PopStack DEF Returns, Throws
  <2> QED
    BY <1>3, <2>1 DEF ActivationsHaveWork
<1> QED
  BY <1>4, <1>5, <1>6, StepShape
-------------------------------------------------------------------------------
(* Errors and excuses come from the references that activations serve.     *)
LEMMA ReferencesStep ==
  ASSUME TypeOK, FreshAtStart, StagesFit, ReferencesAreReal, [Next]_vars
  PROVE  ReferencesAreReal'
<1> DEFINE n == Len(stack)
<1>1. stack \in Seq(Frame) /\ n \in Nat
  BY DEF TypeOK
<1>2. /\ \A i \in 2..n : stack[i].via \in program.edges
      /\ error # NoError /\ stack # <<>> => error.via \in program.edges
      /\ caught \subseteq program.edges
  BY DEF ReferencesAreReal
<1>3. program' = program
  BY PhaseStep
<1>4. \A i \in 2..Len(stack') : stack'[i].via \in program.edges
  <2>1. CASE Stays
    BY <1>1, <1>2, <2>1 DEF Stays
  <2>2. ASSUME NEW m \in Modules, NEW t \in Phase, NEW e \in Edge \cup {NoEdge},
               Pushes(m, t, e)
        PROVE  \A i \in 2..Len(stack') : stack'[i].via \in program.edges
    <3> DEFINE f == NewFrame(m, t, e)
    <3>1. f \in Frame /\ f.via = e
      BY NewFrameIsFrame DEF NewFrame
    <3> HIDE DEF f
    <3>2. /\ Len(stack') = n + 1
          /\ \A i \in 1..n : stack'[i] = stack[i]
          /\ stack'[n + 1] = f
      BY <1>1, <2>2, <3>1, PushStack DEF Pushes, f
    <3>3. n > 0 => e \in program.edges
      BY <1>1, <2>2 DEF Pushes
    <3> QED
      BY <1>1, <1>2, <3>1, <3>2, <3>3
  <2>3. CASE Returns \/ Throws
    <3>1. Len(stack') = n - 1 /\ \A i \in 1..n - 1 : stack'[i] = stack[i]
      BY <1>1, <2>3, PopStack DEF Returns, Throws
    <3> QED
      BY <1>1, <1>2, <3>1
  <2> QED
    BY <2>1, <2>2, <2>3, StepShape
<1>5. error' # NoError /\ stack' # <<>> => error'.via \in program.edges
  <2>1. CASE error' = error /\ (error = NoError \/ stack # <<>>)
    BY <1>2, <2>1
  <2>2. CASE Start \/ FinishStage \/ FinishRoot \/ RunRoot \/ Exit \/ UNCHANGED vars
    BY <1>2, <2>2 DEF Start, FreshAtStart, FinishStage, FinishRoot, RunRoot, Active,
         Exit, vars
  <2>3. CASE SwallowEager \/ \E again \in BOOLEAN : HandleInPython(again)
    BY <2>3 DEF SwallowEager, HandleInPython
  <2>4. ASSUME NEW e \in program.edges, RefuseCycle(e)
        PROVE  error'.via \in program.edges
    BY <2>4 DEF RefuseCycle, Raise
  <2>5. ASSUME NEW e \in program.edges, AlreadyThere(e) \/ Enter(e) \/ Split(e)
        PROVE  error' = NoError
    BY <2>5 DEF AlreadyThere, Enter, Split, Reaches, Active
  <2>6. CASE Fail \/ Unwind
    <3>1. SUFFICES ASSUME stack' # <<>> PROVE error'.via \in program.edges
      OBVIOUS
    <3>2. stack # <<>> /\ stack' = Pop
      BY <2>6 DEF Fail, Unwind, Active
    <3>3. n \in 2..n /\ Top = stack[n]
      BY <1>1, <3>1, <3>2, PopStack DEF Top
    <3>4. error'.via = Top.via
      <4>1. CASE Fail
        BY <4>1 DEF Fail, Raise
      <4>2. CASE Unwind
        <5>1. error \in Error
          BY DEF TypeOK
        <5> QED
          BY <4>2, <5>1 DEF Unwind, Error
      <4> QED
        BY <2>6, <4>1, <4>2
    <3> QED
      BY <1>2, <3>3, <3>4
  <2> QED
    BY <2>2, <2>3, <2>4, <2>5, <2>6 DEF Next, Advance, Terminated
<1>6. caught' \subseteq program.edges
  <2>1. \/ caught' = caught
        \/ stack # <<>> /\ error # NoError /\ caught' = caught \cup {error.via}
    BY DEF Next, Advance, Terminated, vars, Start, AlreadyThere, Enter,
         RefuseCycle, Split, FinishStage, RunRoot, FinishRoot, Fail, SwallowEager,
         HandleInPython, Unwind, Exit
  <2> QED
    BY <1>2, <2>1
<1> QED
  BY <1>3, <1>4, <1>5, <1>6 DEF ReferencesAreReal
-------------------------------------------------------------------------------
(* Setting the top leaves the other activations alone.                     *)
LEMMA TopOnly ==
  ASSUME TypeOK, stack # <<>>, NEW f \in Frame, stack' = SetTop(f)
  PROVE  /\ Len(stack) \in 1..Len(stack) /\ Top = stack[Len(stack)]
         /\ Len(stack') = Len(stack)
         /\ \A i \in 1..Len(stack) - 1 : stack'[i] = stack[i]
         /\ stack'[Len(stack)] = f
<1>1. stack \in Seq(Frame)
  BY DEF TypeOK
<1>2. Len(stack) \in Nat \ {0} /\ Top = stack[Len(stack)]
  BY <1>1, TopIsFrame
<1>3. /\ Len(stack') = Len(stack)
      /\ \A i \in 1..Len(stack) : stack'[i] = IF i = Len(stack) THEN f ELSE stack[i]
  BY <1>1, SetTopStack
<1> QED
  BY <1>2, <1>3

(* A root scope runs in phase Analyzed only, when nothing is put off.      *)
LEMMA FitsStep ==
  ASSUME TypeOK, FreshAtStart, ScopesAreActivations, StagesFit, [Next]_vars
  PROVE  StagesFit'
<1> DEFINE n == Len(stack)
<1>1. stack \in Seq(Frame) /\ n \in Nat
  BY DEF TypeOK
<1>2. \A i \in 1..n : stack[i] \in Frame /\ stack[i].mod \in Modules /\ FitsAt(i)
  BY OthersDiffer DEF StagesFit
<1>3. ASSUME NEW i \in 1..n - 1, stack'[i] = stack[i] PROVE FitsAt(i)'
  BY <1>1, <1>2, <1>3, OthersDiffer, PhaseFrame DEF FitsAt
<1>4. ASSUME NEW i \in 1..n, stack'[i] = stack[i], phase' = phase PROVE FitsAt(i)'
  BY <1>2, <1>4 DEF FitsAt
<1>5. ASSUME NEW f \in Frame, stack # <<>>, stack' = SetTop(f), f.mod = Top.mod,
             \/ phase' = phase /\ phase[Top.mod] = Analyzed
                /\ (f.running => f.deferred = {})
             \/ ~f.running /\ f.deferred = {}
      PROVE  StagesFit'
  <2>1. /\ n \in 1..n /\ Top = stack[n]
        /\ Len(stack') = n /\ stack'[n] = f
        /\ \A i \in 1..n - 1 : stack'[i] = stack[i]
    BY <1>5, TopOnly
  <2>2. FitsAt(n)'
    BY <1>5, <2>1 DEF FitsAt
  <2> QED
    BY <1>1, <1>3, <2>1, <2>2 DEF StagesFit
<1>6. ASSUME NEW m \in Modules, NEW t \in Phase, NEW e \in Edge \cup {NoEdge},
             Pushes(m, t, e)
      PROVE  StagesFit'
  <2> DEFINE f == NewFrame(m, t, e)
  <2>1. f \in Frame /\ ~f.running /\ f.deferred = {}
    BY NewFrameIsFrame DEF NewFrame
  <2> HIDE DEF f
  <2>2. /\ Len(stack') = n + 1
        /\ \A i \in 1..n : stack'[i] = stack[i]
        /\ stack'[n + 1] = f
    BY <1>1, <1>6, <2>1, PushStack DEF Pushes, f
  <2>3. phase' = phase
    BY <1>6 DEF Pushes
  <2>4. ASSUME NEW i, i = n + 1 PROVE FitsAt(i)'
    BY <2>1, <2>2, <2>4 DEF FitsAt
  <2> QED
    BY <1>1, <1>4, <2>2, <2>3, <2>4 DEF StagesFit
<1>7. CASE Returns \/ Throws
  <2>1. Len(stack') = n - 1 /\ \A i \in 1..n - 1 : stack'[i] = stack[i]
    BY <1>1, <1>7, PopStack DEF Returns, Throws
  <2> QED
    BY <1>3, <2>1 DEF StagesFit
<1>8. CASE Stays /\ stack' = stack /\ phase' = phase
  BY <1>4, <1>8 DEF StagesFit
<1>9. ASSUME stack # <<>>, stack' = Pop PROVE ~Stays
  BY <1>1, <1>9, PopStack DEF Stays
<1>t. stack # <<>> => Top \in Frame /\ Top = stack[n] /\ FitsAt(n)
  BY <1>1, <1>2, TopIsFrame
<1>10. ASSUME NEW e \in program.edges, AlreadyThere(e) PROVE StagesFit'
  <2> DEFINE f == [Top EXCEPT !.todo = @ \ {e}]
  <2>1. /\ stack # <<>> /\ f \in Frame /\ f.mod = Top.mod
        /\ f.running = Top.running /\ f.deferred = Top.deferred
        /\ stack' = SetTop(f) /\ phase' = phase
    BY <1>10, <1>t DEF AlreadyThere, Reaches, Active, Frame
  <2> HIDE DEF f
  <2> QED
    BY <1>5, <1>t, <2>1 DEF FitsAt
<1>11. ASSUME NEW e \in program.edges, Split(e) PROVE StagesFit'
  <2> DEFINE f == [Top EXCEPT !.todo = @ \ {e}, !.deferred = @ \cup {e}]
  <2>1. e \in Edge
    BY DEF TypeOK, WellFormed
  <2>2. /\ stack # <<>> /\ f \in Frame /\ f.mod = Top.mod
        /\ ~f.running /\ stack' = SetTop(f)
        /\ phase' = phase /\ phase[Top.mod] = Analyzed
    BY <1>11, <1>t, <2>1 DEF Split, PutOff, Active, Frame
  <2> HIDE DEF f
  <2> QED
    BY <1>5, <2>2
<1>12. CASE FinishStage
  <2> DEFINE next == phase[Top.mod] + 1
             f == [Top EXCEPT !.todo = Requests(program, Top.mod, next)]
  <2>1. stack # <<>> /\ phase[Top.mod] < Analyzed
    BY <1>12 DEF FinishStage, Active
  <2>2. ~Top.running /\ Top.deferred = {}
    BY <1>t, <2>1 DEF FitsAt, Analyzed
  <2>3. CASE next = Top.target
    BY <1>7, <1>12, <2>1, <2>3 DEF FinishStage, Leave, Returns
  <2>4. CASE next # Top.target
    <3>1. /\ f \in Frame /\ f.mod = Top.mod
          /\ f.running = Top.running /\ f.deferred = Top.deferred
      BY <2>1, <1>t, RequestsAreEdges DEF Frame
    <3>2. stack' = SetTop(f)
      BY <1>12, <2>4 DEF FinishStage
    <3> HIDE DEF f
    <3> QED
      BY <1>5, <2>1, <2>2, <3>1, <3>2
  <2> QED
    BY <2>3, <2>4
<1>13. CASE RunRoot
  <2> DEFINE f == [Top EXCEPT !.running = TRUE, !.todo = @ \cup Top.deferred,
                              !.deferred = {}]
  <2>1. /\ stack # <<>> /\ f \in Frame /\ f.mod = Top.mod /\ f.deferred = {}
        /\ stack' = SetTop(f) /\ phase' = phase /\ phase[Top.mod] = Analyzed
    BY <1>13, <1>t DEF RunRoot, Active, Frame
  <2> HIDE DEF f
  <2> QED
    BY <1>5, <2>1
<1>14. CASE SwallowEager
  <2> DEFINE f == [Top EXCEPT !.todo = @ \ {error.via},
                              !.deferred = @ \cup {error.via}]
  <2>1. error.via \in Edge \cup {NoEdge} /\ error.via.place = "func"
    BY <1>14 DEF SwallowEager, CaughtByVisitor, TypeOK, Error
  <2>2. error.via \in Edge
    BY <2>1 DEF NoEdge
  <2>3. /\ stack # <<>> /\ f \in Frame /\ f.mod = Top.mod
        /\ ~f.running /\ stack' = SetTop(f)
        /\ phase' = phase /\ phase[Top.mod] = Analyzed
    BY <1>14, <1>t, <2>2 DEF SwallowEager, CaughtByVisitor, PutOff, Frame
  <2> HIDE DEF f
  <2> QED
    BY <1>5, <2>3
<1>15. ASSUME NEW again \in BOOLEAN, HandleInPython(again) PROVE StagesFit'
  <2> DEFINE f == [Top EXCEPT !.todo = @ \ {error.via}]
  <2>1. /\ stack # <<>> /\ f \in Frame /\ f.mod = Top.mod
        /\ f.deferred = Top.deferred /\ f.running = Top.running
        /\ Top.running /\ phase' = phase
    BY <1>15, <1>t DEF HandleInPython, Frame
  <2>2. stack' = stack \/ stack' = SetTop(f)
    BY <1>15 DEF HandleInPython
  <2> HIDE DEF f
  <2>3. CASE stack' = stack
    BY <1>4, <2>1, <2>3 DEF StagesFit
  <2>4. CASE stack' = SetTop(f)
    BY <1>5, <1>t, <2>1, <2>4 DEF FitsAt
  <2> QED
    BY <2>2, <2>3, <2>4
<1>16. ASSUME \/ \E e \in program.edges : RefuseCycle(e)
              \/ Exit \/ UNCHANGED vars
       PROVE  StagesFit'
  BY <1>4, <1>16 DEF RefuseCycle, Exit, vars, StagesFit
<1>17. CASE Fail \/ Unwind \/ FinishRoot
  BY <1>7, <1>17 DEF Fail, Unwind, FinishRoot, Leave, Active, Returns, Throws
<1>18. ASSUME Start \/ \E e \in program.edges : Enter(e) PROVE StagesFit'
  <2>1. CASE Start
    BY <1>6, <2>1, StartPushes, ModulesAssumption DEF Pushes
  <2>2. ASSUME NEW e \in program.edges, Enter(e) PROVE StagesFit'
    BY <1>6, <2>2, EnterPushes
  <2> QED
    BY <1>18, <2>1, <2>2
<1> QED
  BY <1>10, <1>11, <1>12, <1>13, <1>14, <1>15, <1>16, <1>17, <1>18
     DEF Next, Advance, Terminated
-------------------------------------------------------------------------------
(* What an activation has still to do, or has ready, survives every step.  *)
LEMMA CoveredStep ==
  ASSUME TypeOK, FreshAtStart, ScopesAreActivations, StagesFit, ReferencesAreReal,
         NothingForgotten, [Next]_vars
  PROVE  NothingForgotten'
<1> DEFINE n == Len(stack)
<1>1. stack \in Seq(Frame) /\ n \in Nat
  BY DEF TypeOK
<1>2. program' = program /\ caught \subseteq caught'
  BY PhaseStep
<1>3. \A i \in 1..n : stack[i] \in Frame /\ stack[i].mod \in Modules /\ CoveredAt(i)
  BY OthersDiffer DEF NothingForgotten
<1>4. \A m, p : \A e \in Requests(program, m, p) : e \in program.edges /\ e.dst \in Modules
  BY DEF Requests, TypeOK, WellFormed, Edge
(* A reference that was ready stays ready. *)
<1>5. ASSUME NEW e \in program.edges, e.dst \in Modules, NEW p \in Phase,
             Ready(e, p)
      PROVE  Ready(e, p)'
  <2>1. /\ phase[e.dst] \in Nat /\ phase'[e.dst] \in Nat
        /\ phase'[e.dst] >= phase[e.dst]
    BY <1>5, PhaseFrame DEF Phase, Initial, Imported
  <2>2. Needed(p) \in Nat
    BY NeededIsPhase DEF Phase, Initial, Imported
  <2> QED
    BY <1>2, <1>5, <2>1, <2>2 DEF Ready
(* An activation whose module stays in its phase. *)
<1>6. ASSUME NEW i \in 1..n, stack'[i].mod = stack[i].mod,
             phase'[stack[i].mod] = phase[stack[i].mod],
             \A e \in stack[i].todo \cup stack[i].deferred :
                \/ e \in stack'[i].todo \cup stack'[i].deferred
                \/ \A p \in Phase : e \in program.edges /\ p = phase[stack[i].mod]
                                     => Ready(e, p)'
      PROVE  CoveredAt(i)'
  <2> DEFINE p == phase[stack[i].mod]
             m == stack[i].mod
  <2>1. p \in Phase
    BY <1>3 DEF TypeOK
  <2>2. SUFFICES ASSUME NEW e \in Requests(program, m, p)
                 PROVE  \/ e \in stack'[i].todo \cup stack'[i].deferred
                        \/ Ready(e, p)'
    BY <1>2, <1>6 DEF CoveredAt, Ready
  <2>3. e \in stack[i].todo \cup stack[i].deferred \/ Ready(e, p)
    BY <1>3 DEF CoveredAt
  <2> QED
    BY <1>4, <1>5, <1>6, <2>1, <2>3
<1>7. ASSUME NEW i \in 1..n - 1, stack'[i] = stack[i] PROVE CoveredAt(i)'
  BY <1>1, <1>3, <1>6, <1>7, OthersDiffer, PhaseFrame
<1>8. ASSUME stack' = stack, phase' = phase PROVE NothingForgotten'
  BY <1>6, <1>8 DEF NothingForgotten
(* An activation that is new has everything before it. *)
<1>9. ASSUME NEW m \in Modules, NEW t \in Phase, NEW e \in Edge \cup {NoEdge},
             Pushes(m, t, e)
      PROVE  NothingForgotten'
  <2> DEFINE f == NewFrame(m, t, e)
  <2>1. f \in Frame /\ f.mod = m /\ f.todo = Requests(program, m, phase[m])
    BY NewFrameIsFrame DEF NewFrame
  <2> HIDE DEF f
  <2>2. /\ Len(stack') = n + 1
        /\ \A i \in 1..n : stack'[i] = stack[i]
        /\ stack'[n + 1] = f
    BY <1>1, <1>9, <2>1, PushStack DEF Pushes, f
  <2>3. phase' = phase
    BY <1>9 DEF Pushes
  <2>4. ASSUME NEW i \in 1..n PROVE CoveredAt(i)'
    BY <1>6, <2>2, <2>3
  <2>5. ASSUME NEW i, i = n + 1 PROVE CoveredAt(i)'
    BY <1>2, <2>1, <2>2, <2>3, <2>5 DEF CoveredAt
  <2> QED
    BY <1>1, <2>2, <2>4, <2>5 DEF NothingForgotten
<1>10. ASSUME Returns \/ Throws PROVE NothingForgotten'
  <2>1. Len(stack') = n - 1 /\ \A i \in 1..n - 1 : stack'[i] = stack[i]
    BY <1>1, <1>10, PopStack DEF Returns, Throws
  <2> QED
    BY <1>7, <2>1 DEF NothingForgotten
<1>t. stack # <<>> => Top \in Frame /\ Top = stack[n] /\ FitsAt(n) /\ n \in 1..n
  BY <1>1, TopIsFrame DEF StagesFit
(* An activation that changes within its stage. *)
<1>11. ASSUME NEW f \in Frame, stack # <<>>, stack' = SetTop(f), f.mod = Top.mod,
              phase' = phase,
              \A e \in Top.todo \cup Top.deferred :
                 \/ e \in f.todo \cup f.deferred
                 \/ \A p \in Phase : e \in program.edges /\ p = phase[Top.mod]
                                      => Ready(e, p)'
       PROVE  NothingForgotten'
  <2>1. /\ n \in 1..n /\ Top = stack[n]
        /\ Len(stack') = n /\ stack'[n] = f
        /\ \A i \in 1..n - 1 : stack'[i] = stack[i]
    BY <1>11, TopOnly
  <2>2. ASSUME NEW i, i = n PROVE CoveredAt(i)'
    BY <1>6, <1>11, <2>1, <2>2
  <2> QED
    BY <1>1, <1>7, <2>1, <2>2 DEF NothingForgotten
<1>12. ASSUME NEW e \in program.edges, AlreadyThere(e) PROVE NothingForgotten'
  <2> DEFINE f == [Top EXCEPT !.todo = @ \ {e}]
  <2>1. /\ stack # <<>> /\ f \in Frame /\ f.mod = Top.mod
        /\ f.todo = Top.todo \ {e} /\ f.deferred = Top.deferred
        /\ stack' = SetTop(f) /\ phase' = phase
    BY <1>12, <1>t DEF AlreadyThere, Reaches, Active, Frame
  <2>2. Ready(e, phase[Top.mod])
    BY <1>12 DEF AlreadyThere, FarEnough, Ready
  <2>3. e.dst \in Modules
    BY DEF TypeOK, WellFormed, Edge
  <2>4. \A p \in Phase : p = phase[Top.mod] => Ready(e, p)'
    BY <1>5, <2>2, <2>3
  <2> HIDE DEF f
  <2> QED
    BY <1>11, <2>1, <2>4
<1>13. ASSUME NEW e \in program.edges, Split(e) PROVE NothingForgotten'
  <2> DEFINE f == [Top EXCEPT !.todo = @ \ {e}, !.deferred = @ \cup {e}]
  <2>1. e \in Edge
    BY DEF TypeOK, WellFormed
  <2>2. /\ stack # <<>> /\ f \in Frame /\ f.mod = Top.mod
        /\ f.todo = Top.todo \ {e} /\ f.deferred = Top.deferred \cup {e}
        /\ stack' = SetTop(f) /\ phase' = phase
    BY <1>13, <1>t, <2>1 DEF Split, PutOff, Active, Frame
  <2> HIDE DEF f
  <2> QED
    BY <1>11, <2>2
<1>14. CASE FinishStage
  <2> DEFINE next == phase[Top.mod] + 1
             f == [Top EXCEPT !.todo = Requests(program, Top.mod, next)]
  <2>1. stack # <<>> /\ failed' = failed
    BY <1>14 DEF FinishStage, Active
  <2>2. CASE next = Top.target
    BY <1>10, <1>14, <2>1, <2>2 DEF FinishStage, Leave, Returns
  <2>3. CASE next # Top.target
    <3>1. /\ f \in Frame /\ f.mod = Top.mod
          /\ f.todo = Requests(program, Top.mod, next)
      BY <2>1, <1>t, RequestsAreEdges DEF Frame
    <3>2. stack' = SetTop(f) /\ phase' = [phase EXCEPT ![Top.mod] = next]
      BY <1>14, <2>3 DEF FinishStage, Promote
    <3>3. phase'[Top.mod] = next
      BY <1>t, <2>1, <3>2 DEF TypeOK, Frame
    <3> HIDE DEF f
    <3>4. /\ Len(stack') = n /\ stack'[n] = f
          /\ \A i \in 1..n - 1 : stack'[i] = stack[i]
      BY <2>1, <3>1, <3>2, TopOnly
    <3>5. ASSUME NEW i, i = n PROVE CoveredAt(i)'
      BY <1>2, <3>1, <3>3, <3>4, <3>5 DEF CoveredAt
    <3> QED
      BY <1>1, <1>7, <3>4, <3>5 DEF NothingForgotten
  <2> QED
    BY <2>2, <2>3
<1>15. CASE RunRoot
  <2> DEFINE f == [Top EXCEPT !.running = TRUE, !.todo = @ \cup Top.deferred,
                              !.deferred = {}]
  <2>1. /\ stack # <<>> /\ f \in Frame /\ f.mod = Top.mod
        /\ f.todo = Top.todo \cup Top.deferred
        /\ stack' = SetTop(f) /\ phase' = phase
    BY <1>15, <1>t DEF RunRoot, Active, Frame
  <2> HIDE DEF f
  <2> QED
    BY <1>11, <2>1
<1>16. CASE SwallowEager
  <2> DEFINE f == [Top EXCEPT !.todo = @ \ {error.via},
                              !.deferred = @ \cup {error.via}]
  <2>1. error.via \in Edge \cup {NoEdge} /\ error.via.place = "func"
    BY <1>16 DEF SwallowEager, CaughtByVisitor, TypeOK, Error
  <2>2. error.via \in Edge
    BY <2>1 DEF NoEdge
  <2>3. /\ stack # <<>> /\ f \in Frame /\ f.mod = Top.mod
        /\ f.todo = Top.todo \ {error.via}
        /\ f.deferred = Top.deferred \cup {error.via}
        /\ stack' = SetTop(f) /\ phase' = phase
    BY <1>16, <1>t, <2>2 DEF SwallowEager, CaughtByVisitor, PutOff, Frame
  <2> HIDE DEF f
  <2> QED
    BY <1>11, <2>3
<1>17. ASSUME NEW again \in BOOLEAN, HandleInPython(again) PROVE NothingForgotten'
  <2> DEFINE f == [Top EXCEPT !.todo = @ \ {error.via}]
  <2>1. /\ stack # <<>> /\ f \in Frame /\ f.mod = Top.mod
        /\ f.todo = Top.todo \ {error.via} /\ f.deferred = Top.deferred
        /\ phase' = phase /\ phase[Top.mod] = Analyzed
        /\ error.via \in caught'
    BY <1>17, <1>t DEF HandleInPython, Frame, FitsAt
  <2>2. stack' = stack \/ stack' = SetTop(f)
    BY <1>17 DEF HandleInPython
  <2>3. \A e : e = error.via => Ready(e, Analyzed)'
    BY <2>1 DEF Ready
  <2> HIDE DEF f
  <2>4. CASE stack' = stack
    BY <1>8, <2>1, <2>4
  <2>5. CASE stack' = SetTop(f)
    BY <1>11, <2>1, <2>3, <2>5
  <2> QED
    BY <2>2, <2>4, <2>5
<1>18. ASSUME (\E e \in program.edges : RefuseCycle(e)) \/ Exit \/ UNCHANGED vars
       PROVE  NothingForgotten'
  BY <1>8, <1>18 DEF RefuseCycle, Exit, vars
<1>19. CASE Fail \/ Unwind \/ FinishRoot
  BY <1>10, <1>19 DEF Fail, Unwind, FinishRoot, Leave, Active, Returns, Throws
<1>20. CASE Start
  BY <1>9, <1>20, StartPushes, ModulesAssumption DEF Pushes
<1>21. ASSUME NEW e \in program.edges, Enter(e) PROVE NothingForgotten'
  BY <1>9, <1>21, EnterPushes
<1> QED
  BY <1>12, <1>13, <1>14, <1>15, <1>16, <1>17, <1>18, <1>19, <1>20, <1>21
     DEF Next, Advance, Terminated
-------------------------------------------------------------------------------
(* Root scopes and global spaces are counted right by every step.          *)
LEMMA RunsStep ==
  ASSUME TypeOK, FreshAtStart, ScopesAreActivations, ActivationsHaveWork, StagesFit,
         RunsCounted, [Next]_vars
  PROVE  RunsCounted'
<1> DEFINE n == Len(stack)
<1>1. stack \in Seq(Frame) /\ n \in Nat
  BY DEF TypeOK
<1>2. \A i \in 1..n : /\ stack[i] \in Frame /\ stack[i].mod \in Modules
                      /\ stack[i].target \in Phase
                      /\ phase[stack[i].mod] < stack[i].target
                      /\ phase[stack[i].mod] \in Phase
                      /\ FitsAt(i)
  BY OthersDiffer DEF ActivationsHaveWork, StagesFit, TypeOK
<1>3. /\ \A i \in 1..n : rootRuns[stack[i].mod] = IF stack[i].running THEN 1 ELSE 0
      /\ \A m \in Modules \ (Builtins \cup OnStack \cup failed) :
            rootRuns[m] = IF phase[m] = Imported THEN 1 ELSE 0
      /\ \A m \in failed : /\ phase[m] < Imported
                           /\ rootRuns[m] <= IF phase[m] = Analyzed THEN 1 ELSE 0
      /\ \A m \in Modules \ Builtins :
            globals[m] = IF phase[m] >= Analyzed THEN 1 ELSE 0
      /\ \A m \in Builtins : phase[m] = Imported
  BY DEF RunsCounted
<1>4. failed \subseteq Modules /\ OnStack \cap failed = {} /\ Builtins \subseteq Modules
  BY ModulesAssumption DEF TypeOK, ScopesAreActivations
<1>5. stack # <<>> => /\ Top \in Frame /\ Top = stack[n] /\ n \in 1..n
                      /\ Top.mod \in OnStack /\ Top.mod \in Modules \ Builtins
  <2>1. ASSUME stack # <<>> PROVE Top \in Frame /\ Top = stack[n] /\ n \in 1..n
    BY <1>1, <2>1, TopIsFrame
  <2>2. ASSUME stack # <<>> PROVE Top.mod \in Modules \ Builtins
    BY <1>2, <1>3, <2>1, <2>2 DEF Phase, Initial, Imported
  <2> QED
    BY <2>1, <2>2 DEF OnStack
(* The stack keeps its modules, and nothing that is counted changes. *)
<1>6. ASSUME Stays, phase' = phase, globals' = globals, rootRuns' = rootRuns,
             \A i \in 1..n : stack'[i].running = stack[i].running
      PROVE  RunsCounted'
  <2>1. OnStack' = OnStack
    BY <1>6 DEF Stays, OnStack
  <2> QED
    BY <1>3, <1>6, <2>1 DEF Stays, RunsCounted
<1>7. ASSUME NEW f \in Frame, stack # <<>>, Stays, stack' = SetTop(f),
             f.running = Top.running,
             phase' = phase, globals' = globals, rootRuns' = rootRuns
      PROVE  RunsCounted'
  <2>1. \A i \in 1..n : stack'[i].running = stack[i].running
    BY <1>1, <1>7, TopOnly
  <2> QED
    BY <1>6, <1>7, <2>1
<1>8. ASSUME NEW m \in Modules, NEW t \in Phase, NEW e \in Edge \cup {NoEdge},
             Pushes(m, t, e)
      PROVE  RunsCounted'
  <2> DEFINE f == NewFrame(m, t, e)
  <2>1. f \in Frame /\ f.mod = m /\ f.running = FALSE
    BY NewFrameIsFrame DEF NewFrame
  <2> HIDE DEF f
  <2>2. /\ Len(stack') = n + 1
        /\ \A i \in 1..n : stack'[i] = stack[i]
        /\ stack'[n + 1] = f
    BY <1>1, <1>8, <2>1, PushStack DEF Pushes, f
  <2>3. /\ phase' = phase /\ globals' = globals /\ rootRuns' = rootRuns
        /\ failed' = failed /\ m \notin scopes /\ phase[m] < t
    BY <1>8 DEF Pushes
  <2>4. OnStack' = OnStack \cup {m}
    <3>1. OnStack' = {stack'[i].mod : i \in 1..n + 1}
      BY <2>2 DEF OnStack
    <3>2. 1..n + 1 = (1..n) \cup {n + 1}
      BY <1>1
    <3> QED
      BY <2>1, <2>2, <3>1, <3>2 DEF OnStack
  <2>5. rootRuns[m] = 0
    <3>1. m \notin OnStack /\ m \notin failed
      BY <2>3 DEF ScopesAreActivations
    <3>2. phase[m] # Imported
      BY <2>3 DEF Phase, Initial, Imported
    <3> QED
      BY <1>3, <3>1, <3>2
  <2>6. \A i \in 1..n + 1 :
           rootRuns[stack'[i].mod] = IF stack'[i].running THEN 1 ELSE 0
    BY <1>1, <1>3, <2>1, <2>2, <2>5
  <2> QED
    BY <1>3, <2>2, <2>3, <2>4, <2>6 DEF RunsCounted
(* The stack loses its top. *)
<1>9. ASSUME Returns \/ Throws
      PROVE  /\ stack # <<>> /\ Len(stack') = n - 1
             /\ \A i \in 1..n - 1 : stack'[i] = stack[i] /\ stack[i].mod # Top.mod
             /\ OnStack' = OnStack \ {Top.mod}
  <2>1. stack # <<>> /\ stack' = Pop
    BY <1>9 DEF Returns, Throws
  <2>2. Len(stack') = n - 1 /\ \A i \in 1..n - 1 : stack'[i] = stack[i]
    BY <1>1, <2>1, PopStack
  <2>3. \A i \in 1..n - 1 : stack[i].mod # Top.mod
    BY <1>1, OthersDiffer
  <2>4. OnStack' = {stack'[i].mod : i \in 1..n - 1}
    BY <2>2 DEF OnStack
  <2>5. 1..n = (1..n - 1) \cup {n}
    BY <1>1, <1>5, <2>1
  <2> QED
    BY <1>5, <2>1, <2>2, <2>3, <2>4, <2>5 DEF OnStack
<1>10. ASSUME Throws PROVE RunsCounted'
  <2>1. /\ phase' = phase /\ globals' = globals /\ rootRuns' = rootRuns
        /\ failed' = failed \cup {Top.mod}
    BY <1>10 DEF Throws
  <2>2. /\ phase[Top.mod] < Imported
        /\ rootRuns[Top.mod] <= IF phase[Top.mod] = Analyzed THEN 1 ELSE 0
    BY <1>2, <1>3, <1>5, <1>9, <1>10 DEF FitsAt, Phase, Initial, Imported
  <2>3. \A i \in 1..n - 1 :
           rootRuns[stack'[i].mod] = IF stack'[i].running THEN 1 ELSE 0
    BY <1>1, <1>3, <1>9, <1>10
  <2>4. \A m \in Modules \ (Builtins \cup OnStack' \cup failed') :
           rootRuns[m] = IF phase[m] = Imported THEN 1 ELSE 0
    BY <1>3, <1>9, <1>10, <2>1
  <2> QED
    BY <1>3, <1>9, <1>10, <2>1, <2>2, <2>3, <2>4 DEF RunsCounted
<1>11. CASE FinishStage
  <2> DEFINE m == Top.mod
             next == phase[m] + 1
             f == [Top EXCEPT !.todo = Requests(program, m, next)]
  <2>1. /\ stack # <<>> /\ phase[m] < Analyzed
        /\ phase' = [phase EXCEPT ![m] = next]
        /\ globals' = IF next = Analyzed THEN [globals EXCEPT ![m] = @ + 1] ELSE globals
        /\ rootRuns' = rootRuns /\ failed' = failed
    BY <1>11 DEF FinishStage, Promote, Active
  <2>2. /\ m \in Modules \ Builtins /\ m \in OnStack /\ phase[m] \in Phase
        /\ phase[m] # Analyzed /\ next # Imported
    BY <1>2, <1>5, <2>1 DEF Phase, Initial, Analyzed, Imported
  <2>3. ~Top.running /\ rootRuns[m] = 0
    BY <1>2, <1>3, <1>5, <2>1, <2>2 DEF FitsAt
  <2>4. /\ phase'[m] = next
        /\ \A k \in Modules \ {m} : phase'[k] = phase[k] /\ globals'[k] = globals[k]
        /\ globals'[m] = IF next >= Analyzed THEN 1 ELSE 0
    <3>1. phase \in [Modules -> Phase] /\ globals \in [Modules -> Nat]
      BY DEF TypeOK
    <3>2. globals[m] = 0
      BY <1>3, <2>1, <2>2 DEF Phase, Initial, Imported, Analyzed
    <3>3. next >= Analyzed <=> next = Analyzed
      BY <2>1, <2>2 DEF Phase, Initial, Imported, Analyzed
    <3> QED
      BY <2>1, <2>2, <3>1, <3>2, <3>3
  <2>5. \A k \in Modules \ Builtins :
           globals'[k] = IF phase'[k] >= Analyzed THEN 1 ELSE 0
    BY <1>3, <2>4
  <2>6. \A k \in Builtins : phase'[k] = Imported
    BY <1>3, <1>4, <2>2, <2>4
  <2>7. \A k \in failed : /\ phase'[k] < Imported
                         /\ rootRuns[k] <= IF phase'[k] = Analyzed THEN 1 ELSE 0
    BY <1>3, <1>4, <2>2, <2>4
  <2>8. CASE next = Top.target
    <3>1. Returns
      BY <1>11, <2>1, <2>8 DEF FinishStage, Leave, Returns
    <3>2. \A i \in 1..n - 1 :
             rootRuns[stack'[i].mod] = IF stack'[i].running THEN 1 ELSE 0
      BY <1>1, <1>3, <1>9, <3>1
    <3>3. \A k \in Modules \ (Builtins \cup OnStack' \cup failed) :
             rootRuns[k] = IF phase'[k] = Imported THEN 1 ELSE 0
      BY <1>3, <1>9, <2>2, <2>3, <2>4, <3>1
    <3> QED
      BY <1>9, <2>1, <2>5, <2>6, <2>7, <3>1, <3>2, <3>3 DEF RunsCounted
  <2>9. CASE next # Top.target
    <3>1. /\ f \in Frame
          /\ f.mod = m /\ f.target = Top.target /\ f.via = Top.via
          /\ f.running = Top.running
      BY <2>1, <1>5, RequestsAreEdges DEF Frame
    <3>2. stack' = SetTop(f) /\ scopes' = scopes
      BY <1>11, <2>9 DEF FinishStage
    <3> HIDE DEF f
    <3>3. Stays
      BY <2>1, <3>1, <3>2, SetTopStays
    <3>4. \A i \in 1..n : stack'[i].running = stack[i].running
      BY <1>1, <2>1, <3>1, <3>2, TopOnly
    <3>5. OnStack' = OnStack
      BY <3>3 DEF Stays, OnStack
    <3>6. \A i \in 1..n : rootRuns[stack'[i].mod] = IF stack'[i].running THEN 1 ELSE 0
      BY <1>3, <3>3, <3>4 DEF Stays
    <3>7. \A k \in Modules \ (Builtins \cup OnStack' \cup failed) :
             rootRuns[k] = IF phase'[k] = Imported THEN 1 ELSE 0
      BY <1>3, <2>2, <2>4, <3>5
    <3> QED
      BY <2>1, <2>5, <2>6, <2>7, <3>3, <3>6, <3>7 DEF Stays, RunsCounted
  <2> QED
    BY <2>8, <2>9
<1>12. CASE RunRoot
  <2> DEFINE m == Top.mod
             f == [Top EXCEPT !.running = TRUE, !.todo = @ \cup Top.deferred,
                              !.deferred = {}]
  <2>1. /\ stack # <<>> /\ f \in Frame /\ f.running = TRUE
        /\ f.mod = m /\ f.target = Top.target /\ f.via = Top.via
        /\ ~Top.running /\ phase[m] = Analyzed
    BY <1>12, <1>5 DEF RunRoot, Active, Frame
  <2>2. /\ stack' = SetTop(f) /\ scopes' = scopes /\ failed' = failed
        /\ phase' = phase /\ globals' = globals
        /\ rootRuns' = [rootRuns EXCEPT ![m] = @ + 1]
    BY <1>12 DEF RunRoot
  <2> HIDE DEF f
  <2>3. Stays
    BY <2>1, <2>2, SetTopStays
  <2>4. /\ rootRuns'[m] = 1
        /\ \A k \in Modules \ {m} : rootRuns'[k] = rootRuns[k]
    <3>1. rootRuns[m] = 0 /\ m \in Modules
      BY <1>3, <1>5, <2>1
    <3>2. rootRuns \in [Modules -> Nat]
      BY DEF TypeOK
    <3> QED
      BY <2>2, <3>1, <3>2
  <2>5. /\ stack'[n] = f
        /\ \A i \in 1..n - 1 : stack'[i] = stack[i] /\ stack[i].mod # m
    <3>1. stack'[n] = f /\ \A i \in 1..n - 1 : stack'[i] = stack[i]
      BY <2>1, <2>2, TopOnly
    <3>2. \A i \in 1..n - 1 : stack[i].mod # m
      BY <1>1, OthersDiffer
    <3> QED
      BY <3>1, <3>2
  <2>6. OnStack' = OnStack /\ Len(stack') = n
    BY <2>3 DEF Stays, OnStack
  <2>7. \A i \in 1..n : rootRuns'[stack'[i].mod] = IF stack'[i].running THEN 1 ELSE 0
    BY <1>1, <1>2, <1>3, <2>1, <2>4, <2>5
  <2>8. m \in OnStack /\ m \notin failed
    BY <1>4, <1>5, <2>1
  <2> QED
    BY <1>3, <1>4, <2>2, <2>4, <2>6, <2>7, <2>8 DEF RunsCounted
<1>13. CASE FinishRoot
  <2> DEFINE m == Top.mod
  <2>1. /\ stack # <<>> /\ Top.running
        /\ phase' = [phase EXCEPT ![m] = Imported]
        /\ globals' = globals /\ rootRuns' = rootRuns /\ failed' = failed
    BY <1>13 DEF FinishRoot, Active
  <2>2. Returns
    BY <1>13, <2>1 DEF FinishRoot, Leave, Returns
  <2>3. m \in Modules \ Builtins /\ m \in OnStack /\ phase[m] = Analyzed /\ rootRuns[m] = 1
    BY <1>2, <1>3, <1>5, <2>1 DEF FitsAt
  <2>4. phase'[m] = Imported /\ \A k \in Modules \ {m} : phase'[k] = phase[k]
    BY <2>1, <2>3 DEF TypeOK
  <2>5. \A k \in Modules \ Builtins :
           globals[k] = IF phase'[k] >= Analyzed THEN 1 ELSE 0
    BY <1>3, <2>3, <2>4 DEF Analyzed, Imported
  <2>6. \A i \in 1..n - 1 :
           rootRuns[stack'[i].mod] = IF stack'[i].running THEN 1 ELSE 0
    BY <1>1, <1>3, <1>9, <2>2
  <2>7. \A k \in Modules \ (Builtins \cup OnStack' \cup failed) :
           rootRuns[k] = IF phase'[k] = Imported THEN 1 ELSE 0
    BY <1>3, <1>9, <2>2, <2>3, <2>4
  <2>8. \A k \in failed : /\ phase'[k] < Imported
                         /\ rootRuns[k] <= IF phase'[k] = Analyzed THEN 1 ELSE 0
    BY <1>3, <1>4, <2>3, <2>4
  <2>9. \A k \in Builtins : phase'[k] = Imported
    BY <1>3, <1>4, <2>3, <2>4
  <2> QED
    BY <1>9, <2>1, <2>2, <2>5, <2>6, <2>7, <2>8, <2>9 DEF RunsCounted
<1>14. ASSUME NEW e \in program.edges, AlreadyThere(e) PROVE RunsCounted'
  <2> DEFINE f == [Top EXCEPT !.todo = @ \ {e}]
  <2>1. /\ stack # <<>> /\ f \in Frame /\ f.running = Top.running
        /\ f.mod = Top.mod /\ f.target = Top.target /\ f.via = Top.via
    BY <1>14, <1>5 DEF AlreadyThere, Reaches, Active, Frame
  <2>2. /\ stack' = SetTop(f) /\ scopes' = scopes /\ failed' = failed
        /\ phase' = phase /\ globals' = globals /\ rootRuns' = rootRuns
    BY <1>14 DEF AlreadyThere
  <2> HIDE DEF f
  <2> QED
    BY <1>7, <2>1, <2>2, SetTopStays
<1>15. ASSUME NEW e \in program.edges, Split(e) PROVE RunsCounted'
  <2> DEFINE f == [Top EXCEPT !.todo = @ \ {e}, !.deferred = @ \cup {e}]
  <2>1. e \in Edge
    BY DEF TypeOK, WellFormed
  <2>2. /\ stack # <<>> /\ f \in Frame /\ f.running = Top.running
        /\ f.mod = Top.mod /\ f.target = Top.target /\ f.via = Top.via
    BY <1>15, <1>5, <2>1 DEF Split, Active, Frame
  <2>3. /\ stack' = SetTop(f) /\ scopes' = scopes /\ failed' = failed
        /\ phase' = phase /\ globals' = globals /\ rootRuns' = rootRuns
    BY <1>15 DEF Split, PutOff
  <2> HIDE DEF f
  <2> QED
    BY <1>7, <2>2, <2>3, SetTopStays
<1>16. CASE SwallowEager
  <2> DEFINE f == [Top EXCEPT !.todo = @ \ {error.via},
                              !.deferred = @ \cup {error.via}]
  <2>1. error.via \in Edge \cup {NoEdge} /\ error.via.place = "func"
    BY <1>16 DEF SwallowEager, CaughtByVisitor, TypeOK, Error
  <2>2. error.via \in Edge
    BY <2>1 DEF NoEdge
  <2>3. /\ stack # <<>> /\ f \in Frame /\ f.running = Top.running
        /\ f.mod = Top.mod /\ f.target = Top.target /\ f.via = Top.via
    BY <1>16, <1>5, <2>2 DEF SwallowEager, Frame
  <2>4. /\ stack' = SetTop(f) /\ scopes' = scopes /\ failed' = failed
        /\ phase' = phase /\ globals' = globals /\ rootRuns' = rootRuns
    BY <1>16 DEF SwallowEager, PutOff
  <2> HIDE DEF f
  <2> QED
    BY <1>7, <2>3, <2>4, SetTopStays
<1>17. ASSUME NEW again \in BOOLEAN, HandleInPython(again) PROVE RunsCounted'
  <2> DEFINE f == [Top EXCEPT !.todo = @ \ {error.via}]
  <2>1. /\ stack # <<>> /\ f \in Frame /\ f.running = Top.running
        /\ f.mod = Top.mod /\ f.target = Top.target /\ f.via = Top.via
    BY <1>17, <1>5 DEF HandleInPython, Frame
  <2>2. /\ stack' = stack \/ stack' = SetTop(f)
        /\ scopes' = scopes /\ failed' = failed
        /\ phase' = phase /\ globals' = globals /\ rootRuns' = rootRuns
    BY <1>17 DEF HandleInPython
  <2> HIDE DEF f
  <2>3. CASE stack' = stack
    BY <1>6, <2>2, <2>3 DEF Stays
  <2>4. CASE stack' = SetTop(f)
    BY <1>7, <2>1, <2>2, <2>4, SetTopStays
  <2> QED
    BY <2>2, <2>3, <2>4
<1>18. ASSUME (\E e \in program.edges : RefuseCycle(e)) \/ Exit \/ UNCHANGED vars
       PROVE  RunsCounted'
  BY <1>6, <1>18 DEF RefuseCycle, Exit, vars, Stays
<1>19. CASE Fail \/ Unwind
  BY <1>10, <1>19 DEF Fail, Unwind, Active, Throws
<1>20. CASE Start
  BY <1>8, <1>20, StartPushes, ModulesAssumption DEF Pushes
<1>21. ASSUME NEW e \in program.edges, Enter(e) PROVE RunsCounted'
  BY <1>8, <1>21, EnterPushes
<1> QED
  BY <1>11, <1>12, <1>13, <1>14, <1>15, <1>16, <1>17, <1>18, <1>19, <1>20, <1>21
     DEF Next, Advance, Terminated
-------------------------------------------------------------------------------
(* The invariant of the loader holds before the first step.                *)
LEMMA InvInit == Init => ImportInv
<1> SUFFICES ASSUME Init PROVE ImportInv
  OBVIOUS
<1>1. TypeOK
  BY TypeCorrectInit
<1>2. /\ stack = <<>> /\ error = NoError /\ caught = {} /\ failed = {} /\ scopes = {}
      /\ phase = FirstPhase
      /\ globals = [m \in Modules |-> 0] /\ rootRuns = [m \in Modules |-> 0]
  BY DEF Init
<1>3. FreshAtStart /\ ScopesAreActivations /\ ActivationsHaveWork
  BY <1>2 DEF FreshAtStart, ScopesAreActivations, OnStack, ActivationsHaveWork
<1>4. ReferencesAreReal /\ StagesFit /\ NothingForgotten
  BY <1>2 DEF ReferencesAreReal, StagesFit, NothingForgotten
<1>5. RunsCounted
  <2>1. 1..Len(stack) = {} /\ OnStack = {}
    BY <1>2 DEF OnStack
  <2>2. \A m \in Modules : phase[m] = IF m \in Builtins THEN Imported ELSE Initial
    BY <1>2 DEF FirstPhase
  <2>3. \A m \in Modules \ Builtins :
          /\ rootRuns[m] = IF phase[m] = Imported THEN 1 ELSE 0
          /\ globals[m] = IF phase[m] >= Analyzed THEN 1 ELSE 0
    <3> SUFFICES ASSUME NEW m \in Modules \ Builtins
                 PROVE  /\ rootRuns[m] = IF phase[m] = Imported THEN 1 ELSE 0
                        /\ globals[m] = IF phase[m] >= Analyzed THEN 1 ELSE 0
      OBVIOUS
    <3>1. rootRuns[m] = 0 /\ globals[m] = 0
      BY <1>2
    <3>2. phase[m] = Initial
      BY <2>2
    <3> QED
      BY <3>1, <3>2 DEF Initial, Analyzed, Imported
  <2>4. \A m \in Builtins : phase[m] = Imported
    BY <2>2, ModulesAssumption
  <2> QED
    BY <1>2, <2>1, <2>3, <2>4 DEF RunsCounted
<1> QED
  BY <1>1, <1>3, <1>4, <1>5 DEF ImportInv

(* Every step of the loader keeps it.                                      *)
LEMMA InvStep == ImportInv /\ [Next]_vars => ImportInv'
  BY TypeCorrectStep, FreshStep, ScopesStep, WorkStep, ReferencesStep, FitsStep,
     CoveredStep, RunsStep DEF ImportInv

(* Phases, stack and counters always agree.                                *)
LEMMA ImportInvHolds == Spec => []ImportInv
  BY InvInit, InvStep, PTL DEF Spec

(* Every activation of advance_module_phase still has a phase to reach,    *)
(* whatever the activations nested in it did.                              *)
THEOREM WorkCorrect == Spec => []ActivationsHaveWork
<1>1. ImportInv => ActivationsHaveWork
  BY DEF ImportInv
<1> QED
  BY <1>1, ImportInvHolds, PTL

(* The global space of a module is initialized exactly once, and its root  *)
(* scope is entered at most once, and never without a global space.        *)
THEOREM RootScopeCorrect == Spec => []RootScopeOnce
<1>1. ImportInv => RootScopeOnce
  <2> SUFFICES ASSUME ImportInv, NEW m \in Modules \ Builtins
               PROVE  /\ globals[m] = IF phase[m] >= Analyzed THEN 1 ELSE 0
                      /\ rootRuns[m] <= globals[m]
                      /\ phase[m] = Imported => rootRuns[m] = 1
    BY DEF RootScopeOnce
  <2>1. /\ TypeOK /\ ScopesAreActivations /\ ActivationsHaveWork /\ StagesFit
        /\ RunsCounted
    BY DEF ImportInv
  <2>2. globals[m] = IF phase[m] >= Analyzed THEN 1 ELSE 0
    BY <2>1 DEF RunsCounted
  <2>3. phase[m] \in Phase
    BY <2>1 DEF TypeOK
  <2>4. ASSUME NEW i \in 1..Len(stack), stack[i].mod = m
        PROVE  /\ rootRuns[m] = IF stack[i].running THEN 1 ELSE 0
               /\ stack[i].running => phase[m] = Analyzed
               /\ phase[m] < Imported
    <3>1. stack[i].target \in Phase /\ phase[m] < stack[i].target
      BY <2>1, <2>4, OthersDiffer DEF ActivationsHaveWork
    <3>2. phase[m] < Imported
      BY <2>3, <3>1 DEF Phase, Initial, Imported
    <3> QED
      BY <2>1, <2>4, <3>2 DEF RunsCounted, StagesFit, FitsAt
  <2>5. CASE m \in OnStack
    BY <2>2, <2>3, <2>4, <2>5 DEF OnStack, Phase, Initial, Analyzed, Imported
  <2>6. CASE m \in failed
    BY <2>1, <2>2, <2>3, <2>6
       DEF RunsCounted, Phase, Initial, Analyzed, Imported
  <2>7. CASE m \notin OnStack \cup failed
    BY <2>1, <2>2, <2>3, <2>7
       DEF RunsCounted, Phase, Initial, Analyzed, Imported
  <2> QED
    BY <2>5, <2>6, <2>7
<1> QED
  BY <1>1, ImportInvHolds, PTL
-------------------------------------------------------------------------------
(* The words of the abstract specification mean the same here.             *)
LEMMA SameWords ==
  /\ \A e, p : Order!Ready(e, p) <=> Ready(e, p)
  /\ \A p, m, h : Order!Requests(p, m, h) = Requests(p, m, h)
  /\ \A p : Order!WellFormed(p) <=> WellFormed(p)
  /\ Order!FirstPhase = FirstPhase
  /\ Order!Imported = Imported
  BY DEF Order!Ready, Ready, Order!Needed, Needed, Order!Requests, Requests,
       Order!WellFormed, WellFormed, Order!FirstPhase, FirstPhase,
       Order!Parsed, Parsed, Order!Annotated, Annotated, Order!Analyzed, Analyzed,
       Order!Imported, Imported, Order!Initial, Initial, Order!Edge, Edge,
       Order!Kinds, Kinds, Order!Places, Places, Order!Defects, Defects

(* A step of the loader is a step of the abstract specification: the end   *)
(* of a stage is a climb, a failure that is handled is an excuse.          *)
LEMMA OrderStep ==
  ASSUME ImportInv, [Next]_vars
  PROVE  [Order!Next]_<<program, phase, caught>>
<1> DEFINE n == Len(stack)
<1>1. /\ TypeOK /\ FreshAtStart /\ ScopesAreActivations /\ StagesFit
      /\ ReferencesAreReal /\ NothingForgotten
  BY DEF ImportInv
<1>2. stack # <<>> => /\ Top \in Frame /\ Top = stack[n] /\ n \in 1..n
                      /\ Top.mod \in Modules /\ FitsAt(n) /\ CoveredAt(n)
  BY <1>1, TopIsFrame, OthersDiffer DEF TypeOK, StagesFit, NothingForgotten
<1>3. CASE FinishStage \/ FinishRoot
  <2>1. /\ program' = program
        /\ stack # <<>>
        /\ Top.todo = {}
        /\ caught' = caught
    BY <1>3 DEF FinishStage, FinishRoot, Active
  <2>2. Top.deferred = {}
    BY <1>2, <1>3, <2>1 DEF FinishStage, FinishRoot, FitsAt, Analyzed
  <2>3. \A e \in Requests(program, Top.mod, phase[Top.mod]) : Ready(e, phase[Top.mod])
    BY <1>2, <2>1, <2>2 DEF CoveredAt
  <2>4. CASE phase' = phase
    BY <2>1, <2>4
  <2>5. CASE /\ phase[Top.mod] \in Phase \ {Imported}
             /\ phase' = [phase EXCEPT ![Top.mod] = phase[Top.mod] + 1]
    <3>1. phase[Top.mod] < Imported
      BY <2>5 DEF Phase, Initial, Imported
    <3>2. Order!Climb(Top.mod)
      BY <2>1, <2>3, <2>5, <3>1, SameWords DEF Order!Climb
    <3> QED
      BY <1>2, <2>1, <3>2 DEF Order!Next
  <2> QED
    BY <1>1, <1>3, <2>4, <2>5, PhaseStep
<1>4. CASE SwallowEager \/ \E again \in BOOLEAN : HandleInPython(again)
  <2>1. /\ error.via \in program.edges
        /\ caught' = caught \cup {error.via}
        /\ program' = program /\ phase' = phase
    BY <1>1, <1>4 DEF SwallowEager, HandleInPython, ReferencesAreReal
  <2>2. Order!Excuse(error.via)
    BY <2>1 DEF Order!Excuse
  <2> QED
    BY <2>1, <2>2 DEF Order!Next
<1>5. CASE \/ Start \/ RunRoot \/ Fail \/ Unwind \/ Exit \/ UNCHANGED vars
           \/ \E e \in program.edges :
                 AlreadyThere(e) \/ Enter(e) \/ RefuseCycle(e) \/ Split(e)
  BY <1>5 DEF Start, RunRoot, Fail, Unwind, Exit, vars, AlreadyThere, Enter,
       RefuseCycle, Split
<1> QED
  BY <1>3, <1>4, <1>5 DEF Next, Advance, Terminated

(* The loader implements the abstract import order.                        *)
THEOREM LoaderImplementsOrder == Spec => RefinesImportOrder
<1>1. Init => Order!Init
  BY SameWords, TypeCorrectInit DEF Init, TypeOK, Order!Init
<1>2. ImportInv /\ [Next]_vars => [Order!Next]_<<program, phase, caught>>
  BY OrderStep
<1> QED
  BY <1>1, <1>2, ImportInvHolds, PTL DEF Spec, RefinesImportOrder, Order!Spec

(* The theorems about the abstract import order, read as theorems about    *)
(* the loader.                                                             *)
OrderTheory == INSTANCE ImportOrderProofs WITH excused <- caught

(* Both instances are the same specification.                              *)
LEMMA SameOrder ==
  /\ Order!Init <=> OrderTheory!Init
  /\ [Order!Next]_<<program, phase, caught>> <=>
        [OrderTheory!Next]_<<program, phase, caught>>
  /\ Order!ImportsReady <=> OrderTheory!ImportsReady
<1>1. Order!Init <=> OrderTheory!Init
  BY DEF Order!Init, OrderTheory!Init, Order!WellFormed, OrderTheory!WellFormed,
       Order!FirstPhase, OrderTheory!FirstPhase, Order!Edge, OrderTheory!Edge,
       Order!Kinds, OrderTheory!Kinds, Order!Places, OrderTheory!Places,
       Order!Defects, OrderTheory!Defects, Order!Initial, OrderTheory!Initial,
       Order!Imported, OrderTheory!Imported
<1>2. \A m : Order!Climb(m) <=> OrderTheory!Climb(m)
  BY DEF Order!Climb, OrderTheory!Climb, Order!Ready, OrderTheory!Ready,
       Order!Requests, OrderTheory!Requests, Order!Needed, OrderTheory!Needed,
       Order!Parsed, OrderTheory!Parsed, Order!Annotated, OrderTheory!Annotated,
       Order!Analyzed, OrderTheory!Analyzed, Order!Imported, OrderTheory!Imported
<1>3. \A e : Order!Excuse(e) <=> OrderTheory!Excuse(e)
  BY DEF Order!Excuse, OrderTheory!Excuse
<1>4. Order!Next <=> OrderTheory!Next
  BY <1>2, <1>3 DEF Order!Next, OrderTheory!Next
<1>5. Order!ImportsReady <=> OrderTheory!ImportsReady
  BY DEF Order!ImportsReady, OrderTheory!ImportsReady, Order!Imported,
       OrderTheory!Imported, Order!Annotated, OrderTheory!Annotated,
       Order!Analyzed, OrderTheory!Analyzed
<1> QED
  BY <1>1, <1>4, <1>5

(* A module is never further than the modules it refers to allow: the      *)
(* loader inherits it from the abstract import order that it implements.   *)
THEOREM LoaderImportsReady == Spec => []ImportsReady
<1>1. /\ Main \in Modules
      /\ Builtins \subseteq Modules \ {Main}
      /\ \A p \in Programs : OrderTheory!WellFormed(p)
  BY ModulesAssumption
     DEF OrderTheory!WellFormed, WellFormed, OrderTheory!Edge, Edge,
         OrderTheory!Kinds, Kinds, OrderTheory!Places, Places,
         OrderTheory!Defects, Defects
<1>2. OrderTheory!Spec => []OrderTheory!ImportsReady
  BY <1>1, OrderTheory!OrderImportsReady
<1> QED
  BY <1>2, LoaderImplementsOrder, SameOrder, PTL
     DEF RefinesImportOrder, Order!Spec, OrderTheory!Spec, ImportsReady
-------------------------------------------------------------------------------
(* What a reachable module refers to is reachable.                         *)
LEMMA ReachStep ==
  ASSUME TypeOK, NEW m, NEW e \in program.edges, e.src \in Reachable(m) \cup {m}
  PROVE  e.dst \in Reachable(m)
<1>1. e.dst \in Modules
  BY DEF TypeOK, WellFormed, Edge
<1>2. ASSUME NEW S \in SUBSET Modules,
             \A r \in program.edges : r.src \in S \cup {m} => r.dst \in S
      PROVE  e.dst \in S
  <2>1. e.src \in S \cup {m}
    BY <1>2 DEF Reachable
  <2> QED
    BY <1>2, <2>1
<1> QED
  BY <1>1, <1>2 DEF Reachable

(* Paths can be joined.                                                    *)
LEMMA ReachPath ==
  ASSUME NEW m, NEW x \in Reachable(m), NEW y \in Reachable(x)
  PROVE  y \in Reachable(m)
<1>1. y \in Modules
  BY DEF Reachable
<1>2. ASSUME NEW S \in SUBSET Modules,
             \A r \in program.edges : r.src \in S \cup {m} => r.dst \in S
      PROVE  y \in S
  <2>1. x \in S
    BY <1>2 DEF Reachable
  <2>2. \A r \in program.edges : r.src \in S \cup {x} => r.dst \in S
    BY <1>2, <2>1
  <2> QED
    BY <2>2 DEF Reachable
<1> QED
  BY <1>1, <1>2 DEF Reachable

(* The program does not change, and nor does what it reaches.              *)
LEMMA SamePaths ==
  ASSUME program' = program
  PROVE  /\ \A m : Reachable(m)' = Reachable(m)
         /\ \A m : OnCycle(m)' <=> OnCycle(m)
         /\ Cause' <=> Cause
<1>1. \A m : Reachable(m)' = Reachable(m)
  BY DEF Reachable
<1>2. \A m : OnCycle(m)' <=> OnCycle(m)
  BY <1>1 DEF OnCycle
<1> QED
  BY <1>1, <1>2 DEF Cause

(* A reference of the innermost module leads on from every activation, and *)
(* round in a circle when it leads to one of them.                         *)
LEMMA PathGoesOn ==
  ASSUME TypeOK, PathOfReferences, stack # <<>>, NEW e \in program.edges, e.src = Top.mod
  PROVE  \A i \in 1..Len(stack) : e.dst \in Reachable(stack[i].mod)
<1>1. stack \in Seq(Frame) /\ Len(stack) \in Nat \ {0} /\ Top = stack[Len(stack)]
  BY TopIsFrame DEF TypeOK
<1>2. SUFFICES ASSUME NEW i \in 1..Len(stack) PROVE e.dst \in Reachable(stack[i].mod)
  OBVIOUS
<1>3. e.src \in Reachable(stack[i].mod) \cup {stack[i].mod}
  <2>1. CASE i = Len(stack)
    BY <1>1, <2>1
  <2>2. CASE i < Len(stack)
    BY <1>1, <2>2 DEF PathOfReferences
  <2> QED
    BY <1>1, <2>1, <2>2
<1> QED
  BY <1>3, ReachStep

(* All activations are of modules that __main__ needs.                     *)
LEMMA ActiveIsNeeded ==
  ASSUME TypeOK, PathOfReferences, NEW i \in 1..Len(stack)
  PROVE  stack[i].mod \in Reachable(Main) \cup {Main}
<1>1. stack \in Seq(Frame) /\ Len(stack) \in Nat /\ stack # <<>>
  BY DEF TypeOK
<1>2. stack[1].mod = Main
  BY <1>1 DEF PathOfReferences
<1>3. CASE i = 1
  BY <1>2, <1>3
<1>4. CASE 1 < i
  BY <1>1, <1>2, <1>4 DEF PathOfReferences
<1> QED
  BY <1>1, <1>3, <1>4

(* A path of the same program's references.                                *)
LEMMA PathThen ==
  ASSUME program' = program,
         stack' # <<>> => stack'[1].mod = Main,
         \A i, j \in 1..Len(stack') : i < j => stack'[j].mod \in Reachable(stack'[i].mod),
         \A i \in 2..Len(stack') : stack'[i].via.src = stack'[i - 1].mod
  PROVE  PathOfReferences'
  BY DEF PathOfReferences, Reachable

(* The stack stays a path.                                                 *)
LEMMA PathStep ==
  ASSUME ImportInv, PathOfReferences, PendingFits, [Next]_vars
  PROVE  PathOfReferences'
<1> DEFINE n == Len(stack)
<1>1. TypeOK /\ FreshAtStart /\ StagesFit /\ stack \in Seq(Frame) /\ n \in Nat
  BY DEF ImportInv, TypeOK
<1>2. program' = program
  BY <1>1, PhaseStep
<1>3. /\ stack # <<>> => stack[1].mod = Main
      /\ \A i, j \in 1..n : i < j => stack[j].mod \in Reachable(stack[i].mod)
      /\ \A i \in 2..n : stack[i].via.src = stack[i - 1].mod
  BY DEF PathOfReferences
<1>4. CASE Stays
  <2>1. /\ Len(stack') = n
        /\ \A i \in 1..n : stack'[i].mod = stack[i].mod /\ stack'[i].via = stack[i].via
    BY <1>4 DEF Stays
  <2>2. stack' # <<>> => stack'[1].mod = Main
    BY <1>1, <1>3, <2>1
  <2>3. \A i, j \in 1..n : i < j => stack'[j].mod \in Reachable(stack'[i].mod)
    BY <1>3, <2>1
  <2>4. \A i \in 2..n : stack'[i].via.src = stack'[i - 1].mod
    BY <1>1, <1>3, <2>1
  <2> QED
    BY <2>1, <2>2, <2>3, <2>4, <1>2, PathThen
<1>5. ASSUME NEW m \in Modules, NEW t \in Phase, NEW e \in Edge \cup {NoEdge},
             Pushes(m, t, e)
      PROVE  PathOfReferences'
  <2>1. PICK f : f = NewFrame(m, t, e)
    OBVIOUS
  <2>2. f \in Frame /\ f.mod = m /\ f.via = e
    BY <1>1, <2>1, NewFrameIsFrame DEF NewFrame
  <2>3. /\ Len(stack') = n + 1
        /\ \A i \in 1..n : stack'[i] = stack[i]
        /\ stack'[n + 1] = f
    BY <1>1, <1>5, <2>1, <2>2, PushStack DEF Pushes
  <2>4. ASSUME n > 0
        PROVE  /\ Top = stack[n] /\ e.src = Top.mod
               /\ \A i \in 1..n : m \in Reachable(stack[i].mod)
    <3>1. stack # <<>> /\ Top = stack[n] /\ n \in 1..n
      BY <1>1, <2>4, TopIsFrame
    <3>2. e \in program.edges /\ e \in stack[n].todo /\ m = e.dst
      BY <1>5, <3>1 DEF Pushes
    <3>3. e.src = Top.mod
      BY <3>1, <3>2 DEF PendingFits, OwnReferences
    <3> QED
      BY <1>1, <3>1, <3>2, <3>3, PathGoesOn
  <2>5. stack'[1].mod = Main
    <3>1. CASE n = 0
      <4>1. stack = <<>>
        BY <1>1, <3>1
      <4> QED
        BY <1>5, <2>2, <2>3, <3>1, <4>1 DEF Pushes
    <3>2. CASE n > 0
      BY <1>1, <1>3, <2>3, <3>2
    <3> QED
      BY <1>1, <3>1, <3>2
  <2>6. ASSUME NEW i \in 1..n + 1, NEW j \in 1..n + 1, i < j
        PROVE  stack'[j].mod \in Reachable(stack'[i].mod)
    <3>1. i \in 1..n /\ stack'[i] = stack[i]
      BY <1>1, <2>3, <2>6
    <3>2. CASE j = n + 1
      BY <1>1, <2>2, <2>3, <2>4, <3>1, <3>2
    <3>3. CASE j \in 1..n
      BY <1>3, <2>3, <2>6, <3>1, <3>3
    <3> QED
      BY <1>1, <3>2, <3>3
  <2>7. ASSUME NEW i \in 2..n + 1 PROVE stack'[i].via.src = stack'[i - 1].mod
    <3>1. i - 1 \in 1..n /\ stack'[i - 1] = stack[i - 1]
      BY <1>1, <2>3
    <3>2. CASE i = n + 1
      BY <1>1, <1>5, <2>2, <2>3, <2>4, <3>1, <3>2
    <3>3. CASE i \in 2..n
      BY <1>1, <1>3, <2>3, <3>1, <3>3
    <3> QED
      BY <1>1, <3>2, <3>3
  <2> QED
    BY <2>3, <2>5, <2>6, <2>7, <1>2, PathThen
<1>6. CASE Returns \/ Throws
  <2>1. /\ stack # <<>> /\ Len(stack') = n - 1
        /\ \A i \in 1..n - 1 : stack'[i] = stack[i]
    BY <1>1, <1>6, PopStack DEF Returns, Throws
  <2>2. stack' \in Seq(Frame)
    BY <1>1, <1>6, PopStack DEF Returns, Throws
  <2>3. stack' # <<>> => stack'[1].mod = Main
    BY <1>1, <1>3, <2>1, <2>2
  <2>4. ASSUME NEW i \in 1..n - 1, NEW j \in 1..n - 1, i < j
        PROVE  stack'[j].mod \in Reachable(stack'[i].mod)
    <3>1. stack'[i] = stack[i] /\ stack'[j] = stack[j] /\ i \in 1..n /\ j \in 1..n
      BY <1>1, <2>1
    <3> QED
      BY <1>3, <2>4, <3>1
  <2>5. ASSUME NEW i \in 2..n - 1 PROVE stack'[i].via.src = stack'[i - 1].mod
    <3>1. i \in 1..n - 1 /\ i - 1 \in 1..n - 1 /\ i \in 2..n
      BY <1>1
    <3>2. stack'[i] = stack[i] /\ stack'[i - 1] = stack[i - 1]
      BY <2>1, <3>1
    <3> QED
      BY <1>3, <3>1, <3>2
  <2> QED
    BY <2>1, <2>3, <2>4, <2>5, <1>2, PathThen
<1> QED
  BY <1>1, <1>4, <1>5, <1>6, StepShape

(* What the innermost activation has before it stays its module's own.     *)
LEMMA PendingTop ==
  ASSUME TypeOK, PendingFits, stack # <<>>, NEW f \in Frame, stack' = SetTop(f),
         program' = program, f.mod = Top.mod,
         \A e \in f.todo \cup f.deferred : e \in program.edges /\ e.src = Top.mod
  PROVE  \A i \in 1..Len(stack') : OwnReferences(i)'
<1>1. /\ Len(stack) \in 1..Len(stack) /\ Len(stack') = Len(stack)
      /\ \A i \in 1..Len(stack) - 1 : stack'[i] = stack[i]
      /\ stack'[Len(stack)] = f
  BY TopOnly
<1>2. ASSUME NEW i \in 1..Len(stack), i # Len(stack) PROVE OwnReferences(i)'
  <2>1. stack'[i] = stack[i] /\ OwnReferences(i)
    BY <1>1, <1>2 DEF PendingFits
  <2> QED
    BY <2>1 DEF OwnReferences
<1>3. ASSUME NEW i \in 1..Len(stack), i = Len(stack) PROVE OwnReferences(i)'
  BY <1>1, <1>3 DEF OwnReferences
<1> QED
  BY <1>1, <1>2, <1>3

(* What an activation has before it are references of its own module.      *)
LEMMA OwnStep ==
  ASSUME ImportInv, PendingFits, [Next]_vars
  PROVE  \A i \in 1..Len(stack') : OwnReferences(i)'
<1> DEFINE n == Len(stack)
<1>1. /\ TypeOK /\ FreshAtStart /\ StagesFit /\ ReferencesAreReal
      /\ stack \in Seq(Frame) /\ n \in Nat
  BY DEF ImportInv, TypeOK
<1>2. program' = program
  BY <1>1, PhaseStep
<1>3. \A i \in 1..n : OwnReferences(i)
  BY DEF PendingFits
<1>t. stack # <<>> => Top \in Frame /\ Top = stack[n] /\ n \in 1..n /\ OwnReferences(n)
  BY <1>1, <1>3, TopIsFrame
<1>o. stack # <<>> => \A e \in Top.todo \cup Top.deferred :
                        e \in program.edges /\ e.src = Top.mod
  BY <1>t DEF OwnReferences
<1>4. CASE stack' = stack
  BY <1>2, <1>3, <1>4 DEF OwnReferences
<1>5. ASSUME NEW m \in Modules, NEW t \in Phase, NEW e \in Edge \cup {NoEdge},
             Pushes(m, t, e)
      PROVE  \A i \in 1..Len(stack') : OwnReferences(i)'
  <2>1. PICK f : f = NewFrame(m, t, e)
    OBVIOUS
  <2>2. f \in Frame /\ f.mod = m /\ f.todo = Requests(program, m, phase[m]) /\ f.deferred = {}
    BY <1>1, <2>1, NewFrameIsFrame DEF NewFrame
  <2>3. /\ Len(stack') = n + 1
        /\ \A i \in 1..n : stack'[i] = stack[i]
        /\ stack'[n + 1] = f
    BY <1>1, <1>5, <2>1, <2>2, PushStack DEF Pushes
  <2>4. ASSUME NEW i \in 1..n PROVE OwnReferences(i)'
    BY <1>2, <1>3, <2>3 DEF OwnReferences
  <2>5. \A r \in f.todo \cup f.deferred : r \in program.edges /\ r.src = m
    BY <2>2 DEF Requests
  <2>6. ASSUME NEW i, i = n + 1 PROVE OwnReferences(i)'
    BY <1>2, <2>2, <2>3, <2>5, <2>6 DEF OwnReferences
  <2> QED
    BY <1>1, <2>3, <2>4, <2>6
<1>6. CASE Returns \/ Throws
  <2>1. Len(stack') = n - 1 /\ \A i \in 1..n - 1 : stack'[i] = stack[i]
    BY <1>1, <1>6, PopStack DEF Returns, Throws
  <2>2. ASSUME NEW i \in 1..n - 1 PROVE OwnReferences(i)'
    BY <1>1, <1>2, <1>3, <2>1, <2>2 DEF OwnReferences
  <2> QED
    BY <2>1, <2>2
<1>7. ASSUME stack # <<>>, stack' = Pop PROVE ~Stays
  BY <1>1, <1>7, PopStack DEF Stays
<1>8. ASSUME NEW f \in Frame, stack # <<>>, stack' = SetTop(f), f.mod = Top.mod,
             \A e \in f.todo \cup f.deferred : e \in program.edges /\ e.src = Top.mod
      PROVE  \A i \in 1..Len(stack') : OwnReferences(i)'
  BY <1>1, <1>2, <1>8, PendingTop
<1>9. ASSUME NEW e \in program.edges, AlreadyThere(e)
      PROVE  \A i \in 1..Len(stack') : OwnReferences(i)'
  <2>1. PICK f : f = [Top EXCEPT !.todo = @ \ {e}]
    OBVIOUS
  <2>2. /\ stack # <<>> /\ f \in Frame /\ f.mod = Top.mod
        /\ f.todo = Top.todo \ {e} /\ f.deferred = Top.deferred
        /\ stack' = SetTop(f)
    BY <1>9, <1>t, <2>1 DEF AlreadyThere, Reaches, Active, Frame
  <2> QED
    BY <1>8, <1>o, <2>2
<1>10. ASSUME NEW e \in program.edges, Split(e)
       PROVE  \A i \in 1..Len(stack') : OwnReferences(i)'
  <2>1. PICK f : f = [Top EXCEPT !.todo = @ \ {e}, !.deferred = @ \cup {e}]
    OBVIOUS
  <2>2. stack # <<>> /\ stack' = SetTop(f) /\ e \in Top.todo
    BY <1>10, <2>1 DEF Split, PutOff, Active
  <2>3. e \in Edge
    BY <1>1 DEF TypeOK, WellFormed
  <2>4. /\ f \in Frame /\ f.mod = Top.mod
        /\ f.todo = Top.todo \ {e} /\ f.deferred = Top.deferred \cup {e}
    BY <1>t, <2>1, <2>2, <2>3 DEF Frame
  <2> QED
    BY <1>8, <1>o, <2>2, <2>4
<1>11. CASE FinishStage
  <2>1. PICK f : f = [Top EXCEPT !.todo = Requests(program, Top.mod, phase[Top.mod] + 1)]
    OBVIOUS
  <2>2. stack # <<>> /\ failed' = failed
    BY <1>11 DEF FinishStage, Active
  <2>3. CASE phase[Top.mod] + 1 = Top.target
    BY <1>6, <1>11, <2>2, <2>3 DEF FinishStage, Leave, Returns
  <2>4. CASE phase[Top.mod] + 1 # Top.target
    <3>1. stack' = SetTop(f)
      BY <1>11, <2>1, <2>4 DEF FinishStage
    <3>2. f \in Frame /\ f.mod = Top.mod /\ f.deferred = Top.deferred
      BY <1>1, <1>t, <2>1, <2>2, RequestsAreEdges DEF Frame
    <3>3. f.todo = Requests(program, Top.mod, phase[Top.mod] + 1)
      BY <1>t, <2>1, <2>2 DEF Frame
    <3>4. \A e \in f.todo : e \in program.edges /\ e.src = Top.mod
      BY <3>3 DEF Requests
    <3> QED
      BY <1>8, <1>o, <2>2, <3>1, <3>2, <3>4
  <2> QED
    BY <2>3, <2>4
<1>12. CASE RunRoot
  <2>1. PICK f : f = [Top EXCEPT !.running = TRUE, !.todo = @ \cup Top.deferred,
                                 !.deferred = {}]
    OBVIOUS
  <2>2. stack # <<>> /\ stack' = SetTop(f)
    BY <1>12, <2>1 DEF RunRoot, Active
  <2>3. /\ f \in Frame /\ f.mod = Top.mod
        /\ f.todo = Top.todo \cup Top.deferred /\ f.deferred = {}
    BY <1>t, <2>1, <2>2 DEF Frame
  <2> QED
    BY <1>8, <1>o, <2>2, <2>3
<1>13. CASE SwallowEager
  <2>1. PICK f : f = [Top EXCEPT !.todo = @ \ {error.via},
                                 !.deferred = @ \cup {error.via}]
    OBVIOUS
  <2>2. stack # <<>> /\ error # NoError /\ stack' = SetTop(f)
    BY <1>13, <2>1 DEF SwallowEager, PutOff
  <2>3. error.via \in program.edges /\ error.via.src = Top.mod
    BY <1>1, <2>2 DEF PendingFits, ReferencesAreReal
  <2>4. error.via \in Edge
    BY <1>1, <2>3 DEF TypeOK, WellFormed
  <2>5. /\ f \in Frame /\ f.mod = Top.mod
        /\ f.todo = Top.todo \ {error.via} /\ f.deferred = Top.deferred \cup {error.via}
    BY <1>t, <2>1, <2>2, <2>4 DEF Frame
  <2> QED
    BY <1>8, <1>o, <2>2, <2>3, <2>5
<1>14. ASSUME NEW again \in BOOLEAN, HandleInPython(again)
       PROVE  \A i \in 1..Len(stack') : OwnReferences(i)'
  <2>1. PICK f : f = [Top EXCEPT !.todo = @ \ {error.via}]
    OBVIOUS
  <2>2. stack # <<>> /\ (stack' = stack \/ stack' = SetTop(f))
    BY <1>14, <2>1 DEF HandleInPython
  <2>3. /\ f \in Frame /\ f.mod = Top.mod
        /\ f.todo = Top.todo \ {error.via} /\ f.deferred = Top.deferred
    BY <1>t, <2>1, <2>2 DEF Frame
  <2> QED
    BY <1>4, <1>8, <1>o, <2>2, <2>3
<1>15. CASE Start
  BY <1>1, <1>5, <1>15, StartPushes, ModulesAssumption DEF Pushes
<1>16. ASSUME NEW e \in program.edges, Enter(e)
       PROVE  \A i \in 1..Len(stack') : OwnReferences(i)'
  BY <1>1, <1>5, <1>16, EnterPushes
<1>17. CASE FinishRoot \/ Fail \/ Unwind
  <2>1. Returns \/ Throws
    BY <1>17 DEF FinishRoot, Leave, Fail, Unwind, Active, Returns, Throws
  <2> QED
    BY <1>6, <2>1
<1>18. CASE Exit \/ UNCHANGED vars \/ \E e \in program.edges : RefuseCycle(e)
  BY <1>4, <1>18 DEF Exit, vars, RefuseCycle
<1> QED
  BY <1>9, <1>10, <1>11, <1>12, <1>13, <1>14, <1>15, <1>16, <1>17, <1>18
     DEF Next, Advance, Terminated

(* An exception comes from a reference of the activation that it reaches.  *)
LEMMA ErrorStep ==
  ASSUME ImportInv, PathOfReferences, PendingFits, [Next]_vars
  PROVE  error' # NoError /\ stack' # <<>> => error'.via.src = Top'.mod
<1> DEFINE n == Len(stack)
<1>1. /\ TypeOK /\ FreshAtStart /\ stack \in Seq(Frame) /\ n \in Nat /\ error \in Error
  BY DEF ImportInv, TypeOK
<1>t. stack # <<>> => Top = stack[n] /\ n \in 1..n
  BY <1>1, TopIsFrame
<1>2. CASE Start
  BY <1>1, <1>2 DEF Start, FreshAtStart
<1>3. ASSUME NEW e \in program.edges, AlreadyThere(e) \/ Enter(e) \/ Split(e)
      PROVE  error' = NoError
  BY <1>3 DEF AlreadyThere, Enter, Split, Reaches, Active
<1>4. CASE FinishStage \/ RunRoot \/ FinishRoot
  BY <1>4 DEF FinishStage, RunRoot, FinishRoot, Active
<1>5. CASE SwallowEager \/ \E again \in BOOLEAN : HandleInPython(again)
  BY <1>5 DEF SwallowEager, HandleInPython
<1>6. ASSUME NEW e \in program.edges, RefuseCycle(e)
      PROVE  error'.via.src = Top'.mod
  <2>1. stack # <<>> /\ stack' = stack /\ e \in Top.todo
    BY <1>6 DEF RefuseCycle, Reaches, Active
  <2>2. e.src = Top.mod
    BY <1>t, <2>1 DEF PendingFits, OwnReferences
  <2>3. error'.via = e
    BY <1>6 DEF RefuseCycle, Raise
  <2> QED
    BY <2>1, <2>2, <2>3 DEF Top
<1>7. CASE Fail \/ Unwind
  <2>1. SUFFICES ASSUME stack' # <<>> PROVE error'.via.src = Top'.mod
    OBVIOUS
  <2>2. stack # <<>> /\ stack' = Pop
    BY <1>7 DEF Fail, Unwind, Active
  <2>3. /\ Len(stack') = n - 1 /\ n \in 2..n
        /\ \A i \in 1..n - 1 : stack'[i] = stack[i]
    BY <1>1, <2>1, <2>2, PopStack
  <2>4. Top' = stack[n - 1]
    BY <2>3 DEF Top
  <2>5. error'.via = Top.via
    <3>1. CASE Fail
      BY <3>1 DEF Fail, Raise
    <3>2. CASE Unwind
      BY <1>1, <3>2 DEF Unwind, Error
    <3> QED
      BY <1>7, <3>1, <3>2
  <2>6. Top.via.src = stack[n - 1].mod
    BY <1>t, <2>2, <2>3 DEF PathOfReferences
  <2> QED
    BY <2>4, <2>5, <2>6
<1>8. CASE Exit \/ UNCHANGED vars
  BY <1>8 DEF Exit, vars, PendingFits, Top
<1> QED
  BY <1>2, <1>3, <1>4, <1>5, <1>6, <1>7, <1>8 DEF Next, Advance, Terminated

(* A module that is refused as cyclic is on a cycle, or failed before.     *)
LEMMA RefusedIsCyclic ==
  ASSUME ImportInv, PathOfReferences, PendingFits, NEW e \in program.edges, RefuseCycle(e)
  PROVE  \/ OnCycle(e.dst) /\ e.dst \in Reachable(Main) \cup {Main}
         \/ e.dst \in failed
<1>1. TypeOK /\ stack \in Seq(Frame) /\ Len(stack) \in Nat
  BY DEF ImportInv, TypeOK
<1>2. stack # <<>> /\ e \in Top.todo /\ e.dst \in scopes
  BY DEF RefuseCycle, Reaches, Active, InProgress
<1>3. e.src = Top.mod
  BY <1>1, <1>2, TopIsFrame DEF PendingFits, OwnReferences
<1>4. e.dst \in OnStack \/ e.dst \in failed
  BY <1>2 DEF ImportInv, ScopesAreActivations
<1>5. ASSUME NEW i \in 1..Len(stack), e.dst = stack[i].mod
      PROVE  OnCycle(e.dst) /\ e.dst \in Reachable(Main) \cup {Main}
  <2>1. e.dst \in Reachable(stack[i].mod)
    BY <1>1, <1>2, <1>3, PathGoesOn
  <2>2. stack[i].mod \in Reachable(Main) \cup {Main}
    BY <1>1, ActiveIsNeeded
  <2> QED
    BY <1>5, <2>1, <2>2 DEF OnCycle
<1> QED
  BY <1>4, <1>5 DEF OnStack

(* A module whose own code is refused or raises is defective.              *)
LEMMA FailsByDefect ==
  ASSUME ImportInv, PathOfReferences, Fail
  PROVE  Cause
<1>1. TypeOK /\ stack \in Seq(Frame) /\ stack # <<>>
  BY DEF ImportInv, TypeOK, Fail, Active
<1>2. Len(stack) \in 1..Len(stack) /\ Top = stack[Len(stack)]
  BY <1>1, TopIsFrame
<1>3. Top.mod \in Reachable(Main) \cup {Main}
  BY <1>1, <1>2, ActiveIsNeeded
<1>4. program.defect[Top.mod] # "none"
  BY DEF Fail, Defect, StageName
<1> QED
  BY <1>3, <1>4 DEF Cause

(* Nothing fails without a cause.                                          *)
LEMMA FailuresStep ==
  ASSUME ImportInv, PathOfReferences, PendingFits, FailuresHaveCause, [Next]_vars
  PROVE  FailuresHaveCause'
<1>1. /\ TypeOK /\ FreshAtStart /\ StagesFit /\ error \in Error
  BY DEF ImportInv, TypeOK
<1>2. program' = program /\ caught \subseteq caught' /\ (Cause' <=> Cause)
  BY <1>1, PhaseStep, SamePaths
<1>3. /\ error # NoError \/ failed # {} \/ driver = "crashed" => Cause
      /\ failed # {} => error # NoError \/ caught # {}
      /\ error.type = "none" => error = NoError
  BY DEF FailuresHaveCause
<1>4. NoError.type = "none"
  BY DEF NoError
<1>5. CASE Start
  BY <1>1, <1>2, <1>3, <1>5 DEF Start, FreshAtStart, FailuresHaveCause
<1>6. ASSUME NEW e \in program.edges, AlreadyThere(e) \/ Enter(e) \/ Split(e)
      PROVE  FailuresHaveCause'
  <2>1. UNCHANGED <<error, failed, driver, caught>>
    BY <1>6 DEF AlreadyThere, Enter, Split
  <2> QED
    BY <1>2, <1>3, <2>1 DEF FailuresHaveCause
<1>7. CASE FinishStage \/ RunRoot \/ FinishRoot \/ UNCHANGED vars
  <2>1. UNCHANGED <<error, failed, driver, caught>>
    BY <1>7 DEF FinishStage, RunRoot, FinishRoot, vars
  <2> QED
    BY <1>2, <1>3, <2>1 DEF FailuresHaveCause
<1>8. CASE SwallowEager \/ \E again \in BOOLEAN : HandleInPython(again)
  <2>1. /\ error # NoError /\ error' = NoError /\ failed' = failed
        /\ caught' # {}
    BY <1>8 DEF SwallowEager, HandleInPython
  <2>2. Cause'
    BY <1>2, <1>3, <2>1
  <2> QED
    BY <2>1, <2>2 DEF FailuresHaveCause
<1>9. ASSUME NEW e \in program.edges, RefuseCycle(e)
      PROVE  FailuresHaveCause'
  <2>1. error'.type = "cyclic"
    BY <1>9 DEF RefuseCycle, Raise
  <2>2. error' # NoError
    BY <1>4, <2>1
  <2>3. OnCycle(e.dst) /\ e.dst \in Reachable(Main) \cup {Main} => Cause
    BY DEF Cause
  <2>4. e.dst \in failed => Cause
    BY <1>3
  <2>5. Cause'
    BY <1>2, <1>9, <2>3, <2>4, RefusedIsCyclic
  <2> QED
    BY <2>1, <2>2, <2>5 DEF FailuresHaveCause
<1>10. CASE Fail
  <2>1. error'.type # "none"
    BY <1>10 DEF Fail, Raise
  <2>2. error' # NoError
    BY <1>4, <2>1
  <2>3. Cause'
    BY <1>2, <1>10, FailsByDefect
  <2> QED
    BY <2>1, <2>2, <2>3 DEF FailuresHaveCause
<1>11. CASE Unwind
  <2>1. error # NoError /\ error.type # "none"
    BY <1>3, <1>11 DEF Unwind
  <2>2. error'.type # "none"
    BY <1>1, <1>11, <2>1 DEF Unwind, Error
  <2>3. error' # NoError
    BY <1>4, <2>2
  <2>4. Cause'
    BY <1>2, <1>3, <2>1
  <2> QED
    BY <2>2, <2>3, <2>4 DEF FailuresHaveCause
<1>12. CASE Exit
  <2>1. /\ UNCHANGED <<error, failed, caught>>
        /\ driver' = "crashed" => error # NoError
    BY <1>12 DEF Exit
  <2> QED
    BY <1>2, <1>3, <2>1 DEF FailuresHaveCause
<1> QED
  BY <1>5, <1>6, <1>7, <1>8, <1>9, <1>10, <1>11, <1>12 DEF Next, Advance, Terminated

(* The message "cyclic" keeps its explanation while it unwinds.            *)
LEMMA CyclicStep ==
  ASSUME ImportInv, PathOfReferences, PendingFits, FailuresHaveCause, CyclicIsExplained,
         [Next]_vars
  PROVE  CyclicIsExplained'
<1>1. /\ TypeOK /\ FreshAtStart /\ StagesFit /\ error \in Error
  BY DEF ImportInv, TypeOK
<1>2. /\ program' = program /\ caught \subseteq caught'
      /\ \A m : OnCycle(m)' <=> OnCycle(m)
  BY <1>1, PhaseStep, SamePaths
<1>3. error.type = "cyclic" => OnCycle(error.mod) \/ (error.mod \in failed /\ caught # {})
  BY DEF CyclicIsExplained
<1>4. SUFFICES ASSUME error'.type = "cyclic"
               PROVE  OnCycle(error'.mod) \/ (error'.mod \in failed' /\ caught' # {})
  BY <1>2 DEF CyclicIsExplained, OnCycle, Reachable
<1>5. NoError.type = "none"
  BY DEF NoError
<1>6. CASE error' = error /\ failed' = failed
  BY <1>2, <1>3, <1>4, <1>6
<1>7. error' # NoError
  BY <1>4, <1>5
<1>8. ASSUME NEW e \in program.edges, RefuseCycle(e)
      PROVE  OnCycle(error'.mod) \/ (error'.mod \in failed' /\ caught' # {})
  <2>1. error'.mod = e.dst /\ failed' = failed /\ error = NoError
    BY <1>8 DEF RefuseCycle, Raise, Reaches, Active
  <2>2. failed # {} => caught # {}
    BY <2>1 DEF FailuresHaveCause
  <2> QED
    BY <1>2, <1>8, <2>1, <2>2, RefusedIsCyclic
<1>9. ~Fail
  BY <1>4 DEF Fail, Raise
<1>10. CASE Unwind
  <2>1. error.type = "cyclic" /\ error'.mod = error.mod /\ failed \subseteq failed'
    BY <1>1, <1>4, <1>10 DEF Unwind, Error
  <2> QED
    BY <1>2, <1>3, <2>1
<1>11. ~SwallowEager /\ \A again \in BOOLEAN : ~HandleInPython(again)
  BY <1>7 DEF SwallowEager, HandleInPython
<1>12. CASE Start \/ FinishStage \/ RunRoot \/ FinishRoot \/ Exit \/ UNCHANGED vars
  BY <1>6, <1>12 DEF Start, FinishStage, RunRoot, FinishRoot, Exit, vars
<1>13. ASSUME NEW e \in program.edges, AlreadyThere(e) \/ Enter(e) \/ Split(e)
       PROVE  error' = error /\ failed' = failed
  BY <1>13 DEF AlreadyThere, Enter, Split
<1> QED
  BY <1>6, <1>8, <1>9, <1>10, <1>11, <1>12, <1>13 DEF Next, Advance, Terminated

(* All of it is inductive, on top of ImportInv.                            *)
LEMMA CauseStep ==
  ASSUME ImportInv, CauseInv, [Next]_vars
  PROVE  CauseInv'
<1>1. PathOfReferences /\ PendingFits /\ FailuresHaveCause /\ CyclicIsExplained
  BY DEF CauseInv
<1>2. PathOfReferences' /\ FailuresHaveCause' /\ CyclicIsExplained'
  BY <1>1, PathStep, FailuresStep, CyclicStep
<1>3. PendingFits'
  <2>1. \A i \in 1..Len(stack') : OwnReferences(i)'
    BY <1>1, OwnStep
  <2>2. error' # NoError /\ stack' # <<>> => error'.via.src = Top'.mod
    BY <1>1, ErrorStep
  <2> QED
    BY <2>1, <2>2 DEF PendingFits
<1> QED
  BY <1>2, <1>3 DEF CauseInv

(* Before main() has called anything.                                      *)
LEMMA CauseInit ==
  ASSUME Init
  PROVE  CauseInv
<1>1. stack = <<>> /\ error = NoError /\ failed = {} /\ driver = "start"
  BY DEF Init
<1>2. NoError.type = "none" /\ Len(stack) = 0
  BY <1>1 DEF NoError
<1>3. PathOfReferences /\ PendingFits
  BY <1>1, <1>2 DEF PathOfReferences, PendingFits
<1> QED
  BY <1>1, <1>2, <1>3 DEF CauseInv, FailuresHaveCause, CyclicIsExplained

(* The inductive invariant: phases, stack and counters agree, activations  *)
(* form a path of references, and failures have causes.                    *)
THEOREM InvariantHolds == Spec => []LoaderInv
<1>1. Init => LoaderInv
  BY InvInit, CauseInit DEF LoaderInv
<1>2. LoaderInv /\ [Next]_vars => LoaderInv'
  BY InvStep, CauseStep DEF LoaderInv
<1> QED
  BY <1>1, <1>2, PTL DEF Spec

(* The message "cyclic import dependency on module m" is given only if m   *)
(* depends on itself, or failed before and the program went on after that. *)
THEOREM CyclicIsExplainedHolds == Spec => []CyclicIsExplained
<1>1. LoaderInv => CyclicIsExplained
  BY DEF LoaderInv, CauseInv
<1> QED
  BY <1>1, InvariantHolds, PTL

(* The process ends with an exception only if a module that __main__ needs *)
(* is defective or depends on itself, in whatever order they are reached.  *)
THEOREM CrashHasACauseHolds == Spec => []CrashHasACause
<1>1. LoaderInv => CrashHasACause
  BY DEF LoaderInv, CauseInv, FailuresHaveCause, Cause, CrashHasACause
<1> QED
  BY <1>1, InvariantHolds, PTL
===============================================================================
