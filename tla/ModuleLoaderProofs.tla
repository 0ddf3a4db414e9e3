-------------------------- MODULE ModuleLoaderProofs --------------------------
(***************************************************************************)
(* Theorems about the module loader, for every set of modules, every       *)
(* program, either compilation mode and any number of retries.             *)
(***************************************************************************)
EXTENDS LoaderInvariant, TLAPS

(* The three ways in which the stack of activations changes.               *)
LEMMA TopIsFrame ==
  ASSUME stack \in Seq(Frame), stack # <<>>
  PROVE  /\ Len(stack) \in Nat \ {0}
         /\ Top = stack[Len(stack)]
         /\ Top \in Frame
  BY DEF Top

(* The innermost frame is replaced.                                        *)
LEMMA SetTopStack ==
  ASSUME stack \in Seq(Frame), stack # <<>>, NEW f \in Frame
  PROVE  /\ SetTop(f) \in Seq(Frame)
         /\ Len(SetTop(f)) = Len(stack)
         /\ \A i \in 1..Len(stack) :
               SetTop(f)[i] = IF i = Len(stack) THEN f ELSE stack[i]
  BY DEF SetTop

(* The innermost frame returns.                                            *)
LEMMA PopStack ==
  ASSUME stack \in Seq(Frame), stack # <<>>
  PROVE  /\ Pop \in Seq(Frame)
         /\ Len(Pop) = Len(stack) - 1
         /\ \A i \in 1..Len(stack) - 1 : Pop[i] = stack[i]
  BY DEF Pop

(* A frame is added.                                                       *)
LEMMA PushStack ==
  ASSUME stack \in Seq(Frame), NEW f \in Frame
  PROVE  /\ Append(stack, f) \in Seq(Frame)
         /\ Len(Append(stack, f)) = Len(stack) + 1
         /\ \A i \in 1..Len(stack) : Append(stack, f)[i] = stack[i]
         /\ Append(stack, f)[Len(stack) + 1] = f
  OBVIOUS

(* Phases are numbers, and what a visitor asks for is a phase.             *)
LEMMA NeededIsPhase ==
  ASSUME NEW p \in Phase
  PROVE  /\ Needed(p) \in Phase
         /\ p = Parsed => Needed(p) = Annotated
         /\ p = Annotated => Needed(p) = Analyzed
         /\ p \notin {Parsed, Annotated} => Needed(p) = Imported
  BY DEF Needed, Phase, Initial, Parsed, Annotated, Analyzed, Imported

(* A new frame is a frame.                                                 *)
LEMMA NewFrameIsFrame ==
  ASSUME TypeOK, NEW m \in Modules, NEW t \in Phase, NEW e \in Edge \cup {NoEdge}
  PROVE  NewFrame(m, t, e) \in Frame
  BY DEF TypeOK, WellFormed, NewFrame, Frame, Requests

(* What a module asks for is an edge of the import graph.                  *)
LEMMA RequestsAreEdges ==
  ASSUME TypeOK, NEW m, NEW p
  PROVE  Requests(program, m, p) \subseteq program.edges
         /\ program.edges \subseteq Edge
  BY DEF TypeOK, WellFormed, Requests
-------------------------------------------------------------------------------
(* Type correctness of every step.                                         *)
LEMMA TypeCorrectInit == Init => TypeOK
<1> SUFFICES ASSUME Init PROVE TypeOK
  OBVIOUS
<1>1. stack \in Seq(Frame) /\ retries \in 0..MaxRetries
  BY LoaderAssumption DEF Init
<1>2. error \in Error
  BY ModulesAssumption DEF Init, NoError, Error
<1>3. phase \in [Modules -> Phase]
  BY DEF Init, FirstPhase, Phase, Initial, Imported
<1>4. WellFormed(program)
  BY ModulesAssumption DEF Init
<1> QED
  BY <1>1, <1>2, <1>3, <1>4 DEF Init, TypeOK

(* Every step keeps the types.                                             *)
LEMMA TypeCorrectStep == TypeOK /\ [Next]_vars => TypeOK'
<1> SUFFICES ASSUME TypeOK, [Next]_vars PROVE TypeOK'
  OBVIOUS
<1>f. stack # <<>> => Top \in Frame
  BY TopIsFrame DEF TypeOK
<1>1. CASE Start
  <2>1. NewFrame(Main, Imported, NoEdge) \in Frame
    BY ModulesAssumption, NewFrameIsFrame DEF Phase, Initial, Imported
  <2> QED
    BY <1>1, <2>1, ModulesAssumption DEF Start, TypeOK
<1>2. ASSUME NEW e \in program.edges, AlreadyThere(e) PROVE TypeOK'
  <2>1. [Top EXCEPT !.todo = @ \ {e}] \in Frame
    BY <1>2, <1>f DEF AlreadyThere, Reaches, Active, Frame
  <2> QED
    BY <1>2, <2>1, SetTopStack DEF AlreadyThere, Reaches, Active, TypeOK
<1>3. ASSUME NEW e \in program.edges, Enter(e) PROVE TypeOK'
  <2>1. e \in Edge /\ e.dst \in Modules
    BY DEF TypeOK, WellFormed, Edge
  <2>2. phase[Top.mod] \in Phase
    BY <1>3, <1>f DEF Enter, Reaches, Active, Frame, TypeOK
  <2>3. NewFrame(e.dst, Needed(phase[Top.mod]), e) \in Frame
    BY <2>1, <2>2, NeededIsPhase, NewFrameIsFrame
  <2> QED
    BY <1>3, <2>1, <2>3, PushStack DEF Enter, TypeOK
<1>4. ASSUME NEW e \in program.edges, RefuseCycle(e) PROVE TypeOK'
  <2>1. e \in Edge /\ e.dst \in Modules
    BY DEF TypeOK, WellFormed, Edge
  <2> QED
    BY <1>4, <2>1 DEF RefuseCycle, Raise, Error, TypeOK
<1>5. ASSUME NEW e \in program.edges, Split(e) PROVE TypeOK'
  <2>1. e \in Edge
    BY DEF TypeOK, WellFormed
  <2>2. [Top EXCEPT !.todo = @ \ {e}, !.deferred = @ \cup {e}] \in Frame
    BY <1>5, <1>f, <2>1 DEF Split, Active, Frame
  <2> QED
    BY <1>5, <2>2, SetTopStack DEF Split, PutOff, Active, TypeOK
<1>6. CASE FinishStage
  <2> DEFINE m == Top.mod
  <2>1. m \in Modules /\ phase[m] \in Phase /\ phase[m] < Analyzed
    BY <1>6, <1>f DEF FinishStage, Active, Frame, TypeOK
  <2>2. phase' = [phase EXCEPT ![m] = phase[m] + 1] /\ phase[m] + 1 \in Phase
    BY <1>6, <2>1 DEF FinishStage, Promote, Phase, Initial, Analyzed, Imported
  <2>3. [Top EXCEPT !.todo = Requests(program, m, phase[m] + 1)] \in Frame
    BY <1>6, <1>f, RequestsAreEdges DEF FinishStage, Active, Frame
  <2>4. stack' \in Seq(Frame)
    BY <1>6, <2>3, SetTopStack, PopStack DEF FinishStage, Leave, Active, TypeOK
  <2>5. globals' \in [Modules -> Nat]
    BY <1>6, <2>1 DEF FinishStage, TypeOK
  <2>6. scopes' \subseteq Modules
    BY <1>6 DEF FinishStage, Leave, TypeOK
  <2> QED
    BY <1>6, <2>1, <2>2, <2>4, <2>5, <2>6 DEF FinishStage, TypeOK
<1>7. CASE RunRoot
  <2> DEFINE m == Top.mod
  <2>1. m \in Modules
    BY <1>7, <1>f DEF RunRoot, Active, Frame
  <2>2. [Top EXCEPT !.running = TRUE, !.todo = @ \cup Top.deferred, !.deferred = {}]
          \in Frame
    BY <1>7, <1>f DEF RunRoot, Active, Frame
  <2>3. stack' \in Seq(Frame)
    BY <1>7, <2>2, SetTopStack DEF RunRoot, Active, TypeOK
  <2>4. rootRuns' = [rootRuns EXCEPT ![m] = rootRuns[m] + 1]
    BY <1>7 DEF RunRoot
  <2>5. rootRuns' \in [Modules -> Nat]
    BY <2>1, <2>4 DEF TypeOK
  <2>6. UNCHANGED <<program, phase, scopes, globals, error, caught, failed, retries,
                    driver>>
    BY <1>7 DEF RunRoot
  <2> QED
    BY <2>3, <2>5, <2>6 DEF TypeOK
<1>8. CASE FinishRoot
  <2>1. phase' = [phase EXCEPT ![Top.mod] = Imported]
    BY <1>8 DEF FinishRoot
  <2>2. Imported \in Phase
    BY DEF Phase, Initial, Imported
  <2>3. phase' \in [Modules -> Phase]
    BY <2>1, <2>2 DEF TypeOK
  <2>4. stack' \in Seq(Frame) /\ scopes' \subseteq Modules
    BY <1>8, PopStack DEF FinishRoot, Leave, Active, TypeOK
  <2>5. UNCHANGED <<program, globals, rootRuns, error, caught, failed, retries, driver>>
    BY <1>8 DEF FinishRoot
  <2> QED
    BY <2>3, <2>4, <2>5 DEF TypeOK
<1>9. CASE Fail
  BY <1>9, <1>f, PopStack DEF Fail, Raise, Active, Error, Frame, TypeOK
<1>10. CASE SwallowEager
  <2>1. error.via \in Edge \cup {NoEdge} /\ error.via.place = "func"
    BY <1>10 DEF SwallowEager, CaughtByVisitor, TypeOK, Error
  <2>2. error.via \in Edge
    BY <2>1 DEF NoEdge
  <2>3. [Top EXCEPT !.todo = @ \ {error.via}, !.deferred = @ \cup {error.via}] \in Frame
    BY <1>10, <1>f, <2>2 DEF SwallowEager, Frame
  <2>4. NoError \in Error
    BY ModulesAssumption DEF NoError, Error
  <2> QED
    BY <1>10, <2>1, <2>3, <2>4, SetTopStack DEF SwallowEager, PutOff, TypeOK
<1>11. ASSUME NEW again \in BOOLEAN, HandleInPython(again) PROVE TypeOK'
  <2>1. error.via \in Edge \cup {NoEdge}
    BY <1>11 DEF TypeOK, Error
  <2>2. [Top EXCEPT !.todo = @ \ {error.via}] \in Frame
    BY <1>11, <1>f DEF HandleInPython, Frame
  <2>3. NoError \in Error
    BY ModulesAssumption DEF NoError, Error
  <2>4. stack' \in Seq(Frame)
    BY <1>11, <2>2, SetTopStack DEF HandleInPython, TypeOK
  <2>5. retries' \in 0..MaxRetries
    BY <1>11, LoaderAssumption DEF HandleInPython, TypeOK
  <2> QED
    BY <1>11, <2>1, <2>3, <2>4, <2>5 DEF HandleInPython, TypeOK
<1>12. CASE Unwind
  <2>1. error' \in Error
    BY <1>12, <1>f DEF Unwind, Error, Frame, TypeOK
  <2> QED
    BY <1>12, <1>f, <2>1, PopStack DEF Unwind, Frame, TypeOK
<1>13. CASE Exit
  BY <1>13 DEF Exit, TypeOK
<1>14. CASE UNCHANGED vars
  BY <1>14 DEF vars, TypeOK
<1> QED
  BY <1>1, <1>2, <1>3, <1>4, <1>5, <1>6, <1>7, <1>8, <1>9, <1>10, <1>11, <1>12,
     <1>13, <1>14 DEF Next, Advance, Terminated

(* The loader's state is always well-formed.                               *)
THEOREM TypeCorrect == Spec => []TypeOK
  BY TypeCorrectInit, TypeCorrectStep, PTL DEF Spec
-------------------------------------------------------------------------------
(* The four things a step may do to the stack of activations.              *)
Stays ==
  /\ Len(stack') = Len(stack)
  /\ \A i \in 1..Len(stack) :
        /\ stack'[i].mod = stack[i].mod
        /\ stack'[i].target = stack[i].target
        /\ stack'[i].via = stack[i].via
  /\ scopes' = scopes /\ failed' = failed

Pushes(m, t, e) ==
  /\ m \in Modules \ scopes
  /\ phase[m] < t /\ t \in Phase
  /\ stack = <<>> => m = Main
  /\ stack # <<>> => e \in program.edges /\ e \in Top.todo /\ m = e.dst
  /\ e \in Edge \cup {NoEdge}
  /\ stack' = Append(stack, NewFrame(m, t, e))
  /\ scopes' = scopes \cup {m} /\ failed' = failed
  /\ phase' = phase /\ globals' = globals /\ rootRuns' = rootRuns

Returns ==
  /\ stack # <<>> /\ stack' = Pop
  /\ scopes' = scopes \ {Top.mod} /\ failed' = failed

Throws ==
  /\ stack # <<>> /\ stack' = Pop
  /\ scopes' = scopes /\ failed' = failed \cup {Top.mod}
  /\ phase' = phase /\ globals' = globals /\ rootRuns' = rootRuns

(* The innermost frame goes on: no module is entered or left.              *)
LEMMA SetTopStays ==
  ASSUME TypeOK, stack # <<>>, NEW f \in Frame, stack' = SetTop(f),
         f.mod = Top.mod, f.target = Top.target, f.via = Top.via,
         scopes' = scopes, failed' = failed
  PROVE  Stays
<1>1. /\ Len(stack') = Len(stack)
      /\ \A i \in 1..Len(stack) : stack'[i] = IF i = Len(stack) THEN f ELSE stack[i]
  BY SetTopStack DEF TypeOK
<1>2. Top = stack[Len(stack)]
  BY DEF Top
<1> QED
  BY <1>1, <1>2 DEF Stays

(* The start of the loader enters the main module.                         *)
LEMMA StartPushes ==
  ASSUME TypeOK, FreshAtStart, Start
  PROVE  Pushes(Main, Imported, NoEdge)
<1>1. Main \in Modules \ scopes /\ phase[Main] < Imported /\ Imported \in Phase
  BY ModulesAssumption DEF Start, FreshAtStart, FirstPhase, Phase, Initial, Imported
<1>2. stack = <<>> /\ stack' = Append(stack, NewFrame(Main, Imported, NoEdge))
  BY DEF Start, FreshAtStart
<1> QED
  BY <1>1, <1>2 DEF Start, Pushes

(* An import enters the imported module.                                   *)
LEMMA EnterPushes ==
  ASSUME TypeOK, NEW e \in program.edges, Enter(e)
  PROVE  \E t \in Phase : Pushes(e.dst, t, e) /\ e.dst \in Modules /\ e \in Edge
<1>1. e \in Edge /\ e.dst \in Modules
  BY DEF TypeOK, WellFormed, Edge
<1>2. phase[Top.mod] \in Phase /\ phase[e.dst] \in Phase
  BY <1>1, TopIsFrame DEF Enter, Reaches, Active, Frame, TypeOK
<1>3. Needed(phase[Top.mod]) \in Phase
  BY <1>2, NeededIsPhase
<1>4. phase[e.dst] < Needed(phase[Top.mod])
  BY <1>2, <1>3 DEF Enter, FarEnough, Phase, Initial, Imported
<1>5. Pushes(e.dst, Needed(phase[Top.mod]), e)
  BY <1>1, <1>3, <1>4 DEF Enter, Reaches, Active, InProgress, Pushes
<1> QED
  BY <1>1, <1>3, <1>5

(* The shapes that a step of the loader can have.                          *)
LEMMA StepShape ==
  ASSUME TypeOK, FreshAtStart, [Next]_vars
  PROVE  \/ Stays
         \/ \E m \in Modules, t \in Phase, e \in Edge \cup {NoEdge} : Pushes(m, t, e)
         \/ Returns
         \/ Throws
<1>f. stack # <<>> => Top \in Frame
  BY TopIsFrame DEF TypeOK
<1>1. ASSUME Start
      PROVE  \E m \in Modules, t \in Phase, r \in Edge \cup {NoEdge} : Pushes(m, t, r)
  BY <1>1, StartPushes, ModulesAssumption DEF Pushes
<1>2. ASSUME NEW e \in program.edges, AlreadyThere(e) PROVE Stays
  <2> DEFINE f == [Top EXCEPT !.todo = @ \ {e}]
  <2>1. /\ stack # <<>> /\ f \in Frame
        /\ f.mod = Top.mod /\ f.target = Top.target /\ f.via = Top.via
    BY <1>2, <1>f DEF AlreadyThere, Reaches, Active, Frame
  <2>2. stack' = SetTop(f) /\ scopes' = scopes /\ failed' = failed
    BY <1>2 DEF AlreadyThere
  <2> HIDE DEF f
  <2> QED
    BY <2>1, <2>2, SetTopStays
<1>3. ASSUME NEW e \in program.edges, Enter(e)
      PROVE  \E m \in Modules, t \in Phase, r \in Edge \cup {NoEdge} : Pushes(m, t, r)
  BY <1>3, EnterPushes
<1>4. ASSUME NEW e \in program.edges, RefuseCycle(e) PROVE Stays
  BY <1>4 DEF RefuseCycle, Stays
<1>5. ASSUME NEW e \in program.edges, Split(e) PROVE Stays
  <2> DEFINE f == [Top EXCEPT !.todo = @ \ {e}, !.deferred = @ \cup {e}]
  <2>1. e \in Edge
    BY DEF TypeOK, WellFormed
  <2>2. /\ stack # <<>> /\ f \in Frame
        /\ f.mod = Top.mod /\ f.target = Top.target /\ f.via = Top.via
    BY <1>5, <1>f, <2>1 DEF Split, Active, Frame
  <2>3. stack' = SetTop(f) /\ scopes' = scopes /\ failed' = failed
    BY <1>5 DEF Split, PutOff
  <2> HIDE DEF f
  <2> QED
    BY <2>2, <2>3, SetTopStays
<1>6. CASE FinishStage
  <2> DEFINE next == phase[Top.mod] + 1
             f == [Top EXCEPT !.todo = Requests(program, Top.mod, next)]
  <2>1. stack # <<>> /\ failed' = failed
    BY <1>6 DEF FinishStage, Active
  <2>2. CASE next = Top.target
    BY <1>6, <2>1, <2>2 DEF FinishStage, Leave, Returns
  <2>3. CASE next # Top.target
    <3>1. /\ f \in Frame
          /\ f.mod = Top.mod /\ f.target = Top.target /\ f.via = Top.via
      BY <2>1, <1>f, RequestsAreEdges DEF Frame
    <3>2. stack' = SetTop(f) /\ scopes' = scopes
      BY <1>6, <2>3 DEF FinishStage
    <3> HIDE DEF f
    <3> QED
      BY <2>1, <3>1, <3>2, SetTopStays
  <2> QED
    BY <2>2, <2>3
<1>7. CASE RunRoot
  <2> DEFINE f == [Top EXCEPT !.running = TRUE, !.todo = @ \cup Top.deferred,
                              !.deferred = {}]
  <2>1. /\ stack # <<>> /\ f \in Frame
        /\ f.mod = Top.mod /\ f.target = Top.target /\ f.via = Top.via
    BY <1>7, <1>f DEF RunRoot, Active, Frame
  <2>2. stack' = SetTop(f) /\ scopes' = scopes /\ failed' = failed
    BY <1>7 DEF RunRoot
  <2> HIDE DEF f
  <2> QED
    BY <2>1, <2>2, SetTopStays
<1>8. CASE FinishRoot
  BY <1>8 DEF FinishRoot, Leave, Active, Returns
<1>9. CASE Fail
  BY <1>9 DEF Fail, Active, Throws
<1>10. CASE SwallowEager
  <2> DEFINE f == [Top EXCEPT !.todo = @ \ {error.via},
                              !.deferred = @ \cup {error.via}]
  <2>1. error.via \in Edge \cup {NoEdge} /\ error.via.place = "func"
    BY <1>10 DEF SwallowEager, CaughtByVisitor, TypeOK, Error
  <2>2. error.via \in Edge
    BY <2>1 DEF NoEdge
  <2>3. /\ stack # <<>> /\ f \in Frame
        /\ f.mod = Top.mod /\ f.target = Top.target /\ f.via = Top.via
    BY <1>10, <1>f, <2>2 DEF SwallowEager, Frame
  <2>4. stack' = SetTop(f) /\ scopes' = scopes /\ failed' = failed
    BY <1>10 DEF SwallowEager, PutOff
  <2> HIDE DEF f
  <2> QED
    BY <2>3, <2>4, SetTopStays
<1>11. ASSUME NEW again \in BOOLEAN, HandleInPython(again) PROVE Stays
  <2> DEFINE f == [Top EXCEPT !.todo = @ \ {error.via}]
  <2>1. /\ stack # <<>> /\ f \in Frame
        /\ f.mod = Top.mod /\ f.target = Top.target /\ f.via = Top.via
    BY <1>11, <1>f DEF HandleInPython, Frame
  <2>2. /\ stack' = stack \/ stack' = SetTop(f)
        /\ scopes' = scopes /\ failed' = failed
    BY <1>11 DEF HandleInPython
  <2> HIDE DEF f
  <2>3. CASE stack' = stack
    BY <2>2, <2>3 DEF Stays
  <2>4. CASE stack' = SetTop(f)
    BY <2>1, <2>2, <2>4, SetTopStays
  <2> QED
    BY <2>2, <2>3, <2>4
<1>12. CASE Unwind
  BY <1>12 DEF Unwind, Throws
<1>13. CASE Exit
  BY <1>13 DEF Exit, Stays
<1>14. CASE UNCHANGED vars
  BY <1>14 DEF vars, Stays
<1> QED
  BY <1>1, <1>2, <1>3, <1>4, <1>5, <1>6, <1>7, <1>8, <1>9, <1>10, <1>11, <1>12,
     <1>13, <1>14 DEF Next, Advance, Terminated
-------------------------------------------------------------------------------
(* Before main() calls advance_module_phase, nothing has happened.         *)
LEMMA FreshStep ==
  ASSUME TypeOK, FreshAtStart, [Next]_vars
  PROVE  FreshAtStart'
<1>1. CASE Start
  BY <1>1 DEF Start, FreshAtStart
<1>2. CASE stack # <<>>
  <2>1. driver # "start"
    BY <1>2 DEF FreshAtStart
  <2>2. driver' # "start"
    BY <2>1 DEF Next, Advance, Terminated, vars, Start, AlreadyThere, Enter,
         RefuseCycle, Split, FinishStage, RunRoot, FinishRoot, Fail, SwallowEager,
         HandleInPython, Unwind, Exit
  <2> QED
    BY <2>2 DEF FreshAtStart
<1>3. CASE stack = <<>> /\ ~Start
  <2>1. Exit \/ UNCHANGED vars
    BY <1>3 DEF Next, Advance, Terminated, AlreadyThere, Enter,
         RefuseCycle, Reaches, Active, Split, FinishStage, RunRoot, FinishRoot, Fail,
         SwallowEager, HandleInPython, Unwind
  <2>2. CASE Exit
    BY <2>2 DEF Exit, FreshAtStart
  <2>3. CASE UNCHANGED vars
    BY <2>3 DEF vars, FreshAtStart
  <2> QED
    BY <2>1, <2>2, <2>3
<1> QED
  BY <1>1, <1>2, <1>3

(* The activations on the stack and the failed modules share out the       *)
(* "+ADVANCE" names.                                                       *)
LEMMA ScopesStep ==
  ASSUME TypeOK, FreshAtStart, ScopesAreActivations, [Next]_vars
  PROVE  ScopesAreActivations'
<1> DEFINE n == Len(stack)
<1>1. stack \in Seq(Frame) /\ n \in Nat
  BY DEF TypeOK
<1>2. /\ scopes = OnStack \cup failed
      /\ OnStack \cap failed = {}
      /\ \A i, j \in 1..n : stack[i].mod = stack[j].mod => i = j
  BY DEF ScopesAreActivations
<1>3. CASE Stays
  <2>1. OnStack' = OnStack
    BY <1>3 DEF Stays, OnStack
  <2> QED
    BY <1>1, <1>2, <1>3, <2>1 DEF Stays, ScopesAreActivations
<1>4. ASSUME NEW m \in Modules, NEW t \in Phase, NEW e \in Edge \cup {NoEdge},
             Pushes(m, t, e)
      PROVE  ScopesAreActivations'
  <2> DEFINE f == NewFrame(m, t, e)
  <2>1. f \in Frame /\ f.mod = m
    BY NewFrameIsFrame DEF NewFrame
  <2> HIDE DEF f
  <2>2. /\ Len(stack') = n + 1
        /\ \A i \in 1..n : stack'[i] = stack[i]
        /\ stack'[n + 1] = f
    BY <1>1, <1>4, <2>1, PushStack DEF Pushes, f
  <2>3. OnStack' = OnStack \cup {m}
    <3>1. OnStack' = {stack'[i].mod : i \in 1..n + 1}
      BY <2>2 DEF OnStack
    <3>2. 1..n + 1 = (1..n) \cup {n + 1}
      BY <1>1
    <3> QED
      BY <2>1, <2>2, <3>1, <3>2 DEF OnStack
  <2>4. m \notin OnStack /\ m \notin failed
    BY <1>2, <1>4 DEF Pushes
  <2>5. \A i, j \in 1..n + 1 : stack'[i].mod = stack'[j].mod => i = j
    BY <1>1, <1>2, <2>1, <2>2, <2>4 DEF OnStack
  <2> QED
    BY <1>2, <1>4, <2>2, <2>3, <2>4, <2>5 DEF Pushes, ScopesAreActivations
<1>5. CASE Returns \/ Throws
  <2>1. stack # <<>> /\ stack' = Pop
    BY <1>5 DEF Returns, Throws
  <2>2. /\ n \in Nat \ {0} /\ Top = stack[n]
        /\ Len(stack') = n - 1
        /\ \A i \in 1..n - 1 : stack'[i] = stack[i]
    BY <1>1, <2>1, PopStack, TopIsFrame
  <2>3. OnStack' = OnStack \ {Top.mod}
    <3>1. OnStack' = {stack'[i].mod : i \in 1..n - 1}
      BY <2>2 DEF OnStack
    <3>2. 1..n = (1..n - 1) \cup {n} /\ n \notin 1..n - 1
      BY <2>2
    <3>3. \A i \in 1..n - 1 : stack[i].mod # Top.mod
      BY <1>2, <2>2, <3>2
    <3> QED
      BY <2>2, <3>1, <3>2, <3>3 DEF OnStack
  <2>4. \A i, j \in 1..n - 1 : stack'[i].mod = stack'[j].mod => i = j
    BY <1>2, <2>2
  <2>5. Top.mod \in OnStack
    BY <2>2 DEF OnStack
  <2>6. scopes' = OnStack' \cup failed' /\ OnStack' \cap failed' = {}
    BY <1>2, <1>5, <2>3, <2>5 DEF Returns, Throws
  <2> QED
    BY <2>2, <2>4, <2>6 DEF ScopesAreActivations
<1> QED
  BY <1>3, <1>4, <1>5, StepShape

(* "+ADVANCE" names in scopes_in_progress are exactly the modules that are *)
(* being advanced and those whose advancing failed: nothing can re-enter a *)
(* module, and a failed module can never be tried again.                   *)
THEOREM ScopesCorrect == Spec => []ScopesAreActivations
<1>1. Init => TypeOK /\ FreshAtStart /\ ScopesAreActivations
  <2> SUFFICES ASSUME Init PROVE FreshAtStart /\ ScopesAreActivations
    BY TypeCorrectInit
  <2> QED
    BY DEF Init, FreshAtStart, ScopesAreActivations, OnStack
<1>2. /\ TypeOK /\ FreshAtStart /\ ScopesAreActivations /\ [Next]_vars
      => (TypeOK /\ FreshAtStart /\ ScopesAreActivations)'
  BY TypeCorrectStep, FreshStep, ScopesStep
<1> QED
  BY <1>1, <1>2, PTL DEF Spec
===============================================================================
