----------------------------- MODULE ModuleLoader -----------------------------
(***************************************************************************)
(* How modules are imported (source/Compiler/Compile.cc,                   *)
(* advance_module_phase, and the visitors that call it).                   *)
(*                                                                         *)
(* A module climbs the phases Initial, Parsed, Annotated, Analyzed and     *)
(* Imported.  advance_module_phase is re-entrant: the visitor that carries *)
(* a module to its next phase meets import statements and attributes of    *)
(* other modules and calls advance_module_phase for them, and the root     *)
(* scope, once it runs, may call back into the compiler, which does the    *)
(* same.  The activations that are live form the variable stack.           *)
(***************************************************************************)
EXTENDS ImportGraph, Sequences, FiniteSets

CONSTANTS
  Eager,       \* FALSE iff -XNoEagerCompilation was given
  MaxRetries   \* bound: how often root code may repeat a call that failed

ASSUME LoaderAssumption == Eager \in BOOLEAN /\ MaxRetries \in Nat

VARIABLES
  program,     \* the program being run; never changes
  phase,       \* module -> phase
  scopes,      \* modules whose "+ADVANCE" name is in scopes_in_progress
  globals,     \* module -> how often its global space was initialized
  rootRuns,    \* module -> how often its root scope was entered
  stack,       \* activations of advance_module_phase, outermost first
  error,       \* the C++ exception in flight, if any
  caught,      \* history: references whose failure the program went on after
  failed,      \* history: modules whose activation was left by an exception
  retries,     \* history: failed calls that root code repeated
  driver       \* main(): "start", "running", "exited", "crashed"

vars == <<program, phase, scopes, globals, rootRuns, stack, error,
          caught, failed, retries, driver>>

(* The call that main() makes serves no reference. *)
NoEdge == [src |-> Main, dst |-> Main, kind |-> "none", place |-> "none"]

(***************************************************************************)
(* One activation.  "todo" holds the references that the current stage's   *)
(* visitor has not yet come to, "deferred" those that were left to the     *)
(* run-time compiler (a split), "via" the reference of the caller that     *)
(* this activation serves, "running" whether the root scope is executing.  *)
(***************************************************************************)
Frame == [mod : Modules, target : Phase, via : Edge \cup {NoEdge},
          running : BOOLEAN, todo : SUBSET Edge, deferred : SUBSET Edge]

NoError == [type |-> "none", mod |-> Main, via |-> NoEdge]
Error   == [type : {"none", "parse_error", "compile_error", "cyclic"},
            mod : Modules, via : Edge \cup {NoEdge}]

Top      == stack[Len(stack)]
OnStack  == {stack[i].mod : i \in 1..Len(stack)}
Defect(m) == program.defect[m]

(* The stage at which the code of the top activation would be refused. *)
StageName(p) == CASE p = Initial   -> "parse"
                  [] p = Parsed    -> "annotate"
                  [] p = Annotated -> "analyze"
                  [] OTHER         -> "compile"

Pop == SubSeq(stack, 1, Len(stack) - 1)
SetTop(f) == [stack EXCEPT ![Len(stack)] = f]

NewFrame(m, t, e) ==
  [mod |-> m, target |-> t, via |-> e, running |-> FALSE,
   todo |-> Requests(program, m, phase[m]), deferred |-> {}]

Raise(type, m, e) == error' = [type |-> type, mod |-> m, via |-> e]

Active == stack # <<>> /\ error = NoError

(* "if (module->phase >= phase) return", for the phase reference e needs. *)
FarEnoughForCaller(e) == phase[e.dst] >= phase[Top.mod]
FurtherThanNeeded(e) == phase[e.dst] > Needed(phase[Top.mod])
FarEnough(e) == phase[e.dst] >= Needed(phase[Top.mod])

(* scopes_in_progress.emplace finds the name there already. *)
InProgressUntilAnalyzed(m) == m \in scopes /\ phase[m] < Analyzed
InProgress(m) == m \in scopes

(* The normal end of advance_module_phase. *)
LeaveNameBehind(m) == scopes' = scopes /\ stack' = Pop
Leave(m) == scopes' = scopes \ {m} /\ stack' = Pop

(* module->phase = ..., at the end of a stage. *)
NoPromotion(m) == phase
Promote(m) == [phase EXCEPT ![m] = @ + 1]

(* The visitor goes on, and leaves reference e to the run-time compiler. *)
PutOff(e) ==
  stack' = SetTop([Top EXCEPT !.todo = @ \ {e}, !.deferred = @ \cup {e}])
-------------------------------------------------------------------------------
Init ==
  /\ program \in Programs
  /\ phase = FirstPhase
  /\ scopes = {}
  /\ globals = [m \in Modules |-> 0]
  /\ rootRuns = [m \in Modules |-> 0]
  /\ stack = <<>>
  /\ error = NoError
  /\ caught = {}
  /\ failed = {}
  /\ retries = 0
  /\ driver = "start"

(* main() creates __main__ and advances it to Imported. *)
Start ==
  /\ driver = "start"
  /\ driver' = "running"
  /\ scopes' = scopes \cup {Main}
  /\ stack' = <<NewFrame(Main, Imported, NoEdge)>>
  /\ UNCHANGED <<program, phase, globals, rootRuns, error, caught, failed, retries>>

(* A visitor comes to reference e; in the compilation stage this is a      *)
(* reference of the root scope, or of a function compiled eagerly; in a    *)
(* root scope that runs it is one that the run-time compiler comes to.     *)
Reaches(e) ==
  /\ Active
  /\ e \in Top.todo
  /\ \/ phase[Top.mod] # Analyzed
     \/ Top.running
     \/ e.place = "root"
     \/ Eager

(* advance_module_phase returns at once: the module is far enough. *)
AlreadyThere(e) ==
  /\ Reaches(e)
  /\ FarEnough(e)
  /\ stack' = SetTop([Top EXCEPT !.todo = @ \ {e}])
  /\ UNCHANGED <<program, phase, scopes, globals, rootRuns, error, caught,
                 failed, retries, driver>>

(* advance_module_phase starts to work on the module. *)
Enter(e) ==
  /\ Reaches(e)
  /\ ~FarEnough(e)
  /\ ~InProgress(e.dst)
  /\ scopes' = scopes \cup {e.dst}
  /\ stack' = Append(stack, NewFrame(e.dst, Needed(phase[Top.mod]), e))
  /\ UNCHANGED <<program, phase, globals, rootRuns, error, caught, failed,
                 retries, driver>>

(* The module's name is in scopes_in_progress already. *)
RefuseCycle(e) ==
  /\ Reaches(e)
  /\ ~FarEnough(e)
  /\ InProgress(e.dst)
  /\ Raise("cyclic", e.dst, e)
  /\ UNCHANGED <<program, phase, scopes, globals, rootRuns, stack, caught,
                 failed, retries, driver>>

(* The compiler comes to a call whose callee it does not compile now: it   *)
(* writes a call to _resolve_function_call and splits the fragment.        *)
Split(e) ==
  /\ Active
  /\ phase[Top.mod] = Analyzed /\ ~Top.running
  /\ e \in Top.todo /\ e.place = "func" /\ ~Eager
  /\ PutOff(e)
  /\ UNCHANGED <<program, phase, scopes, globals, rootRuns, error, caught,
                 failed, retries, driver>>

(* Lexing and parsing, AnnotationVisitor or AnalysisVisitor is through with *)
(* the module.  Analysis ends in initialize_global_space_for_module.  The  *)
(* loop of advance_module_phase goes on until the target is reached; the   *)
(* name is then taken out of scopes_in_progress.                           *)
FinishStage ==
  LET m == Top.mod
      next == phase[m] + 1
  IN /\ Active
     /\ phase[m] < Analyzed
     /\ Top.todo = {}
     /\ Defect(m) # StageName(phase[m])
     /\ phase' = Promote(m)
     /\ globals' = IF next = Analyzed THEN [globals EXCEPT ![m] = @ + 1]
                                      ELSE globals
     /\ IF next = Top.target
        THEN Leave(m)
        ELSE /\ scopes' = scopes
             /\ stack' = SetTop([Top EXCEPT !.todo = Requests(program, m, next)])
     /\ UNCHANGED <<program, rootRuns, error, caught, failed, retries, driver>>

(* The root scope is compiled as far as the first splits and is called.    *)
(* What lies behind a split is compiled when the call is resolved.         *)
RunRoot ==
  LET m == Top.mod
  IN /\ Active
     /\ phase[m] = Analyzed /\ ~Top.running
     /\ \/ Top.todo = {} /\ Defect(m) # "compile"
        \/ Top.deferred # {}
     /\ rootRuns' = [rootRuns EXCEPT ![m] = @ + 1]
     /\ stack' = SetTop([Top EXCEPT !.running = TRUE,
                                    !.todo = @ \cup Top.deferred,
                                    !.deferred = {}])
     /\ UNCHANGED <<program, phase, scopes, globals, error, caught, failed,
                    retries, driver>>

(* The root scope returns and has raised nothing. *)
FinishRoot ==
  LET m == Top.mod
  IN /\ Active
     /\ Top.running
     /\ Top.todo = {}
     /\ Defect(m) \notin {"compile", "raise"}
     /\ phase' = [phase EXCEPT ![m] = Imported]
     /\ Leave(m)
     /\ UNCHANGED <<program, globals, rootRuns, error, caught, failed, retries, driver>>

(* The module's own code is refused by the visitor of the current stage, or *)
(* its root scope raises: a C++ exception leaves advance_module_phase.  The *)
(* name stays in scopes_in_progress: only the normal return erases it.     *)
Fail ==
  LET m == Top.mod
  IN /\ Active
     /\ IF Top.running THEN Defect(m) \in {"compile", "raise"}
                       ELSE Defect(m) = StageName(phase[m])
     /\ Raise(IF phase[m] = Initial THEN "parse_error" ELSE "compile_error", m, Top.via)
     /\ failed' = failed \cup {m}
     /\ stack' = Pop
     /\ UNCHANGED <<program, phase, scopes, globals, rootRuns, caught, retries, driver>>

(* The error comes out of a function that visit(FunctionCall) compiled     *)
(* eagerly: it catches what is a compile_error, and nothing else.          *)
CaughtByVisitor ==
  /\ phase[Top.mod] = Analyzed /\ ~Top.running
  /\ error.via.place = "func"
  /\ error.type # "parse_error"

(* The fragment is dropped, the call is left to the run-time compiler and  *)
(* the error goes no further.                                              *)
SwallowEager ==
  /\ stack # <<>> /\ error # NoError
  /\ CaughtByVisitor
  /\ error' = NoError
  /\ caught' = caught \cup {error.via}
  /\ PutOff(error.via)
  /\ UNCHANGED <<program, phase, scopes, globals, rootRuns, failed, retries, driver>>

(* jit_compile_scope turned the error into a PyJitCompilerError, and an    *)
(* except clause of the running code handles it: the code then either goes *)
(* on without the call or makes another one that needs the same module     *)
(* (of another function, or with other types: see JitCompiler).            *)
HandleInPython(again) ==
  /\ stack # <<>> /\ error # NoError
  /\ Top.running
  /\ again => retries < MaxRetries
  /\ error' = NoError
  /\ caught' = caught \cup {error.via}
  /\ IF again
     THEN retries' = retries + 1 /\ stack' = stack
     ELSE /\ retries' = retries
          /\ stack' = SetTop([Top EXCEPT !.todo = @ \ {error.via}])
  /\ UNCHANGED <<program, phase, scopes, globals, rootRuns, failed, driver>>

(* Nobody handles it here: the exception leaves this activation too.  A    *)
(* root scope that returns an exception makes advance_module_phase throw.  *)
Unwind ==
  /\ stack # <<>> /\ error # NoError
  /\ ~CaughtByVisitor
  /\ error' = [error EXCEPT !.via = Top.via,
                            !.type = IF Top.running THEN "compile_error" ELSE @]
  /\ failed' = failed \cup {Top.mod}
  /\ stack' = Pop
  /\ UNCHANGED <<program, phase, scopes, globals, rootRuns, caught, retries, driver>>

(* The outermost call in main() returns, or throws. *)
Exit ==
  /\ driver = "running" /\ stack = <<>>
  /\ driver' = IF error = NoError THEN "exited" ELSE "crashed"
  /\ UNCHANGED <<program, phase, scopes, globals, rootRuns, stack, error,
                 caught, failed, retries>>

(* After a return the caller's visitor moves on past the reference: that   *)
(* step is AlreadyThere, since the module is then far enough.              *)
Advance ==
  \/ Start
  \/ \E e \in program.edges :
        AlreadyThere(e) \/ Enter(e) \/ RefuseCycle(e) \/ Split(e)
  \/ FinishStage
  \/ RunRoot
  \/ FinishRoot
  \/ Fail
  \/ SwallowEager
  \/ \E again \in BOOLEAN : HandleInPython(again)
  \/ Unwind
  \/ Exit

Terminated == driver \in {"exited", "crashed"} /\ UNCHANGED vars

Next == Advance \/ Terminated

(* One thread runs the compiler and the compiled code: it never stops      *)
(* between two steps.                                                      *)
Spec == Init /\ [][Next]_vars /\ WF_vars(Advance)
-------------------------------------------------------------------------------
TypeOK ==
  /\ WellFormed(program)
  /\ phase \in [Modules -> Phase]
  /\ scopes \subseteq Modules
  /\ globals \in [Modules -> Nat]
  /\ rootRuns \in [Modules -> Nat]
  /\ stack \in Seq(Frame)
  /\ error \in Error
  /\ caught \subseteq Edge \cup {NoEdge}
  /\ failed \subseteq Modules
  /\ retries \in 0..MaxRetries
  /\ driver \in {"start", "running", "exited", "crashed"}

(* The "+ADVANCE" names in scopes_in_progress are exactly the modules that *)
(* are being advanced and those whose advancing failed, no module is both, *)
(* and none is being advanced twice: nothing can re-enter a module, and a  *)
(* failed module can never be tried again.                                 *)
ScopesAreActivations ==
  /\ scopes = OnStack \cup failed
  /\ OnStack \cap failed = {}
  /\ \A i, j \in 1..Len(stack) : stack[i].mod = stack[j].mod => i = j

(* Every activation still has a phase to reach, whatever the activations   *)
(* nested in it did: the loop `while (module->phase < phase)` never finds  *)
(* its module moved by somebody else.                                      *)
ActivationsHaveWork ==
  \A i \in 1..Len(stack) : phase[stack[i].mod] < stack[i].target

(* The global space is initialized exactly once, when analysis ends (the   *)
(* logic_error of initialize_global_space_for_module never comes), and the *)
(* root scope is entered at most once and only with a global space.        *)
RootScopeOnce ==
  \A m \in Modules \ Builtins :
     /\ globals[m] = IF phase[m] >= Analyzed THEN 1 ELSE 0
     /\ rootRuns[m] <= globals[m]
     /\ phase[m] = Imported => rootRuns[m] = 1

(* The modules that a reference path leads to from m: those of every set   *)
(* that has what m and the modules of the set refer to.                    *)
Reachable(m) ==
  {d \in Modules : \A S \in SUBSET Modules :
     (\A e \in program.edges : e.src \in S \cup {m} => e.dst \in S) => d \in S}

OnCycle(m) == m \in Reachable(m)

(* The message "cyclic import dependency on module m" is given only if m   *)
(* does depend on itself: Compile.cc 167, "advance_module_phase cannot be  *)
(* called for a module on which it is already executing".                  *)
CyclicMeansCycle == error.type = "cyclic" => OnCycle(error.mod)

(* What does hold: without a cycle, the message is a consequence of an     *)
(* earlier failure of that module which the program survived.              *)
CyclicIsExplained ==
  error.type = "cyclic" =>
    OnCycle(error.mod) \/ (error.mod \in failed /\ caught # {})

(* The process ends with an exception only if a module that __main__ needs *)
(* is defective or depends on itself: the order in which modules are       *)
(* reached never makes a sound program fail.                               *)
CrashHasACause ==
  driver = "crashed" =>
    \E m \in Reachable(Main) \cup {Main} :
       program.defect[m] # "none" \/ OnCycle(m)

(* The imports implement the abstract promise of ImportOrder. *)
Order == INSTANCE ImportOrder WITH excused <- caught
RefinesImportOrder == Order!Spec
ImportsReady == Order!ImportsReady

(* The compiler comes to an end on every program, cyclic or defective ones *)
(* included.                                                               *)
Termination == <>(driver \in {"exited", "crashed"})

(* A program with no defect and no cycle is imported to the end. *)
SoundProgramsRun ==
  (\A m \in Modules : program.defect[m] = "none" /\ ~OnCycle(m))
    ~> (driver = "exited" /\ phase[Main] = Imported)
===============================================================================
