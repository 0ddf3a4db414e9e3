---------------------------- MODULE LoaderInvariant ----------------------------
(***************************************************************************)
(* The inductive invariant of the module loader: what its safety           *)
(* properties rest on, and what they do not say themselves.                *)
(***************************************************************************)
EXTENDS ModuleLoader

(* Nothing has happened before main() calls advance_module_phase. *)
FreshAtStart ==
  driver = "start" =>
    /\ phase = FirstPhase /\ stack = <<>> /\ scopes = {} /\ failed = {}
    /\ error = NoError

(* The references that activations, errors and excuses name are references *)
(* of the program; only the call in main() serves none.                    *)
ReferencesAreReal ==
  /\ \A i \in 2..Len(stack) : stack[i].via \in program.edges
  /\ error # NoError /\ stack # <<>> => error.via \in program.edges
  /\ caught \subseteq program.edges

(* A root scope runs in phase Analyzed only, when nothing is put off.      *)
FitsAt(i) ==
  /\ stack[i].running => phase[stack[i].mod] = Analyzed /\ stack[i].deferred = {}
  /\ stack[i].deferred # {} => phase[stack[i].mod] = Analyzed
StagesFit == \A i \in 1..Len(stack) : FitsAt(i)

(* A reference that an activation's stage asks for is still before it, or  *)
(* the module referred to is ready.                                        *)
Ready(e, p) == phase[e.dst] >= Needed(p) \/ (p = Analyzed /\ e \in caught)
CoveredAt(i) ==
  \A e \in Requests(program, stack[i].mod, phase[stack[i].mod]) :
     \/ e \in stack[i].todo \cup stack[i].deferred
     \/ Ready(e, phase[stack[i].mod])
NothingForgotten == \A i \in 1..Len(stack) : CoveredAt(i)

(* The root scope of a module on the stack was entered if it is running;   *)
(* that of a module at rest, if it is imported; a failed module rests      *)
(* before Imported for ever.  A built-in module is imported from the start. *)
RunsCounted ==
  /\ \A i \in 1..Len(stack) :
        rootRuns[stack[i].mod] = IF stack[i].running THEN 1 ELSE 0
  /\ \A m \in Modules \ (Builtins \cup OnStack \cup failed) :
        rootRuns[m] = IF phase[m] = Imported THEN 1 ELSE 0
  /\ \A m \in failed :
        /\ phase[m] < Imported
        /\ rootRuns[m] <= IF phase[m] = Analyzed THEN 1 ELSE 0
  /\ \A m \in Modules \ Builtins :
        globals[m] = IF phase[m] >= Analyzed THEN 1 ELSE 0
  /\ \A m \in Builtins : phase[m] = Imported

ImportInv ==
  /\ TypeOK
  /\ FreshAtStart
  /\ ScopesAreActivations
  /\ ActivationsHaveWork
  /\ ReferencesAreReal
  /\ StagesFit
  /\ NothingForgotten
  /\ RunsCounted
-------------------------------------------------------------------------------
(* The stack of activations is a path of references from __main__: each    *)
(* activation serves one of the module below it, and what is still before  *)
(* it are references of its own module.                                    *)
PathOfReferences ==
  /\ stack # <<>> => stack[1].mod = Main
  /\ \A i, j \in 1..Len(stack) : i < j => stack[j].mod \in Reachable(stack[i].mod)
  /\ \A i \in 2..Len(stack) : stack[i].via.src = stack[i - 1].mod

OwnReferences(i) ==
  \A e \in stack[i].todo \cup stack[i].deferred :
     e \in program.edges /\ e.src = stack[i].mod
PendingFits ==
  /\ \A i \in 1..Len(stack) : OwnReferences(i)
  /\ error # NoError /\ stack # <<>> => error.via.src = Top.mod

(* Nothing fails without a cause, and nothing goes on after a failure that *)
(* was not handled.                                                        *)
Cause ==
  \E m \in Reachable(Main) \cup {Main} : program.defect[m] # "none" \/ OnCycle(m)
FailuresHaveCause ==
  /\ error # NoError \/ failed # {} \/ driver = "crashed" => Cause
  /\ failed # {} => error # NoError \/ caught # {}
  /\ error.type = "none" => error = NoError

CauseInv ==
  /\ PathOfReferences
  /\ PendingFits
  /\ FailuresHaveCause
  /\ CyclicIsExplained

(* Whatever fails or is excused: phases, activations, references and       *)
(* errors agree with each other.                                           *)
LoaderInv == ImportInv /\ CauseInv
===============================================================================
