---------------------------------- MODULE JitSound ----------------------------------
(***************************************************************************)
(* Programs that the compiler has no reason to refuse, and the inductive   *)
(* invariant that JitCompiler keeps for them: what is compiled before the  *)
(* split of a call is compiled again before it, and values have the types  *)
(* that they were compiled for.                                            *)
(***************************************************************************)
EXTENDS JitInvariant

(* Types that the functions of program p can be said to return: what they  *)
(* do return, and what they are annotated with.  Only with eager           *)
(* compilation can the annotation be missing: without it, the compiled     *)
(* caller may end before its split.                                        *)
ResultTypes(p) ==
  {R \in [Scopes -> Types] :
     /\ \A f \in Scopes :
          IF p.returns[f] = "result"
          THEN LET n == Len(p.body[f])
               IN n > 0 /\ p.body[f][n].suite = 0 /\ R[f] = R[p.body[f][n].callee]
          ELSE R[f] = p.returns[f]
     /\ \A f \in Functions : \/ p.annotation[f] = R[f]
                             \/ p.eager /\ p.annotation[f] = Indeterminate}

(* All of the program compiles, and its nested suites are suites.          *)
SoundProgram(p) ==
  /\ ResultTypes(p) # {}
  /\ p.returns[Root] # "result"
  /\ \A f \in Scopes :
       /\ p.refused[f] = {}
       /\ \A i \in 1..Len(p.body[f]) : p.body[f][i].suite # 0 =>
            \A j \in i..(p.body[f][i].suite - 1) : p.body[f][j].suite = p.body[f][i].suite

Sound == \A p \in Programs : SoundProgram(p)
-------------------------------------------------------------------------------------
Result(p, f) == (CHOOSE R \in ResultTypes(p) : TRUE)[f]

(* The type of the argument of the call at position k of f.                *)
TypeOfCall(p, f, k) ==
  IF p.body[f][k].arg = "result" THEN Result(p, p.body[f][k - 1].callee) ELSE p.body[f][k].arg

(* At position k of f, "last" is the result that is passed or returned.    *)
LastFits(p, f, k, last) ==
  \/ k \in 1..Len(p.body[f]) /\ p.body[f][k].arg = "result"
  \/ k = Len(p.body[f]) + 1 /\ p.returns[f] = "result"
  => last = Result(p, p.body[f][k - 1].callee)

(* A stub at position k of f keeps the compiler from coming to position m. *)
Cuts(p, f, k, m) == k < m /\ (p.body[f][k].suite = 0 \/ m < p.body[f][k].suite)

(* The calls without which position m is not compiled can be compiled.     *)
Known(p, table, f, k) ==
  \E i \in 1..Len(table[p.body[f][k].callee]) :
     table[p.body[f][k].callee][i].arg = TypeOfCall(p, f, k)
KnownBefore(p, table, f, m) ==
  \A k \in 1..Len(p.body[f]) : Cuts(p, f, k, m) => Known(p, table, f, k)
-------------------------------------------------------------------------------------
(* What a visitor that has come to position pc of f made of the call at k: *)
(* a call of its type, a stub for itself, nothing if a stub before cuts it *)
(* off.                                                                    *)
SiteSound(p, table, f, k, site) ==
  /\ site.kind = "direct" => site.target # 0 /\ site.type = Result(p, p.body[f][k].callee)
  /\ site.kind = "stub" => table[site.target].split = k

NothingAfter(p, f, sites, pc, k) ==
  \A m \in 1..Len(p.body[f]) : Cuts(p, f, k, m) => m # pc /\ sites[m].kind = "absent"
CutOffAt(p, f, sites, k) ==
  \E j \in 1..Len(p.body[f]) : sites[j].kind = "stub" /\ Cuts(p, f, j, k)

SitesSound(p, table, f, sites, pc) ==
  \A k \in 1..Len(p.body[f]) :
    /\ SiteSound(p, table, f, k, sites[k])
    /\ k >= pc => sites[k].kind = "absent"
    /\ k < pc /\ sites[k].kind = "absent" => CutOffAt(p, f, sites, k)
    /\ sites[k].kind = "stub" => NothingAfter(p, f, sites, pc, k)

CodeSound ==
  \A c \in 1..Len(code) :
    SitesSound(program, callsites, code[c].fn, code[c].sites, Len(program.body[code[c].fn]) + 1)

(* A call site is of the call at its split, and the calls without which    *)
(* the compiler does not come to the split have been compiled.             *)
CallsiteSound(p, table, s) ==
  /\ s.split \in 1..Len(p.body[s.fn])
  /\ s.callee = p.body[s.fn][s.split].callee
  /\ s.arg = TypeOfCall(p, s.fn, s.split)
  /\ KnownBefore(p, table, s.fn, s.split)

CallsitesSound ==
  /\ program.eager => callsites = <<>>
  /\ \A t \in 1..Len(callsites) : CallsiteSound(program, fragments, callsites[t])

(* A fragment has code and its function's type, or is being compiled; the  *)
(* splits that it has are in its code.                                     *)
BeingCompiled(stack, f, i) == \E j \in 1..Len(stack) : stack[j].fn = f /\ stack[j].index = i

SplitsSound(p, objects, f, fragment) ==
  \A k \in fragment.splits :
    /\ fragment.compiled # 0
    /\ k \in 1..Len(p.body[f])
    /\ objects[fragment.compiled].sites[k].kind = "direct"

FragmentsSound ==
  /\ \A f \in Functions : \A i \in 1..Len(fragments[f]) :
       \/ fragments[f][i].compiled # 0 /\ fragments[f][i].returnType = Result(program, f)
       \/ BeingCompiled(compiling, f, i)
  /\ \A f \in Scopes : \A i \in 1..Len(fragments[f]) :
       SplitsSound(program, code, f, fragments[f][i])

(* One activation of compile_fragment.                                     *)
ActivationSound(p, table, a) ==
  /\ SitesSound(p, table, a.fn, a.sites, a.pc)
  /\ \A k \in a.splits : k \in 1..Len(p.body[a.fn]) /\ a.sites[k].kind = "direct"
  /\ LastFits(p, a.fn, a.pc, a.last)
  /\ a.fn = Root => a.returned = {}
  /\ p.eager => a.pc <= Len(p.body[a.fn]) + 1 /\ a.returned = {}

(* A visitor that was sent for the split at position s comes to it.        *)
ComesToSplit(a, s) == a.pc <= s \/ s \in a.splits

StackSound ==
  /\ \A i \in 1..Len(compiling) : ActivationSound(program, callsites, compiling[i])
  /\ ~program.eager => Len(compiling) <= 1
  /\ ~program.eager /\ compiling # <<>> =>
       /\ Top.pc <= Len(program.body[Top.fn]) => KnownBefore(program, fragments, Top.fn, Top.pc)
       /\ Top.why = "caller" => ComesToSplit(Top, callsites[resolving].split)

(* A frame is at a call that was compiled, and the innermost one at the    *)
(* split that is being resolved.                                           *)
SiteAt(objects, frame) == objects[frame.code].sites[frame.pc]

FrameSound(p, objects, frame) ==
  /\ LastFits(p, frame.fn, frame.pc, frame.last)
  /\ frame.pc <= Len(p.body[frame.fn]) => SiteAt(objects, frame).kind # "absent"

Calls(p, objects, frame, f) ==
  /\ SiteAt(objects, frame).kind = "direct"
  /\ p.body[frame.fn][frame.pc].callee = f

FramesSound ==
  /\ \A i \in 1..Len(frames) : FrameSound(program, code, frames[i])
  /\ \A i \in 1..Len(frames) : i < Len(frames) => Calls(program, code, frames[i], frames[i + 1].fn)
  /\ resolving # 0 => /\ Running.pc = callsites[resolving].split
                      /\ Known(program, fragments, Running.fn, Running.pc)

OutcomeSound ==
  /\ raising = FALSE /\ outcome \in {"none", "ended"}
  /\ compiling # <<>> \/ resolving # 0 => outcome = "none"
  /\ compiling # <<>> /\ compiling[1].why = "root" => frames = <<>>

SoundInv == /\ JitInv /\ SoundProgram(program)
            /\ CodeSound /\ CallsitesSound /\ FragmentsSound
            /\ StackSound /\ FramesSound /\ OutcomeSound
=====================================================================================
