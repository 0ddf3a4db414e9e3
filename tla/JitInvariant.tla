------------------------------ MODULE JitInvariant ------------------------------
(***************************************************************************)
(* The inductive invariant of JitCompiler, for programs without recursion: *)
(* what the tables, the stub tokens, the code and the frames have to do    *)
(* with each other while compilations nest, fail and replace code.         *)
(***************************************************************************)
EXTENDS JitCompiler

(* No function calls itself, directly or through others: functions can be  *)
(* numbered so that each calls higher-numbered ones only.                  *)
NoRecursion ==
  \A p \in Programs : \A f \in Scopes : \A k \in 1..Len(p.body[f]) : p.body[f][k].callee > f

(* A function has one fragment for given types, and each fragment has no   *)
(* code or code of its function.                                           *)
FragmentsFit ==
  /\ Len(fragments[Root]) >= 1
  /\ \A f \in Scopes : \A i \in 1..Len(fragments[f]) :
       LET c == fragments[f][i].compiled
       IN c = 0 \/ (c \in 1..Len(code) /\ code[c].fn = f)
  /\ \A f \in Scopes : \A i, j \in 1..Len(fragments[f]) :
       fragments[f][i].arg = fragments[f][j].arg => i = j

(* What code of function f has for its calls: a stub's token is of a call  *)
(* site in f, and a direct call goes to nothing or to code of the callee.  *)
SitesFit(f, sites) ==
  /\ Len(sites) = Len(program.body[f])
  /\ \A k \in 1..Len(sites) :
       /\ sites[k].kind = "stub" =>
            sites[k].target \in 1..Len(callsites) /\ callsites[sites[k].target].fn = f
       /\ sites[k].kind = "direct" =>
            \/ sites[k].target = 0
            \/ /\ sites[k].target \in 1..Len(code)
               /\ code[sites[k].target].fn = program.body[f][k].callee

(* The call site is in a fragment that has code: it is never removed.      *)
InCompiled(site) ==
  /\ site.index \in 1..Len(fragments[site.fn])
  /\ fragments[site.fn][site.index].compiled # 0

CodeFitsAt(c) ==
  /\ SitesFit(code[c].fn, code[c].sites)
  /\ \A k \in 1..Len(code[c].sites) :
       code[c].sites[k].kind = "stub" => InCompiled(callsites[code[c].sites[k].target])

CodeFits == \A c \in 1..Len(code) : CodeFitsAt(c)

(* The activations of compile_fragment are of different functions, each    *)
(* called by the one before it, at the call where that one waits.  A       *)
(* fragment compiled eagerly is the last of its function, as the catch     *)
(* clause of visit(FunctionCall) assumes when it removes the last one.     *)
ActivationFits(i) ==
  LET a == compiling[i]
  IN /\ a.index \in 1..Len(fragments[a.fn])
     /\ a.pc >= 1
     /\ SitesFit(a.fn, a.sites)
     /\ \A k \in 1..Len(a.sites) :
          a.sites[k].kind = "stub" => callsites[a.sites[k].target].index = a.index
     /\ a.why = "eager" <=> i > 1
     /\ a.why = "eager" => /\ a.index = Len(fragments[a.fn])
                           /\ fragments[a.fn][a.index].compiled = 0
     /\ i < Len(compiling) => /\ a.pc <= Len(program.body[a.fn])
                              /\ program.body[a.fn][a.pc].callee = compiling[i + 1].fn

StackFits ==
  /\ \A i \in 1..Len(compiling) : ActivationFits(i)
  /\ \A i, j \in 1..Len(compiling) : i < j => compiling[i].fn < compiling[j].fn
  /\ compiling # <<>> =>
       /\ ~raising
       /\ compiling[1].why = "root" <=> resolving = 0
       /\ compiling[1].why = "root" => compiling[1].fn = Root
       /\ compiling[1].why = "caller" => compiling[1].fn = callsites[resolving].fn

(* A frame runs code of its function; all but the innermost are in a call. *)
FrameFits(i) ==
  /\ frames[i].code \in 1..Len(code)
  /\ code[frames[i].code].fn = frames[i].fn
  /\ frames[i].pc \in 1..(Len(program.body[frames[i].fn]) + 1)
  /\ i < Len(frames) => frames[i].pc <= Len(program.body[frames[i].fn])

FramesFit ==
  /\ \A i \in 1..Len(frames) : FrameFits(i)
  /\ raising \/ resolving # 0 => frames # <<>> /\ Running.pc <= Len(program.body[Running.fn])
  /\ resolving # 0 => /\ ~raising
                      /\ callsites[resolving].fn = Running.fn
                      /\ InCompiled(callsites[resolving])

InProgressFits ==
  inProgress = {ScopeName(fragments, compiling[i].fn, compiling[i].index) : i \in 1..Len(compiling)}

JitInv == /\ TypeOK /\ program \in Programs
          /\ FragmentsFit /\ CodeFits /\ StackFits /\ FramesFit /\ InProgressFits
=================================================================================
