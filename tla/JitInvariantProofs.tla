---------------------------- MODULE JitInvariantProofs ----------------------------
(***************************************************************************)
(* The invariant of the just-in-time compiler holds in every state of      *)
(* every program without recursion, however its compilations nest, fail    *)
(* and replace code; what follows from it about the types and about the    *)
(* scopes in progress.                                                     *)
(***************************************************************************)
EXTENDS JitProofs, FiniteSetTheorems

(* What every step leaves: the program, the code, the call sites, and the  *)
(* fragments that have code.                                               *)
Kept ==
  /\ program' = program
  /\ \A c \in 1..Len(code) : c \in 1..Len(code') /\ code'[c] = code[c]
  /\ \A t \in 1..Len(callsites) : t \in 1..Len(callsites') /\ callsites'[t] = callsites[t]
  /\ \A g \in Scopes : \A j \in 1..Len(fragments[g]) :
       fragments[g][j].compiled # 0 =>
         j \in 1..Len(fragments'[g]) /\ fragments'[g][j].compiled # 0

(* What fits goes on to fit: sites, code, frames and activations.          *)
LEMMA SitesStay ==
  ASSUME Kept, NEW f, NEW s, SitesFit(f, s)
  PROVE  SitesFit(f, s)'
  BY DEF Kept, SitesFit

(* A call site in a fragment that has code goes on to be in one.           *)
LEMMA CompiledStays ==
  ASSUME Kept, NEW site, site.fn \in Scopes, InCompiled(site)
  PROVE  InCompiled(site)'
  BY DEF Kept, InCompiled

(* What jit_compile_scope reads of a call site.                            *)
LEMMA CallsiteIsCallsite ==
  ASSUME TypeOK, NEW t \in 1..Len(callsites)
  PROVE  /\ callsites[t].fn \in Scopes /\ callsites[t].index \in Nat
         /\ callsites[t].callee \in Functions /\ callsites[t].callee \in Scopes
         /\ callsites[t].arg \in FragmentTypes
<1>1. callsites \in Seq(Callsite)
  BY DEF TypeOK, Callsite
<1>2. callsites[t] \in Callsite
  BY <1>1
<1> QED
  BY <1>2, Numbers DEF Callsite

CodeObject == [fn : Scopes, sites : Seq(Site)]

(* The code buffer and the call sites are sequences.                       *)
LEMMA LengthsAreNumbers ==
  ASSUME TypeOK
  PROVE  /\ code \in Seq(CodeObject) /\ Len(code) \in Nat
         /\ \A c \in 1..Len(code) : c \in Nat
         /\ callsites \in Seq(Callsite) /\ Len(callsites) \in Nat
<1>1. code \in Seq(CodeObject) /\ callsites \in Seq(Callsite)
  BY DEF TypeOK, CodeObject, Callsite
<1> QED
  BY <1>1

(* A code object is of a function and has sites.                           *)
LEMMA CodeIsCode ==
  ASSUME TypeOK, NEW c \in 1..Len(code)
  PROVE  code[c].fn \in Scopes /\ code[c].sites \in Seq(Site)
<1>1. code \in Seq(CodeObject)
  BY DEF TypeOK, CodeObject
<1>2. code[c] \in CodeObject
  BY <1>1
<1> QED
  BY <1>2 DEF CodeObject

(* Code that fits goes on to fit: it is never changed.                     *)
LEMMA CodeStays ==
  ASSUME JitInv, Kept, NEW c \in 1..Len(code)
  PROVE  CodeFitsAt(c)'
<1>1. PICK f, s : f = code[c].fn /\ s = code[c].sites
  OBVIOUS
<1>2. /\ SitesFit(f, s)
      /\ \A k \in 1..Len(s) : s[k].kind = "stub" =>
           s[k].target \in 1..Len(callsites) /\ InCompiled(callsites[s[k].target])
  BY <1>1 DEF JitInv, CodeFits, CodeFitsAt, SitesFit
<1>3. code'[c].fn = f /\ code'[c].sites = s
  BY <1>1 DEF Kept
<1>4. ASSUME NEW k \in 1..Len(s), s[k].kind = "stub"
      PROVE  InCompiled(callsites[s[k].target])'
  <2>1. PICK t : t = s[k].target
    OBVIOUS
  <2>2. PICK site : site = callsites[t]
    OBVIOUS
  <2>3. t \in 1..Len(callsites) /\ site.fn \in Scopes /\ InCompiled(site)
    BY <1>2, <1>4, <2>1, <2>2, CallsiteIsCallsite DEF JitInv
  <2>4. InCompiled(site)' /\ callsites'[t] = site
    BY <2>2, <2>3, CompiledStays DEF Kept
  <2> QED
    BY <2>1, <2>4 DEF InCompiled
<1>5. SitesFit(f, s)'
  BY <1>2, SitesStay
<1> QED
  BY <1>3, <1>4, <1>5 DEF CodeFitsAt, SitesFit, InCompiled

(* A frame that a step leaves alone goes on to fit.                        *)
LEMMA FramesStay ==
  ASSUME JitInv, Kept, NEW i \in 1..Len(frames), frames' = frames
  PROVE  FrameFits(i)'
  BY DEF JitInv, Kept, FramesFit, FrameFits

(* An activation that a step leaves alone goes on to fit, if the table of  *)
(* its function does not change in what it relies on.                      *)
LEMMA ActivationStays ==
  ASSUME JitInv, Kept, NEW i \in 1..Len(compiling), compiling'[i] = compiling[i],
         LET g == compiling[i].fn
         IN /\ Len(fragments'[g]) = Len(fragments[g])
            /\ \A j \in 1..Len(fragments[g]) :
                 fragments'[g][j].compiled = fragments[g][j].compiled,
         i < Len(compiling') =>
           /\ compiling[i].pc <= Len(program.body[compiling[i].fn])
           /\ program.body[compiling[i].fn][compiling[i].pc].callee = compiling'[i + 1].fn
  PROVE  ActivationFits(i)'
<1>1. PICK f, s : f = compiling[i].fn /\ s = compiling[i].sites
  OBVIOUS
<1>2. ActivationFits(i)
  BY DEF JitInv, StackFits
<1>3. SitesFit(f, s)'
  BY <1>1, <1>2, SitesStay DEF ActivationFits
<1>4. SitesFit(compiling[i].fn, compiling[i].sites)'
  BY <1>1, <1>3 DEF SitesFit
<1>5. \A k \in 1..Len(s) : s[k].kind = "stub" =>
        callsites'[s[k].target].index = compiling[i].index
  BY <1>1, <1>2 DEF ActivationFits, SitesFit, Kept
<1> QED
  BY <1>1, <1>2, <1>4, <1>5 DEF ActivationFits, Kept
-------------------------------------------------------------------------------
(* A site that a visitor may write.                                        *)
SiteFits(f, k, site) ==
  /\ site.kind = "stub" =>
       site.target \in 1..Len(callsites) /\ callsites[site.target].fn = f
  /\ site.kind = "direct" =>
       \/ site.target = 0
       \/ /\ site.target \in 1..Len(code)
          /\ code[site.target].fn = program.body[f][k].callee

(* The n-th activation is on top now and has written a site; those under   *)
(* it are as they were.                                                    *)
LEMMA StackStep ==
  ASSUME JitInv, TypeOK', Kept, NEW n \in 1..Len(compiling),
         Len(compiling') = n, \A i \in 1..n : i # n => compiling'[i] = compiling[i],
         compiling'[n].fn = compiling[n].fn, compiling'[n].index = compiling[n].index,
         compiling'[n].why = compiling[n].why, compiling'[n].pc >= 1,
         NEW p \in 1..Len(compiling[n].sites), NEW site, SiteFits(compiling[n].fn, p, site)',
         site.kind = "stub" => callsites'[site.target].index = compiling'[n].index,
         Len(compiling'[n].sites) = Len(compiling[n].sites),
         \A k \in 1..Len(compiling[n].sites) :
            compiling'[n].sites[k] = IF k = p THEN site ELSE compiling[n].sites[k],
         \A i \in 1..n : LET g == compiling[i].fn
           IN /\ Len(fragments'[g]) = Len(fragments[g])
              /\ \A j \in 1..Len(fragments[g]) :
                   fragments'[g][j].compiled = fragments[g][j].compiled,
         raising' = raising, resolving' = resolving
  PROVE  StackFits'
<1>1. n \in Nat \ {0} /\ Len(compiling) \in Nat /\ n <= Len(compiling)
  <2>1. compiling \in Seq(Activation)
    BY DEF JitInv, TypeOK
  <2> QED
    BY <2>1
<1>2. \A i \in 1..Len(compiling) : ActivationFits(i)
  BY DEF JitInv, StackFits
<1>3. ASSUME NEW i \in 1..n, i # n
      PROVE  ActivationFits(i)'
  <2>1. /\ i \in 1..Len(compiling) /\ i < Len(compiling) /\ i < n
        /\ compiling'[i] = compiling[i] /\ compiling'[i + 1].fn = compiling[i + 1].fn
    BY <1>1, <1>3
  <2>2. /\ compiling[i].pc <= Len(program.body[compiling[i].fn])
        /\ program.body[compiling[i].fn][compiling[i].pc].callee = compiling'[i + 1].fn
    BY <1>2, <2>1 DEF ActivationFits
  <2> QED
    BY <2>1, <2>2, ActivationStays
<1>4. ActivationFits(n)'
  <2>1. PICK f, x, s, t : /\ f = compiling[n].fn /\ x = compiling[n].index
                          /\ s = compiling[n].sites /\ t = compiling'[n].sites
    OBVIOUS
  <2>2. /\ x \in 1..Len(fragments[f])
        /\ SitesFit(f, s)
        /\ \A k \in 1..Len(s) : s[k].kind = "stub" =>
             s[k].target \in 1..Len(callsites) /\ callsites[s[k].target].index = x
        /\ compiling[n].why = "eager" <=> n > 1
        /\ compiling[n].why = "eager" => x = Len(fragments[f]) /\ fragments[f][x].compiled = 0
    BY <1>2, <2>1, ZenonT(40) DEF ActivationFits, SitesFit
  <2>3. SitesFit(f, s)'
    BY <2>2, SitesStay
  <2>4. /\ Len(t) = Len(s)
        /\ \A k \in 1..Len(s) : t[k] = IF k = p THEN site ELSE s[k]
    BY <2>1
  <2>5. SiteFits(f, p, site)'
    BY <2>1 DEF SiteFits
  <2>6. SitesFit(f, t)'
    <3>1. Len(t) = Len(program'.body[f]) /\ Len(t) = Len(s)
      BY <2>3, <2>4 DEF SitesFit
    <3>2. ASSUME NEW k \in 1..Len(t)
          PROVE  SiteFits(f, k, t[k])'
      <4>1. CASE k = p
        BY <2>4, <2>5, <3>1, <4>1
      <4>2. CASE k # p
        BY <2>3, <2>4, <3>1, <4>2, SMTT(30) DEF SitesFit, SiteFits
      <4> QED
        BY <4>1, <4>2
    <3> QED
      BY <3>1, <3>2 DEF SitesFit, SiteFits
  <2>7. \A k \in 1..Len(s) : s[k].kind = "stub" => callsites'[s[k].target].index = x
    BY <2>2 DEF Kept
  <2>8. \A k \in 1..Len(t) : t[k].kind = "stub" => callsites'[t[k].target].index = x
    BY <2>1, <2>4, <2>7
  <2>9. /\ Len(fragments'[f]) = Len(fragments[f])
        /\ fragments'[f][x].compiled = fragments[f][x].compiled
    <3>1. n \in 1..n
      BY <1>1
    <3> QED
      BY <2>1, <2>2, <3>1
  <2>10. /\ compiling'[n].fn = f /\ compiling'[n].index = x /\ compiling'[n].sites = t
         /\ compiling'[n].why = compiling[n].why
    BY <2>1
  <2>11. SitesFit(compiling[n].fn, compiling[n].sites)'
    BY <2>6, <2>10 DEF SitesFit
  <2> QED
    BY <1>1, <2>2, <2>8, <2>9, <2>10, <2>11 DEF ActivationFits
<1>5. \A i \in 1..n : compiling'[i].fn = compiling[i].fn /\ compiling'[i].why = compiling[i].why
  BY <1>1
<1>6. \A i, j \in 1..n : i < j => compiling'[i].fn < compiling'[j].fn
  BY <1>1, <1>5 DEF JitInv, StackFits
<1>7. compiling # <<>> /\ 1 \in 1..n
  BY <1>1
<1>8. /\ ~raising'
      /\ compiling'[1].why = "root" <=> resolving' = 0
      /\ compiling'[1].why = "root" => compiling'[1].fn = Root
      /\ compiling'[1].why = "caller" => compiling'[1].fn = callsites'[resolving'].fn
  <2>1. /\ ~raising
        /\ compiling[1].why = "root" <=> resolving = 0
        /\ compiling[1].why = "root" => compiling[1].fn = Root
        /\ compiling[1].why = "caller" => compiling[1].fn = callsites[resolving].fn
    BY <1>7 DEF JitInv, StackFits
  <2>2. resolving # 0 => callsites'[resolving] = callsites[resolving]
    <3>1. resolving \in 0..Len(callsites) /\ callsites \in Seq(Callsite)
      BY DEF JitInv, TypeOK, Callsite
    <3> QED
      BY <3>1 DEF Kept
  <2> QED
    BY <1>5, <1>7, <2>1, <2>2
<1> QED
  BY <1>3, <1>4, <1>6, <1>8 DEF StackFits
-------------------------------------------------------------------------------
(* The table with which compile_fragment starts: a new fragment for new    *)
(* types at the end of the list of f, or the table as it is.               *)
TableFor(table, f) ==
  /\ table \in FragmentTable
  /\ \A g \in Scopes : g # f => table[g] = fragments[g]
  /\ Len(fragments[f]) <= Len(table[f])
  /\ \A j \in 1..Len(fragments[f]) : table[f][j] = fragments[f][j]
  /\ \A j \in 1..Len(table[f]) : j > Len(fragments[f]) => table[f][j].compiled = 0
  /\ \A i, j \in 1..Len(table[f]) : table[f][i].arg = table[f][j].arg => i = j

(* A compilation that starts on the table as it is: StartStep's            *)
(* hypothesis.                                                             *)
LEMMA SameTable ==
  ASSUME JitInv, NEW f \in Scopes
  PROVE  TableFor(fragments, f)
<1>1. fragments \in FragmentTable
  BY TableIsTable DEF JitInv
<1>2. Len(fragments[f]) \in Nat
  BY <1>1, TableIsTable
<1>3. \A i, j \in 1..Len(fragments[f]) : fragments[f][i].arg = fragments[f][j].arg => i = j
  BY DEF JitInv, FragmentsFit
<1> QED
  BY <1>1, <1>2, <1>3 DEF TableFor

(* A compilation that starts on the table with a fragment more for         *)
(* function f: StartStep's hypothesis.                                     *)
LEMMA LongerTable ==
  ASSUME JitInv, NEW f \in Scopes, NEW t \in FragmentTypes, FragmentIndex(f, t) = 0
  PROVE  LET table == [fragments EXCEPT ![f] = Append(@, NewFragment(f, t))]
         IN /\ TableFor(table, f)
            /\ Len(table[f]) \in 1..Len(table[f])
            /\ table[f][Len(table[f])].compiled = 0
<1> DEFINE r == NewFragment(f, t)
           table == [fragments EXCEPT ![f] = Append(@, r)]
           n == Len(fragments[f])
<1>1. fragments \in FragmentTable /\ n \in Nat
  BY TableIsTable DEF JitInv
<1>2. r \in Fragment /\ r.arg = t /\ r.compiled = 0
  BY NewFragmentIsFragment
<1>3. /\ table \in FragmentTable
      /\ Len(table[f]) = n + 1 /\ table[f][n + 1] = r
      /\ \A j \in 1..n : table[f][j] = fragments[f][j]
      /\ \A g \in Scopes : g # f => table[g] = fragments[g]
  <2> HIDE DEF r
  <2> QED
    BY <1>1, <1>2, AddFragment
<1> HIDE DEF r, table
<1>4. \A j \in 1..n : fragments[f][j].arg # t
  BY FragmentIndexFinds DEF JitInv
<1>5. \A i, j \in 1..n : fragments[f][i].arg = fragments[f][j].arg => i = j
  BY DEF JitInv, FragmentsFit
<1>6. \A i \in 1..n + 1 : i = n + 1 \/ i \in 1..n
  BY <1>1
<1>7. \A i, j \in 1..Len(table[f]) : table[f][i].arg = table[f][j].arg => i = j
  BY <1>2, <1>3, <1>4, <1>5, <1>6, SMTT(30)
<1>8. \A j \in 1..Len(table[f]) : j > n => table[f][j].compiled = 0
  BY <1>1, <1>2, <1>3, <1>6
<1>9. TableFor(table, f) /\ n + 1 \in 1..n + 1
  BY <1>1, <1>3, <1>7, <1>8 DEF TableFor
<1> QED
  BY <1>2, <1>3, <1>9 DEF table, r

(* The names of the scopes that are being compiled.                        *)
LEMMA ProgressAfterStart ==
  ASSUME InProgressFits, NEW n \in Nat, n = Len(compiling), Len(compiling') = n + 1,
         \A j \in 1..n : compiling'[j] = compiling[j],
         \A j \in 1..n : ScopeName(fragments', compiling[j].fn, compiling[j].index)
                          = ScopeName(fragments, compiling[j].fn, compiling[j].index),
         inProgress' = inProgress \cup
           {ScopeName(fragments', compiling'[n + 1].fn, compiling'[n + 1].index)}
  PROVE  InProgressFits'
<1> DEFINE Name(j) == ScopeName(fragments, compiling[j].fn, compiling[j].index)
           Later(j) == ScopeName(fragments', compiling'[j].fn, compiling'[j].index)
<1>1. inProgress = {Name(j) : j \in 1..n}
  BY DEF InProgressFits
<1>2. \A j \in 1..n : Later(j) = Name(j)
  OBVIOUS
<1>3. inProgress' = {Name(j) : j \in 1..n} \cup {Later(n + 1)}
  BY <1>1
<1> HIDE DEF Name, Later
<1>4. \A j \in 1..n + 1 : j = n + 1 \/ j \in 1..n
  OBVIOUS
<1>5. n + 1 \in 1..n + 1 /\ \A j \in 1..n : j \in 1..n + 1
  OBVIOUS
<1>6. inProgress' = {Later(j) : j \in 1..n + 1}
  <2>1. ASSUME NEW x \in inProgress' PROVE x \in {Later(j) : j \in 1..n + 1}
    BY <1>2, <1>3, <1>5, <2>1
  <2>2. ASSUME NEW j \in 1..n + 1 PROVE Later(j) \in inProgress'
    BY <1>2, <1>3, <1>4, <2>2
  <2> QED
    BY <2>1, <2>2, SMTT(30)
<1> QED
  BY <1>6 DEF Later, InProgressFits

(* The state after compile_fragment has started.                           *)
LEMMA StartView ==
  ASSUME JitInv, NEW table, NEW f \in Scopes, TableFor(table, f),
         NEW i \in 1..Len(table[f]), NEW why \in Why,
         StartCompiling(table, compiling, f, i, why)
  PROVE  /\ fragments' \in FragmentTable /\ SameFragments(table, fragments')
         /\ inProgress' = inProgress \cup {<<f, table[f][i].arg>>}
         /\ inProgress' \subseteq Scopes \X FragmentTypes
         /\ compiling' \in Seq(Activation)
         /\ Len(compiling') = Len(compiling) + 1
         /\ \A j \in 1..Len(compiling) : compiling'[j] = compiling[j]
         /\ \E a \in Activation :
              /\ a = compiling'[Len(compiling) + 1]
              /\ a.fn = f /\ a.index = i /\ a.why = why /\ a.pc = 1
              /\ a.sites = [k \in 1..Len(program.body[f]) |-> Absent]
<1>1. TypeOK /\ table \in FragmentTable /\ Len(compiling) \in Nat
  <2>1. TypeOK /\ table \in FragmentTable
    BY DEF JitInv, TableFor
  <2>2. compiling \in Seq(Activation)
    BY <2>1 DEF TypeOK
  <2> QED
    BY <2>1, <2>2
<1>2. /\ fragments' \in FragmentTable /\ SameFragments(table, fragments')
      /\ inProgress' = inProgress \cup {<<f, table[f][i].arg>>}
      /\ inProgress' \subseteq Scopes \X FragmentTypes
      /\ compiling' \in Seq(Activation)
      /\ Len(compiling') = Len(compiling) + 1
      /\ \A j \in 1..Len(compiling) : compiling'[j] = compiling[j]
      /\ compiling'[Len(compiling) + 1].fn = f
      /\ compiling'[Len(compiling) + 1].index = i
      /\ compiling'[Len(compiling) + 1].why = why
      /\ compiling'[Len(compiling) + 1].pc = 1
      /\ compiling'[Len(compiling) + 1].sites = [k \in 1..Len(program.body[f]) |-> Absent]
  BY <1>1, StartEffect
<1>3. compiling'[Len(compiling) + 1] \in Activation
  BY <1>1, <1>2
<1> QED
  BY <1>2, <1>3

(* compile_fragment is entered: from the loader, from a visitor or from    *)
(* jit_compile_scope.                                                      *)
LEMMA StartStep ==
  ASSUME JitInv, NEW table, NEW f \in Scopes, TableFor(table, f),
         NEW i \in 1..Len(table[f]), NEW why \in Why,
         StartCompiling(table, compiling, f, i, why),
         UNCHANGED <<program, code, callsites, frames, raising, outcome>>,
         ~raising, resolving' \in 0..Len(callsites),
         why = "eager" <=> compiling # <<>>,
         compiling # <<>> =>
           /\ resolving' = resolving
           /\ \A j \in 1..Len(compiling) : compiling[j].fn < f
           /\ Top.pc <= Len(program.body[Top.fn])
           /\ program.body[Top.fn][Top.pc].callee = f
           /\ i = Len(table[f]) /\ table[f][i].compiled = 0,
         compiling = <<>> =>
           /\ why = "root" <=> resolving' = 0
           /\ why = "root" => f = Root
           /\ why = "caller" => f = callsites[resolving'].fn,
         resolving' # 0 =>
           /\ frames # <<>> /\ Running.pc <= Len(program.body[Running.fn])
           /\ callsites[resolving'].fn = Running.fn /\ InCompiled(callsites[resolving'])
  PROVE  JitInv'
<1> DEFINE n == Len(compiling)
<1>0. /\ compiling \in Seq(Activation) /\ n \in Nat
      /\ fragments \in FragmentTable
      /\ \A g \in Scopes : Len(fragments[g]) \in Nat
      /\ table \in FragmentTable
      /\ \A g \in Scopes : Len(table[g]) \in Nat
      /\ TypeOK
      /\ compiling = <<>> => n = 0
  <2>1. TypeOK /\ table \in FragmentTable
    BY DEF JitInv, TableFor
  <2>2. compiling \in Seq(Activation)
    BY <2>1 DEF TypeOK
  <2> QED
    BY <2>1, <2>2, TableIsTable
<1>1. /\ fragments' \in FragmentTable /\ SameFragments(table, fragments')
      /\ inProgress' = inProgress \cup {<<f, table[f][i].arg>>}
      /\ inProgress' \subseteq Scopes \X FragmentTypes
      /\ compiling' \in Seq(Activation)
      /\ Len(compiling') = n + 1
      /\ \A j \in 1..n : compiling'[j] = compiling[j]
  <2>1. fragments' \in FragmentTable /\ SameFragments(table, fragments')
    BY StartView
  <2>2. inProgress' = inProgress \cup {<<f, table[f][i].arg>>}
    BY StartView, ZenonT(60)
  <2>3. inProgress' \subseteq Scopes \X FragmentTypes
    BY StartView
  <2>4. compiling' \in Seq(Activation) /\ Len(compiling') = n + 1
    BY StartView
  <2>5. \A j \in 1..n : compiling'[j] = compiling[j]
    BY StartView
  <2> QED
    BY <2>1, <2>2, <2>3, <2>4, <2>5
<1>2. PICK a \in Activation :
        /\ a = compiling'[n + 1] /\ a.fn = f /\ a.index = i /\ a.why = why /\ a.pc = 1
        /\ a.sites = [k \in 1..Len(program.body[f]) |-> Absent]
  BY StartView
<1>3. /\ Len(a.sites) = Len(program.body[f])
      /\ \A k \in 1..Len(program.body[f]) : a.sites[k] = Absent
  <2>1. Len(program.body[f]) \in Nat
    BY <1>0, CallIsItem
  <2> QED
    BY <1>2, <2>1
<1>4. /\ \A g \in Scopes : Len(fragments'[g]) = Len(table[g])
      /\ \A g \in Scopes : \A j \in 1..Len(table[g]) :
           /\ fragments'[g][j].arg = table[g][j].arg
           /\ fragments'[g][j].compiled = table[g][j].compiled
  BY <1>1 DEF SameFragments
<1>5. \A g \in Scopes : \A j \in 1..Len(fragments[g]) :
        /\ j \in 1..Len(table[g]) /\ table[g][j] = fragments[g][j]
  <2>1. SUFFICES ASSUME NEW g \in Scopes, NEW j \in 1..Len(fragments[g])
                 PROVE  j \in 1..Len(table[g]) /\ table[g][j] = fragments[g][j]
    OBVIOUS
  <2>2. CASE g = f
    BY <1>0, <2>2 DEF TableFor
  <2>3. CASE g # f
    BY <2>3 DEF TableFor
  <2> QED
    BY <2>2, <2>3
<1>6. \A g \in Scopes : \A j \in 1..Len(fragments[g]) :
        /\ j \in 1..Len(fragments'[g])
        /\ fragments'[g][j].arg = fragments[g][j].arg
        /\ fragments'[g][j].compiled = fragments[g][j].compiled
  BY <1>4, <1>5, SMTT(30)
<1>7. \A g \in Scopes : g # f => Len(fragments'[g]) = Len(fragments[g])
  BY <1>4 DEF TableFor
<1>8. Kept
  BY <1>6 DEF Kept
<1>9. TypeOK'
  BY <1>0, <1>1 DEF TypeOK, FragmentTable
<1>10. FragmentsFit'
  <2>1. Len(fragments'[Root]) >= 1
    <3>1. Len(fragments[Root]) >= 1 /\ Root \in Scopes
      BY Numbers DEF JitInv, FragmentsFit
    <3>2. 1 \in 1..Len(fragments'[Root])
      BY <1>0, <1>6, <3>1
    <3> QED
      BY <1>1, <3>1, <3>2
  <2>2. ASSUME NEW g \in Scopes, NEW j \in 1..Len(table[g])
        PROVE  \/ table[g][j].compiled = 0
               \/ j \in 1..Len(fragments[g]) /\ table[g][j] = fragments[g][j]
    <3>1. CASE g # f
      BY <3>1 DEF TableFor
    <3>2. CASE g = f /\ j > Len(fragments[f])
      BY <3>2 DEF TableFor
    <3>3. CASE g = f /\ ~(j > Len(fragments[f]))
      <4>1. j \in 1..Len(fragments[f])
        BY <1>0, <3>3
      <4> QED
        BY <3>3, <4>1 DEF TableFor
    <3> QED
      BY <3>1, <3>2, <3>3
  <2>3. ASSUME NEW g \in Scopes, NEW j \in 1..Len(fragments'[g])
        PROVE  LET c == fragments'[g][j].compiled
               IN c = 0 \/ (c \in 1..Len(code') /\ code'[c].fn = g)
    <3>1. j \in 1..Len(table[g]) /\ fragments'[g][j].compiled = table[g][j].compiled
      BY <1>4
    <3>2. \A k \in 1..Len(fragments[g]) :
            \/ fragments[g][k].compiled = 0
            \/ /\ fragments[g][k].compiled \in 1..Len(code)
               /\ code[fragments[g][k].compiled].fn = g
      BY DEF JitInv, FragmentsFit
    <3>3. CASE table[g][j].compiled = 0
      BY <3>1, <3>3
    <3>4. CASE j \in 1..Len(fragments[g]) /\ table[g][j] = fragments[g][j]
      <4>1. /\ fragments'[g][j].compiled = fragments[g][j].compiled
            /\ code' = code
        BY <3>1, <3>4
      <4> QED
        BY <3>2, <3>4, <4>1
    <3> QED
      BY <2>2, <3>1, <3>3, <3>4
  <2>4. ASSUME NEW g \in Scopes, NEW j \in 1..Len(table[g]), NEW k \in 1..Len(table[g]),
               table[g][j].arg = table[g][k].arg
        PROVE  j = k
    BY <2>4, SMTT(30) DEF TableFor, JitInv, FragmentsFit
  <2>5. \A g \in Scopes : \A j, k \in 1..Len(fragments'[g]) :
          fragments'[g][j].arg = fragments'[g][k].arg => j = k
    <3>1. SUFFICES ASSUME NEW g \in Scopes, NEW j \in 1..Len(table[g]),
                          NEW k \in 1..Len(table[g]),
                          fragments'[g][j].arg = fragments'[g][k].arg
                   PROVE  j = k
      BY <1>4
    <3>2. table[g][j].arg = table[g][k].arg
      BY <1>4, <3>1
    <3> QED
      BY <2>4, <3>2
  <2> QED
    BY <2>1, <2>3, <2>5 DEF FragmentsFit
<1>11. CodeFits'
  BY <1>8, CodeStays DEF CodeFits
<1>12. /\ \A j \in 1..n : compiling[j].fn \in Scopes /\ compiling[j].fn # f
       /\ \A j \in 1..n : ActivationFits(j)
  <2>1. \A j \in 1..n : compiling[j] \in Activation
    BY <1>0
  <2>2. \A j \in 1..n : compiling[j].fn \in Scopes /\ compiling # <<>>
    <3>1. SUFFICES ASSUME NEW j \in 1..n PROVE compiling[j].fn \in Scopes /\ compiling # <<>>
      OBVIOUS
    <3>2. compiling[j].fn \in Scopes
      BY <2>1 DEF Activation
    <3>3. compiling # <<>>
      BY <1>0
    <3> QED
      BY <3>2, <3>3
  <2>3. \A j \in 1..n : compiling[j].fn < f /\ compiling[j].fn \in Nat /\ f \in Nat
    BY <2>2, Numbers
  <2> QED
    BY <2>2, <2>3 DEF JitInv, StackFits
<1>13. StackFits'
  <2>1. ASSUME NEW j \in 1..n
        PROVE  ActivationFits(j)'
    <3>1. j < n + 1 /\ j \in Nat /\ compiling # <<>>
      BY <1>0
    <3>2. /\ compiling[j].pc <= Len(program.body[compiling[j].fn])
          /\ program.body[compiling[j].fn][compiling[j].pc].callee = compiling'[j + 1].fn
      <4>1. CASE j = n
        BY <1>2, <1>3, <3>1, <4>1 DEF Top
      <4>2. CASE j # n
        <5>1. j < n /\ j + 1 \in 1..n
          BY <1>0, <4>2
        <5> QED
          BY <1>1, <1>12, <5>1 DEF ActivationFits
      <4> QED
        BY <4>1, <4>2
    <3>3. PICK g : g = compiling[j].fn
      OBVIOUS
    <3>4. g \in Scopes /\ g # f
      BY <1>12, <3>3
    <3>5. /\ Len(fragments'[g]) = Len(fragments[g])
          /\ \A k \in 1..Len(fragments[g]) :
               fragments'[g][k].compiled = fragments[g][k].compiled
      BY <1>6, <1>7, <3>4
    <3> QED
      BY <1>1, <1>8, <3>2, <3>3, <3>5, ActivationStays
  <2>2. ASSUME NEW m, m = n + 1
        PROVE  ActivationFits(m)'
    <3>1. \A k \in 1..Len(a.sites) : a.sites[k].kind = "absent"
      BY <1>3 DEF Absent
    <3>2. ASSUME NEW s, s = a.sites
          PROVE  SitesFit(f, s)'
      BY <1>3, <3>1, <3>2 DEF SitesFit
    <3>3. /\ i \in 1..Len(fragments'[f])
          /\ why = "eager" => i = Len(fragments'[f]) /\ fragments'[f][i].compiled = 0
      BY <1>4
    <3>4. why = "eager" <=> n + 1 > 1
      BY <1>0
    <3>5. PICK s : s = a.sites
      OBVIOUS
    <3>6. Len(compiling') = n + 1 /\ ~(n + 1 < n + 1) /\ a.pc >= 1
      BY <1>0, <1>1, <1>2
    <3>7. \A k \in 1..Len(a.sites) : ~(a.sites[k].kind = "stub")
      BY <3>1
    <3>8. /\ compiling'[m].fn = f /\ compiling'[m].sites = s /\ compiling'[m].index = i
          /\ compiling'[m].why = why /\ compiling'[m].pc >= 1
      BY <1>2, <1>3, <2>2, <3>5
    <3>9. SitesFit(f, s)'
      BY <3>2, <3>5
    <3>10. SitesFit(compiling[m].fn, compiling[m].sites)'
      BY <3>8, <3>9 DEF SitesFit
    <3> QED
      BY <2>2, <3>3, <3>4, <3>5, <3>6, <3>7, <3>8, <3>10 DEF ActivationFits
  <2>3. \A j \in 1..n + 1 : j = n + 1 \/ j \in 1..n
    BY <1>0
  <2>4. \A j \in 1..Len(compiling') : ActivationFits(j)'
    <3>1. SUFFICES ASSUME NEW j \in 1..n + 1 PROVE ActivationFits(j)'
      BY <1>1
    <3>2. CASE j = n + 1
      BY <2>2, <3>2
    <3>3. CASE j \in 1..n
      BY <2>1, <3>3
    <3> QED
      BY <2>3, <3>2, <3>3
  <2>5. \A j, k \in 1..n : j < k => compiling[j].fn < compiling[k].fn
    BY DEF JitInv, StackFits
  <2>6. \A j, k \in 1..n + 1 : j < k => compiling'[j].fn < compiling'[k].fn
    <3>1. SUFFICES ASSUME NEW j \in 1..n + 1, NEW k \in 1..n + 1, j < k
                   PROVE  compiling'[j].fn < compiling'[k].fn
      OBVIOUS
    <3>2. j \in 1..n /\ compiling # <<>>
      BY <1>0, <3>1
    <3>3. CASE k = n + 1
      BY <1>1, <1>2, <1>3, <3>2, <3>3
    <3>4. CASE k \in 1..n
      BY <1>1, <2>5, <3>1, <3>2, <3>4
    <3> QED
      BY <2>3, <3>3, <3>4
  <2>7. /\ compiling'[1].why = "root" <=> resolving' = 0
        /\ compiling'[1].why = "root" => compiling'[1].fn = Root
        /\ compiling'[1].why = "caller" => compiling'[1].fn = callsites'[resolving'].fn
    <3>1. CASE compiling = <<>>
      <4>1. n = 0
        BY <3>1
      <4> QED
        BY <1>2, <1>3, <3>1, <4>1
    <3>2. CASE compiling # <<>>
      <4>1. 1 \in 1..n
        BY <1>0, <3>2
      <4> QED
        BY <1>1, <3>2, <4>1 DEF JitInv, StackFits
    <3> QED
      BY <3>1, <3>2
  <2> QED
    BY <1>1, <2>4, <2>6, <2>7 DEF StackFits
<1>14. FramesFit'
  <2>1. \A j \in 1..Len(frames) : FrameFits(j)'
    BY <1>8, FramesStay
  <2>2. resolving' # 0 => InCompiled(callsites[resolving])'
    <3>1. SUFFICES ASSUME resolving' # 0 PROVE InCompiled(callsites[resolving])'
      OBVIOUS
    <3>2. PICK t : t = resolving'
      OBVIOUS
    <3>3. PICK site : site = callsites[t]
      OBVIOUS
    <3>4. t \in 1..Len(callsites) /\ site.fn \in Scopes
      <4>1. t \in 1..Len(callsites)
        BY <3>1, <3>2
      <4> QED
        BY <1>0, <3>3, <4>1, CallsiteIsCallsite
    <3>5. InCompiled(site)'
      BY <1>8, <3>1, <3>2, <3>3, <3>4, CompiledStays
    <3> QED
      BY <3>2, <3>3, <3>5 DEF InCompiled
  <2> QED
    BY <2>1, <2>2 DEF FramesFit, Running
<1>15. InProgressFits'
  <2>1. \A j \in 1..n : ScopeName(fragments', compiling[j].fn, compiling[j].index)
                        = ScopeName(fragments, compiling[j].fn, compiling[j].index)
    BY <1>6, <1>12 DEF ScopeName, ActivationFits
  <2>2. <<f, table[f][i].arg>>
          = ScopeName(fragments', compiling'[n + 1].fn, compiling'[n + 1].index)
    BY <1>2, <1>3, <1>4 DEF ScopeName
  <2> QED
    BY <1>0, <1>1, <2>1, <2>2, ProgressAfterStart DEF JitInv
<1> QED
  BY <1>9, <1>10, <1>11, <1>13, <1>14, <1>15 DEF JitInv

(* advance_module_phase compiles the root scope.                           *)
LEMMA CompileRootStep ==
  ASSUME JitInv, CompileRoot
  PROVE  JitInv'
<1>1. TypeOK /\ Root \in Scopes /\ 1 \in 1..Len(fragments[Root])
  BY Numbers, TableIsTable DEF JitInv, FragmentsFit
<1>2. frames = <<>>
  <2>1. frames \in Seq(Frame)
    BY <1>1 DEF TypeOK
  <2>2. \A i \in 1..Len(frames) : frames[i].code \in 1..Len(code)
    BY DEF JitInv, FramesFit, FrameFits
  <2>3. Len(code) = 0
    BY DEF CompileRoot
  <2>4. 1 \notin 1..Len(frames)
    BY <2>2, <2>3
  <2> QED
    BY <2>1, <2>4
<1>3. ~raising /\ resolving = 0
  BY <1>2 DEF JitInv, FramesFit
<1>4. /\ StartCompiling(fragments, compiling, Root, 1, "root")
      /\ compiling = <<>>
      /\ UNCHANGED <<program, code, callsites, frames, raising, outcome>>
      /\ resolving' = 0 /\ 0 \in 0..Len(callsites)
  <2>1. StartCompiling(fragments, compiling, Root, 1, "root")
    BY DEF CompileRoot, StartCompiling
  <2>2. callsites \in Seq(Callsite)
    BY <1>1 DEF TypeOK, Callsite
  <2> QED
    BY <1>3, <2>1, <2>2 DEF CompileRoot
<1>5. TableFor(fragments, Root) /\ "root" \in Why
  BY <1>1, SameTable DEF Why
<1> QED
  BY <1>1, <1>3, <1>4, <1>5, StartStep

(* The functions on the stack, and the call that the innermost is at.      *)
LEMMA AtTop ==
  ASSUME JitInv, compiling # <<>>
  PROVE  /\ Len(compiling) \in Nat \ {0} /\ Len(compiling) \in 1..Len(compiling)
         /\ Top = compiling[Len(compiling)] /\ Top \in Activation
         /\ Top.fn \in Scopes /\ Top.fn \in Nat
         /\ Top.pc \in Nat /\ Top.pc >= 1
         /\ Len(Top.sites) = Len(program.body[Top.fn])
         /\ Len(program.body[Top.fn]) \in Nat
         /\ Top.index \in 1..Len(fragments[Top.fn])
         /\ ~raising
         /\ \A j \in 1..Len(compiling) : j # Len(compiling) =>
              /\ compiling[j].fn < Top.fn
              /\ compiling[j].fn \in Scopes /\ compiling[j].fn \in Nat
<1>1. /\ TypeOK /\ Len(compiling) \in Nat \ {0}
      /\ Top = compiling[Len(compiling)] /\ Top \in Activation /\ Top.fn \in Scopes
      /\ Top.pc \in Nat
  BY TopIsActivation DEF JitInv
<1>2. Len(compiling) \in 1..Len(compiling)
  BY <1>1
<1>3. ActivationFits(Len(compiling))
  BY <1>2 DEF JitInv, StackFits
<1>4. /\ Top.pc >= 1 /\ Len(Top.sites) = Len(program.body[Top.fn])
      /\ Top.index \in 1..Len(fragments[Top.fn])
  BY <1>1, <1>3 DEF ActivationFits, SitesFit
<1>5. \A j \in 1..Len(compiling) : compiling[j].fn \in Scopes
  <2>1. compiling \in Seq(Activation)
    BY <1>1 DEF TypeOK
  <2>2. \A j \in 1..Len(compiling) : compiling[j] \in Activation
    BY <2>1
  <2> QED
    BY <2>2 DEF Activation
<1>6. \A j \in 1..Len(compiling) : j # Len(compiling) => compiling[j].fn < Top.fn
  BY <1>1, <1>2 DEF JitInv, StackFits
<1>7. ~raising
  BY DEF JitInv, StackFits
<1> QED
  BY <1>1, <1>2, <1>4, <1>5, <1>6, <1>7, Numbers, CallIsItem

(* visit(FunctionCall) compiles the callee on the spot. Without recursion  *)
(* it is none of the functions that are being compiled.                    *)
LEMMA VisitEagerCallStep ==
  ASSUME NoRecursion, JitInv, VisitEagerCall
  PROVE  JitInv'
<1>1. /\ compiling # <<>> /\ Top.pc <= Len(program.body[Top.fn])
      /\ FragmentIndex(TheCall.callee, TheType) = 0
      /\ UNCHANGED <<program, code, callsites, resolving, frames, raising, outcome>>
  BY DEF VisitEagerCall, AtCall, InCall
<1>2. PICK f, t : f = TheCall.callee /\ t = TheType
  OBVIOUS
<1>3. TypeOK /\ Top.pc \in 1..Len(program.body[Top.fn]) /\ Top.last \in FragmentTypes
  BY <1>1, AtTop, TopIsActivation DEF JitInv
<1>4. /\ f \in Scopes /\ t \in FragmentTypes /\ f > Top.fn /\ f \in Nat
      /\ program.body[Top.fn][Top.pc].callee = f
  <2>1. f \in Scopes /\ t \in FragmentTypes
    BY <1>1, <1>2, <1>3, AtTop, CallIsItem, ArgTypeIsType DEF TheCall, TheType
  <2>2. f > Top.fn
    BY <1>1, <1>2, <1>3, AtTop DEF NoRecursion, JitInv, TheCall
  <2> QED
    BY <1>2, <2>1, <2>2, Numbers DEF TheCall
<1>5. FragmentIndex(f, t) = 0
  BY <1>1, <1>2
<1>6. PICK table : table = [fragments EXCEPT ![f] = Append(@, NewFragment(f, t))]
  OBVIOUS
<1>7. /\ TableFor(table, f) /\ Len(table[f]) \in 1..Len(table[f])
      /\ table[f][Len(table[f])].compiled = 0
  BY <1>4, <1>5, <1>6, LongerTable
<1>8. StartCompiling(table, compiling, f, Len(table[f]), "eager")
  BY <1>2, <1>6 DEF VisitEagerCall, StartCompiling
<1>9. resolving' \in 0..Len(callsites)
  BY <1>1, <1>3 DEF TypeOK
<1>10. \A j \in 1..Len(compiling) : compiling[j].fn < f
  BY <1>1, <1>4, AtTop
<1>11. resolving' # 0 =>
         /\ frames # <<>> /\ Running.pc <= Len(program.body[Running.fn])
         /\ callsites[resolving'].fn = Running.fn /\ InCompiled(callsites[resolving'])
  BY <1>1 DEF JitInv, FramesFit
<1>12. ~raising /\ "eager" \in Why
  BY <1>1, AtTop DEF Why
<1> QED
  BY <1>1, <1>4, <1>7, <1>8, <1>9, <1>10, <1>11, <1>12, StartStep

(* jit_compile_scope compiles the caller.                                  *)
LEMMA RecompileCallerStep ==
  ASSUME JitInv, RecompileCaller
  PROVE  JitInv'
<1>1. /\ resolving # 0 /\ compiling = <<>>
      /\ UNCHANGED <<program, code, callsites, resolving, frames, raising, outcome>>
  BY DEF RecompileCaller
<1>2. TypeOK /\ resolving \in 1..Len(callsites)
  <2>1. TypeOK
    BY DEF JitInv
  <2>2. callsites \in Seq(Callsite) /\ resolving \in 0..Len(callsites)
    BY <2>1 DEF TypeOK, Callsite
  <2> QED
    BY <1>1, <2>1, <2>2
<1>3. PICK f, i : f = callsites[resolving].fn /\ i = callsites[resolving].index
  OBVIOUS
<1>4. /\ frames # <<>> /\ Running.pc <= Len(program.body[Running.fn])
      /\ callsites[resolving].fn = Running.fn /\ InCompiled(callsites[resolving]) /\ ~raising
  BY <1>1 DEF JitInv, FramesFit
<1>5. f \in Scopes /\ i \in 1..Len(fragments[f])
  BY <1>2, <1>3, <1>4, CallsiteIsCallsite DEF InCompiled
<1>6. StartCompiling(fragments, compiling, f, i, "caller")
  BY <1>3 DEF RecompileCaller, StartCompiling
<1>7. TableFor(fragments, f) /\ "caller" \in Why
  BY <1>5, SameTable DEF Why
<1> QED
  BY <1>1, <1>2, <1>3, <1>4, <1>5, <1>6, <1>7, StartStep
-------------------------------------------------------------------------------
(* The frame that runs, and the site that it is at.                        *)
LEMMA AtFrame ==
  ASSUME JitInv, frames # <<>>
  PROVE  /\ Len(frames) \in Nat \ {0} /\ frames \in Seq(Frame)
         /\ Running = frames[Len(frames)] /\ Running \in Frame
         /\ Running.fn \in Scopes /\ Running.last \in FragmentTypes
         /\ Running.pc \in Nat /\ Running.pc >= 1
         /\ Len(program.body[Running.fn]) \in Nat
         /\ Running.pc <= Len(program.body[Running.fn]) + 1
         /\ Running.code \in 1..Len(code) /\ code[Running.code].fn = Running.fn
         /\ SitesFit(code[Running.code].fn, code[Running.code].sites)
         /\ \A k \in 1..Len(code[Running.code].sites) :
              code[Running.code].sites[k].kind = "stub" =>
                InCompiled(callsites[code[Running.code].sites[k].target])
<1>1. /\ TypeOK /\ Len(frames) \in Nat \ {0}
      /\ Running = frames[Len(frames)] /\ Running \in Frame /\ Running.fn \in Scopes
      /\ Running.pc \in Nat /\ Running.last \in FragmentTypes
  BY RunningIsFrame DEF JitInv
<1>2. frames \in Seq(Frame)
  BY <1>1 DEF TypeOK
<1>3. FrameFits(Len(frames))
  <2>1. Len(frames) \in 1..Len(frames)
    BY <1>1
  <2> QED
    BY <2>1 DEF JitInv, FramesFit
<1>4. Len(program.body[Running.fn]) \in Nat
  BY <1>1, CallIsItem
<1>5. /\ Running.pc >= 1 /\ Running.pc <= Len(program.body[Running.fn]) + 1
      /\ Running.code \in 1..Len(code) /\ code[Running.code].fn = Running.fn
  BY <1>1, <1>3, <1>4 DEF FrameFits
<1>6. CodeFitsAt(Running.code)
  BY <1>5 DEF JitInv, CodeFits
<1> QED
  BY <1>1, <1>2, <1>4, <1>5, <1>6 DEF CodeFitsAt

(* What the running code has at the call that its frame is at.             *)
LEMMA AtSite ==
  ASSUME JitInv, frames # <<>>, Running.pc <= Len(program.body[Running.fn])
  PROVE  /\ Running.pc \in 1..Len(program.body[Running.fn])
         /\ SiteHere.kind = "stub" =>
              /\ SiteHere.target \in 1..Len(callsites)
              /\ callsites[SiteHere.target].fn = Running.fn
              /\ InCompiled(callsites[SiteHere.target])
         /\ SiteHere.kind = "direct" /\ SiteHere.target # 0 =>
              /\ SiteHere.target \in 1..Len(code)
              /\ code[SiteHere.target].fn = program.body[Running.fn][Running.pc].callee
<1>1. PICK f, s, p : f = Running.fn /\ s = code[Running.code].sites /\ p = Running.pc
  OBVIOUS
<1>2. /\ SitesFit(f, s) /\ p \in 1..Len(program.body[f])
      /\ \A k \in 1..Len(s) : s[k].kind = "stub" => InCompiled(callsites[s[k].target])
  <2>1. /\ SitesFit(code[Running.code].fn, code[Running.code].sites)
        /\ code[Running.code].fn = f /\ code[Running.code].sites = s
        /\ p \in 1..Len(program.body[f])
        /\ \A k \in 1..Len(code[Running.code].sites) :
             code[Running.code].sites[k].kind = "stub" =>
               InCompiled(callsites[code[Running.code].sites[k].target])
    BY <1>1, AtFrame
  <2> QED
    BY <2>1 DEF SitesFit, InCompiled
<1>3. SiteHere = s[p] /\ p \in 1..Len(s)
  BY <1>1, <1>2 DEF SiteHere, SitesFit
<1> QED
  BY <1>1, <1>2, <1>3 DEF SitesFit, InCompiled

(* Nothing is being compiled.                                              *)
LEMMA NothingCompiled ==
  /\ compiling = <<>> => (InProgressFits <=> inProgress = {})
  /\ compiling' = <<>> => StackFits' /\ (InProgressFits' <=> inProgress' = {})
<1>1. Len(<<>>) = 0 /\ \A i : i \notin 1..0
  OBVIOUS
<1>2. ASSUME compiling = <<>> PROVE InProgressFits <=> inProgress = {}
  <2>1. \A i : i \notin 1..Len(compiling)
    BY <1>1, <1>2
  <2>2. {ScopeName(fragments, compiling[i].fn, compiling[i].index) : i \in 1..Len(compiling)} = {}
    BY <2>1
  <2> QED
    BY <2>2 DEF InProgressFits
<1>3. ASSUME compiling' = <<>> PROVE StackFits' /\ (InProgressFits' <=> inProgress' = {})
  <2>1. \A i : i \notin 1..Len(compiling')
    BY <1>1, <1>3
  <2>2. {ScopeName(fragments', compiling'[i].fn, compiling'[i].index) :
           i \in 1..Len(compiling')} = {}
    BY <2>1
  <2>3. StackFits'
    BY <1>3, <2>1 DEF StackFits
  <2> QED
    BY <2>2, <2>3 DEF InProgressFits
<1> QED
  BY <1>2, <1>3

(* r15 is left alone.                                                      *)
LEMMA RaisingIsBoolean ==
  ASSUME JitInv, raising' = raising
  PROVE  raising' \in BOOLEAN /\ (~raising => ~raising')
  BY DEF JitInv, TypeOK

(* Compiled code runs: the frames change and no table does.                *)
LEMMA RunStep ==
  ASSUME JitInv, compiling = <<>>, resolving = 0,
         UNCHANGED <<program, fragments, code, callsites, inProgress, compiling, resolving>>,
         raising' \in BOOLEAN,
         outcome' \in {"none", "ended", "refused", "null call", "bad jump"},
         frames' \in Seq(Frame),
         \A i \in 1..Len(frames') : FrameFits(i)',
         raising' => frames' # <<>> /\ Running'.pc <= Len(program.body[Running'.fn])
  PROVE  JitInv'
<1>1. TypeOK'
  BY DEF JitInv, TypeOK
<1>2. FragmentsFit' /\ CodeFits'
  <2>1. Kept
    BY DEF Kept
  <2> QED
    BY <2>1, CodeStays DEF JitInv, FragmentsFit, CodeFits
<1>3. StackFits' /\ InProgressFits'
  BY NothingCompiled DEF JitInv
<1>4. FramesFit'
  BY DEF FramesFit, Running
<1> QED
  BY <1>1, <1>2, <1>3, <1>4 DEF JitInv

(* The running frame goes on elsewhere, in its code or in newer code.      *)
LEMMA FrameReplaced ==
  ASSUME JitInv, Kept, frames # <<>>, NEW r \in Frame, r.fn = Running.fn,
         r.code \in 1..Len(code'), code'[r.code].fn = r.fn,
         r.pc \in 1..(Len(program.body[r.fn]) + 1),
         frames' = SetLast(frames, r)
  PROVE  /\ frames' \in Seq(Frame) /\ frames' # <<>>
         /\ \A i \in 1..Len(frames') : FrameFits(i)'
         /\ Running' = r
<1>1. /\ frames \in Seq(Frame) /\ Len(frames) \in Nat \ {0}
  BY AtFrame
<1>2. /\ frames' \in Seq(Frame) /\ frames' # <<>> /\ Len(frames') = Len(frames)
      /\ frames'[Len(frames)] = r
      /\ \A i \in 1..Len(frames) : i # Len(frames) => frames'[i] = frames[i]
  <2>1. \A q \in Frame :
          /\ SetLast(frames, q) \in Seq(Frame) /\ SetLast(frames, q) # <<>>
          /\ Len(SetLast(frames, q)) = Len(frames)
          /\ SetLast(frames, q)[Len(frames)] = q
          /\ \A i \in 1..Len(frames) : i # Len(frames) => SetLast(frames, q)[i] = frames[i]
    BY <1>1, SetLastSeq
  <2> QED
    BY <2>1
<1>3. ASSUME NEW i \in 1..Len(frames)
      PROVE  FrameFits(i)'
  <2>1. CASE i = Len(frames)
    BY <1>1, <1>2, <2>1, SMTT(30) DEF FrameFits, Kept
  <2>2. CASE i # Len(frames)
    <3>1. FrameFits(i)
      BY DEF JitInv, FramesFit
    <3> QED
      BY <1>1, <1>2, <2>2, <3>1 DEF FrameFits, Kept
  <2> QED
    BY <2>1, <2>2
<1> QED
  BY <1>2, <1>3 DEF Running

(* A stub is executed.                                                     *)
LEMMA ResolveStep ==
  ASSUME JitInv, Resolve
  PROVE  JitInv'
<1> DEFINE token == SiteHere.target
           site == callsites[token]
           caller == fragments[site.fn][site.index]
           k == FragmentIndex(site.callee, site.arg)
           table == [fragments EXCEPT ![site.callee] =
                       Append(@, NewFragment(site.callee, site.arg))]
<1>1. /\ outcome = "none" /\ frames # <<>> /\ compiling = <<>> /\ resolving = 0 /\ ~raising
      /\ Running.pc <= Len(program.body[Running.fn]) /\ SiteHere.kind = "stub"
      /\ UNCHANGED <<program, code, callsites, raising, outcome>>
  BY DEF Resolve, Executing, RunBody
<1>2. /\ token \in 1..Len(callsites) /\ site.fn = Running.fn /\ InCompiled(site) /\ TypeOK
  BY <1>1, AtSite DEF JitInv
<1>3. /\ site.fn \in Scopes /\ site.callee \in Scopes /\ site.arg \in FragmentTypes
  BY <1>2, CallsiteIsCallsite
<1>4. CASE HasSplit(caller, site)
  <2>1. /\ ContinueIn(caller.compiled)
        /\ UNCHANGED <<fragments, inProgress, compiling, resolving>>
    BY <1>4 DEF Resolve
  <2>2. PICK c : c = caller.compiled
    OBVIOUS
  <2>3. c \in 1..Len(code) /\ code[c].fn = Running.fn
    BY <1>2, <1>3, <2>2 DEF JitInv, FragmentsFit, InCompiled
  <2>4. PICK r : r = [Running EXCEPT !.code = c]
    OBVIOUS
  <2>5. r \in Frame /\ r.fn = Running.fn /\ r.code = c /\ r.pc = Running.pc
    <3>1. Running \in Frame
      BY <1>1, AtFrame
    <3>2. c \in Nat
      BY <1>2, <2>3, LengthsAreNumbers
    <3> QED
      BY <2>4, <3>1, <3>2 DEF Frame
  <2>6. frames' = SetLast(frames, r)
    BY <2>1, <2>2, <2>4 DEF ContinueIn
  <2>7. Kept
    BY <1>1, <2>1 DEF Kept
  <2>8. r.pc \in 1..(Len(program.body[r.fn]) + 1)
    BY <1>1, <2>5, AtFrame
  <2>9. frames' \in Seq(Frame) /\ \A i \in 1..Len(frames') : FrameFits(i)'
    BY <1>1, <2>3, <2>5, <2>6, <2>7, <2>8, FrameReplaced
  <2> QED
    BY <1>1, <1>2, <2>1, <2>9, RunStep DEF TypeOK
<1>5. CASE ~HasSplit(caller, site)
  <2>1. /\ resolving' = token /\ frames' = frames
        /\ IF k = 0 THEN CalleeFirst(table, site)
                    ELSE StartCompiling(fragments, <<>>, site.fn, site.index, "caller")
    BY <1>5 DEF Resolve
  <2>2. /\ resolving' \in 0..Len(callsites) /\ resolving' # 0
    BY <1>2, <2>1
  <2>3. /\ callsites[resolving'].fn = Running.fn /\ InCompiled(callsites[resolving'])
        /\ callsites[resolving'] = site
    BY <1>2, <2>1 DEF InCompiled
  <2>4. CASE k = 0
    <3>1. PICK f, t, i : f = site.callee /\ t = site.arg /\ i = Len(table[f])
      OBVIOUS
    <3>2. PICK u : u = [fragments EXCEPT ![f] = Append(@, NewFragment(f, t))]
      OBVIOUS
    <3>3. u = table
      BY <3>1, <3>2
    <3>4. TableFor(u, f) /\ i \in 1..Len(u[f])
      <4>1. FragmentIndex(f, t) = 0
        BY <2>4, <3>1 DEF FragmentIndex
      <4>2. f \in Scopes /\ t \in FragmentTypes
        BY <1>3, <3>1
      <4>3. TableFor(u, f) /\ Len(u[f]) \in 1..Len(u[f])
        BY <3>2, <4>1, <4>2, LongerTable
      <4>4. i = Len(u[f])
        BY <3>1, <3>3
      <4> QED
        BY <4>3, <4>4
    <3>5. StartCompiling(u, compiling, f, i, "callee")
      BY <1>1, <2>1, <2>4, <3>1, <3>3 DEF CalleeFirst, StartCompiling
    <3>6. f \in Scopes /\ "callee" \in Why
      BY <1>3, <3>1 DEF Why
    <3> HIDE DEF table, site, token, k, caller
    <3> QED
      BY <1>1, <2>1, <2>2, <2>3, <3>4, <3>5, <3>6, StartStep
  <2>5. CASE k # 0
    <3>1. PICK f, i : f = site.fn /\ i = site.index
      OBVIOUS
    <3>2. f \in Scopes /\ i \in 1..Len(fragments[f]) /\ "caller" \in Why
      BY <1>2, <1>3, <3>1 DEF InCompiled, Why
    <3>3. TableFor(fragments, f)
      BY <3>2, SameTable
    <3>4. StartCompiling(fragments, compiling, f, i, "caller")
      BY <1>1, <2>1, <2>5, <3>1 DEF StartCompiling
    <3>5. f = callsites[resolving'].fn
      BY <2>3, <3>1
    <3> HIDE DEF table, site, token, k, caller
    <3> QED
      BY <1>1, <2>1, <2>2, <2>3, <3>2, <3>3, <3>4, <3>5, StartStep
  <2> QED
    BY <2>4, <2>5
<1> QED
  BY <1>4, <1>5

(* A direct call is executed.                                              *)
LEMMA CallFragmentStep ==
  ASSUME JitInv, CallFragment
  PROVE  JitInv'
<1>1. /\ outcome = "none" /\ frames # <<>> /\ compiling = <<>> /\ resolving = 0 /\ ~raising
      /\ Running.pc <= Len(program.body[Running.fn]) /\ SiteHere.kind = "direct"
      /\ UNCHANGED <<program, fragments, code, callsites, inProgress, compiling,
                     resolving, raising>>
  BY DEF CallFragment, Executing, RunBody
<1>2. TypeOK /\ Kept
  BY <1>1 DEF JitInv, Kept
<1>3. CASE SiteHere.target = 0
  <2>1. outcome' = "null call" /\ frames' = frames
    BY <1>3 DEF CallFragment
  <2>2. \A i \in 1..Len(frames') : FrameFits(i)'
    BY <1>2, <2>1, FramesStay
  <2>3. frames' \in Seq(Frame)
    BY <1>2, <2>1 DEF TypeOK
  <2> QED
    BY <1>1, <1>2, <2>1, <2>2, <2>3, RaisingIsBoolean, RunStep
<1>4. CASE SiteHere.target # 0
  <2> DEFINE item == program.body[Running.fn][Running.pc]
  <2>1. PICK f, t, c, x : /\ f = item.callee /\ t = ArgType(item, Running.last)
                          /\ c = SiteHere.target /\ x = FragmentIndex(f, t)
    OBVIOUS
  <2>2. PICK r : r = [fn |-> f, index |-> x, code |-> c, arg |-> t, pc |-> 1, last |-> None]
    OBVIOUS
  <2>3. frames' = Append(frames, r) /\ outcome' = outcome
    BY <1>4, <2>1, <2>2 DEF CallFragment, RunBody, FragmentIndex
  <2>4. Running.pc \in 1..Len(program.body[Running.fn]) /\ Running.fn \in Scopes
        /\ Running.last \in FragmentTypes
    BY <1>1, AtSite, AtFrame
  <2>5. /\ f \in Scopes /\ t \in FragmentTypes
        /\ c \in 1..Len(code) /\ code[c].fn = f
    BY <1>1, <1>2, <1>4, <2>1, <2>4, AtSite, CallIsItem, ArgTypeIsType
  <2>6. x \in Nat
    <3>1. x \in 0..Len(fragments[f])
      BY <1>2, <2>1, <2>5, FragmentIndexFinds DEF JitInv
    <3> QED
      BY <3>1
  <2>7. /\ r \in Frame /\ r.fn = f /\ r.code = c /\ r.pc = 1
    BY <1>2, <2>2, <2>5, <2>6, LengthsAreNumbers, Numbers DEF Frame
  <2>8. /\ Len(program.body[f]) \in Nat
        /\ Len(frames) \in Nat /\ frames \in Seq(Frame)
        /\ Running = frames[Len(frames)]
    BY <1>1, <1>2, <2>5, CallIsItem, AtFrame
  <2>9. /\ frames' \in Seq(Frame) /\ frames' # <<>> /\ Len(frames') = Len(frames) + 1
        /\ \A i \in 1..Len(frames) : frames'[i] = frames[i]
        /\ frames'[Len(frames) + 1] = r
    <3>1. frames \in Seq(Frame) /\ r \in Frame
      BY <2>7, <2>8
    <3> QED
      BY <2>3, <3>1, AppendSeq
  <2>10. ASSUME NEW i \in 1..Len(frames')
         PROVE  FrameFits(i)'
    <3>1. CASE i = Len(frames) + 1
      BY <1>1, <2>5, <2>7, <2>8, <2>9, <3>1 DEF FrameFits
    <3>2. CASE i \in 1..Len(frames)
      <4>1. FrameFits(i) /\ frames'[i] = frames[i]
        BY <2>9, <3>2 DEF JitInv, FramesFit
      <4>2. frames[i].pc <= Len(program.body[frames[i].fn])
        <5>1. CASE i = Len(frames)
          BY <1>1, <2>8, <5>1
        <5>2. CASE i # Len(frames)
          BY <2>8, <3>2, <4>1, <5>2 DEF FrameFits
        <5> QED
          BY <5>1, <5>2
      <4> QED
        BY <1>1, <4>1, <4>2 DEF FrameFits
    <3> QED
      BY <2>8, <2>9, <3>1, <3>2
  <2>11. raising' \in BOOLEAN /\ ~raising'
         /\ outcome' \in {"none", "ended", "refused", "null call", "bad jump"}
    BY <1>1, <2>3, RaisingIsBoolean
  <2> HIDE DEF item
  <2> QED
    BY <1>1, <2>9, <2>10, <2>11, RunStep
<1> QED
  BY <1>3, <1>4

(* The running frame skips to the end of the suite that it is in.          *)
LEMMA SuiteEnd ==
  ASSUME JitInv, frames # <<>>, Running.pc <= Len(program.body[Running.fn]),
         program.body[Running.fn][Running.pc].suite # 0
  PROVE  /\ AfterSuite(Running) \in Nat
         /\ AfterSuite(Running) \in 1..(Len(program.body[Running.fn]) + 1)
<1>1. PICK f, p : f = Running.fn /\ p = Running.pc
  OBVIOUS
<1>2. f \in Scopes /\ p \in 1..Len(program.body[f]) /\ TypeOK /\ Len(program.body[f]) \in Nat
  BY <1>1, AtSite, AtFrame DEF JitInv
<1>3. program.body[f][p].suite \in (p + 1)..(Len(program.body[f]) + 1)
  BY <1>1, <1>2, CallIsItem
<1> QED
  BY <1>1, <1>2, <1>3, SMTT(30) DEF AfterSuite

(* A suite is skipped.                                                     *)
LEMMA SkipSuiteStep ==
  ASSUME JitInv, SkipSuite
  PROVE  JitInv'
<1>1. /\ outcome = "none" /\ frames # <<>> /\ compiling = <<>> /\ resolving = 0 /\ ~raising
      /\ Running.pc <= Len(program.body[Running.fn])
      /\ program.body[Running.fn][Running.pc].suite # 0
      /\ UNCHANGED <<program, fragments, code, callsites, inProgress, compiling,
                     resolving, raising, outcome>>
  BY DEF SkipSuite, Executing, SuiteStart
<1>2. PICK e : e = AfterSuite(Running)
  OBVIOUS
<1>3. PICK r : r = [Running EXCEPT !.pc = e]
  OBVIOUS
<1>4. frames' = SetLast(frames, r)
  BY <1>2, <1>3 DEF SkipSuite
<1>5. e \in Nat /\ e \in 1..(Len(program.body[Running.fn]) + 1)
  BY <1>1, <1>2, SuiteEnd
<1>6. /\ Running \in Frame /\ Running.code \in 1..Len(code)
      /\ code[Running.code].fn = Running.fn
  BY <1>1, AtFrame
<1>7. r \in Frame /\ r.fn = Running.fn /\ r.code = Running.code /\ r.pc = e
  BY <1>3, <1>5, <1>6 DEF Frame
<1>8. Kept
  BY <1>1 DEF Kept
<1>9. frames' \in Seq(Frame) /\ \A i \in 1..Len(frames') : FrameFits(i)'
  BY <1>1, <1>4, <1>5, <1>6, <1>7, <1>8, FrameReplaced
<1> QED
  BY <1>1, <1>9, RaisingIsBoolean, RunStep

(* A try statement handles the exception.                                  *)
LEMMA HandleExceptionStep ==
  ASSUME JitInv, HandleException
  PROVE  JitInv'
<1>1. /\ raising /\ outcome = "none" /\ program.body[Running.fn][Running.pc].suite # 0
      /\ raising' = FALSE
      /\ UNCHANGED <<program, fragments, code, callsites, inProgress, compiling,
                     resolving, outcome>>
  BY DEF HandleException, RunBody
<1>2. /\ frames # <<>> /\ compiling = <<>> /\ resolving = 0
      /\ Running.pc <= Len(program.body[Running.fn])
  BY <1>1, AtTop DEF JitInv, FramesFit
<1>3. PICK e : e = AfterSuite(Running)
  OBVIOUS
<1>4. PICK r : r = [Running EXCEPT !.pc = e, !.last = None]
  OBVIOUS
<1>5. frames' = SetLast(frames, r)
  BY <1>3, <1>4 DEF HandleException
<1>6. e \in Nat /\ e \in 1..(Len(program.body[Running.fn]) + 1)
  BY <1>1, <1>2, <1>3, SuiteEnd
<1>7. /\ Running \in Frame /\ Running.code \in 1..Len(code)
      /\ code[Running.code].fn = Running.fn
  BY <1>2, AtFrame
<1>8. r \in Frame /\ r.fn = Running.fn /\ r.code = Running.code /\ r.pc = e
  BY <1>4, <1>6, <1>7, Numbers DEF Frame
<1>9. Kept
  BY <1>1 DEF Kept
<1>10. frames' \in Seq(Frame) /\ \A i \in 1..Len(frames') : FrameFits(i)'
  BY <1>1, <1>2, <1>5, <1>6, <1>7, <1>8, <1>9, FrameReplaced
<1> QED
  BY <1>1, <1>2, <1>10, RunStep

(* A frame is left: those under it stay as they are.                       *)
LEMMA FramePopped ==
  ASSUME JitInv, Kept, frames # <<>>
  PROVE  /\ ButLast(frames) \in Seq(Frame)
         /\ Len(ButLast(frames)) = Len(frames) - 1
         /\ \A i \in 1..Len(frames) - 1 :
              /\ ButLast(frames)[i] = frames[i] /\ frames[i] \in Frame
              /\ frames[i].code \in 1..Len(code)
              /\ code[frames[i].code].fn = frames[i].fn
              /\ frames[i].pc \in 1..Len(program.body[frames[i].fn])
              /\ frames[i].fn \in Scopes
              /\ Len(program.body[frames[i].fn]) \in Nat
<1>1. /\ frames \in Seq(Frame) /\ Len(frames) \in Nat \ {0} /\ TypeOK
  BY AtFrame DEF JitInv
<1>2. /\ ButLast(frames) \in Seq(Frame) /\ Len(ButLast(frames)) = Len(frames) - 1
      /\ \A i \in 1..Len(frames) - 1 : ButLast(frames)[i] = frames[i]
  BY <1>1, ButLastSeq
<1>3. ASSUME NEW i \in 1..Len(frames) - 1
      PROVE  /\ frames[i] \in Frame /\ frames[i].code \in 1..Len(code)
             /\ code[frames[i].code].fn = frames[i].fn
             /\ frames[i].pc \in 1..Len(program.body[frames[i].fn])
             /\ frames[i].fn \in Scopes
             /\ Len(program.body[frames[i].fn]) \in Nat
  <2>1. i \in 1..Len(frames) /\ i < Len(frames)
    BY <1>1
  <2>2. FrameFits(i)
    BY <2>1 DEF JitInv, FramesFit
  <2>3. frames[i] \in Frame
    BY <1>1, <2>1
  <2>4. frames[i].fn \in Scopes
    BY <2>3 DEF Frame
  <2>5. Len(program.body[frames[i].fn]) \in Nat
    BY <1>1, <2>4, CallIsItem
  <2> QED
    BY <2>1, <2>2, <2>3, <2>4, <2>5 DEF FrameFits
<1> QED
  BY <1>2, <1>3

(* A function returns.                                                     *)
LEMMA ReturnFromFragmentStep ==
  ASSUME JitInv, ReturnFromFragment
  PROVE  JitInv'
<1>1. /\ outcome = "none" /\ frames # <<>> /\ compiling = <<>> /\ resolving = 0 /\ ~raising
      /\ UNCHANGED <<program, fragments, code, callsites, inProgress, compiling,
                     resolving, raising>>
      /\ raising' \in BOOLEAN /\ ~raising'
  BY RaisingIsBoolean DEF ReturnFromFragment, Executing
<1>2. Kept /\ TypeOK
  BY <1>1 DEF Kept, JitInv
<1>3. CASE Len(frames) = 1
  <2>1. frames' = <<>> /\ outcome' = "ended"
    BY <1>3 DEF ReturnFromFragment
  <2>2. frames' \in Seq(Frame) /\ \A i : i \notin 1..Len(frames')
    BY <2>1
  <2> QED
    BY <1>1, <2>1, <2>2, RunStep
<1>4. CASE Len(frames) # 1
  <2>1. PICK n \in Nat \ {0} : n = Len(frames) - 1 /\ n - 1 \in Nat
    <3>1. Len(frames) \in Nat \ {0}
      BY <1>1, AtFrame
    <3>2. PICK n : n = Len(frames) - 1
      OBVIOUS
    <3>3. n \in Nat \ {0} /\ n - 1 \in Nat
      BY <1>4, <3>1, <3>2
    <3> QED
      BY <3>2, <3>3
  <2>2. PICK q, t : q = frames[n] /\ t = ReturnType(Running.fn, Running.last)
    OBVIOUS
  <2>3. PICK r : r = [q EXCEPT !.pc = @ + 1, !.last = t]
    OBVIOUS
  <2>4. frames' = Append(SubSeq(frames, 1, Len(frames) - 2), r) /\ outcome' = outcome
    BY <1>4, <2>1, <2>2, <2>3 DEF ReturnFromFragment
  <2>5. /\ q \in Frame /\ q.code \in 1..Len(code) /\ code[q.code].fn = q.fn
        /\ q.pc \in 1..Len(program.body[q.fn]) /\ q.fn \in Scopes
        /\ Len(program.body[q.fn]) \in Nat
    <3>1. n \in 1..Len(frames) - 1
      BY <2>1
    <3> QED
      BY <1>1, <1>2, <2>2, <3>1, FramePopped
  <2>6. t \in FragmentTypes
    BY <1>1, <1>2, <2>2, AtFrame, ReturnTypeIsType
  <2>7. /\ r \in Frame /\ r.fn = q.fn /\ r.code = q.code /\ r.pc = q.pc + 1
    <3>1. q.pc \in Nat /\ q.pc + 1 \in Nat
      BY <2>5
    <3> QED
      BY <2>3, <2>5, <2>6, <3>1 DEF Frame
  <2>8. PICK u \in Seq(Frame) : /\ u = SubSeq(frames, 1, Len(frames) - 2) /\ Len(u) = n - 1
                                /\ \A i \in 1..n - 1 : u[i] = frames[i]
    <3>1. /\ frames \in Seq(Frame) /\ Len(frames) \in Nat /\ n - 1 = Len(frames) - 2
      BY <1>1, <2>1, AtFrame
    <3>2. \A i \in 1..n - 1 : frames[i] \in Frame
      BY <2>1, <3>1
    <3>3. PICK m : m = n - 1
      OBVIOUS
    <3>4. /\ SubSeq(frames, 1, m) \in Seq(Frame) /\ Len(SubSeq(frames, 1, m)) = m
          /\ \A i \in 1..m : SubSeq(frames, 1, m)[i] = frames[i]
      BY <2>1, <3>2, <3>3, SubSeqProperties
    <3> QED
      BY <3>1, <3>3, <3>4
  <2>9. /\ frames' \in Seq(Frame) /\ frames' # <<>> /\ Len(frames') = n
        /\ \A i \in 1..n - 1 : frames'[i] = frames[i]
        /\ frames'[n] = r
    <3>1. frames' = Append(u, r)
      BY <2>4, <2>8
    <3>2. /\ Append(u, r) \in Seq(Frame) /\ Len(Append(u, r)) = Len(u) + 1
          /\ \A i \in 1..Len(u) : Append(u, r)[i] = u[i]
          /\ Append(u, r)[Len(u) + 1] = r
      BY <2>7, AppendSeq
    <3>3. Len(u) = n - 1 /\ Len(u) + 1 = n
      BY <2>1, <2>8
    <3> QED
      BY <2>1, <2>8, <3>1, <3>2, <3>3
  <2>10. ASSUME NEW i \in 1..Len(frames')
         PROVE  FrameFits(i)'
    <3>1. CASE i = n
      <4>1. frames'[i] = r /\ ~(i < Len(frames'))
        BY <2>1, <2>9, <3>1
      <4>2. r.pc \in 1..(Len(program.body[r.fn]) + 1)
        BY <2>5, <2>7, SMTT(30)
      <4> QED
        BY <1>1, <2>5, <2>7, <4>1, <4>2 DEF FrameFits
    <3>2. CASE i # n
      <4>1. i \in 1..n /\ i \in 1..n - 1 /\ i < n
        BY <2>1, <2>9, <3>2
      <4>2. /\ frames[i].code \in 1..Len(code) /\ code[frames[i].code].fn = frames[i].fn
            /\ frames[i].pc \in 1..Len(program.body[frames[i].fn])
            /\ Len(program.body[frames[i].fn]) \in Nat
        BY <1>1, <1>2, <2>1, <4>1, FramePopped
      <4>3. frames'[i] = frames[i]
        BY <2>9, <4>1
      <4> QED
        BY <1>1, <4>2, <4>3 DEF FrameFits
    <3> QED
      BY <3>1, <3>2
  <2> QED
    BY <1>1, <2>4, <2>9, <2>10, RunStep
<1> QED
  BY <1>3, <1>4

(* The exception leaves a frame.                                           *)
LEMMA LeaveFrameStep ==
  ASSUME JitInv, LeaveFrame
  PROVE  JitInv'
<1>1. /\ raising /\ outcome = "none" /\ frames' = ButLast(frames)
      /\ raising' = (Len(frames) > 1)
      /\ outcome' = IF Len(frames) = 1 THEN "ended" ELSE outcome
      /\ UNCHANGED <<program, fragments, code, callsites, inProgress, compiling, resolving>>
  BY DEF LeaveFrame
<1>2. /\ frames # <<>> /\ compiling = <<>> /\ resolving = 0
  BY <1>1, AtTop DEF JitInv, FramesFit
<1>3. Kept
  BY <1>1 DEF Kept
<1>4. Len(frames) \in Nat \ {0}
  BY <1>2, AtFrame
<1>5. /\ frames' \in Seq(Frame) /\ Len(frames') = Len(frames) - 1
      /\ \A i \in 1..Len(frames) - 1 :
           /\ frames'[i] = frames[i]
           /\ frames[i].code \in 1..Len(code)
           /\ code[frames[i].code].fn = frames[i].fn
           /\ frames[i].pc \in 1..Len(program.body[frames[i].fn])
           /\ Len(program.body[frames[i].fn]) \in Nat
  BY <1>1, <1>2, <1>3, FramePopped
<1>6. \A i \in 1..Len(frames') : FrameFits(i)'
  BY <1>1, <1>4, <1>5, SMTT(30) DEF FrameFits
<1>7. raising' => frames' # <<>> /\ Running'.pc <= Len(program.body[Running'.fn])
  <2>1. SUFFICES ASSUME Len(frames) > 1
                 PROVE  frames' # <<>> /\ Running'.pc <= Len(program.body[Running'.fn])
    BY <1>1
  <2>2. PICK m : m = Len(frames) - 1
    OBVIOUS
  <2>3. m \in Nat \ {0} /\ m \in 1..Len(frames) - 1 /\ Len(frames') = m
    BY <1>4, <1>5, <2>1, <2>2
  <2>4. Running' = frames'[m] /\ frames' # <<>>
    BY <2>3 DEF Running
  <2> QED
    BY <1>5, <2>3, <2>4
<1>8. /\ raising' \in BOOLEAN
      /\ outcome' \in {"none", "ended", "refused", "null call", "bad jump"}
  BY <1>1
<1> QED
  BY <1>1, <1>2, <1>5, <1>6, <1>7, <1>8, RunStep
-------------------------------------------------------------------------------
(* What a visitor's step leaves alone.                                     *)
LEMMA FramesFitStay ==
  ASSUME JitInv, Kept, UNCHANGED <<frames, raising, resolving>>
  PROVE  FramesFit'
<1>1. \A i \in 1..Len(frames) : FrameFits(i)'
  BY FramesStay
<1>2. program' = program
  BY DEF Kept
<1>3. CASE resolving = 0
  BY <1>1, <1>2, <1>3 DEF JitInv, FramesFit, Running
<1>4. CASE resolving # 0
  <2>1. PICK t, site : t = resolving /\ site = callsites[t]
    OBVIOUS
  <2>2. TypeOK /\ t \in 1..Len(callsites)
    <3>1. TypeOK
      BY DEF JitInv
    <3>2. Len(callsites) \in Nat /\ resolving \in 0..Len(callsites)
      BY <3>1, LengthsAreNumbers DEF TypeOK
    <3> QED
      BY <1>4, <2>1, <3>1, <3>2
  <2>3. site.fn \in Scopes
    BY <2>1, <2>2, CallsiteIsCallsite
  <2>4. InCompiled(site) /\ site.fn = Running.fn /\ ~raising
    BY <1>4, <2>1 DEF JitInv, FramesFit, InCompiled
  <2>5. InCompiled(site)' /\ callsites'[t] = site
    BY <2>1, <2>2, <2>3, <2>4, CompiledStays DEF Kept
  <2>6. InCompiled(callsites[resolving])' /\ callsites'[resolving'].fn = Running.fn
    BY <2>1, <2>4, <2>5 DEF InCompiled
  <2>7. frames # <<>> /\ Running.pc <= Len(program.body[Running.fn])
    BY <1>4 DEF JitInv, FramesFit
  <2> QED
    BY <1>1, <1>2, <2>4, <2>6, <2>7 DEF FramesFit, Running
<1> QED
  BY <1>3, <1>4

(* The names in progress stay, if those of the activations do.             *)
LEMMA ProgressStays ==
  ASSUME InProgressFits, inProgress' = inProgress, Len(compiling') = Len(compiling),
         \A j \in 1..Len(compiling) :
           ScopeName(fragments', compiling'[j].fn, compiling'[j].index)
             = ScopeName(fragments, compiling[j].fn, compiling[j].index)
  PROVE  InProgressFits'
  BY DEF InProgressFits

(* visit(FunctionCall) writes a call to the fragment it has found.         *)
LEMMA VisitDirectCallStep ==
  ASSUME JitInv, VisitDirectCall
  PROVE  JitInv'
<1>1. /\ compiling # <<>> /\ Top.pc <= Len(program.body[Top.fn])
      /\ FragmentIndex(TheCall.callee, TheType) # 0
      /\ UNCHANGED <<program, fragments, code, callsites, inProgress, resolving,
                     frames, raising, outcome>>
  BY DEF VisitDirectCall, AtCall, InCall
<1>2. TypeOK /\ Kept /\ Top.pc \in 1..Len(program.body[Top.fn])
  BY <1>1, AtTop DEF JitInv, Kept
<1>3. PICK f, t, i : f = TheCall.callee /\ t = TheType /\ i = FragmentIndex(f, t)
  OBVIOUS
<1>4. f \in Scopes /\ i \in 1..Len(fragments[f])
  <2>1. f \in Scopes
    BY <1>1, <1>2, <1>3, AtTop, CallIsItem DEF TheCall
  <2>2. i \in 0..Len(fragments[f]) /\ Len(fragments[f]) \in Nat
    BY <1>2, <1>3, <2>1, FragmentIndexFinds, TableIsTable DEF JitInv
  <2>3. i # 0
    BY <1>1, <1>3 DEF FragmentIndex
  <2> QED
    BY <2>1, <2>2, <2>3
<1>5. PICK c, q : c = fragments[f][i].compiled /\ q = fragments[f][i].returnType
  OBVIOUS
<1>6. c \in Nat /\ q \in FragmentTypes
  <2>1. fragments[f][i] \in Fragment
    BY <1>2, <1>4, TableIsTable, ElementOfSeq
  <2> QED
    BY <1>5, <2>1 DEF Fragment
<1>7. c # 0 => c \in 1..Len(code) /\ code[c].fn = f
  BY <1>4, <1>5 DEF JitInv, FragmentsFit
<1>8. PICK a : a = Top
  OBVIOUS
<1>9. /\ a = compiling[Len(compiling)] /\ a \in Activation
      /\ a.pc \in 1..Len(a.sites) /\ a.pc \in 1..Len(program.body[a.fn])
      /\ Len(compiling) \in 1..Len(compiling) /\ a.fn \in Scopes
  BY <1>1, <1>2, <1>8, AtTop
<1>10. PICK b : b = AfterCall(a, c, q)
  OBVIOUS
<1>11. /\ b \in Activation
       /\ b.fn = a.fn /\ b.index = a.index /\ b.why = a.why /\ b.pc = a.pc + 1
       /\ Len(b.sites) = Len(a.sites)
       /\ \A k \in 1..Len(a.sites) :
             b.sites[k] = IF k = a.pc THEN Direct(c, q) ELSE a.sites[k]
  <2>1. b \in Activation
    BY <1>6, <1>9, <1>10, AfterCallEffect
  <2>2. b.fn = a.fn /\ b.index = a.index /\ b.why = a.why /\ b.pc = a.pc + 1
    BY <1>6, <1>9, <1>10, AfterCallEffect
  <2>3. Len(b.sites) = Len(a.sites)
    BY <1>6, <1>9, <1>10, AfterCallEffect
  <2>4. \A k \in 1..Len(a.sites) :
          b.sites[k] = IF k = a.pc THEN Direct(c, q) ELSE a.sites[k]
    BY <1>6, <1>9, <1>10, AfterCallEffect
  <2> QED
    BY <2>1, <2>2, <2>3, <2>4
<1>12. compiling' = SetLast(compiling, b)
  <2>1. i = FragmentIndex(TheCall.callee, TheType)
    BY <1>3 DEF FragmentIndex
  <2>2. LET r == fragments[TheCall.callee][FragmentIndex(TheCall.callee, TheType)]
        IN compiling' = SetLast(compiling, AfterCall(Top, r.compiled, r.returnType))
    BY DEF VisitDirectCall
  <2>3. fragments[TheCall.callee][FragmentIndex(TheCall.callee, TheType)] = fragments[f][i]
    BY <1>3, <2>1
  <2> QED
    BY <1>5, <1>8, <1>10, <2>2, <2>3
<1>13. /\ compiling' \in Seq(Activation) /\ Len(compiling') = Len(compiling)
       /\ compiling'[Len(compiling)] = b
       /\ \A j \in 1..Len(compiling) : j # Len(compiling) => compiling'[j] = compiling[j]
  <2>1. compiling \in Seq(Activation)
    BY <1>2 DEF TypeOK
  <2>2. \A r \in Activation :
          /\ SetLast(compiling, r) \in Seq(Activation)
          /\ Len(SetLast(compiling, r)) = Len(compiling)
          /\ SetLast(compiling, r)[Len(compiling)] = r
          /\ \A j \in 1..Len(compiling) : j # Len(compiling) =>
               SetLast(compiling, r)[j] = compiling[j]
    BY <1>1, <2>1, SetLastSeq
  <2> QED
    BY <1>11, <1>12, <2>2
<1>14. TypeOK'
  BY <1>1, <1>2, <1>13 DEF TypeOK
<1>15. PICK n, p, site : n = Len(compiling) /\ p = a.pc /\ site = Direct(c, q)
  OBVIOUS
<1>16. SiteFits(a.fn, p, site)'
  BY <1>1, <1>3, <1>7, <1>8, <1>15 DEF SiteFits, Direct, TheCall
<1>17. StackFits'
  <2>1. /\ n \in 1..Len(compiling) /\ Len(compiling') = n
        /\ compiling'[n] = b /\ compiling[n] = a
        /\ \A j \in 1..n : j # n => compiling'[j] = compiling[j]
    BY <1>9, <1>13, <1>15
  <2>2. /\ compiling'[n].fn = compiling[n].fn /\ compiling'[n].index = compiling[n].index
        /\ compiling'[n].why = compiling[n].why /\ compiling'[n].pc >= 1
    BY <1>9, <1>11, <2>1
  <2>3. SiteFits(compiling[n].fn, p, site)'
    BY <1>11, <1>16, <2>1 DEF SiteFits
  <2>4. /\ Len(compiling'[n].sites) = Len(compiling[n].sites)
        /\ p \in 1..Len(compiling[n].sites)
        /\ \A k \in 1..Len(compiling[n].sites) :
             compiling'[n].sites[k] = IF k = p THEN site ELSE compiling[n].sites[k]
    BY <1>9, <1>11, <1>15, <2>1
  <2>5. site.kind # "stub"
    BY <1>15 DEF Direct
  <2> QED
    BY <1>1, <1>2, <1>14, <2>1, <2>2, <2>3, <2>4, <2>5, StackStep
<1>18. FragmentsFit' /\ CodeFits' /\ FramesFit'
  BY <1>1, <1>2, CodeStays, FramesFitStay DEF JitInv, FragmentsFit, CodeFits
<1>19. InProgressFits'
  BY <1>1, <1>9, <1>11, <1>13, ProgressStays DEF JitInv, ScopeName
<1> QED
  BY <1>1, <1>14, <1>17, <1>18, <1>19 DEF JitInv

(* The first n activations are left, with their fragments and their names. *)
OthersLeft(stack, n) ==
  /\ n \in 1..Len(compiling) /\ Len(stack) = n
  /\ compiling[n].pc \in 1..Len(program.body[compiling[n].fn])
  /\ \A j \in 1..n : stack[j] = compiling[j]
  /\ fragments' \in FragmentTable
  /\ \A g \in Scopes : \A j \in 1..Len(fragments[g]) :
       fragments[g][j].compiled # 0 =>
         j \in 1..Len(fragments'[g]) /\ fragments'[g][j].compiled # 0
  /\ \A i \in 1..n : fragments'[compiling[i].fn] = fragments[compiling[i].fn]
  /\ inProgress' \subseteq Scopes \X FragmentTypes
  /\ inProgress' = {ScopeName(fragments, compiling[j].fn, compiling[j].index) : j \in 1..n}

(* The n-th activation is on top and writes a stub: in VisitLazyCall it    *)
(* was on top, in FailFragment its callee's activation was.                *)
LEMMA StubStep ==
  ASSUME JitInv, NEW stack \in Seq(Activation), stack # <<>>, WriteStub(stack),
         NEW n,
         UNCHANGED <<program, code, resolving, frames, raising, outcome>>,
         FragmentsFit', OthersLeft(stack, n)
  PROVE  JitInv'
<1>1. /\ TypeOK /\ n \in Nat \ {0} /\ n <= Len(compiling) /\ n \in 1..n
      /\ Len(stack) = n /\ n \in 1..Len(compiling)
      /\ Len(callsites) \in Nat /\ callsites \in Seq(Callsite)
  <2>1. TypeOK
    BY DEF JitInv
  <2>2. compiling \in Seq(Activation)
    BY <2>1 DEF TypeOK
  <2>3. Len(compiling) \in Nat
    BY <2>2
  <2> QED
    BY <2>1, <2>3, LengthsAreNumbers DEF OthersLeft
<1>2. PICK a : a = compiling[n] /\ a = stack[Len(stack)]
  BY <1>1 DEF OthersLeft
<1>3. a \in Activation
  BY <1>2, LastOfSeq
<1>4. Len(a.sites) = Len(program.body[a.fn]) /\ a.pc \in 1..Len(program.body[a.fn])
  BY <1>1, <1>2 DEF JitInv, StackFits, ActivationFits, SitesFit, OthersLeft
<1>5. PICK token, b, site :
        token = Len(callsites) + 1 /\ b = compiling'[n] /\ site = callsites'[token]
  OBVIOUS
<1>6. /\ callsites' \in Seq(Callsite) /\ Len(callsites') = token
      /\ \A i \in 1..Len(callsites) : callsites'[i] = callsites[i]
      /\ callsites'[token].fn = a.fn /\ callsites'[token].index = a.index
      /\ compiling' \in Seq(Activation) /\ Len(compiling') = n
      /\ \A i \in 1..n : i # n => compiling'[i] = stack[i]
      /\ b.fn = a.fn /\ b.index = a.index /\ b.why = a.why /\ b.pc >= 1
      /\ Len(b.sites) = Len(a.sites)
      /\ \A k \in 1..Len(a.sites) :
            b.sites[k] = IF k = a.pc THEN Stub(token) ELSE a.sites[k]
  <2>1. /\ a = stack[Len(stack)] /\ stack \in Seq(Activation) /\ stack # <<>>
        /\ a.pc \in 1..Len(program.body[a.fn]) /\ Len(a.sites) = Len(program.body[a.fn])
        /\ WriteStub(stack) /\ TypeOK
        /\ b = compiling'[Len(stack)] /\ token = Len(callsites) + 1
        /\ site = callsites'[token]
    BY <1>1, <1>2, <1>4, <1>5
  <2>2. /\ callsites' \in Seq(Callsite) /\ Len(callsites') = token
        /\ \A i \in 1..Len(callsites) : callsites'[i] = callsites[i]
        /\ site.fn = a.fn /\ site.index = a.index
        /\ compiling' \in Seq(Activation) /\ Len(compiling') = Len(stack)
        /\ \A i \in 1..Len(stack) : i # Len(stack) => compiling'[i] = stack[i]
        /\ b = AfterStub(a, token)
    <3>1. callsites' \in Seq(Callsite) /\ Len(callsites') = token
      BY <2>1, WriteStubEffect
    <3>2. \A i \in 1..Len(callsites) : callsites'[i] = callsites[i]
      BY <2>1, WriteStubEffect
    <3>3. site.fn = a.fn /\ site.index = a.index
      BY <2>1, WriteStubEffect
    <3>4. compiling' \in Seq(Activation) /\ Len(compiling') = Len(stack)
      BY <2>1, WriteStubEffect
    <3>5. \A i \in 1..Len(stack) : i # Len(stack) => compiling'[i] = stack[i]
      BY <2>1, WriteStubEffect
    <3>6. b = AfterStub(a, token)
      BY <2>1, WriteStubEffect, SMTT(30)
    <3> QED
      BY <3>1, <3>2, <3>3, <3>4, <3>5, <3>6
  <2>3. token \in Nat
    BY <1>1, <1>5
  <2>4. /\ b.fn = a.fn /\ b.index = a.index /\ b.why = a.why /\ b.pc >= 1
        /\ Len(b.sites) = Len(a.sites)
        /\ \A k \in 1..Len(a.sites) :
              b.sites[k] = IF k = a.pc THEN Stub(token) ELSE a.sites[k]
    <3>0. /\ a \in Activation /\ TypeOK /\ token \in Nat
          /\ a.pc \in 1..Len(program.body[a.fn]) /\ Len(a.sites) = Len(program.body[a.fn])
          /\ b = AfterStub(a, token)
      BY <1>3, <2>1, <2>2, <2>3
    <3>1. b.fn = a.fn /\ b.index = a.index /\ b.why = a.why /\ b.pc >= 1
      BY <3>0, AfterStubEffect
    <3>2. Len(b.sites) = Len(a.sites)
      BY <3>0, AfterStubEffect
    <3>3. \A k \in 1..Len(a.sites) :
            b.sites[k] = IF k = a.pc THEN Stub(token) ELSE a.sites[k]
      BY <3>0, AfterStubEffect
    <3> QED
      BY <3>1, <3>2, <3>3
  <2>5. Len(stack) = n /\ \A i \in 1..n : i # n => compiling'[i] = stack[i]
    BY <1>1, <2>2
  <2> QED
    BY <2>1, <2>2, <2>4, <2>5
<1>7. Kept
  <2>1. \A t \in 1..Len(callsites) : t \in 1..Len(callsites')
    BY <1>1, <1>5, <1>6
  <2> QED
    BY <1>6, <2>1 DEF Kept, OthersLeft
<1>8. TypeOK'
  <2>1. resolving' \in 0..Len(callsites')
    <3>1. resolving \in 0..Len(callsites)
      BY <1>1 DEF TypeOK
    <3> QED
      BY <1>1, <1>5, <1>6, <3>1
  <2> QED
    BY <1>1, <1>6, <2>1 DEF TypeOK, FragmentTable, Callsite, OthersLeft
<1>9. StackFits'
  <2>1. PICK p, stub : p = a.pc /\ stub = Stub(token)
    OBVIOUS
  <2>2. /\ \A i \in 1..n : i # n => compiling'[i] = compiling[i]
        /\ compiling'[n].fn = compiling[n].fn /\ compiling'[n].index = compiling[n].index
        /\ compiling'[n].why = compiling[n].why /\ compiling'[n].pc >= 1
    BY <1>2, <1>5, <1>6 DEF OthersLeft
  <2>3. stub.kind = "stub" /\ stub.target = token
    BY <2>1 DEF Stub
  <2>4. SiteFits(compiling[n].fn, p, stub)'
    <3>1. token \in 1..Len(callsites') /\ callsites'[token].fn = compiling'[n].fn
      BY <1>1, <1>5, <1>6
    <3> QED
      BY <2>3, <3>1 DEF SiteFits
  <2>5. callsites'[stub.target].index = compiling'[n].index
    BY <1>5, <1>6, <2>3
  <2>6. /\ Len(compiling'[n].sites) = Len(compiling[n].sites)
        /\ p \in 1..Len(compiling[n].sites)
        /\ \A k \in 1..Len(compiling[n].sites) :
             compiling'[n].sites[k] = IF k = p THEN stub ELSE compiling[n].sites[k]
    BY <1>2, <1>4, <1>5, <1>6, <2>1
  <2>7. \A i \in 1..n : LET g == compiling[i].fn
          IN /\ Len(fragments'[g]) = Len(fragments[g])
             /\ \A j \in 1..Len(fragments[g]) :
                  fragments'[g][j].compiled = fragments[g][j].compiled
    BY DEF OthersLeft
  <2> QED
    BY <1>1, <1>6, <1>7, <1>8, <2>2, <2>4, <2>5, <2>6, <2>7, StackStep
<1>10. CodeFits' /\ FramesFit'
  BY <1>7, CodeStays, FramesFitStay DEF CodeFits
<1>11. InProgressFits'
  <2>1. \A j \in 1..n : compiling'[j].fn = compiling[j].fn /\ compiling'[j].index = compiling[j].index
    BY <1>2, <1>5, <1>6 DEF OthersLeft
  <2>2. \A j \in 1..n : ScopeName(fragments', compiling'[j].fn, compiling'[j].index)
                        = ScopeName(fragments, compiling[j].fn, compiling[j].index)
    BY <2>1 DEF ScopeName, OthersLeft
  <2> QED
    BY <1>6, <2>2 DEF InProgressFits, OthersLeft
<1> QED
  BY <1>8, <1>9, <1>10, <1>11 DEF JitInv

(* visit(FunctionCall) writes a stub.                                      *)
LEMMA VisitLazyCallStep ==
  ASSUME JitInv, VisitLazyCall
  PROVE  JitInv'
<1>1. /\ compiling # <<>> /\ Top.pc <= Len(program.body[Top.fn])
      /\ UNCHANGED <<program, fragments, code, inProgress, resolving, frames, raising, outcome>>
  BY DEF VisitLazyCall, AtCall, InCall
<1>2. PICK stack, n : stack = compiling /\ n = Len(compiling)
  OBVIOUS
<1>3. WriteStub(stack)
  BY <1>2 DEF VisitLazyCall, WriteStub
<1>4. TypeOK /\ fragments \in FragmentTable
  BY TableIsTable DEF JitInv
<1>5. stack \in Seq(Activation) /\ stack # <<>> /\ Len(stack) = n /\ n \in 1..Len(compiling)
  BY <1>1, <1>2, <1>4, AtTop DEF TypeOK
<1>6. compiling[n].pc \in 1..Len(program.body[compiling[n].fn])
  BY <1>1, <1>2, AtTop
<1>7. fragments' \in FragmentTable /\ FragmentsFit'
  BY <1>1, <1>4 DEF JitInv, FragmentsFit
<1>8. /\ inProgress' \subseteq Scopes \X FragmentTypes
      /\ inProgress' = {ScopeName(fragments, compiling[j].fn, compiling[j].index) : j \in 1..n}
  BY <1>1, <1>2, <1>4 DEF JitInv, InProgressFits, TypeOK
<1>9. OthersLeft(stack, n)
  BY <1>1, <1>2, <1>5, <1>6, <1>7, <1>8 DEF OthersLeft
<1>10. UNCHANGED <<program, code, resolving, frames, raising, outcome>>
  BY <1>1
<1> QED
  BY <1>3, <1>5, <1>7, <1>9, <1>10, StubStep
-------------------------------------------------------------------------------
(* compile_fragment returns: the type it infers, the table it leaves.      *)
LEMMA InferredTypeIsType ==
  ASSUME TypeOK, compiling # <<>>
  PROVE  InferredType(Top.fn) \in FragmentTypes
<1>1. /\ Top.fn \in Scopes /\ Top.last \in FragmentTypes
      /\ Top.returned \in SUBSET FragmentTypes
  BY TopIsActivation
<1>2. Returned \subseteq FragmentTypes
  BY <1>1, ReturnTypeIsType DEF Returned
<1>3. program.annotation[Top.fn] \in FragmentTypes
  BY <1>1, ReturnTypeIsType
<1> QED
  BY <1>2, <1>3, Numbers DEF InferredType

(* Fragment i of function f has got code c.                                *)
Finished(f, i, c) ==
  /\ fragments' \in FragmentTable
  /\ \A g \in Scopes : Len(fragments'[g]) = Len(fragments[g])
  /\ \A g \in Scopes : \A j \in 1..Len(fragments[g]) :
       /\ fragments'[g][j].arg = fragments[g][j].arg
       /\ fragments'[g][j].compiled = IF g = f /\ j = i THEN c ELSE fragments[g][j].compiled
  /\ code' \in Seq(CodeObject) /\ Len(code') = c
  /\ \A d \in 1..Len(code) : code'[d] = code[d]
  /\ code'[c].fn = f /\ code'[c].sites = Top.sites
  /\ program' = program /\ callsites' = callsites

(* What compile_fragment does to the table and to the code when it         *)
(* returns.                                                                *)
LEMMA FinishView ==
  ASSUME JitInv, FinishFragment, NEW f, f = Top.fn, NEW i, i = Top.index,
         NEW c, c = Len(code) + 1
  PROVE  /\ compiling # <<>>
         /\ Finished(f, i, c)
         /\ inProgress' = inProgress \ {ScopeName(fragments, f, i)}
         /\ raising' = raising
<1>1. /\ compiling # <<>>
      /\ code' = Append(code, [fn |-> f, sites |-> Top.sites])
      /\ inProgress' = inProgress \ {ScopeName(fragments, f, i)}
      /\ program' = program /\ callsites' = callsites /\ raising' = raising
  BY DEF FinishFragment, AtEnd, LeaveScope
<1>2. PICK q : q = InferredType(f)
  OBVIOUS
<1>3. PICK splits : splits = Top.splits
  OBVIOUS
<1>4. fragments' = [fragments EXCEPT ![f][i].returnType = q, ![f][i].compiled = c,
                                     ![f][i].splits = splits]
  BY <1>2, <1>3 DEF FinishFragment, NewCode, InferredType
<1>5. /\ TypeOK /\ f \in Scopes /\ i \in 1..Len(fragments[f]) /\ splits \in SUBSET Nat
      /\ Top \in Activation
  BY <1>1, <1>3, AtTop, TopIsActivation DEF JitInv
<1>6. /\ q \in FragmentTypes /\ c \in Nat /\ fragments \in FragmentTable
      /\ code \in Seq(CodeObject) /\ Len(code) \in Nat
  BY <1>1, <1>2, <1>5, InferredTypeIsType, LengthsAreNumbers, TableIsTable
<1>7. PICK table, u : table = fragments /\ u = fragments'
  OBVIOUS
<1>8. /\ table \in FragmentTable /\ i \in 1..Len(table[f])
      /\ u = TableAfter(table, f, i, q, c, splits)
  BY <1>4, <1>5, <1>6, <1>7 DEF TableAfter
<1>9. /\ u \in FragmentTable
      /\ \A g \in Scopes : Len(u[g]) = Len(table[g])
      /\ \A g \in Scopes : \A j \in 1..Len(table[g]) :
           /\ u[g][j].arg = table[g][j].arg
           /\ u[g][j].compiled = IF g = f /\ j = i THEN c ELSE table[g][j].compiled
  <2>1. f \in Scopes /\ q \in FragmentTypes /\ c \in Nat /\ splits \in SUBSET Nat
    BY <1>5, <1>6
  <2>2. u \in FragmentTable
    BY <1>8, <2>1, FinishTable
  <2>3. \A g \in Scopes : Len(u[g]) = Len(table[g])
    BY <1>8, <2>1, FinishTable
  <2>4. \A g \in Scopes : \A j \in 1..Len(table[g]) : u[g][j].arg = table[g][j].arg
    BY <1>8, <2>1, FinishTable
  <2>5. \A g \in Scopes : \A j \in 1..Len(table[g]) :
          u[g][j].compiled = IF g = f /\ j = i THEN c ELSE table[g][j].compiled
    BY <1>8, <2>1, FinishTable, SMTT(30)
  <2> QED
    BY <2>2, <2>3, <2>4, <2>5
<1>10. /\ fragments' \in FragmentTable
       /\ \A g \in Scopes : Len(fragments'[g]) = Len(fragments[g])
       /\ \A g \in Scopes : \A j \in 1..Len(fragments[g]) :
            /\ fragments'[g][j].arg = fragments[g][j].arg
            /\ fragments'[g][j].compiled = IF g = f /\ j = i THEN c ELSE fragments[g][j].compiled
  BY <1>7, <1>9
<1>11. PICK o : o = [fn |-> f, sites |-> Top.sites]
  OBVIOUS
<1>12. o \in CodeObject /\ o.fn = f /\ o.sites = Top.sites
  BY <1>5, <1>11 DEF CodeObject, Activation
<1>13. /\ code' \in Seq(CodeObject) /\ Len(code') = c /\ code'[c] = o
       /\ \A d \in 1..Len(code) : code'[d] = code[d]
  BY <1>1, <1>6, <1>11, <1>12, AppendSeq
<1>14. Finished(f, i, c)
  BY <1>1, <1>10, <1>12, <1>13 DEF Finished
<1> QED
  BY <1>1, <1>14

(* The new code fits, and what was there before.                           *)
LEMMA FinishFits ==
  ASSUME JitInv, compiling # <<>>, NEW f, f = Top.fn, NEW i, i = Top.index,
         NEW c, c = Len(code) + 1, Finished(f, i, c)
  PROVE  Kept /\ FragmentsFit' /\ CodeFits'
<1>1. /\ TypeOK /\ f \in Scopes /\ i \in 1..Len(fragments[f]) /\ Len(code) \in Nat
      /\ c \in Nat \ {0} /\ c \in 1..c
  BY AtTop, LengthsAreNumbers DEF JitInv
<1>2. Kept
  <2>1. \A d \in 1..Len(code) : d \in 1..Len(code') /\ code'[d] = code[d]
    BY <1>1 DEF Finished
  <2>2. \A g \in Scopes : \A j \in 1..Len(fragments[g]) :
          fragments[g][j].compiled # 0 =>
            j \in 1..Len(fragments'[g]) /\ fragments'[g][j].compiled # 0
    BY <1>1 DEF Finished
  <2> QED
    BY <2>1, <2>2 DEF Finished, Kept
<1>3. FragmentsFit'
  <2>1. Len(fragments'[Root]) >= 1
    BY Numbers DEF JitInv, FragmentsFit, Finished
  <2>2. ASSUME NEW g \in Scopes, NEW j \in 1..Len(fragments'[g])
        PROVE  LET d == fragments'[g][j].compiled
               IN d = 0 \/ (d \in 1..Len(code') /\ code'[d].fn = g)
    <3>1. j \in 1..Len(fragments[g])
      BY DEF Finished
    <3>2. CASE g = f /\ j = i
      BY <1>1, <3>1, <3>2 DEF Finished
    <3>3. CASE ~(g = f /\ j = i)
      <4>1. PICK d : d = fragments[g][j].compiled
        OBVIOUS
      <4>2. fragments'[g][j].compiled = d
        BY <3>1, <3>3, <4>1 DEF Finished
      <4>3. d = 0 \/ (d \in 1..Len(code) /\ code[d].fn = g)
        BY <3>1, <4>1 DEF JitInv, FragmentsFit
      <4> QED
        BY <1>2, <4>2, <4>3 DEF Kept
    <3> QED
      BY <3>2, <3>3
  <2>3. \A g \in Scopes : \A j, k \in 1..Len(fragments'[g]) :
          fragments'[g][j].arg = fragments'[g][k].arg => j = k
    BY DEF Finished, JitInv, FragmentsFit
  <2> QED
    BY <2>1, <2>2, <2>3 DEF FragmentsFit
<1>4. CodeFitsAt(c)'
  <2>1. PICK s : s = Top.sites
    OBVIOUS
  <2>2. /\ SitesFit(f, s)
        /\ \A k \in 1..Len(s) : s[k].kind = "stub" => callsites[s[k].target].index = i
    <3>1. ActivationFits(Len(compiling)) /\ Top = compiling[Len(compiling)]
      BY AtTop DEF JitInv, StackFits
    <3> QED
      BY <2>1, <3>1 DEF ActivationFits, SitesFit
  <2>3. SitesFit(f, s)'
    BY <1>2, <2>2, SitesStay
  <2>4. /\ i \in 1..Len(fragments'[f]) /\ fragments'[f][i].compiled # 0
        /\ code'[c].fn = f /\ code'[c].sites = s /\ callsites' = callsites
    BY <1>1, <2>1 DEF Finished
  <2>5. ASSUME NEW k \in 1..Len(s), s[k].kind = "stub"
        PROVE  InCompiled(callsites[s[k].target])'
    BY <2>2, <2>4, <2>5 DEF InCompiled, SitesFit
  <2>6. SitesFit(code[c].fn, code[c].sites)'
    BY <2>3, <2>4 DEF SitesFit
  <2> QED
    BY <2>4, <2>5, <2>6 DEF CodeFitsAt, InCompiled
<1>5. CodeFits'
  <2>1. ASSUME NEW d \in 1..Len(code')
        PROVE  CodeFitsAt(d)'
    <3>1. d = c \/ d \in 1..Len(code)
      BY <1>1 DEF Finished
    <3>2. CASE d = c
      BY <1>4, <3>2 DEF CodeFitsAt
    <3>3. CASE d \in 1..Len(code)
      BY <1>2, <3>3, CodeStays
    <3> QED
      BY <3>1, <3>2, <3>3
  <2> QED
    BY <2>1 DEF CodeFits
<1> QED
  BY <1>2, <1>3, <1>5

(* The scope on top leaves: the names of those under it remain.            *)
LEMMA ScopeLeft ==
  ASSUME JitInv, compiling # <<>>, NEW n, n = Len(compiling) - 1,
         inProgress' = inProgress \ {ScopeName(fragments, Top.fn, Top.index)}
  PROVE  /\ inProgress' \subseteq Scopes \X FragmentTypes
         /\ inProgress' = {ScopeName(fragments, compiling[j].fn, compiling[j].index) : j \in 1..n}
<1> DEFINE Name(j) == ScopeName(fragments, compiling[j].fn, compiling[j].index)
<1>1. /\ Len(compiling) \in Nat \ {0} /\ n \in Nat /\ n + 1 = Len(compiling)
      /\ Top = compiling[n + 1]
      /\ \A j \in 1..n : j \in 1..n + 1
      /\ \A j \in 1..n + 1 : j \in 1..n \/ j = n + 1
      /\ n + 1 \in 1..n + 1
  BY AtTop
<1>2. \A j \in 1..n : compiling[j].fn # Top.fn
  BY <1>1, AtTop
<1>3. \A j \in 1..n : Name(j) # Name(n + 1)
  BY <1>1, <1>2 DEF ScopeName
<1>4. inProgress = {Name(j) : j \in 1..n + 1} /\ inProgress' = inProgress \ {Name(n + 1)}
  BY <1>1 DEF JitInv, InProgressFits
<1> HIDE DEF Name
<1>5. inProgress' = {Name(j) : j \in 1..n}
  BY <1>1, <1>3, <1>4
<1>6. inProgress' \subseteq Scopes \X FragmentTypes
  <2>1. inProgress \subseteq Scopes \X FragmentTypes
    BY DEF JitInv, TypeOK
  <2> QED
    BY <1>4, <2>1
<1> QED
  BY <1>5, <1>6 DEF Name

(* The types after compile_fragment has returned.                          *)
LEMMA FinishTypes ==
  ASSUME JitInv, NEW f, NEW i, NEW c, Finished(f, i, c),
         inProgress' \subseteq Scopes \X FragmentTypes,
         compiling' \in Seq(Activation), resolving' \in 0..Len(callsites),
         frames' \in Seq(Frame), raising' = raising,
         outcome' \in {"none", "ended", "refused", "null call", "bad jump"}
  PROVE  TypeOK'
  BY DEF JitInv, TypeOK, Finished, FragmentTable, CodeObject

(* Unless it was entered from a visitor, compile_fragment was alone.       *)
LEMMA TopAlone ==
  ASSUME JitInv, compiling # <<>>, Top.why # "eager"
  PROVE  /\ Len(compiling) = 1 /\ Top = compiling[1]
         /\ Top.why = "root" <=> resolving = 0
         /\ Top.why = "root" => Top.fn = Root
         /\ Top.why = "caller" => Top.fn = callsites[resolving].fn
         /\ ~raising
<1>1. /\ Len(compiling) \in Nat \ {0} /\ Len(compiling) \in 1..Len(compiling)
      /\ Top = compiling[Len(compiling)] /\ ~raising
  BY AtTop
<1>2. ActivationFits(Len(compiling))
  BY <1>1 DEF JitInv, StackFits
<1>3. ~(Len(compiling) > 1)
  BY <1>1, <1>2 DEF ActivationFits
<1>4. Len(compiling) = 1
  BY <1>1, <1>3
<1>5. Top = compiling[1]
  BY <1>1, <1>4
<1> QED
  BY <1>1, <1>4, <1>5 DEF JitInv, StackFits

(* The outermost compilation ends: nothing is in progress any more.        *)
LEMMA AloneLeaves ==
  ASSUME JitInv, compiling # <<>>, Top.why # "eager", compiling' = <<>>,
         inProgress' = inProgress \ {ScopeName(fragments, Top.fn, Top.index)}
  PROVE  /\ compiling' \in Seq(Activation)
         /\ inProgress' \subseteq Scopes \X FragmentTypes
         /\ StackFits' /\ InProgressFits'
<1>1. PICK n : n = Len(compiling) - 1
  OBVIOUS
<1>2. n = 0
  <2>1. Len(compiling) = 1
    BY TopAlone
  <2> QED
    BY <1>1, <2>1
<1>3. /\ inProgress' \subseteq Scopes \X FragmentTypes
      /\ inProgress' = {ScopeName(fragments, compiling[j].fn, compiling[j].index) : j \in 1..n}
  BY <1>1, ScopeLeft
<1>4. \A j : j \notin 1..n
  BY <1>2
<1>5. inProgress' = {}
  BY <1>3, <1>4
<1> QED
  BY <1>3, <1>5, NothingCompiled

(* The root scope is compiled: its frame is the first.                     *)
LEMMA FinishRootStep ==
  ASSUME JitInv, FinishFragment, Top.why = "root"
  PROVE  JitInv'
<1>1. PICK f, i, c : f = Top.fn /\ i = Top.index /\ c = Len(code) + 1
  OBVIOUS
<1>2. /\ compiling # <<>> /\ Finished(f, i, c) /\ raising' = raising
      /\ inProgress' = inProgress \ {ScopeName(fragments, f, i)}
  BY <1>1, FinishView
<1>3. Kept /\ FragmentsFit' /\ CodeFits'
  BY <1>1, <1>2, FinishFits
<1>4. /\ compiling' = <<>> /\ resolving' = resolving /\ outcome' = outcome
      /\ frames' = <<[fn |-> Root, index |-> 1, code |-> Len(code) + 1,
                      arg |-> None, pc |-> 1, last |-> None]>>
  BY DEF FinishFragment
<1>5. TypeOK /\ f = Root /\ resolving = 0 /\ ~raising
  BY <1>1, <1>2, TopAlone DEF JitInv
<1>6. PICK r : r = [fn |-> Root, index |-> 1, code |-> c, arg |-> None, pc |-> 1, last |-> None]
  OBVIOUS
<1>7. /\ Len(code) \in Nat /\ Len(program.body[Root]) \in Nat
      /\ c \in Nat /\ c \in 1..c /\ Root \in Scopes
  BY <1>1, <1>5, LengthsAreNumbers, CallIsItem, Numbers
<1>8. /\ r \in Frame /\ r.fn = Root /\ r.code = c /\ r.pc = 1
  BY <1>6, <1>7, Numbers DEF Frame
<1>9. frames' = <<r>>
  BY <1>1, <1>4, <1>6
<1>10. frames' \in Seq(Frame) /\ Len(frames') = 1 /\ frames'[1] = r
  BY <1>8, <1>9
<1>11. /\ compiling' \in Seq(Activation) /\ inProgress' \subseteq Scopes \X FragmentTypes
       /\ StackFits' /\ InProgressFits'
  BY <1>1, <1>2, <1>4, AloneLeaves
<1>12. TypeOK'
  <2>1. /\ resolving' \in 0..Len(callsites)
        /\ outcome' \in {"none", "ended", "refused", "null call", "bad jump"}
    BY <1>4, <1>5 DEF TypeOK
  <2> QED
    BY <1>2, <1>10, <1>11, <2>1, FinishTypes
<1>13. FramesFit'
  <2>1. program' = program /\ Len(code') = c /\ code'[c].fn = Root
    BY <1>2, <1>5 DEF Finished
  <2>2. ASSUME NEW j \in 1..Len(frames')
        PROVE  FrameFits(j)'
    BY <1>7, <1>8, <1>10, <2>1, <2>2 DEF FrameFits
  <2>3. ~raising' /\ resolving' = 0
    BY <1>2, <1>4, <1>5
  <2> QED
    BY <2>2, <2>3 DEF FramesFit
<1>14. program' = program
  BY <1>2 DEF Finished
<1> QED
  BY <1>3, <1>11, <1>12, <1>13, <1>14 DEF JitInv

(* The callee of a stub is compiled: its caller is next.                   *)
LEMMA FinishCalleeStep ==
  ASSUME JitInv, FinishFragment, Top.why = "callee"
  PROVE  JitInv'
<1>1. PICK f, i, c : f = Top.fn /\ i = Top.index /\ c = Len(code) + 1
  OBVIOUS
<1>2. /\ compiling # <<>> /\ Finished(f, i, c) /\ raising' = raising
      /\ inProgress' = inProgress \ {ScopeName(fragments, f, i)}
  BY <1>1, FinishView
<1>3. Kept /\ FragmentsFit' /\ CodeFits'
  BY <1>1, <1>2, FinishFits
<1>4. /\ compiling' = <<>> /\ resolving' = resolving /\ outcome' = outcome /\ frames' = frames
  BY DEF FinishFragment
<1>5. /\ compiling' \in Seq(Activation) /\ inProgress' \subseteq Scopes \X FragmentTypes
      /\ StackFits' /\ InProgressFits'
  BY <1>1, <1>2, <1>4, AloneLeaves
<1>6. TypeOK'
  <2>1. /\ resolving' \in 0..Len(callsites) /\ frames' \in Seq(Frame)
        /\ outcome' \in {"none", "ended", "refused", "null call", "bad jump"}
    BY <1>4 DEF JitInv, TypeOK
  <2> QED
    BY <1>2, <1>5, <2>1, FinishTypes
<1>7. FramesFit'
  BY <1>2, <1>3, <1>4, FramesFitStay
<1>8. program' = program
  BY <1>2 DEF Finished
<1> QED
  BY <1>3, <1>5, <1>6, <1>7, <1>8 DEF JitInv

(* The caller of a stub is compiled again: its frame goes on in the new    *)
(* code.                                                                   *)
LEMMA FinishCallerStep ==
  ASSUME JitInv, FinishFragment, Top.why = "caller"
  PROVE  JitInv'
<1>1. PICK f, i, c : f = Top.fn /\ i = Top.index /\ c = Len(code) + 1
  OBVIOUS
<1>2. /\ compiling # <<>> /\ Finished(f, i, c) /\ raising' = raising
      /\ inProgress' = inProgress \ {ScopeName(fragments, f, i)}
  BY <1>1, FinishView
<1>3. Kept /\ FragmentsFit' /\ CodeFits'
  BY <1>1, <1>2, FinishFits
<1>4. /\ compiling' = <<>> /\ resolving' = 0
      /\ \/ ContinueIn(c) /\ outcome' = outcome
         \/ outcome' = "bad jump" /\ frames' = frames
  BY <1>1 DEF FinishFragment, NewCode, ContinueIn
<1>5. /\ TypeOK /\ resolving # 0 /\ f = callsites[resolving].fn /\ ~raising
      /\ frames # <<>> /\ f = Running.fn
  BY <1>1, <1>2, TopAlone DEF JitInv, FramesFit
<1>6. /\ compiling' \in Seq(Activation) /\ inProgress' \subseteq Scopes \X FragmentTypes
      /\ StackFits' /\ InProgressFits'
  BY <1>1, <1>2, <1>4, AloneLeaves
<1>7. frames' \in Seq(Frame) /\ \A j \in 1..Len(frames') : FrameFits(j)'
  <2>1. CASE frames' = frames
    BY <1>3, <1>5, <2>1, FramesStay DEF TypeOK
  <2>2. CASE ContinueIn(c)
    <3>1. PICK r : r = [Running EXCEPT !.code = c]
      OBVIOUS
    <3>2. c \in Nat /\ c \in 1..Len(code') /\ code'[c].fn = f
      <4>1. Len(code) \in Nat
        BY <1>5, LengthsAreNumbers
      <4> QED
        BY <1>1, <1>2, <4>1 DEF Finished
    <3>3. r \in Frame /\ r.fn = Running.fn /\ r.code = c /\ r.pc = Running.pc
      <4>1. Running \in Frame
        BY <1>5, AtFrame
      <4> QED
        BY <3>1, <3>2, <4>1 DEF Frame
    <3>4. frames' = SetLast(frames, r)
      BY <2>2, <3>1 DEF ContinueIn
    <3>5. r.pc \in 1..(Len(program.body[r.fn]) + 1)
      BY <1>5, <3>3, AtFrame
    <3>6. r.code \in 1..Len(code') /\ code'[r.code].fn = r.fn
      BY <1>5, <3>2, <3>3
    <3> QED
      BY <1>3, <1>5, <3>3, <3>4, <3>5, <3>6, FrameReplaced
  <2> QED
    BY <1>4, <2>1, <2>2
<1>8. TypeOK'
  <2>1. /\ resolving' \in 0..Len(callsites)
        /\ outcome' \in {"none", "ended", "refused", "null call", "bad jump"}
    <3>1. Len(callsites) \in Nat /\ outcome \in {"none", "ended", "refused", "null call", "bad jump"}
      BY <1>5, LengthsAreNumbers DEF TypeOK
    <3>2. resolving' = 0 /\ (outcome' = outcome \/ outcome' = "bad jump")
      BY <1>4
    <3>3. 0 \in 0..Len(callsites)
      <4>1. PICK k : k = Len(callsites)
        OBVIOUS
      <4>2. k \in Nat
        BY <3>1, <4>1
      <4> QED
        BY <4>1, <4>2
    <3> QED
      BY <3>1, <3>2, <3>3
  <2> QED
    BY <1>2, <1>6, <1>7, <2>1, FinishTypes
<1>9. FramesFit'
  <2>1. ~raising' /\ resolving' = 0
    BY <1>2, <1>4, <1>5
  <2> QED
    BY <1>7, <2>1 DEF FramesFit
<1>10. program' = program
  BY <1>2 DEF Finished
<1> QED
  BY <1>3, <1>6, <1>8, <1>9, <1>10 DEF JitInv

(* An eager compilation has another one under it, which is at the call.    *)
LEMMA EagerHasCaller ==
  ASSUME JitInv, compiling # <<>>, Top.why = "eager"
  PROVE  \E n \in Nat \ {0} :
           /\ n = Len(compiling) - 1 /\ Len(compiling) = n + 1
           /\ n \in 1..Len(compiling)
           /\ compiling[n] \in Activation
           /\ compiling[n].fn \in Scopes
           /\ compiling[n].pc \in 1..Len(program.body[compiling[n].fn])
           /\ Len(compiling[n].sites) = Len(program.body[compiling[n].fn])
           /\ program.body[compiling[n].fn][compiling[n].pc].callee = Top.fn
           /\ \A j \in 1..n : compiling[j].fn # Top.fn
           /\ Top.index = Len(fragments[Top.fn])
           /\ fragments[Top.fn][Top.index].compiled = 0
           /\ compiling[1].fn \in Nat /\ Top.fn > compiling[1].fn
<1>1. /\ Len(compiling) \in Nat \ {0} /\ Len(compiling) \in 1..Len(compiling)
      /\ Top = compiling[Len(compiling)]
  BY AtTop
<1>2. PICK m : m = Len(compiling)
  OBVIOUS
<1>3. m \in Nat \ {0} /\ m \in 1..m /\ Top = compiling[m] /\ Len(compiling) = m
  BY <1>1, <1>2
<1>4. ActivationFits(m)
  BY <1>3 DEF JitInv, StackFits
<1>5. /\ m > 1 /\ Top.index = Len(fragments[Top.fn])
      /\ fragments[Top.fn][Top.index].compiled = 0
  BY <1>3, <1>4 DEF ActivationFits
<1>6. PICK n : n = m - 1
  OBVIOUS
<1>7. n \in Nat \ {0} /\ m = n + 1 /\ n < m /\ n \in 1..m /\ 1 \in 1..m /\ 1 # m
  BY <1>3, <1>5, <1>6
<1>8. \A j \in 1..n : j \in 1..m /\ j # m
  BY <1>7
<1>9. ActivationFits(n)
  BY <1>3, <1>7 DEF JitInv, StackFits
<1>10. compiling[n] \in Activation
  <2>1. compiling \in Seq(Activation)
    BY DEF JitInv, TypeOK
  <2> QED
    BY <1>3, <1>7, <2>1, ElementOfSeq
<1>11. \A j \in 1..m : j # m =>
         compiling[j].fn < Top.fn /\ compiling[j].fn \in Nat /\ compiling[j].fn \in Scopes
  BY <1>3, AtTop
<1>12. Top.fn \in Nat
  BY AtTop
<1>13. \A j \in 1..n : compiling[j].fn # Top.fn
  BY <1>8, <1>11, <1>12
<1>14. compiling[1].fn \in Nat /\ Top.fn > compiling[1].fn
  BY <1>7, <1>11, <1>12
<1>15. /\ compiling[n].fn \in Scopes
       /\ compiling[n].pc \in 1..Len(program.body[compiling[n].fn])
       /\ Len(compiling[n].sites) = Len(program.body[compiling[n].fn])
       /\ program.body[compiling[n].fn][compiling[n].pc].callee = Top.fn
  <2>1. /\ compiling[n].fn \in Scopes /\ compiling[n].pc \in Nat
    BY <1>10 DEF Activation
  <2>2. Len(program.body[compiling[n].fn]) \in Nat
    BY <2>1, CallIsItem DEF JitInv
  <2>3. n < Len(compiling) /\ compiling[n + 1] = Top
    BY <1>3, <1>7
  <2>4. /\ compiling[n].pc >= 1 /\ compiling[n].pc <= Len(program.body[compiling[n].fn])
        /\ Len(compiling[n].sites) = Len(program.body[compiling[n].fn])
        /\ program.body[compiling[n].fn][compiling[n].pc].callee = Top.fn
    BY <1>9, <2>3 DEF ActivationFits, SitesFit
  <2> QED
    BY <2>1, <2>2, <2>4
<1> QED
  BY <1>2, <1>5, <1>6, <1>7, <1>10, <1>13, <1>14, <1>15

(* A callee is compiled in the middle of its caller, which now calls it.   *)
LEMMA FinishEagerStep ==
  ASSUME JitInv, FinishFragment, Top.why = "eager"
  PROVE  JitInv'
<1>1. PICK f, i, c : f = Top.fn /\ i = Top.index /\ c = Len(code) + 1
  OBVIOUS
<1>2. /\ compiling # <<>> /\ Finished(f, i, c) /\ raising' = raising
      /\ inProgress' = inProgress \ {ScopeName(fragments, f, i)}
  BY <1>1, FinishView
<1>3. Kept /\ FragmentsFit' /\ CodeFits'
  BY <1>1, <1>2, FinishFits
<1>4. PICK n \in Nat \ {0} :
        /\ n = Len(compiling) - 1 /\ Len(compiling) = n + 1 /\ n \in 1..Len(compiling)
        /\ compiling[n] \in Activation /\ compiling[n].fn \in Scopes
        /\ compiling[n].pc \in 1..Len(program.body[compiling[n].fn])
        /\ Len(compiling[n].sites) = Len(program.body[compiling[n].fn])
        /\ program.body[compiling[n].fn][compiling[n].pc].callee = f
        /\ \A j \in 1..n : compiling[j].fn # f
  BY <1>1, <1>2, EagerHasCaller
<1>5. PICK a, q : a = compiling[n] /\ q = InferredType(f)
  OBVIOUS
<1>6. PICK b : b = AfterCall(a, c, q)
  OBVIOUS
<1>7. /\ compiling' = SetLast(ButLast(compiling), b)
      /\ frames' = frames /\ resolving' = resolving /\ outcome' = outcome
  <2>1. LET r == compiling[Len(compiling) - 1]
        IN compiling' = SetLast(ButLast(compiling), AfterCall(r, c, InferredType(Top.fn)))
    BY <1>1 DEF FinishFragment, NewCode
  <2>2. compiling[Len(compiling) - 1] = a /\ InferredType(Top.fn) = q
    BY <1>1, <1>4, <1>5 DEF InferredType
  <2>3. compiling' = SetLast(ButLast(compiling), b)
    BY <1>6, <2>1, <2>2
  <2> QED
    BY <2>3 DEF FinishFragment
<1>8. TypeOK /\ q \in FragmentTypes /\ c \in Nat /\ c # 0 /\ c \in 1..c
  <2>1. TypeOK
    BY DEF JitInv
  <2>2. q \in FragmentTypes
    BY <1>1, <1>2, <1>5, <2>1, InferredTypeIsType DEF InferredType
  <2>3. Len(code) \in Nat
    BY <2>1, LengthsAreNumbers
  <2> QED
    BY <1>1, <2>1, <2>2, <2>3
<1>9. /\ a \in Activation /\ a.pc \in 1..Len(a.sites)
  BY <1>4, <1>5
<1>10. /\ b \in Activation
       /\ b.fn = a.fn /\ b.index = a.index /\ b.why = a.why /\ b.pc = a.pc + 1
       /\ Len(b.sites) = Len(a.sites)
       /\ \A k \in 1..Len(a.sites) :
             b.sites[k] = IF k = a.pc THEN Direct(c, q) ELSE a.sites[k]
  <2>1. b \in Activation
    BY <1>6, <1>8, <1>9, AfterCallEffect
  <2>2. b.fn = a.fn /\ b.index = a.index /\ b.why = a.why /\ b.pc = a.pc + 1
    BY <1>6, <1>8, <1>9, AfterCallEffect
  <2>3. Len(b.sites) = Len(a.sites)
    BY <1>6, <1>8, <1>9, AfterCallEffect
  <2>4. \A k \in 1..Len(a.sites) :
          b.sites[k] = IF k = a.pc THEN Direct(c, q) ELSE a.sites[k]
    BY <1>6, <1>8, <1>9, AfterCallEffect
  <2> QED
    BY <2>1, <2>2, <2>3, <2>4
<1>11. PICK stack : stack = ButLast(compiling)
  OBVIOUS
<1>12. /\ stack \in Seq(Activation) /\ Len(stack) = n /\ stack # <<>>
       /\ \A j \in 1..n : stack[j] = compiling[j]
  <2>1. compiling \in Seq(Activation)
    BY <1>8 DEF TypeOK
  <2>2. /\ stack \in Seq(Activation) /\ Len(stack) = Len(compiling) - 1
        /\ \A j \in 1..Len(compiling) - 1 : stack[j] = compiling[j]
    BY <1>2, <1>11, <2>1, ButLastSeq
  <2>3. Len(stack) = n /\ \A j \in 1..n : stack[j] = compiling[j]
    BY <1>4, <2>2
  <2>4. stack # <<>>
    BY <2>3
  <2> QED
    BY <2>2, <2>3, <2>4
<1>13. /\ compiling' \in Seq(Activation) /\ Len(compiling') = n /\ compiling'[n] = b
       /\ \A j \in 1..n : j # n => compiling'[j] = compiling[j]
  <2>1. compiling' = SetLast(stack, b)
    BY <1>7, <1>11
  <2>2. /\ SetLast(stack, b) \in Seq(Activation) /\ Len(SetLast(stack, b)) = Len(stack)
        /\ SetLast(stack, b)[Len(stack)] = b
        /\ \A j \in 1..Len(stack) : j # Len(stack) => SetLast(stack, b)[j] = stack[j]
    <3>1. b \in Activation /\ stack \in Seq(Activation) /\ stack # <<>>
      BY <1>10, <1>12
    <3>2. /\ SetLast(stack, b) \in Seq(Activation) /\ Len(SetLast(stack, b)) = Len(stack)
          /\ SetLast(stack, b)[Len(stack)] = b
      BY <3>1, SetLastSeq
    <3>3. \A j \in 1..Len(stack) : j # Len(stack) => SetLast(stack, b)[j] = stack[j]
      BY <3>1, SetLastSeq
    <3> QED
      BY <3>2, <3>3
  <2>3. compiling' \in Seq(Activation) /\ Len(compiling') = n /\ compiling'[n] = b
    BY <1>12, <2>1, <2>2
  <2>4. \A j \in 1..n : j # n => compiling'[j] = stack[j]
    BY <1>12, <2>1, <2>2
  <2>5. \A j \in 1..n : j # n => compiling'[j] = compiling[j]
    BY <1>12, <2>4
  <2> QED
    BY <2>3, <2>5
<1>14. PICK m : m = Len(compiling) - 1
  OBVIOUS
<1>15. /\ inProgress' \subseteq Scopes \X FragmentTypes
       /\ inProgress' = {ScopeName(fragments, compiling[j].fn, compiling[j].index) : j \in 1..n}
  <2>1. /\ inProgress' \subseteq Scopes \X FragmentTypes
        /\ inProgress' = {ScopeName(fragments, compiling[j].fn, compiling[j].index) : j \in 1..m}
    BY <1>1, <1>2, <1>14, ScopeLeft
  <2>2. m = n
    BY <1>4, <1>14
  <2> QED
    BY <2>1, <2>2
<1>16. TypeOK'
  <2>1. /\ resolving' \in 0..Len(callsites) /\ frames' \in Seq(Frame)
        /\ outcome' \in {"none", "ended", "refused", "null call", "bad jump"}
    BY <1>7, <1>8 DEF TypeOK
  <2> QED
    BY <1>2, <1>13, <1>15, <2>1, FinishTypes
<1>17. \A j \in 1..n : /\ compiling[j].fn \in Scopes /\ compiling[j].index \in 1..Len(fragments[compiling[j].fn])
  <2>1. SUFFICES ASSUME NEW j \in 1..n
                 PROVE  compiling[j].fn \in Scopes /\ compiling[j].index \in 1..Len(fragments[compiling[j].fn])
    OBVIOUS
  <2>2. j \in 1..Len(compiling)
    BY <1>4
  <2>3. compiling[j] \in Activation
    BY <1>8, <2>2, ElementOfSeq DEF TypeOK
  <2>4. ActivationFits(j)
    BY <2>2 DEF JitInv, StackFits
  <2> QED
    BY <2>3, <2>4 DEF Activation, ActivationFits
<1>18. \A g \in Scopes : g # f =>
         /\ Len(fragments'[g]) = Len(fragments[g])
         /\ \A j \in 1..Len(fragments[g]) :
              /\ fragments'[g][j].compiled = fragments[g][j].compiled
              /\ fragments'[g][j].arg = fragments[g][j].arg
  BY <1>2 DEF Finished
<1>19. StackFits'
  <2>1. PICK p, site : p = a.pc /\ site = Direct(c, q)
    OBVIOUS
  <2>2. site.kind = "direct" /\ site.target = c
    BY <2>1 DEF Direct
  <2>3. SiteFits(compiling[n].fn, p, site)'
    <3>1. c \in 1..Len(code') /\ code'[c].fn = f /\ program' = program
      BY <1>2, <1>8 DEF Finished
    <3>2. compiling'[n].fn = compiling[n].fn
      BY <1>5, <1>10, <1>13
    <3> QED
      BY <1>4, <1>5, <2>1, <2>2, <3>1, <3>2 DEF SiteFits
  <2>4. /\ compiling'[n].fn = compiling[n].fn /\ compiling'[n].index = compiling[n].index
        /\ compiling'[n].why = compiling[n].why
    BY <1>5, <1>10, <1>13
  <2>5. compiling'[n].pc >= 1
    <3>1. a.pc \in Nat
      BY <1>9 DEF Activation
    <3> QED
      BY <1>10, <1>13, <3>1
  <2>6. /\ Len(compiling'[n].sites) = Len(compiling[n].sites)
        /\ p \in 1..Len(compiling[n].sites)
        /\ \A k \in 1..Len(compiling[n].sites) :
             compiling'[n].sites[k] = IF k = p THEN site ELSE compiling[n].sites[k]
    BY <1>5, <1>9, <1>10, <1>13, <2>1
  <2>7. ~(site.kind = "stub")
    BY <2>2
  <2>8. \A j \in 1..n : LET g == compiling[j].fn
          IN /\ Len(fragments'[g]) = Len(fragments[g])
             /\ \A k \in 1..Len(fragments[g]) :
                  fragments'[g][k].compiled = fragments[g][k].compiled
    BY <1>4, <1>17, <1>18
  <2> QED
    BY <1>2, <1>3, <1>4, <1>7, <1>13, <1>16, <2>3, <2>4, <2>5, <2>6, <2>7, <2>8, StackStep
<1>20. FramesFit'
  BY <1>2, <1>3, <1>7, FramesFitStay
<1>21. InProgressFits'
  <2>1. \A j \in 1..n : compiling'[j].fn = compiling[j].fn /\ compiling'[j].index = compiling[j].index
    BY <1>5, <1>10, <1>13
  <2>2. ASSUME NEW j \in 1..n
        PROVE  ScopeName(fragments', compiling'[j].fn, compiling'[j].index)
                 = ScopeName(fragments, compiling[j].fn, compiling[j].index)
    <3>1. PICK g, k : g = compiling[j].fn /\ k = compiling[j].index
      OBVIOUS
    <3>2. g \in Scopes /\ k \in 1..Len(fragments[g]) /\ g # f
      BY <1>4, <1>17, <3>1
    <3>3. fragments'[g][k].arg = fragments[g][k].arg
      BY <1>18, <3>2
    <3>4. compiling'[j].fn = g /\ compiling'[j].index = k
      BY <2>1, <3>1
    <3> QED
      BY <3>1, <3>3, <3>4 DEF ScopeName
  <2>3. inProgress' = {ScopeName(fragments', compiling'[j].fn, compiling'[j].index) : j \in 1..n}
    BY <1>15, <2>2
  <2> QED
    BY <1>13, <2>3 DEF InProgressFits
<1>22. program' = program
  BY <1>2 DEF Finished
<1> QED
  BY <1>3, <1>16, <1>19, <1>20, <1>21, <1>22 DEF JitInv

(* compile_fragment returns.                                               *)
LEMMA FinishFragmentStep ==
  ASSUME JitInv, FinishFragment
  PROVE  JitInv'
<1>1. compiling # <<>> /\ TypeOK
  BY DEF FinishFragment, AtEnd, JitInv
<1>2. Top \in Activation
  BY <1>1, TopIsActivation
<1>3. Top.why \in {"root", "eager", "callee", "caller"}
  BY <1>2 DEF Activation
<1> QED
  BY <1>3, FinishRootStep, FinishEagerStep, FinishCalleeStep, FinishCallerStep

(* An eager compilation fails: visit(FunctionCall) drops the fragment,     *)
(* which is the last of its function, and writes a stub instead.           *)
LEMMA FailEagerStep ==
  ASSUME JitInv, FailFragment, Top.why = "eager"
  PROVE  JitInv'
<1>1. PICK f, i : f = Top.fn /\ i = Top.index
  OBVIOUS
<1>2. /\ compiling # <<>>
      /\ inProgress' = inProgress \ {ScopeName(fragments, f, i)}
      /\ fragments' = [fragments EXCEPT ![f] = ButLast(@)]
      /\ WriteStub(ButLast(compiling))
      /\ UNCHANGED <<program, code, resolving, frames, raising, outcome>>
  BY <1>1 DEF FailFragment, CompileFails, AtEnd, InCall, LeaveScope
<1>3. /\ TypeOK /\ f \in Scopes /\ i \in 1..Len(fragments[f])
      /\ fragments \in FragmentTable
  BY <1>1, <1>2, AtTop, TableIsTable DEF JitInv
<1>4. PICK n \in Nat \ {0} :
        /\ n = Len(compiling) - 1 /\ n \in 1..Len(compiling)
        /\ compiling[n].pc \in 1..Len(program.body[compiling[n].fn])
        /\ \A j \in 1..n : compiling[j].fn # f
        /\ i = Len(fragments[f]) /\ fragments[f][i].compiled = 0
        /\ compiling[1].fn \in Nat /\ f > compiling[1].fn
  BY <1>1, <1>2, EagerHasCaller
<1>5. fragments[f] # <<>> /\ Len(fragments[f]) \in Nat
  <2>1. fragments[f] \in Seq(Fragment)
    BY <1>3, TableIsTable
  <2> QED
    BY <1>3, <2>1
<1>6. PICK table, u : table = fragments /\ u = fragments'
  OBVIOUS
<1>7. Dropped(table, f, u)
  <2>1. /\ table \in FragmentTable /\ f \in Scopes /\ table[f] # <<>>
        /\ u = [table EXCEPT ![f] = ButLast(@)]
    BY <1>2, <1>3, <1>5, <1>6
  <2> QED
    BY <2>1, DropFragment
<1>8. /\ fragments' \in FragmentTable /\ Len(fragments'[f]) = i - 1
      /\ \A j \in 1..i - 1 : fragments'[f][j] = fragments[f][j]
      /\ \A g \in Scopes : g # f => fragments'[g] = fragments[g]
  BY <1>4, <1>6, <1>7 DEF Dropped
<1>9. \A g \in Scopes : \A j \in 1..Len(fragments'[g]) :
        j \in 1..Len(fragments[g]) /\ fragments'[g][j] = fragments[g][j]
  <2>1. SUFFICES ASSUME NEW g \in Scopes, NEW j \in 1..Len(fragments'[g])
                 PROVE  j \in 1..Len(fragments[g]) /\ fragments'[g][j] = fragments[g][j]
    OBVIOUS
  <2>2. CASE g = f
    <3>1. j \in 1..i - 1 /\ i \in Nat
      BY <1>4, <1>5, <1>8, <2>1, <2>2
    <3>2. j \in 1..i
      BY <3>1
    <3> QED
      BY <1>4, <1>8, <2>2, <3>1, <3>2
  <2>3. CASE g # f
    BY <1>8, <2>1, <2>3
  <2> QED
    BY <2>2, <2>3
<1>10. FragmentsFit'
  <2>1. Len(fragments'[Root]) >= 1
    <3>1. f # Root
      BY <1>4 DEF Root
    <3> QED
      BY <1>8, <3>1, Numbers DEF JitInv, FragmentsFit
  <2>2. \A g \in Scopes : \A j \in 1..Len(fragments'[g]) :
          LET c == fragments'[g][j].compiled
          IN c = 0 \/ (c \in 1..Len(code') /\ code'[c].fn = g)
    BY <1>2, <1>9 DEF JitInv, FragmentsFit
  <2>3. \A g \in Scopes : \A j, k \in 1..Len(fragments'[g]) :
          fragments'[g][j].arg = fragments'[g][k].arg => j = k
    BY <1>9 DEF JitInv, FragmentsFit
  <2> QED
    BY <2>1, <2>2, <2>3 DEF FragmentsFit
<1>11. ASSUME NEW g \in Scopes, NEW j \in 1..Len(fragments[g]), fragments[g][j].compiled # 0
       PROVE  j \in 1..Len(fragments'[g]) /\ fragments'[g][j].compiled # 0
  <2>1. CASE g = f
    <3>1. j # i /\ j \in 1..i /\ i \in Nat
      BY <1>4, <1>5, <1>11, <2>1
    <3>2. j \in 1..i - 1
      BY <3>1
    <3> QED
      BY <1>8, <1>11, <2>1, <3>2
  <2>2. CASE g # f
    BY <1>8, <1>11, <2>2
  <2> QED
    BY <2>1, <2>2
<1>12. PICK stack : stack = ButLast(compiling)
  OBVIOUS
<1>13. /\ stack \in Seq(Activation) /\ Len(stack) = n /\ stack # <<>>
       /\ \A j \in 1..n : stack[j] = compiling[j]
  <2>1. compiling \in Seq(Activation)
    BY <1>3 DEF TypeOK
  <2>2. /\ stack \in Seq(Activation) /\ Len(stack) = Len(compiling) - 1
        /\ \A j \in 1..Len(compiling) - 1 : stack[j] = compiling[j]
    BY <1>2, <1>12, <2>1, ButLastSeq
  <2>3. Len(stack) = n /\ \A j \in 1..n : stack[j] = compiling[j]
    BY <1>4, <2>2
  <2>4. stack # <<>>
    BY <2>3
  <2> QED
    BY <2>2, <2>3, <2>4
<1>14. PICK m : m = Len(compiling) - 1
  OBVIOUS
<1>15. /\ inProgress' \subseteq Scopes \X FragmentTypes
       /\ inProgress' = {ScopeName(fragments, compiling[j].fn, compiling[j].index) : j \in 1..n}
  <2>1. /\ inProgress' \subseteq Scopes \X FragmentTypes
        /\ inProgress' = {ScopeName(fragments, compiling[j].fn, compiling[j].index) : j \in 1..m}
    BY <1>1, <1>2, <1>14, ScopeLeft
  <2>2. m = n
    BY <1>4, <1>14
  <2> QED
    BY <2>1, <2>2
<1>16. \A j \in 1..n : fragments'[compiling[j].fn] = fragments[compiling[j].fn]
  <2>1. SUFFICES ASSUME NEW j \in 1..n
                 PROVE  fragments'[compiling[j].fn] = fragments[compiling[j].fn]
    OBVIOUS
  <2>2. j \in 1..Len(compiling)
    BY <1>4
  <2>3. compiling[j] \in Activation
    BY <1>3, <2>2, ElementOfSeq DEF TypeOK
  <2>4. compiling[j].fn \in Scopes
    BY <2>3 DEF Activation
  <2> QED
    BY <1>4, <1>8, <2>4
<1>17. OthersLeft(stack, n)
  BY <1>4, <1>8, <1>11, <1>13, <1>15, <1>16 DEF OthersLeft
<1>18. WriteStub(stack)
  BY <1>2, <1>12 DEF WriteStub
<1> QED
  BY <1>2, <1>10, <1>13, <1>17, <1>18, StubStep

(* The outermost compilation fails: the root scope's program is refused,   *)
(* or the running code gets an exception from the call it waits at.        *)
LEMMA FailOuterStep ==
  ASSUME JitInv, FailFragment, Top.why # "eager"
  PROVE  JitInv'
<1>1. PICK f, i : f = Top.fn /\ i = Top.index
  OBVIOUS
<1>2. /\ compiling # <<>>
      /\ inProgress' = inProgress \ {ScopeName(fragments, f, i)}
      /\ compiling' = <<>> /\ resolving' = 0 /\ raising' = (Top.why # "root")
      /\ outcome' = (IF Top.why = "root" THEN "refused" ELSE outcome)
      /\ UNCHANGED <<program, code, fragments, callsites, frames>>
  BY <1>1 DEF FailFragment, CompileFails, AtEnd, InCall, LeaveScope
<1>3. Kept /\ FragmentsFit' /\ CodeFits'
  <2>1. Kept
    BY <1>2 DEF Kept
  <2>2. FragmentsFit'
    BY <1>2 DEF JitInv, FragmentsFit
  <2> QED
    BY <1>2, <2>1, <2>2, CodeStays DEF CodeFits
<1>4. /\ compiling' \in Seq(Activation) /\ inProgress' \subseteq Scopes \X FragmentTypes
      /\ StackFits' /\ InProgressFits'
  BY <1>1, <1>2, AloneLeaves
<1>5. TypeOK'
  <2>1. resolving' \in 0..Len(callsites')
    <3>1. PICK k : k = Len(callsites)
      OBVIOUS
    <3>2. k \in Nat
      BY <3>1, LengthsAreNumbers DEF JitInv
    <3>3. 0 \in 0..k
      BY <3>2
    <3> QED
      BY <1>2, <3>1, <3>3
  <2>2. raising' \in BOOLEAN
    BY <1>2
  <2>3. outcome' \in {"none", "ended", "refused", "null call", "bad jump"}
    BY <1>2 DEF JitInv, TypeOK
  <2> QED
    BY <1>2, <1>4, <2>1, <2>2, <2>3 DEF JitInv, TypeOK
<1>6. FramesFit'
  <2>1. \A j \in 1..Len(frames) : FrameFits(j)'
    BY <1>2, <1>3, FramesStay
  <2>2. raising' => frames # <<>> /\ Running.pc <= Len(program.body[Running.fn])
    BY <1>2, TopAlone DEF JitInv, FramesFit
  <2> QED
    BY <1>2, <2>1, <2>2 DEF FramesFit, Running
<1> QED
  BY <1>2, <1>3, <1>4, <1>5, <1>6 DEF JitInv

(* compile_fragment throws a compile_error.                                *)
LEMMA FailFragmentStep ==
  ASSUME JitInv, FailFragment
  PROVE  JitInv'
  BY FailEagerStep, FailOuterStep
-------------------------------------------------------------------------------
(* Before the first step there is one fragment, the root scope's.          *)
LEMMA InitFits ==
  ASSUME Init
  PROVE  JitInv
<1>1. /\ program \in Programs /\ WellFormedProgram(program)
      /\ code = <<>> /\ callsites = <<>> /\ inProgress = {} /\ compiling = <<>>
      /\ resolving = 0 /\ frames = <<>> /\ raising = FALSE /\ outcome = "none"
  BY ProgramsAssumption DEF Init
<1>2. PICK r : r = NewFragment(Root, None)
  OBVIOUS
<1>3. r \in Fragment /\ r.compiled = 0
  BY <1>2, NewFragmentIsFragment, Numbers
<1>4. fragments = [f \in Scopes |-> IF f = Root THEN <<r>> ELSE <<>>]
  BY <1>2 DEF Init
<1>5. \A f \in Scopes : fragments[f] = IF f = Root THEN <<r>> ELSE <<>>
  BY <1>4
<1>6. /\ <<r>> \in Seq(Fragment) /\ Len(<<r>>) = 1 /\ <<r>>[1] = r
      /\ Len(<<>>) = 0 /\ <<>> \in Seq(Fragment)
      /\ \A i : i \notin 1..0
      /\ \A i \in 1..1 : i = 1
  BY <1>3
<1>7. \A f \in Scopes : \A i \in 1..Len(fragments[f]) : i = 1 /\ fragments[f][i] = r
  BY <1>5, <1>6
<1>8. TypeOK
  <2>1. fragments \in [Scopes -> Seq(Fragment)]
    BY <1>4, <1>6
  <2>2. resolving \in 0..Len(callsites)
    BY <1>1
  <2>3. /\ code \in Seq([fn : Scopes, sites : Seq(Site)]) /\ frames \in Seq(Frame)
        /\ callsites \in Seq([callee : Functions, arg : FragmentTypes, fn : Scopes,
                              index : Nat, split : Nat])
        /\ compiling \in Seq(Activation)
    BY <1>1
  <2>4. /\ inProgress \subseteq Scopes \X FragmentTypes /\ raising \in BOOLEAN
        /\ outcome \in {"none", "ended", "refused", "null call", "bad jump"}
    BY <1>1
  <2> QED
    BY <1>1, <2>1, <2>2, <2>3, <2>4 DEF TypeOK
<1>9. FragmentsFit
  <2>1. Len(fragments[Root]) >= 1
    BY <1>5, <1>6, Numbers
  <2> QED
    BY <1>3, <1>7, <2>1 DEF FragmentsFit
<1>10. CodeFits /\ StackFits /\ FramesFit /\ InProgressFits
  <2>1. CodeFits
    BY <1>1, <1>6 DEF CodeFits
  <2>2. StackFits
    BY <1>1, <1>6 DEF StackFits
  <2>3. FramesFit
    BY <1>1, <1>6 DEF FramesFit
  <2>4. InProgressFits
    BY <1>1, NothingCompiled
  <2> QED
    BY <2>1, <2>2, <2>3, <2>4
<1> QED
  BY <1>1, <1>8, <1>9, <1>10 DEF JitInv

(* Every step of a program without recursion keeps the invariant.          *)
LEMMA StepKeepsInvariant ==
  ASSUME NoRecursion, JitInv, [Next]_vars
  PROVE  JitInv'
<1>1. CASE Step
  BY <1>1, CompileRootStep, VisitDirectCallStep, VisitEagerCallStep, VisitLazyCallStep,
     FinishFragmentStep, FailFragmentStep, ResolveStep, RecompileCallerStep,
     CallFragmentStep, SkipSuiteStep, ReturnFromFragmentStep, HandleExceptionStep,
     LeaveFrameStep
     DEF Step
<1>2. CASE UNCHANGED vars
  <2>1. UNCHANGED <<program, fragments, code, callsites, inProgress, compiling,
                    resolving, frames, raising, outcome>>
    BY <1>2 DEF vars
  <2>2. TypeOK' /\ program' \in Programs
    BY <2>1 DEF JitInv, TypeOK
  <2>6. FragmentsFit'
    BY <2>1 DEF JitInv, FragmentsFit
  <2>7. InProgressFits'
    BY <2>1 DEF JitInv, InProgressFits, ScopeName
  <2>3. CodeFits'
    BY <2>1, ZenonT(40) DEF JitInv, CodeFits, CodeFitsAt, SitesFit, InCompiled
  <2>4. StackFits'
    <3>1. ASSUME NEW i \in 1..Len(compiling), ActivationFits(i)
          PROVE  ActivationFits(i)'
      BY <2>1, <3>1 DEF ActivationFits, SitesFit
    <3> QED
      BY <2>1, <3>1 DEF JitInv, StackFits
  <2>5. FramesFit'
    BY <2>1 DEF JitInv, FramesFit, FrameFits, InCompiled, Running
  <2> QED
    BY <2>2, <2>3, <2>4, <2>5, <2>6, <2>7 DEF JitInv
<1> QED
  BY <1>1, <1>2 DEF Next, Terminated

(* Compile.cc keeps its tables consistent, whatever program without        *)
(* recursion it is given: fragments have code of their own function, stubs *)
(* lead to call sites of the function they are in, nested compilations are *)
(* of the calls that wait for them, frames run code of their function.     *)
THEOREM TablesFit ==
  ASSUME NoRecursion
  PROVE  Spec => []JitInv
<1>1. Init => JitInv
  BY InitFits
<1>2. JitInv /\ [Next]_vars => JitInv'
  BY StepKeepsInvariant
<1> QED
  BY <1>1, <1>2, PTL DEF Spec

(* The type invariant.                                                     *)
THEOREM TypesCorrect ==
  ASSUME NoRecursion
  PROVE  Spec => []TypeOK
<1>1. JitInv => TypeOK
  BY DEF JitInv
<1> QED
  BY <1>1, TablesFit, PTL
-------------------------------------------------------------------------------
(* A set that is enumerated without repetition has as many elements as     *)
(* there are numbers.                                                      *)
LEMMA CountEnumerated ==
  ASSUME NEW n \in Nat, NEW h, h = [i \in 1..n |-> h[i]],
         \A i, j \in 1..n : h[i] = h[j] => i = j
  PROVE  Cardinality({h[i] : i \in 1..n}) = n
<1>1. PICK S : S = {h[i] : i \in 1..n}
  OBVIOUS
<1>2. h \in [1..n -> S]
  BY <1>1
<1>3. h \in Bijection(1..n, S)
  BY <1>1, <1>2 DEF Bijection, Injection, Surjection, IsInjective
<1>4. ExistsBijection(1..n, S)
  BY <1>3 DEF ExistsBijection
<1> QED
  BY <1>1, <1>4, FS_CountingElements

(* scopes_in_progress holds what compile_fragment is working on, nothing   *)
(* more and nothing twice, after failures neither; and no function has two *)
(* fragments for the same types.                                           *)
LEMMA NothingLeft ==
  ASSUME JitInv
  PROVE  NothingLeftInProgress
<1>1. PICK n : n = Len(compiling)
  OBVIOUS
<1>2. n \in Nat
  <2>1. compiling \in Seq(Activation)
    BY DEF JitInv, TypeOK
  <2> QED
    BY <1>1, <2>1
<1>3. PICK h : h = [i \in 1..n |-> ScopeName(fragments, compiling[i].fn, compiling[i].index)]
  OBVIOUS
<1>4. \A i \in 1..n : h[i] = ScopeName(fragments, compiling[i].fn, compiling[i].index)
  BY <1>3
<1>5. inProgress = {h[i] : i \in 1..n}
  <2>1. inProgress = {ScopeName(fragments, compiling[i].fn, compiling[i].index) : i \in 1..n}
    BY <1>1 DEF JitInv, InProgressFits
  <2> QED
    BY <1>4, <2>1
<1>6. ASSUME NEW i \in 1..n, NEW j \in 1..n, h[i] = h[j]
      PROVE  i = j
  <2>1. compiling[i].fn = compiling[j].fn
    BY <1>4, <1>6 DEF ScopeName
  <2>2. \A k \in 1..n : compiling[k].fn \in Nat
    <3>0. compiling \in Seq(Activation)
      BY DEF JitInv, TypeOK
    <3>1. \A k \in 1..n : compiling[k] \in Activation
      BY <1>1, <3>0
    <3> QED
      BY <3>1, Numbers DEF Activation
  <2>3. \A k, l \in 1..n : k < l => compiling[k].fn < compiling[l].fn
    BY <1>1 DEF JitInv, StackFits
  <2>4. ~(i < j) /\ ~(j < i)
    BY <2>1, <2>2, <2>3
  <2> QED
    BY <1>2, <2>4
<1>7. Cardinality(inProgress) = n
  <2>1. h = [i \in 1..n |-> h[i]]
    BY <1>3
  <2> QED
    BY <1>2, <1>5, <1>6, <2>1, CountEnumerated
<1> QED
  BY <1>1, <1>7 DEF JitInv, InProgressFits, FragmentsFit, NothingLeftInProgress

(* The same, of every state: whatever fails or nests, scopes_in_progress   *)
(* is what compile_fragment is working on.                                 *)
THEOREM NothingLeftInProgressHolds ==
  ASSUME NoRecursion
  PROVE  Spec => []NothingLeftInProgress
<1>1. JitInv => NothingLeftInProgress
  BY NothingLeft
<1> QED
  BY <1>1, TablesFit, PTL
=================================================================================
