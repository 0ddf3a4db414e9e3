-------------------------------- MODULE JitSoundProofs --------------------------------
(***************************************************************************)
(* A program that the compiler has no reason to refuse runs as it is       *)
(* meant to: no call goes to a fragment without code, code that was        *)
(* compiled again has the split that the running code waits at, values     *)
(* have the types they were compiled for, and nothing of this shows.       *)
(***************************************************************************)
EXTENDS JitSound, JitInvariantProofs

(* The calls and suites of a program.                                      *)
LEMMA SuitesFit ==
  ASSUME NEW p, WellFormedProgram(p), SoundProgram(p), NEW f \in Scopes
  PROVE  /\ Len(p.body[f]) \in Nat
         /\ \A k \in 1..Len(p.body[f]) :
              /\ p.body[f][k].callee \in Functions
              /\ p.body[f][k].suite \in Nat
              /\ p.body[f][k].arg \in Types \cup {"result"}
              /\ p.body[f][k].arg = "result" =>
                   k > 1 /\ p.body[f][k - 1].suite \in {0, p.body[f][k].suite}
              /\ p.body[f][k].suite # 0 =>
                   /\ p.body[f][k].suite \in (k + 1)..(Len(p.body[f]) + 1)
                   /\ \A j \in k..(p.body[f][k].suite - 1) :
                        p.body[f][j].suite = p.body[f][k].suite
<1>1. p.body \in [Scopes -> Seq(Item)]
  BY DEF WellFormedProgram
<1>2. p.body[f] \in Seq(Item) /\ Len(p.body[f]) \in Nat
  BY <1>1
<1>3. \A k \in 1..Len(p.body[f]) : p.body[f][k] \in Item
  BY <1>2
<1>4. \A k \in 1..Len(p.body[f]) :
        /\ p.body[f][k].callee \in Functions /\ p.body[f][k].suite \in Nat
        /\ p.body[f][k].arg \in Types \cup {"result"}
  BY <1>3 DEF Item
<1>5. \A k \in 1..Len(p.body[f]) :
        /\ p.body[f][k].suite = 0 \/ p.body[f][k].suite \in (k + 1)..(Len(p.body[f]) + 1)
        /\ p.body[f][k].arg = "result" =>
             k > 1 /\ p.body[f][k - 1].suite \in {0, p.body[f][k].suite}
  BY DEF WellFormedProgram
<1>6. \A k \in 1..Len(p.body[f]) : p.body[f][k].suite # 0 =>
        \A j \in k..(p.body[f][k].suite - 1) : p.body[f][j].suite = p.body[f][k].suite
  BY DEF SoundProgram
<1> QED
  BY <1>2, <1>4, <1>5, <1>6

(* What functions return.                                                  *)
LEMMA ResultFits ==
  ASSUME NEW p, SoundProgram(p)
  PROVE  /\ \A f \in Scopes :
              /\ Result(p, f) \in Types
              /\ p.returns[f] # "result" => Result(p, f) = p.returns[f]
              /\ p.returns[f] = "result" =>
                   /\ Len(p.body[f]) > 0
                   /\ p.body[f][Len(p.body[f])].suite = 0
                   /\ Result(p, f) = Result(p, p.body[f][Len(p.body[f])].callee)
         /\ \A f \in Functions : \/ p.annotation[f] = Result(p, f)
                                 \/ p.eager /\ p.annotation[f] = Indeterminate
<1>1. PICK R : R = CHOOSE types \in ResultTypes(p) : TRUE
  OBVIOUS
<1>2. R \in ResultTypes(p)
  BY <1>1 DEF SoundProgram
<1>3. \A f : Result(p, f) = R[f]
  BY <1>1 DEF Result
<1>4. /\ R \in [Scopes -> Types]
      /\ \A f \in Scopes :
           IF p.returns[f] = "result"
           THEN /\ Len(p.body[f]) > 0 /\ p.body[f][Len(p.body[f])].suite = 0
                /\ R[f] = R[p.body[f][Len(p.body[f])].callee]
           ELSE R[f] = p.returns[f]
      /\ \A f \in Functions : \/ p.annotation[f] = R[f]
                              \/ p.eager /\ p.annotation[f] = Indeterminate
  BY <1>2 DEF ResultTypes
<1> QED
  BY <1>3, <1>4

(* A call has the type that its position says.                             *)
LEMMA CallHasType ==
  ASSUME NEW p, WellFormedProgram(p), SoundProgram(p), NEW f \in Scopes,
         NEW k \in 1..Len(p.body[f])
  PROVE  /\ TypeOfCall(p, f, k) \in Types
         /\ \A last : LastFits(p, f, k, last) => ArgType(p.body[f][k], last) = TypeOfCall(p, f, k)
<1>1. p.body[f][k].arg = "result" => k - 1 \in 1..Len(p.body[f])
  BY SuitesFit
<1>2. p.body[f][k].arg = "result" => p.body[f][k - 1].callee \in Scopes
  BY <1>1, SuitesFit, Numbers
<1>3. TypeOfCall(p, f, k) \in Types
  BY <1>2, SuitesFit, ResultFits DEF TypeOfCall
<1>4. \A last : LastFits(p, f, k, last) => ArgType(p.body[f][k], last) = TypeOfCall(p, f, k)
  BY DEF LastFits, ArgType, TypeOfCall
<1> QED
  BY <1>3, <1>4

(* The last result is the one that the next position wants.                *)
LEMMA CallPassesResult ==
  ASSUME NEW p, NEW f, NEW k \in Nat
  PROVE  LastFits(p, f, k + 1, Result(p, p.body[f][k].callee))
  BY DEF LastFits

(* The calls before the end of a suite belong to it.                       *)
LEMMA SuiteToItsEnd ==
  ASSUME NEW p, SoundProgram(p), NEW f \in Scopes, NEW k \in 1..Len(p.body[f]),
         p.body[f][k].suite # 0, NEW j \in k..(p.body[f][k].suite - 1)
  PROVE  p.body[f][j].suite = p.body[f][k].suite
  BY DEF SoundProgram

(* No result is passed into or out of a suite, or at the beginning.        *)
LEMMA SuiteForgets ==
  ASSUME NEW p, WellFormedProgram(p), SoundProgram(p), NEW f \in Scopes,
         NEW k \in 1..Len(p.body[f]), p.body[f][k].suite # 0, NEW last
  PROVE  LastFits(p, f, p.body[f][k].suite, last)
<1>1. PICK n \in Nat : n = Len(p.body[f])
  BY SuitesFit
<1>2. PICK q \in (k + 1)..(n + 1) : q = p.body[f][k].suite
  BY <1>1, SuitesFit
<1>3. p.body[f][q - 1].suite = q
  <2>1. q - 1 \in k..(p.body[f][k].suite - 1)
    <3>1. q - 1 \in k..(q - 1)
      OBVIOUS
    <3> QED
      BY <1>2, <3>1
  <2>2. p.body[f][q - 1].suite = p.body[f][k].suite
    BY <2>1, SuiteToItsEnd
  <2> QED
    BY <1>2, <2>2
<1>4. q \in 1..n => p.body[f][q].arg # "result"
  <2> SUFFICES ASSUME q \in 1..n, p.body[f][q].arg = "result"
               PROVE  FALSE
    OBVIOUS
  <2>1. p.body[f][q - 1].suite \in {0, p.body[f][q].suite}
    BY <1>1, SuitesFit
  <2>2. p.body[f][q].suite # q
    BY <1>1, SuitesFit, SMTT(30)
  <2> QED
    BY <1>1, <1>2, <1>3, <2>1, <2>2
<1>5. q = n + 1 => p.returns[f] # "result"
  <2>1. n + 1 - 1 = n
    BY <1>1
  <2> QED
    BY <1>1, <1>2, <1>3, <2>1, ResultFits
<1>6. LastFits(p, f, q, last)
  BY <1>1, <1>4, <1>5 DEF LastFits
<1> QED
  BY <1>2, <1>6

(* The same for the beginning and for a function that was cut off.         *)
LEMMA EndsForget ==
  ASSUME NEW p, WellFormedProgram(p), SoundProgram(p), NEW f \in Scopes, NEW last
  PROVE  LastFits(p, f, 1, last) /\ LastFits(p, f, Len(p.body[f]) + 2, last)
<1>1. PICK n \in Nat : n = Len(p.body[f])
  BY SuitesFit
<1>2. 1 \in 1..n => p.body[f][1].arg # "result"
  BY <1>1, SuitesFit
<1>3. 1 = n + 1 => p.returns[f] # "result"
  BY <1>1, ResultFits
<1>4. n + 2 \notin 1..n /\ n + 2 # n + 1
  OBVIOUS
<1> QED
  BY <1>1, <1>2, <1>3, <1>4 DEF LastFits

(* At its end a function has its result.                                   *)
LEMMA EndHasType ==
  ASSUME NEW p, WellFormedProgram(p), SoundProgram(p), NEW f \in Scopes, NEW last,
         LastFits(p, f, Len(p.body[f]) + 1, last)
  PROVE  Result(p, f) = IF p.returns[f] = "result" THEN last ELSE p.returns[f]
<1>1. Len(p.body[f]) \in Nat /\ Len(p.body[f]) + 1 - 1 = Len(p.body[f])
  BY SuitesFit
<1> QED
  BY <1>1, ResultFits DEF LastFits
-------------------------------------------------------------------------------
(* Fragments are added, and keep their argument types.                     *)
Longer(t, u) ==
  \A g \in Scopes : /\ Len(u[g]) >= Len(t[g])
                    /\ \A j \in 1..Len(t[g]) : u[g][j].arg = t[g][j].arg

(* What could be compiled can be compiled when there are more fragments.   *)
LEMMA KnownStays ==
  ASSUME NEW p, WellFormedProgram(p), SoundProgram(p), NEW f \in Scopes,
         NEW t \in FragmentTable, NEW u \in FragmentTable, Longer(t, u)
  PROVE  /\ \A k \in 1..Len(p.body[f]) : Known(p, t, f, k) => Known(p, u, f, k)
         /\ \A m : KnownBefore(p, t, f, m) => KnownBefore(p, u, f, m)
<1>1. ASSUME NEW k \in 1..Len(p.body[f]), Known(p, t, f, k)
      PROVE  Known(p, u, f, k)
  <2>1. PICK g \in Scopes : g = p.body[f][k].callee
    BY SuitesFit, Numbers
  <2>2. PICK i \in 1..Len(t[g]) : t[g][i].arg = TypeOfCall(p, f, k)
    BY <1>1, <2>1 DEF Known
  <2>3. Len(t[g]) \in Nat /\ Len(u[g]) \in Nat
    BY TableIsTable
  <2>4. i \in 1..Len(u[g]) /\ u[g][i].arg = TypeOfCall(p, f, k)
    BY <2>2, <2>3 DEF Longer
  <2> QED
    BY <2>1, <2>4 DEF Known
<1> QED
  BY <1>1 DEF KnownBefore

(* The visitor comes to a position after a call or a suite.                *)
LEMMA KnownAfterCall ==
  ASSUME NEW p, WellFormedProgram(p), SoundProgram(p), NEW f \in Scopes, NEW t,
         NEW k \in 1..Len(p.body[f]), KnownBefore(p, t, f, k), Known(p, t, f, k)
  PROVE  KnownBefore(p, t, f, k + 1)
<1> SUFFICES ASSUME NEW j \in 1..Len(p.body[f]), Cuts(p, f, j, k + 1)
             PROVE  Known(p, t, f, j)
  BY DEF KnownBefore
<1>1. Len(p.body[f]) \in Nat /\ p.body[f][j].suite \in Nat
  BY SuitesFit
<1>2. j = k \/ Cuts(p, f, j, k)
  BY <1>1 DEF Cuts
<1> QED
  BY <1>2 DEF KnownBefore

(* A suite's end needs no more than its beginning.                         *)
LEMMA KnownAfterSuite ==
  ASSUME NEW p, WellFormedProgram(p), SoundProgram(p), NEW f \in Scopes, NEW t,
         NEW k \in 1..Len(p.body[f]), KnownBefore(p, t, f, k), p.body[f][k].suite # 0
  PROVE  KnownBefore(p, t, f, p.body[f][k].suite)
<1>1. PICK q : q = p.body[f][k].suite
  OBVIOUS
<1> SUFFICES ASSUME NEW j \in 1..Len(p.body[f]), Cuts(p, f, j, q)
             PROVE  Known(p, t, f, j)
  BY <1>1 DEF KnownBefore
<1>2. /\ Len(p.body[f]) \in Nat /\ p.body[f][j].suite \in Nat
      /\ q \in (k + 1)..(Len(p.body[f]) + 1) /\ q # 0
      /\ \A i \in k..(q - 1) : p.body[f][i].suite = q
  BY <1>1, SuitesFit
<1>3. j < q /\ (p.body[f][j].suite = 0 \/ q < p.body[f][j].suite)
  BY DEF Cuts
<1>4. ~(j \in k..(q - 1))
  BY <1>2, <1>3
<1>5. Cuts(p, f, j, k)
  BY <1>2, <1>3, <1>4 DEF Cuts
<1> QED
  BY <1>5 DEF KnownBefore
-------------------------------------------------------------------------------
(* The sites of function f after site k was set.                           *)
SiteSet(p, f, s, w, k, site) ==
  \A m \in 1..Len(p.body[f]) : w[m] = IF m = k THEN site ELSE s[m]

(* A site that was cut off still is.                                       *)
LEMMA CutOffStays ==
  ASSUME NEW p, NEW table, NEW f, NEW s, NEW k \in 1..Len(p.body[f]),
         SitesSound(p, table, f, s, k),
         NEW w, NEW site, SiteSet(p, f, s, w, k, site),
         NEW m \in 1..Len(p.body[f]), m < k, w[m].kind = "absent",
         Len(p.body[f]) \in Nat
  PROVE  CutOffAt(p, f, w, m)
<1>1. s[m].kind = "absent"
  BY DEF SiteSet
<1>2. PICK j \in 1..Len(p.body[f]) : s[j].kind = "stub" /\ Cuts(p, f, j, m)
  BY <1>1 DEF SitesSound, CutOffAt
<1>3. s[k].kind = "absent"
  BY DEF SitesSound
<1>4. w[j] = s[j]
  BY <1>2, <1>3 DEF SiteSet
<1> QED
  BY <1>2, <1>4 DEF CutOffAt

(* The compiler has a call of the right type at k, and goes on.            *)
LEMMA SitesAfterCall ==
  ASSUME NEW p, WellFormedProgram(p), SoundProgram(p), NEW f \in Scopes, NEW table, NEW s,
         NEW k \in 1..Len(p.body[f]), SitesSound(p, table, f, s, k),
         NEW site, site.kind = "direct", site.target # 0,
         site.type = Result(p, p.body[f][k].callee),
         NEW w, SiteSet(p, f, s, w, k, site)
  PROVE  SitesSound(p, table, f, w, k + 1)
<1> PICK n \in Nat : n = Len(p.body[f])
  BY SuitesFit
<1> SUFFICES ASSUME NEW m \in 1..n
             PROVE  /\ SiteSound(p, table, f, m, w[m])
                    /\ m >= k + 1 => w[m].kind = "absent"
                    /\ m < k + 1 /\ w[m].kind = "absent" => CutOffAt(p, f, w, m)
                    /\ w[m].kind = "stub" => NothingAfter(p, f, w, k + 1, m)
  BY DEF SitesSound
<1>1. SiteSound(p, table, f, m, w[m])
  <2>1. CASE m = k
    BY <2>1 DEF SiteSound, SiteSet
  <2>2. CASE m # k
    BY <2>2 DEF SitesSound, SiteSet
  <2> QED
    BY <2>1, <2>2
<1>2. m >= k + 1 => w[m].kind = "absent"
  BY DEF SitesSound, SiteSet
<1>3. m < k + 1 /\ w[m].kind = "absent" => CutOffAt(p, f, w, m)
  <2>1. w[k].kind # "absent"
    BY DEF SiteSet
  <2> QED
    BY <2>1, CutOffStays
<1>4. ASSUME w[m].kind = "stub"
      PROVE  NothingAfter(p, f, w, k + 1, m)
  <2>1. m # k /\ s[m].kind = "stub"
    BY <1>4 DEF SiteSet
  <2>2. m < k
    BY <2>1 DEF SitesSound
  <2>3. \A x \in 1..n : Cuts(p, f, m, x) => x # k /\ s[x].kind = "absent"
    BY <2>1 DEF SitesSound, NothingAfter
  <2>4. ~Cuts(p, f, m, k)
    BY <2>3
  <2>5. p.body[f][m].suite \in Nat
    BY SuitesFit
  <2>6. ~Cuts(p, f, m, k + 1)
    BY <2>2, <2>4, <2>5 DEF Cuts
  <2>7. \A x \in 1..n : Cuts(p, f, m, x) => x # k + 1 /\ w[x].kind = "absent"
    BY <2>3, <2>6 DEF SiteSet
  <2> QED
    BY <2>7 DEF NothingAfter
<1> QED
  BY <1>1, <1>2, <1>3, <1>4

(* The call sites of these stubs are the same in a longer list.            *)
SameStubs(p, f, s, table, longer) ==
  \A m \in 1..Len(p.body[f]) :
    s[m].kind = "stub" => longer[s[m].target] = table[s[m].target]

(* Where a visitor goes on after a stub.                                   *)
AfterStubAt(p, f, k) ==
  IF p.body[f][k].suite = 0 THEN Len(p.body[f]) + 2 ELSE p.body[f][k].suite

(* The compiler has a stub at k, and goes on after the suite.              *)
LEMMA SitesAfterStub ==
  ASSUME NEW p, WellFormedProgram(p), SoundProgram(p), NEW f \in Scopes, NEW table, NEW s,
         NEW k \in 1..Len(p.body[f]), SitesSound(p, table, f, s, k),
         NEW site, site.kind = "stub",
         NEW w, SiteSet(p, f, s, w, k, site),
         NEW longer, longer[site.target].split = k, SameStubs(p, f, s, table, longer),
         NEW q, q = AfterStubAt(p, f, k)
  PROVE  SitesSound(p, longer, f, w, q)
<1> PICK n \in Nat : n = Len(p.body[f])
  BY SuitesFit
<1>00. q = IF p.body[f][k].suite = 0 THEN Len(p.body[f]) + 2 ELSE p.body[f][k].suite
  BY DEF AfterStubAt
<1>0. q \in Nat /\ q > k /\ \A m \in 1..n : p.body[f][m].suite \in Nat
  BY <1>00, SuitesFit
<1> SUFFICES ASSUME NEW m \in 1..n
             PROVE  /\ SiteSound(p, longer, f, m, w[m])
                    /\ m >= q => w[m].kind = "absent"
                    /\ m < q /\ w[m].kind = "absent" => CutOffAt(p, f, w, m)
                    /\ w[m].kind = "stub" => NothingAfter(p, f, w, q, m)
  BY DEF SitesSound
<1>1. SiteSound(p, longer, f, m, w[m])
  <2>1. CASE m = k
    BY <2>1 DEF SiteSound, SiteSet
  <2>2. CASE m # k
    <3>1. w[m] = s[m] /\ SiteSound(p, table, f, m, s[m])
      BY <2>2 DEF SitesSound, SiteSet
    <3> QED
      BY <3>1 DEF SiteSound, SameStubs
  <2> QED
    BY <2>1, <2>2
<1>2. m > k => w[m].kind = "absent" /\ s[m].kind = "absent"
  BY DEF SitesSound, SiteSet
<1>3. m >= q => w[m].kind = "absent"
  BY <1>0, <1>2
<1>4. ASSUME m < q, w[m].kind = "absent"
      PROVE  CutOffAt(p, f, w, m)
  <2>1. w[k].kind = "stub"
    BY DEF SiteSet
  <2>2. CASE m < k
    BY <1>4, <2>2, CutOffStays
  <2>3. CASE m > k
    <3>1. Cuts(p, f, k, m)
      BY <1>0, <1>00, <1>4, <2>3 DEF Cuts
    <3> QED
      BY <2>1, <3>1 DEF CutOffAt
  <2> QED
    BY <1>4, <2>1, <2>2, <2>3
<1>5. ASSUME w[m].kind = "stub"
      PROVE  NothingAfter(p, f, w, q, m)
  <2>0. \A x \in 1..n : x > k => w[x].kind = "absent"
    BY DEF SitesSound, SiteSet
  <2>1. CASE m = k
    <3>1. \A x \in 1..n : Cuts(p, f, k, x) => x # q /\ x > k
      BY <1>0, <1>00 DEF Cuts
    <3> QED
      BY <2>0, <2>1, <3>1 DEF NothingAfter
  <2>2. CASE m # k
    <3>1. m < k /\ s[m].kind = "stub"
      BY <1>5, <2>2, <1>2 DEF SiteSet
    <3>2. \A x \in 1..n : Cuts(p, f, m, x) => x # k /\ s[x].kind = "absent"
      BY <3>1 DEF SitesSound, NothingAfter
    <3>3. ~Cuts(p, f, m, k)
      BY <3>2
    <3>4. \A x \in 1..n : Cuts(p, f, m, x) => x # q
      BY <1>0, <1>00, <3>1, <3>3 DEF Cuts
    <3>5. \A x \in 1..n : Cuts(p, f, m, x) => w[x].kind = "absent"
      BY <3>2 DEF SiteSet
    <3> QED
      BY <3>4, <3>5 DEF NothingAfter
  <2> QED
    BY <2>1, <2>2
<1> QED
  BY <1>1, <1>3, <1>4, <1>5

(* Before the first call, and after the last.                              *)
LEMMA SitesAtStart ==
  ASSUME NEW p, WellFormedProgram(p), SoundProgram(p), NEW f \in Scopes, NEW table,
         NEW s, s = [k \in 1..Len(p.body[f]) |-> Absent]
  PROVE  SitesSound(p, table, f, s, 1)
<1>1. \A k \in 1..Len(p.body[f]) : s[k].kind = "absent"
  BY DEF Absent
<1>2. Len(p.body[f]) \in Nat
  BY SuitesFit
<1> QED
  BY <1>1, <1>2 DEF SitesSound, SiteSound

(* When the visitor is at the end, the sites are what the code has.        *)
LEMMA SitesAtEnd ==
  ASSUME NEW p, WellFormedProgram(p), SoundProgram(p), NEW f \in Scopes, NEW table, NEW s,
         NEW pc \in Nat, pc > Len(p.body[f]), SitesSound(p, table, f, s, pc)
  PROVE  SitesSound(p, table, f, s, Len(p.body[f]) + 1)
<1> PICK n \in Nat : n = Len(p.body[f])
  BY SuitesFit
<1>1. \A m \in 1..n : m < pc /\ m # n + 1 /\ ~(m >= n + 1)
  OBVIOUS
<1>2. \A k \in 1..n : NothingAfter(p, f, s, pc, k) => NothingAfter(p, f, s, n + 1, k)
  BY <1>1 DEF NothingAfter
<1> QED
  BY <1>1, <1>2 DEF SitesSound

(* More call sites do not change what the sites are.                       *)
LEMMA SitesWithMore ==
  ASSUME NEW p, NEW f, NEW table, NEW s, NEW pc, SitesSound(p, table, f, s, pc), NEW longer,
         SameStubs(p, f, s, table, longer)
  PROVE  SitesSound(p, longer, f, s, pc)
<1>1. \A m \in 1..Len(p.body[f]) : SiteSound(p, table, f, m, s[m]) => SiteSound(p, longer, f, m, s[m])
  BY DEF SiteSound, SameStubs
<1> QED
  BY <1>1 DEF SitesSound
-------------------------------------------------------------------------------
(* Where frames come to, the compiler has been: at the beginning, and      *)
(* after a direct call.                                                    *)
LEMMA ReachedIsCompiled ==
  ASSUME NEW p, WellFormedProgram(p), SoundProgram(p), NEW f \in Scopes, NEW table, NEW s,
         SitesSound(p, table, f, s, Len(p.body[f]) + 1)
  PROVE  /\ 1 <= Len(p.body[f]) => s[1].kind # "absent"
         /\ \A k \in 1..Len(p.body[f]) :
              s[k].kind = "direct" /\ k + 1 <= Len(p.body[f]) => s[k + 1].kind # "absent"
<1> PICK n \in Nat : n = Len(p.body[f])
  BY SuitesFit
<1>1. \A m \in 1..n : s[m].kind = "absent" =>
        \E j \in 1..n : s[j].kind = "stub" /\ Cuts(p, f, j, m)
  BY DEF SitesSound, CutOffAt
<1>2. \A j, m \in 1..n : s[j].kind = "stub" /\ Cuts(p, f, j, m) => s[m].kind = "absent"
  BY DEF SitesSound, NothingAfter
<1>3. \A j \in 1..n : p.body[f][j].suite \in Nat
  BY SuitesFit
<1>4. 1 <= n => s[1].kind # "absent"
  BY <1>1 DEF Cuts
<1>5. ASSUME NEW k \in 1..n, s[k].kind = "direct", k + 1 <= n, s[k + 1].kind = "absent"
      PROVE  FALSE
  <2>1. PICK j \in 1..n : s[j].kind = "stub" /\ Cuts(p, f, j, k + 1)
    BY <1>1, <1>5
  <2>2. j < k /\ Cuts(p, f, j, k)
    BY <1>3, <1>5, <2>1 DEF Cuts
  <2> QED
    BY <1>2, <1>5, <2>1, <2>2
<1> QED
  BY <1>4, <1>5
(* And at the end of a suite.                                              *)
LEMMA SuiteEndIsCompiled ==
  ASSUME NEW p, WellFormedProgram(p), SoundProgram(p), NEW f \in Scopes, NEW table, NEW s,
         SitesSound(p, table, f, s, Len(p.body[f]) + 1),
         NEW k \in 1..Len(p.body[f]), s[k].kind # "absent",
         NEW q, q = p.body[f][k].suite, q \in 1..Len(p.body[f])
  PROVE  s[q].kind # "absent"
<1> PICK n \in Nat : n = Len(p.body[f])
  BY SuitesFit
<1>1. \A m \in 1..n : s[m].kind = "absent" =>
        \E j \in 1..n : s[j].kind = "stub" /\ Cuts(p, f, j, m)
  BY DEF SitesSound, CutOffAt
<1>2. \A j, m \in 1..n : s[j].kind = "stub" /\ Cuts(p, f, j, m) => s[m].kind = "absent"
  BY DEF SitesSound, NothingAfter
<1>3. \A j \in 1..n : p.body[f][j].suite \in Nat
  BY SuitesFit
<1> SUFFICES ASSUME s[q].kind = "absent"
             PROVE  FALSE
  OBVIOUS
<1>4. PICK j \in 1..n : s[j].kind = "stub" /\ Cuts(p, f, j, q)
  BY <1>1
<1>5. q > k /\ \A i \in k..(q - 1) : p.body[f][i].suite = q
  BY SuitesFit, SMTT(30)
<1>6. j < q /\ (p.body[f][j].suite = 0 \/ q < p.body[f][j].suite)
  BY <1>4 DEF Cuts
<1>7. ~(j \in k..(q - 1))
  BY <1>5, <1>6
<1>8. Cuts(p, f, j, k)
  BY <1>3, <1>5, <1>6, <1>7, SMTT(30) DEF Cuts
<1> QED
  BY <1>2, <1>4, <1>8
-------------------------------------------------------------------------------
(* The parts of the invariant.                                             *)
LEMMA ProgramFits ==
  ASSUME SoundInv
  PROVE  JitInv /\ TypeOK /\ WellFormedProgram(program) /\ SoundProgram(program)
  BY DEF SoundInv, JitInv, TypeOK

(* What code has.                                                          *)
LEMMA CodeHasSites ==
  ASSUME SoundInv, NEW c \in 1..Len(code)
  PROVE  /\ code[c].fn \in Scopes
         /\ SitesSound(program, callsites, code[c].fn, code[c].sites,
                       Len(program.body[code[c].fn]) + 1)
  BY ProgramFits, CodeIsCode DEF SoundInv, CodeSound

(* What the code of a frame has.                                           *)
LEMMA FrameHasSites ==
  ASSUME SoundInv, NEW i \in 1..Len(frames), NEW r, r = frames[i]
  PROVE  /\ r.fn \in Scopes /\ Len(program.body[r.fn]) \in Nat
         /\ r.code \in 1..Len(code) /\ code[r.code].fn = r.fn
         /\ r.pc \in 1..(Len(program.body[r.fn]) + 1)
         /\ i < Len(frames) => r.pc \in 1..Len(program.body[r.fn])
         /\ SitesSound(program, callsites, r.fn, code[r.code].sites, Len(program.body[r.fn]) + 1)
         /\ FrameSound(program, code, r)
         /\ i < Len(frames) => Calls(program, code, r, frames[i + 1].fn)
<1>1. /\ r.code \in 1..Len(code) /\ code[r.code].fn = r.fn
      /\ r.pc \in 1..(Len(program.body[r.fn]) + 1)
      /\ i < Len(frames) => r.pc <= Len(program.body[r.fn])
  BY DEF SoundInv, JitInv, FramesFit, FrameFits
<1>2. /\ r.fn \in Scopes
      /\ SitesSound(program, callsites, r.fn, code[r.code].sites, Len(program.body[r.fn]) + 1)
  BY <1>1, CodeHasSites
<1>3. Len(program.body[r.fn]) \in Nat
  BY <1>2, ProgramFits, SuitesFit
<1>4. /\ FrameSound(program, code, r)
      /\ i < Len(frames) => Calls(program, code, r, frames[i + 1].fn)
  BY DEF SoundInv, FramesSound
<1> QED
  BY <1>1, <1>2, <1>3, <1>4

(* Only the frames change.                                                 *)
LEMMA TablesStaySound ==
  ASSUME SoundInv, UNCHANGED <<program, fragments, code, callsites, compiling, resolving>>
  PROVE  SoundProgram(program)' /\ CodeSound' /\ CallsitesSound' /\ FragmentsSound' /\ StackSound'
<1>1. SoundProgram(program)'
  BY DEF SoundInv
<1>2. CodeSound'
  BY DEF SoundInv, CodeSound
<1>3. CallsitesSound'
  BY DEF SoundInv, CallsitesSound
<1>4. FragmentsSound'
  BY DEF SoundInv, FragmentsSound
<1>5. StackSound'
  BY DEF SoundInv, StackSound, Top
<1> QED
  BY <1>1, <1>2, <1>3, <1>4, <1>5

(* The frames after the innermost one was replaced, pushed or popped.      *)
LEMMA FramesSoundWith ==
  ASSUME SoundInv, UNCHANGED <<program, code>>, resolving' = 0,
         NEW n \in Nat \ {0}, n - 1 <= Len(frames), Len(frames') = n,
         \A i \in 1..(n - 1) : frames'[i] = frames[i],
         FrameSound(program, code, frames'[n]),
         n > 1 => Calls(program, code, frames[n - 1], frames'[n].fn)
  PROVE  FramesSound'
<1>0. Len(frames) \in Nat
  <2>1. frames \in Seq(Frame)
    BY ProgramFits DEF TypeOK
  <2> QED
    BY <2>1
<1>1. \A i \in 1..n : FrameSound(program, code, frames'[i])
  <2>1. \A i \in 1..(n - 1) : FrameSound(program, code, frames[i])
    BY <1>0 DEF SoundInv, FramesSound
  <2>2. \A i \in 1..n : i = n \/ i \in 1..(n - 1)
    OBVIOUS
  <2> QED
    BY <2>1, <2>2
<1>2. \A i \in 1..n : i < n => Calls(program, code, frames'[i], frames'[i + 1].fn)
  <2> SUFFICES ASSUME NEW i \in 1..n, i < n
               PROVE  Calls(program, code, frames'[i], frames'[i + 1].fn)
    OBVIOUS
  <2>1. CASE i = n - 1
    <3>1. i + 1 = n /\ frames'[i] = frames[n - 1] /\ n > 1
      BY <2>1
    <3> QED
      BY <3>1
  <2>2. CASE i # n - 1
    <3>1. i \in 1..(n - 1) /\ i + 1 \in 1..(n - 1) /\ i \in 1..Len(frames) /\ i < Len(frames)
      BY <1>0, <2>2
    <3>2. Calls(program, code, frames[i], frames[i + 1].fn)
      BY <3>1 DEF SoundInv, FramesSound
    <3> QED
      BY <3>1, <3>2
  <2> QED
    BY <2>1, <2>2
<1> QED
  BY <1>1, <1>2 DEF FramesSound

(* Code runs and nothing is compiled.                                      *)
LEMMA RunSound ==
  ASSUME SoundInv, JitInv', Executing,
         UNCHANGED <<program, fragments, code, callsites, compiling, resolving, raising>>,
         FramesSound', outcome' \in {"none", "ended"}
  PROVE  SoundInv'
<1>1. compiling' = <<>> /\ resolving' = 0 /\ raising' = FALSE
  BY DEF Executing, SoundInv, OutcomeSound
<1>2. OutcomeSound'
  BY <1>1 DEF OutcomeSound
<1> QED
  BY <1>2, TablesStaySound DEF SoundInv

(* What the innermost frame is at.                                         *)
LEMMA AtSoundSite ==
  ASSUME SoundInv, frames # <<>>
  PROVE  /\ Len(frames) \in Nat \ {0} /\ Len(frames) \in 1..Len(frames)
         /\ Running = frames[Len(frames)] /\ Running \in Frame
         /\ Running.fn \in Scopes /\ Len(program.body[Running.fn]) \in Nat
         /\ Running.code \in 1..Len(code) /\ code[Running.code].fn = Running.fn
         /\ Running.pc \in 1..(Len(program.body[Running.fn]) + 1)
         /\ SiteHere = SiteAt(code, Running)
         /\ FrameSound(program, code, Running)
         /\ Running.pc <= Len(program.body[Running.fn]) =>
              /\ SiteHere.kind # "absent"
              /\ SiteSound(program, callsites, Running.fn, Running.pc, SiteHere)
<1>1. /\ Len(frames) \in Nat \ {0} /\ Running = frames[Len(frames)] /\ Running \in Frame
  BY ProgramFits, AtFrame
<1>2. Len(frames) \in 1..Len(frames)
  BY <1>1
<1>3. /\ Running.fn \in Scopes /\ Len(program.body[Running.fn]) \in Nat
      /\ Running.code \in 1..Len(code) /\ code[Running.code].fn = Running.fn
      /\ Running.pc \in 1..(Len(program.body[Running.fn]) + 1)
      /\ SitesSound(program, callsites, Running.fn, code[Running.code].sites,
                    Len(program.body[Running.fn]) + 1)
      /\ FrameSound(program, code, Running)
  BY <1>1, <1>2, FrameHasSites
<1>4. SiteHere = SiteAt(code, Running)
  BY DEF SiteHere, SiteAt
<1>5. ASSUME Running.pc <= Len(program.body[Running.fn])
      PROVE  /\ SiteHere.kind # "absent"
             /\ SiteSound(program, callsites, Running.fn, Running.pc, SiteHere)
  <2>1. SiteHere.kind # "absent"
    BY <1>3, <1>4, <1>5 DEF FrameSound
  <2>2. Running.pc \in 1..Len(program.body[Running.fn])
    BY <1>3, <1>5
  <2>3. SiteSound(program, callsites, Running.fn, Running.pc, SiteHere)
    BY <1>3, <2>2 DEF SitesSound, SiteHere
  <2> QED
    BY <2>1, <2>3
<1> QED
  BY <1>1, <1>2, <1>3, <1>4, <1>5
-------------------------------------------------------------------------------
(* A direct call is executed: it goes to code of the callee.               *)
LEMMA CallFragmentSound ==
  ASSUME SoundInv, JitInv', CallFragment
  PROVE  SoundInv'
<1>1. /\ Executing /\ frames # <<>> /\ resolving = 0
      /\ Running.pc <= Len(program.body[Running.fn])
      /\ SiteHere.kind = "direct"
      /\ UNCHANGED <<program, fragments, code, callsites, compiling, resolving, raising>>
  BY DEF CallFragment, Executing, RunBody
<1>2. SiteHere.target # 0 /\ outcome = "none"
  BY <1>1, AtSoundSite DEF SiteSound, Executing
<1>3. PICK f : f = program.body[Running.fn][Running.pc].callee
  OBVIOUS
<1>4. PICK r : /\ frames' = Append(frames, r) /\ outcome' = outcome
               /\ r.fn = f /\ r.code = SiteHere.target /\ r.pc = 1
  BY <1>2, <1>3, SMTT(30) DEF CallFragment, RunBody
<1>5. PICK n \in Nat \ {0} : /\ n = Len(frames) + 1 /\ n - 1 = Len(frames)
  BY <1>1, AtSoundSite
<1>6. /\ Len(frames') = n /\ frames'[n] = r
      /\ \A i \in 1..(n - 1) : frames'[i] = frames[i]
  <2>1. frames \in Seq(Frame) /\ frames' \in Seq(Frame)
    BY ProgramFits DEF JitInv, TypeOK
  <2> QED
    BY <1>4, <1>5, <2>1
<1>7. /\ SiteHere.target \in 1..Len(code) /\ code[SiteHere.target].fn = f
  BY <1>1, <1>2, <1>3, ProgramFits, AtSite
<1>8. FrameSound(program, code, r)
  <2>1. /\ f \in Scopes
        /\ SitesSound(program, callsites, f, code[r.code].sites, Len(program.body[f]) + 1)
    BY <1>4, <1>7, CodeHasSites
  <2>2. 1 <= Len(program.body[f]) => code[r.code].sites[1].kind # "absent"
    BY <2>1, ProgramFits, ReachedIsCompiled
  <2>3. LastFits(program, f, 1, r.last)
    BY <2>1, ProgramFits, EndsForget
  <2> QED
    BY <1>4, <2>2, <2>3 DEF FrameSound, SiteAt
<1>9. Calls(program, code, Running, f)
  BY <1>1, <1>3, AtSoundSite DEF Calls
<1>10. FramesSound'
  <2>1. n > 1 => Calls(program, code, frames[n - 1], frames'[n].fn)
    BY <1>1, <1>4, <1>5, <1>6, <1>9, AtSoundSite
  <2> QED
    BY <1>1, <1>5, <1>6, <1>8, <2>1, FramesSoundWith
<1> QED
  BY <1>1, <1>2, <1>4, <1>10, RunSound

(* The innermost frame is replaced by one of the same function.            *)
LEMMA FrameSetSound ==
  ASSUME SoundInv, frames # <<>>, UNCHANGED <<program, code>>, resolving' = 0,
         NEW r \in Frame, r.fn = Running.fn, FrameSound(program, code, r),
         frames' = SetLast(frames, r)
  PROVE  FramesSound'
<1>1. PICK n \in Nat \ {0} : n = Len(frames) /\ n - 1 <= Len(frames)
  BY AtSoundSite
<1>2. frames \in Seq(Frame)
  BY ProgramFits DEF TypeOK
<1>3. /\ Len(frames') = n /\ frames'[n] = r
      /\ \A i \in 1..n : i # n => frames'[i] = frames[i]
  <2>1. \A x \in Frame : /\ Len(SetLast(frames, x)) = Len(frames)
                         /\ SetLast(frames, x)[Len(frames)] = x
                         /\ \A i \in 1..Len(frames) :
                              i # Len(frames) => SetLast(frames, x)[i] = frames[i]
    BY <1>2, SetLastSeq
  <2> QED
    BY <1>1, <2>1
<1>4. n > 1 => Calls(program, code, frames[n - 1], r.fn)
  <2> SUFFICES ASSUME n > 1
               PROVE  Calls(program, code, frames[n - 1], r.fn)
    OBVIOUS
  <2>1. n - 1 \in 1..Len(frames) /\ n - 1 < Len(frames) /\ n - 1 + 1 = n
    BY <1>1
  <2>2. Calls(program, code, frames[n - 1], frames[n - 1 + 1].fn)
    BY <2>1, FrameHasSites
  <2> QED
    BY <1>1, <2>1, <2>2, AtSoundSite
<1>5. \A i \in 1..(n - 1) : frames'[i] = frames[i]
  BY <1>3
<1> QED
  BY <1>1, <1>3, <1>4, <1>5, FramesSoundWith

(* A suite is left.                                                        *)
LEMMA SkipSuiteSound ==
  ASSUME SoundInv, JitInv', SkipSuite
  PROVE  SoundInv'
<1>1. /\ Executing /\ frames # <<>> /\ resolving = 0 /\ outcome = "none" /\ outcome' = outcome
      /\ Running.pc <= Len(program.body[Running.fn])
      /\ program.body[Running.fn][Running.pc].suite # 0
      /\ frames' = SetLast(frames, [Running EXCEPT !.pc = AfterSuite(Running)])
      /\ UNCHANGED <<program, fragments, code, callsites, compiling, resolving, raising>>
  BY DEF SkipSuite, Executing, SuiteStart
<1>2. PICK f, k, q : f = Running.fn /\ k = Running.pc /\ q = program.body[f][k].suite
  OBVIOUS
<1>3. /\ f \in Scopes /\ k \in 1..Len(program.body[f]) /\ Len(program.body[f]) \in Nat
      /\ q # 0 /\ q \in Nat
  BY <1>1, <1>2, AtSoundSite, ProgramFits, SuitesFit, SMTT(30)
<1>4. PICK r : r = [Running EXCEPT !.pc = q]
  OBVIOUS
<1>5. /\ frames' = SetLast(frames, r)
  BY <1>1, <1>2, <1>4 DEF AfterSuite
<1>6. r \in Frame /\ r.fn = f /\ r.pc = q /\ r.code = Running.code
  <2>1. Running \in Frame
    BY <1>1, AtSoundSite
  <2> QED
    BY <1>2, <1>3, <1>4, <2>1 DEF Frame
<1>7. FrameSound(program, code, r)
  <2>1. LastFits(program, f, q, r.last)
    <3>1. LastFits(program, f, program.body[f][k].suite, r.last)
      BY <1>2, <1>3, ProgramFits, SuiteForgets
    <3> QED
      BY <1>2, <3>1
  <2>2. q \in 1..(Len(program.body[f]) + 1)
    BY <1>2, <1>3, ProgramFits, SuitesFit, SMTT(30)
  <2>3. SitesSound(program, callsites, f, code[Running.code].sites, Len(program.body[f]) + 1)
    BY <1>1, <1>2, AtSoundSite, CodeHasSites
  <2>4. code[Running.code].sites[k].kind # "absent"
    BY <1>1, <1>2, AtSoundSite DEF SiteHere
  <2>5. q <= Len(program.body[f]) => code[Running.code].sites[q].kind # "absent"
    <3>1. PICK s : s = code[Running.code].sites
      OBVIOUS
    <3>2. SitesSound(program, callsites, f, s, Len(program.body[f]) + 1) /\ s[k].kind # "absent"
      BY <2>3, <2>4, <3>1
    <3>4. q \in 1..Len(program.body[f]) => s[q].kind # "absent"
      BY <1>2, <1>3, <3>2, ProgramFits, SuiteEndIsCompiled
    <3>5. q <= Len(program.body[f]) => q \in 1..Len(program.body[f])
      BY <1>3, <2>2
    <3> QED
      BY <3>1, <3>4, <3>5
  <2> QED
    BY <1>6, <2>1, <2>5 DEF FrameSound, SiteAt
<1>8. FramesSound'
  BY <1>1, <1>2, <1>5, <1>6, <1>7, FrameSetSound
<1> QED
  BY <1>1, <1>8, RunSound

(* A function returns to the call that waits for it.                       *)
LEMMA ReturnSound ==
  ASSUME SoundInv, JitInv', ReturnFromFragment
  PROVE  SoundInv'
<1>1. /\ Executing /\ frames # <<>> /\ resolving = 0 /\ outcome = "none"
      /\ Running.pc = Len(program.body[Running.fn]) + 1
      /\ UNCHANGED <<program, fragments, code, callsites, compiling, resolving, raising>>
  BY DEF ReturnFromFragment, Executing, RunBody
<1>2. CASE Len(frames) = 1
  <2>1. frames' = <<>> /\ outcome' = "ended" /\ resolving' = 0
    BY <1>1, <1>2 DEF ReturnFromFragment
  <2>2. FramesSound'
    BY <2>1 DEF FramesSound
  <2> QED
    BY <1>1, <2>1, <2>2, RunSound
<1>3. CASE Len(frames) # 1
  <2>1. PICK n \in Nat \ {0} : n = Len(frames) - 1 /\ n + 1 = Len(frames) /\ n - 1 <= Len(frames)
    <3>1. PICK m \in Nat \ {0} : m = Len(frames)
      BY <1>1, AtSoundSite
    <3>2. m - 1 \in Nat \ {0} /\ m - 1 + 1 = m /\ m - 1 - 1 <= m
      BY <1>3, <3>1
    <3> QED
      BY <3>1, <3>2
  <2>2. PICK c, t : c = frames[n] /\ t = ReturnType(Running.fn, Running.last)
    OBVIOUS
  <2>3. PICK r : r = [c EXCEPT !.pc = @ + 1, !.last = t]
    OBVIOUS
  <2>4. frames' = Append(SubSeq(frames, 1, Len(frames) - 2), r) /\ outcome' = outcome
    BY <1>3, <2>1, <2>2, <2>3 DEF ReturnFromFragment
  <2>5. /\ n \in 1..Len(frames) /\ n < Len(frames)
        /\ c \in Frame
        /\ c.fn \in Scopes /\ Len(program.body[c.fn]) \in Nat
        /\ c.code \in 1..Len(code)
        /\ c.pc \in 1..Len(program.body[c.fn])
        /\ SitesSound(program, callsites, c.fn, code[c.code].sites, Len(program.body[c.fn]) + 1)
        /\ Calls(program, code, c, Running.fn)
    <3>1. n \in 1..Len(frames) /\ n < Len(frames)
      BY <2>1
    <3>2. frames[n + 1] = Running
      BY <1>1, <2>1, AtSoundSite
    <3>3. c \in Frame
      <4>1. frames \in Seq(Frame)
        BY ProgramFits DEF TypeOK
      <4> QED
        BY <2>2, <3>1, <4>1
    <3> QED
      BY <2>2, <3>1, <3>2, <3>3, FrameHasSites
  <2>6. t = Result(program, program.body[c.fn][c.pc].callee)
    <3>1. LastFits(program, Running.fn, Len(program.body[Running.fn]) + 1, Running.last)
      BY <1>1, AtSoundSite DEF FrameSound
    <3>2. Running.fn \in Scopes
      BY <1>1, AtSoundSite
    <3>3. t = Result(program, Running.fn)
      BY <2>2, <3>1, <3>2, ProgramFits, EndHasType DEF ReturnType
    <3> QED
      BY <2>5, <3>3 DEF Calls
  <2>7. /\ r.fn = c.fn /\ r.code = c.code /\ r.pc = c.pc + 1 /\ r.last = t
    BY <2>3, <2>5 DEF Frame
  <2>8. /\ Len(frames') = n /\ frames'[n] = r
        /\ \A i \in 1..(n - 1) : frames'[i] = frames[i]
    <3>1. frames \in Seq(Frame) /\ frames' \in Seq(Frame)
      BY ProgramFits DEF JitInv, TypeOK
    <3>2. PICK m \in Nat : m = n - 1 /\ m = Len(frames) - 2
      BY <2>1
    <3>3. \A i \in 1..m : frames[i] \in Frame
      BY <2>1, <3>1, <3>2
    <3>7. /\ SubSeq(frames, 1, m) \in Seq(Frame) /\ Len(SubSeq(frames, 1, m)) = m
          /\ \A i \in 1..m : SubSeq(frames, 1, m)[i] = frames[i]
      BY <3>3, SubSeqProperties
    <3>4. PICK u \in Seq(Frame) : u = SubSeq(frames, 1, m) /\ Len(u) = m
                                  /\ \A i \in 1..m : u[i] = frames[i]
      BY <3>7
    <3>5. frames' = Append(u, r) /\ Len(u) + 1 = n
      BY <2>1, <2>4, <3>2, <3>4
    <3>6. Len(frames') = Len(u) + 1 /\ frames'[Len(u) + 1] = r
          /\ \A i \in 1..Len(u) : frames'[i] = u[i]
      BY <3>5
    <3> QED
      BY <3>2, <3>4, <3>5, <3>6
  <2>9. FrameSound(program, code, r)
    <3>1. LastFits(program, c.fn, c.pc + 1, t)
      <4>1. c.pc \in Nat
        BY <2>5
      <4> QED
        BY <2>6, <4>1, CallPassesResult
    <3>2. c.pc + 1 <= Len(program.body[c.fn]) => code[c.code].sites[c.pc + 1].kind # "absent"
      <4>1. code[c.code].sites[c.pc].kind = "direct"
        BY <2>5 DEF Calls, SiteAt
      <4> QED
        BY <2>5, <4>1, ProgramFits, ReachedIsCompiled
    <3> QED
      BY <2>7, <3>1, <3>2 DEF FrameSound, SiteAt
  <2>10. n > 1 => Calls(program, code, frames[n - 1], frames'[n].fn)
    <3> SUFFICES ASSUME n > 1
                 PROVE  Calls(program, code, frames[n - 1], r.fn)
      BY <2>8
    <3>1. n - 1 \in 1..Len(frames) /\ n - 1 < Len(frames) /\ n - 1 + 1 = n
      BY <2>1
    <3>2. Calls(program, code, frames[n - 1], frames[n - 1 + 1].fn)
      BY <3>1, FrameHasSites
    <3> QED
      BY <2>2, <2>7, <3>1, <3>2
  <2>11. FramesSound'
    BY <1>1, <2>1, <2>8, <2>9, <2>10, FramesSoundWith
  <2> QED
    BY <1>1, <2>4, <2>11, RunSound
<1> QED
  BY <1>2, <1>3

(* Nothing is raised.                                                      *)
LEMMA NothingRaised ==
  ASSUME SoundInv
  PROVE  ~HandleException /\ ~LeaveFrame
  BY DEF SoundInv, OutcomeSound, HandleException, LeaveFrame
-------------------------------------------------------------------------------
(* Fragment i of f becomes r, and the rest of the table stays.             *)
Changed(t, u, f, i, r) ==
  /\ \A g \in Scopes : Len(u[g]) = Len(t[g])
  /\ \A g \in Scopes : \A j \in 1..Len(t[g]) :
       u[g][j] = IF g = f /\ j = i THEN r ELSE t[g][j]

(* compile_fragment resets the return type and the splits.                 *)
LEMMA ResetExactly ==
  ASSUME NEW t \in FragmentTable, NEW f \in Scopes, NEW i \in 1..Len(t[f]),
         NEW type \in FragmentTypes,
         NEW w, w = [t EXCEPT ![f][i].returnType = type, ![f][i].splits = {}]
  PROVE  \E r \in Fragment : Changed(t, w, f, i, r) /\ r.arg = t[f][i].arg /\ r.splits = {}
<1>1. t[f] \in Seq(Fragment) /\ t[f][i] \in Fragment
  BY DEF FragmentTable
<1>2. PICK r : r = [t[f][i] EXCEPT !.returnType = type, !.splits = {}]
  OBVIOUS
<1>3. r \in Fragment /\ r.arg = t[f][i].arg /\ r.splits = {}
  BY <1>1, <1>2 DEF Fragment
<1>4. w = [t EXCEPT ![f] = [@ EXCEPT ![i] = r]]
  BY <1>1, <1>2 DEF FragmentTable
<1>5. PICK u : u = [t EXCEPT ![f] = [@ EXCEPT ![i] = r]]
  OBVIOUS
<1>6. Changed(t, u, f, i, r)
  BY <1>3, <1>5, SetFragment DEF Changed
<1> QED
  BY <1>3, <1>4, <1>5, <1>6

(* compile_fragment sets the return type, the code and the splits.         *)
LEMMA FinishExactly ==
  ASSUME NEW t \in FragmentTable, NEW f \in Scopes, NEW i \in 1..Len(t[f]),
         NEW type \in FragmentTypes, NEW c \in Nat, NEW splits \in SUBSET Nat,
         NEW w, w = TableAfter(t, f, i, type, c, splits)
  PROVE  \E r \in Fragment : /\ Changed(t, w, f, i, r) /\ r.arg = t[f][i].arg
                             /\ r.returnType = type /\ r.compiled = c /\ r.splits = splits
<1>1. t[f] \in Seq(Fragment) /\ t[f][i] \in Fragment
  BY DEF FragmentTable
<1>2. PICK r : r = [t[f][i] EXCEPT !.returnType = type, !.compiled = c, !.splits = splits]
  OBVIOUS
<1>3. /\ r \in Fragment /\ r.arg = t[f][i].arg
      /\ r.returnType = type /\ r.compiled = c /\ r.splits = splits
  BY <1>1, <1>2 DEF Fragment
<1>4. w = [t EXCEPT ![f] = [@ EXCEPT ![i] = r]]
  BY <1>1, <1>2 DEF FragmentTable, TableAfter
<1>5. PICK u : u = [t EXCEPT ![f] = [@ EXCEPT ![i] = r]]
  OBVIOUS
<1>6. Changed(t, u, f, i, r)
  BY <1>3, <1>5, SetFragment DEF Changed
<1> QED
  BY <1>3, <1>4, <1>5, <1>6

(* A new fragment for new types, or an old one with other contents: the    *)
(* table that results is longer.                                           *)
LEMMA StartedTable ==
  ASSUME SoundInv, NEW t, NEW f \in Scopes, TableFor(t, f), NEW i \in 1..Len(t[f]),
         NEW u \in FragmentTable, NEW r, Changed(t, u, f, i, r), r.arg = t[f][i].arg
  PROVE  Longer(fragments, u)
<1>1. fragments \in FragmentTable /\ t \in FragmentTable
  BY ProgramFits, TableIsTable DEF TableFor
<1>2. \A g \in Scopes : Len(t[g]) \in Nat /\ Len(fragments[g]) \in Nat
  BY <1>1, TableIsTable
<1>3. \A g \in Scopes : /\ Len(t[g]) >= Len(fragments[g])
                        /\ \A j \in 1..Len(fragments[g]) : t[g][j] = fragments[g][j]
  BY <1>2 DEF TableFor
<1>4. \A g \in Scopes : \A j \in 1..Len(t[g]) : u[g][j].arg = t[g][j].arg
  BY DEF Changed
<1> SUFFICES ASSUME NEW g \in Scopes
             PROVE  /\ Len(u[g]) >= Len(fragments[g])
                    /\ \A j \in 1..Len(fragments[g]) : u[g][j].arg = fragments[g][j].arg
  BY DEF Longer
<1>5. Len(u[g]) = Len(t[g])
  BY DEF Changed
<1>6. \A j \in 1..Len(fragments[g]) : j \in 1..Len(t[g])
  BY <1>2, <1>3
<1>7. \A j \in 1..Len(fragments[g]) : u[g][j].arg = fragments[g][j].arg
  BY <1>3, <1>4, <1>6
<1> QED
  BY <1>3, <1>5, <1>7

(* More fragments: the call sites are still of calls that can be compiled. *)
LEMMA CallsitesStaySound ==
  ASSUME SoundInv, UNCHANGED <<program, callsites>>, fragments' \in FragmentTable,
         Longer(fragments, fragments')
  PROVE  CallsitesSound'
<1>1. /\ fragments \in FragmentTable
      /\ WellFormedProgram(program) /\ SoundProgram(program)
  BY ProgramFits, TableIsTable
<1>2. \A t \in 1..Len(callsites) : CallsiteSound(program, fragments, callsites[t])
  BY DEF SoundInv, CallsitesSound
<1>3. ASSUME NEW t \in 1..Len(callsites)
      PROVE  CallsiteSound(program, fragments', callsites[t])
  <2>1. callsites[t].fn \in Scopes
    BY ProgramFits, CallsiteIsCallsite
  <2>2. \A m : KnownBefore(program, fragments, callsites[t].fn, m)
                 => KnownBefore(program, fragments', callsites[t].fn, m)
    BY <1>1, <2>1, KnownStays
  <2> QED
    BY <1>2, <2>2 DEF CallsiteSound
<1> QED
  BY <1>3 DEF SoundInv, CallsitesSound

(* compile_fragment is entered.                                            *)
LEMMA StartSound ==
  ASSUME SoundInv, JitInv', NEW t, NEW f \in Scopes, TableFor(t, f),
         NEW i \in 1..Len(t[f]), \A j \in 1..Len(t[f]) : j > Len(fragments[f]) => j = i,
         NEW why \in Why, StartCompiling(t, compiling, f, i, why),
         UNCHANGED <<program, code, callsites, frames, raising, outcome>>, outcome = "none",
         compiling # <<>> => program.eager /\ compiling[1] = compiling'[1],
         compiling = <<>> /\ why = "root" => frames = <<>>,
         resolving' # 0 => Running.pc = callsites[resolving'].split,
         resolving' # 0 => Known(program, fragments', Running.fn, Running.pc)
  PROVE  SoundInv'
<1>0. JitInv /\ WellFormedProgram(program) /\ SoundProgram(program)
  BY ProgramFits
<1>1. PICK n \in Nat : n = Len(compiling)
  <2>1. compiling \in Seq(Activation)
    BY <1>0 DEF JitInv, TypeOK
  <2> QED
    BY <2>1
<1>2. /\ fragments' \in FragmentTable
      /\ Len(compiling') = n + 1 /\ \A j \in 1..n : compiling'[j] = compiling[j]
  BY <1>0, <1>1, StartView
<1>3. PICK a \in Activation :
        /\ a = compiling'[n + 1]
        /\ a.fn = f /\ a.index = i /\ a.why = why /\ a.pc = 1
        /\ a.sites = [k \in 1..Len(program.body[f]) |-> Absent]
  BY <1>0, <1>1, StartView
<1>4. a.splits = {} /\ a.returned = {}
  <2>0. PICK b : b = [fn |-> f, index |-> i, why |-> why, pc |-> 1,
                      sites |-> [k \in 1..Len(program.body[f]) |-> Absent],
                      splits |-> {}, last |-> None, returned |-> {}]
    OBVIOUS
  <2>1. compiling' = Append(compiling, b) /\ b.splits = {} /\ b.returned = {}
    BY <2>0 DEF StartCompiling
  <2>2. compiling' \in Seq(Activation) /\ compiling \in Seq(Activation)
    BY <1>0 DEF JitInv, TypeOK
  <2>3. b = compiling'[n + 1]
    BY <1>1, <2>1, <2>2
  <2> QED
    BY <1>3, <2>1, <2>3
<1>5. PICK r \in Fragment : Changed(t, fragments', f, i, r) /\ r.arg = t[f][i].arg /\ r.splits = {}
  <2>1. t \in FragmentTable
    BY DEF TableFor
  <2>2. program.annotation[f] \in FragmentTypes
    BY <1>0, Numbers DEF WellFormedProgram
  <2>3. fragments' = [t EXCEPT ![f][i].returnType = program.annotation[f], ![f][i].splits = {}]
    BY DEF StartCompiling
  <2> QED
    BY <2>1, <2>2, <2>3, ResetExactly
<1>6. Longer(fragments, fragments')
  BY <1>2, <1>5, StartedTable
<1>7. SoundProgram(program)' /\ CodeSound' /\ CallsitesSound'
  <2>1. CallsitesSound'
    BY <1>2, <1>6, CallsitesStaySound
  <2>2. CodeSound'
    BY DEF SoundInv, CodeSound
  <2> QED
    BY <1>0, <2>1, <2>2
<1>8. FragmentsSound'
  <2>1. \A g \in Scopes : \A j \in 1..Len(fragments'[g]) :
          \/ g = f /\ j = i /\ fragments'[g][j] = r
          \/ j \in 1..Len(fragments[g]) /\ fragments'[g][j] = fragments[g][j]
    <3> SUFFICES ASSUME NEW g \in Scopes, NEW j \in 1..Len(fragments'[g]), ~(g = f /\ j = i)
                 PROVE  j \in 1..Len(fragments[g]) /\ fragments'[g][j] = fragments[g][j]
      BY <1>5 DEF Changed
    <3>1. j \in 1..Len(t[g]) /\ fragments'[g][j] = t[g][j]
      BY <1>5 DEF Changed
    <3>2. Len(fragments[g]) \in Nat
      BY <1>0, TableIsTable DEF JitInv
    <3>3. j \in 1..Len(fragments[g])
      <4>1. CASE g = f
        BY <3>1, <3>2, <4>1
      <4>2. CASE g # f
        BY <3>1, <4>2 DEF TableFor
      <4> QED
        BY <4>1, <4>2
    <3>4. t[g][j] = fragments[g][j]
      BY <3>3 DEF TableFor
    <3> QED
      BY <3>1, <3>3, <3>4
  <2>2. \A g, j : BeingCompiled(compiling, g, j) => BeingCompiled(compiling', g, j)
    <3>1. \A m \in 1..n : m \in 1..(n + 1) /\ compiling'[m] = compiling[m]
      BY <1>2
    <3> QED
      BY <1>1, <1>2, <3>1 DEF BeingCompiled
  <2>3. BeingCompiled(compiling', f, i)
    <3>1. n + 1 \in 1..(n + 1)
      OBVIOUS
    <3> QED
      BY <1>2, <1>3, <3>1 DEF BeingCompiled
  <2>4. \A g \in Functions : \A j \in 1..Len(fragments'[g]) :
          \/ fragments'[g][j].compiled # 0 /\ fragments'[g][j].returnType = Result(program, g)
          \/ BeingCompiled(compiling', g, j)
    <3> SUFFICES ASSUME NEW g \in Functions, NEW j \in 1..Len(fragments'[g])
                 PROVE  \/ /\ fragments'[g][j].compiled # 0
                           /\ fragments'[g][j].returnType = Result(program, g)
                        \/ BeingCompiled(compiling', g, j)
      OBVIOUS
    <3>1. g \in Scopes
      BY Numbers
    <3>2. \A m \in 1..Len(fragments[g]) :
            \/ fragments[g][m].compiled # 0 /\ fragments[g][m].returnType = Result(program, g)
            \/ BeingCompiled(compiling, g, m)
      BY DEF SoundInv, FragmentsSound
    <3> QED
      BY <2>1, <2>2, <2>3, <3>1, <3>2
  <2>5. \A g \in Scopes : \A j \in 1..Len(fragments'[g]) :
          SplitsSound(program, code, g, fragments'[g][j])
    <3>1. \A g \in Scopes : \A j \in 1..Len(fragments[g]) :
            SplitsSound(program, code, g, fragments[g][j])
      BY DEF SoundInv, FragmentsSound
    <3>2. \A g : SplitsSound(program, code, g, r)
      BY <1>5 DEF SplitsSound
    <3> QED
      BY <2>1, <3>1, <3>2
  <2> QED
    BY <2>4, <2>5 DEF FragmentsSound
<1>9. StackSound'
  <2>1. ActivationSound(program, callsites, a)
    <3>1. SitesSound(program, callsites, f, a.sites, 1) /\ LastFits(program, f, 1, a.last)
      BY <1>0, <1>3, SitesAtStart, EndsForget
    <3>2. Len(program.body[f]) \in Nat
      BY <1>0, SuitesFit
    <3> QED
      BY <1>3, <1>4, <3>1, <3>2 DEF ActivationSound
  <2>2. \A m \in 1..(n + 1) : ActivationSound(program, callsites, compiling'[m])
    <3>1. \A m \in 1..n : ActivationSound(program, callsites, compiling[m])
      BY <1>1 DEF SoundInv, StackSound
    <3>2. \A m \in 1..(n + 1) : m = n + 1 \/ m \in 1..n
      OBVIOUS
    <3> QED
      BY <1>2, <1>3, <2>1, <3>1, <3>2
  <2>3. ASSUME ~program.eager
        PROVE  /\ Len(compiling') <= 1
               /\ Top' = a
    <3>1. n = 0
      BY <1>1, <2>3
    <3> QED
      BY <1>2, <1>3, <3>1 DEF Top
  <2>4. KnownBefore(program, fragments', f, 1)
    <3>1. \A k \in 1..Len(program.body[f]) : ~Cuts(program, f, k, 1)
      BY DEF Cuts
    <3> QED
      BY <3>1 DEF KnownBefore
  <2>5. ASSUME ~program.eager, why = "caller"
        PROVE  ComesToSplit(a, callsites[resolving'].split)
    <3>1. compiling = <<>> /\ compiling' # <<>> /\ compiling'[1] = a
      BY <1>1, <1>2, <1>3, <2>3, <2>5
    <3>2. resolving' # 0 /\ resolving' \in 0..Len(callsites)
      BY <1>3, <2>5, <3>1 DEF JitInv, StackFits, TypeOK
    <3>3. Len(callsites) \in Nat
      BY <1>0, LengthsAreNumbers DEF JitInv
    <3>4. resolving' \in 1..Len(callsites)
      BY <3>2, <3>3
    <3>5. callsites[resolving'].split >= 1
      BY <3>4 DEF SoundInv, CallsitesSound, CallsiteSound
    <3> QED
      BY <1>3, <3>5 DEF ComesToSplit
  <2> QED
    BY <1>2, <1>3, <2>2, <2>3, <2>4, <2>5 DEF StackSound
<1>10. FramesSound'
  BY DEF SoundInv, FramesSound, Running
<1>11. OutcomeSound'
  <2>1. compiling'[1].why = "root" => frames = <<>>
    <3>1. CASE compiling = <<>>
      <4>1. compiling'[1] = a
        BY <1>1, <1>3, <3>1
      <4> QED
        BY <1>3, <3>1, <4>1
    <3>2. CASE compiling # <<>>
      BY <3>2 DEF SoundInv, OutcomeSound
    <3> QED
      BY <3>1, <3>2
  <2> QED
    BY <2>1 DEF SoundInv, OutcomeSound
<1> QED
  BY <1>7, <1>8, <1>9, <1>10, <1>11 DEF SoundInv

(* What the table has after compile_fragment has started.                  *)
LEMMA StartLonger ==
  ASSUME SoundInv, JitInv', NEW t, NEW f \in Scopes, TableFor(t, f),
         NEW i \in 1..Len(t[f]), NEW stack, NEW why, StartCompiling(t, stack, f, i, why)
  PROVE  /\ Longer(fragments, fragments')
         /\ Len(fragments'[f]) = Len(t[f])
         /\ \A j \in 1..Len(t[f]) : fragments'[f][j].arg = t[f][j].arg
<1>1. t \in FragmentTable
  BY DEF TableFor
<1>2. program.annotation[f] \in FragmentTypes
  BY ProgramFits, Numbers DEF WellFormedProgram
<1>3. PICK u : u = [t EXCEPT ![f][i].returnType = program.annotation[f], ![f][i].splits = {}]
  OBVIOUS
<1>4. \E r \in Fragment : Changed(t, u, f, i, r) /\ r.arg = t[f][i].arg /\ r.splits = {}
  BY <1>1, <1>2, <1>3, ResetExactly
<1>5. PICK r \in Fragment : Changed(t, u, f, i, r) /\ r.arg = t[f][i].arg
  BY <1>4
<1>6. fragments' = u
  BY <1>3 DEF StartCompiling
<1>7. u \in FragmentTable
  BY <1>6 DEF JitInv, TypeOK, FragmentTable
<1>8. Longer(fragments, u)
  BY <1>5, <1>7, StartedTable
<1> QED
  BY <1>5, <1>6, <1>8 DEF Changed

(* compile_fragment is called for the root scope.                          *)
LEMMA CompileRootSound ==
  ASSUME SoundInv, JitInv', CompileRoot
  PROVE  SoundInv'
<1>1. /\ JitInv /\ code = <<>> /\ compiling = <<>> /\ outcome = "none"
      /\ UNCHANGED <<program, code, callsites, resolving, frames, raising, outcome>>
      /\ StartCompiling(fragments, compiling, Root, 1, "root")
  BY DEF CompileRoot, SoundInv
<1>2. frames = <<>> /\ resolving = 0
  <2>1. frames = <<>>
    <3>1. frames # <<>> => Running.code \in 1..Len(code)
      BY <1>1, AtFrame
    <3> QED
      BY <1>1, <3>1
  <2> QED
    BY <1>1, <2>1 DEF JitInv, FramesFit
<1>3. Root \in Scopes /\ 1 \in 1..Len(fragments[Root])
  <2>1. Len(fragments[Root]) \in Nat
    BY <1>1, TableIsTable, Numbers DEF JitInv
  <2> QED
    BY <1>1, <2>1, Numbers DEF JitInv, FragmentsFit
<1>4. TableFor(fragments, Root)
  BY <1>1, <1>3, SameTable
<1>5. \A j \in 1..Len(fragments[Root]) : ~(j > Len(fragments[Root]))
  BY <1>1, <1>3, TableIsTable DEF JitInv
<1> QED
  BY <1>1, <1>2, <1>3, <1>4, <1>5, StartSound DEF Why

(* compile_fragment is called for the caller, after the callee.            *)
LEMMA RecompileCallerSound ==
  ASSUME SoundInv, JitInv', RecompileCaller
  PROVE  SoundInv'
<1>1. PICK f, i : f = callsites[resolving].fn /\ i = callsites[resolving].index
  OBVIOUS
<1>2. /\ JitInv /\ compiling = <<>> /\ resolving # 0
      /\ UNCHANGED <<program, code, callsites, resolving, frames, raising, outcome>>
      /\ StartCompiling(fragments, compiling, f, i, "caller")
  BY <1>1 DEF RecompileCaller, SoundInv
<1>3. resolving \in 1..Len(callsites) /\ f \in Scopes /\ i \in 1..Len(fragments[f])
  <2>1. resolving \in 0..Len(callsites) /\ TypeOK /\ Len(callsites) \in Nat
    BY <1>2, LengthsAreNumbers DEF JitInv, TypeOK
  <2>2. resolving \in 1..Len(callsites)
    BY <1>2, <2>1
  <2> QED
    BY <1>1, <1>2, <2>1, <2>2, CallsiteIsCallsite DEF JitInv, FramesFit, InCompiled
<1>4. TableFor(fragments, f)
  BY <1>2, <1>3, SameTable
<1>5. \A j \in 1..Len(fragments[f]) : ~(j > Len(fragments[f]))
  BY <1>2, <1>3, TableIsTable DEF JitInv
<1>6. outcome = "none" /\ Running.pc = callsites[resolving].split
  BY <1>2 DEF SoundInv, OutcomeSound, FramesSound
<1>7. Known(program, fragments', Running.fn, Running.pc)
  <2>1. Known(program, fragments, Running.fn, Running.pc)
    BY <1>2 DEF SoundInv, FramesSound
  <2>2. /\ Running.fn \in Scopes /\ Running.pc \in 1..Len(program.body[Running.fn])
        /\ WellFormedProgram(program) /\ SoundProgram(program)
    <3>1. frames # <<>> /\ Running.pc <= Len(program.body[Running.fn])
      BY <1>2 DEF JitInv, FramesFit
    <3> QED
      BY <3>1, AtSoundSite, ProgramFits
  <2>3. fragments \in FragmentTable /\ fragments' \in FragmentTable
    BY <1>2, TableIsTable DEF JitInv, TypeOK, FragmentTable
  <2>4. Longer(fragments, fragments')
    BY <1>2, <1>3, <1>4, StartLonger
  <2> QED
    BY <2>1, <2>2, <2>3, <2>4, KnownStays
<1> QED
  BY <1>2, <1>3, <1>4, <1>5, <1>6, <1>7, StartSound DEF Why

(* A stub is executed.                                                     *)
LEMMA AtSoundStub ==
  ASSUME SoundInv, frames # <<>>, Running.pc <= Len(program.body[Running.fn]),
         SiteHere.kind = "stub", NEW site, site = callsites[SiteHere.target]
  PROVE  /\ SiteHere.target \in 1..Len(callsites)
         /\ site.fn = Running.fn /\ site.split = Running.pc
         /\ site.index \in 1..Len(fragments[site.fn])
         /\ site.callee \in Scopes /\ site.arg \in FragmentTypes
         /\ CallsiteSound(program, fragments, site)
         /\ ~program.eager
<1>1. /\ SiteHere.target \in 1..Len(callsites)
      /\ site.fn = Running.fn /\ InCompiled(site)
  BY ProgramFits, AtSite
<1>2. site.split = Running.pc
  BY AtSoundSite DEF SiteSound
<1>3. /\ CallsiteSound(program, fragments, site)
      /\ program.eager => callsites = <<>>
  BY <1>1 DEF SoundInv, CallsitesSound
<1>4. ~program.eager
  BY <1>1, <1>3
<1>5. site.callee \in Scopes /\ site.arg \in FragmentTypes
  BY <1>1, ProgramFits, CallsiteIsCallsite
<1> QED
  BY <1>1, <1>2, <1>3, <1>4, <1>5 DEF InCompiled

(* The caller has the split: execution goes on in the caller's code.       *)
LEMMA ResolveGoesOn ==
  ASSUME SoundInv, JitInv', Resolve,
         NEW site, site = callsites[SiteHere.target],
         HasSplit(fragments[site.fn][site.index], site)
  PROVE  SoundInv'
<1>1. PICK r : r = [Running EXCEPT !.code = fragments[site.fn][site.index].compiled]
  OBVIOUS
<1>2. /\ Executing /\ frames # <<>> /\ resolving = 0 /\ outcome = "none" /\ outcome' = outcome
      /\ Running.pc <= Len(program.body[Running.fn]) /\ SiteHere.kind = "stub"
      /\ UNCHANGED <<program, fragments, code, callsites, compiling, resolving, raising>>
      /\ frames' = SetLast(frames, r)
  BY <1>1 DEF Resolve, Executing, RunBody, ContinueIn
<1>3. PICK f, i, c : f = site.fn /\ i = site.index /\ c = fragments[f][i].compiled
  OBVIOUS
<1>4. /\ f = Running.fn /\ site.split = Running.pc /\ f \in Scopes
      /\ i \in 1..Len(fragments[f]) /\ Running \in Frame
      /\ FrameSound(program, code, Running)
  BY <1>2, <1>3, AtSoundStub, AtSoundSite
<1>5. c # 0 /\ code[c].sites[Running.pc].kind = "direct"
  <2>1. SplitsSound(program, code, f, fragments[f][i])
    BY <1>4 DEF SoundInv, FragmentsSound
  <2>2. Running.pc \in fragments[f][i].splits
    BY <1>3, <1>4 DEF HasSplit
  <2> QED
    BY <1>3, <2>1, <2>2 DEF SplitsSound
<1>6. r \in Frame /\ r.fn = f /\ r.pc = Running.pc /\ r.last = Running.last /\ r.code = c
  <2>1. fragments[f][i] \in Fragment
    <3>1. fragments[f] \in Seq(Fragment)
      BY <1>4, ProgramFits, TableIsTable
    <3> QED
      BY <1>4, <3>1
  <2>2. c \in Nat
    BY <1>3, <2>1 DEF Fragment
  <2> QED
    BY <1>1, <1>3, <1>4, <2>2 DEF Frame
<1>7. FrameSound(program, code, r)
  BY <1>4, <1>5, <1>6 DEF FrameSound, SiteAt
<1>8. FramesSound'
  BY <1>2, <1>4, <1>6, <1>7, FrameSetSound
<1> QED
  BY <1>2, <1>8, RunSound

(* The callee has to be compiled, or is compiled and the caller is next.   *)
LEMMA ResolveCompiles ==
  ASSUME SoundInv, JitInv', Resolve,
         NEW site, site = callsites[SiteHere.target],
         ~HasSplit(fragments[site.fn][site.index], site)
  PROVE  SoundInv'
<1>1. PICK f, i, g, type : /\ f = site.fn /\ i = site.index
                           /\ g = site.callee /\ type = site.arg
  OBVIOUS
<1>2. PICK t : t = [fragments EXCEPT ![g] = Append(@, NewFragment(g, type))]
  OBVIOUS
<1>3. /\ JitInv /\ frames # <<>> /\ compiling = <<>> /\ resolving = 0 /\ outcome = "none"
      /\ Running.pc <= Len(program.body[Running.fn]) /\ SiteHere.kind = "stub"
      /\ UNCHANGED <<program, code, callsites, frames, raising, outcome>>
      /\ resolving' = SiteHere.target
      /\ IF FragmentIndex(g, type) = 0
         THEN StartCompiling(t, compiling, g, Len(t[g]), "callee")
         ELSE StartCompiling(fragments, compiling, f, i, "caller")
  BY <1>1, <1>2 DEF Resolve, Executing, RunBody, CalleeFirst, SoundInv
<1>4. /\ f = Running.fn /\ f \in Scopes /\ site.split = Running.pc
      /\ i \in 1..Len(fragments[f])
      /\ g \in Scopes /\ type \in FragmentTypes
      /\ SiteHere.target \in 1..Len(callsites)
      /\ CallsiteSound(program, fragments, site)
  BY <1>1, <1>3, AtSoundStub, AtSoundSite
<1>5. g = program.body[f][Running.pc].callee /\ type = TypeOfCall(program, f, Running.pc)
  BY <1>1, <1>4 DEF CallsiteSound
<1>6. /\ callsites[resolving'].split = Running.pc
      /\ \A h \in Scopes : Len(fragments[h]) \in Nat
  BY <1>3, <1>4, TableIsTable DEF JitInv
<1>7. CASE FragmentIndex(g, type) = 0
  <2>1. TableFor(t, g) /\ Len(t[g]) \in 1..Len(t[g])
    BY <1>2, <1>3, <1>4, <1>7, LongerTable
  <2>2. Len(t[g]) = Len(fragments[g]) + 1 /\ t[g][Len(t[g])].arg = type
    <3>1. NewFragment(g, type) \in Fragment /\ NewFragment(g, type).arg = type
      BY <1>4, NewFragmentIsFragment
    <3>2. fragments \in FragmentTable
      BY <1>3, TableIsTable DEF JitInv
    <3> QED
      BY <1>2, <1>4, <3>1, <3>2, AddFragment
  <2>3. \A j \in 1..Len(t[g]) : j > Len(fragments[g]) => j = Len(t[g])
    BY <1>4, <1>6, <2>2
  <2>4. StartCompiling(t, compiling, g, Len(t[g]), "callee")
    BY <1>3, <1>7
  <2>5. /\ Len(fragments'[g]) = Len(t[g])
        /\ \A j \in 1..Len(t[g]) : fragments'[g][j].arg = t[g][j].arg
    BY <1>4, <2>1, <2>4, StartLonger
  <2>6. Known(program, fragments', Running.fn, Running.pc)
    BY <1>4, <1>5, <2>1, <2>2, <2>5 DEF Known
  <2> QED
    BY <1>3, <1>4, <1>6, <2>1, <2>3, <2>4, <2>6, StartSound DEF Why
<1>8. CASE FragmentIndex(g, type) # 0
  <2>1. TableFor(fragments, f)
    BY <1>3, <1>4, SameTable
  <2>2. \A j \in 1..Len(fragments[f]) : ~(j > Len(fragments[f]))
    BY <1>4, <1>6
  <2>3. StartCompiling(fragments, compiling, f, i, "caller")
    BY <1>3, <1>8
  <2>4. Known(program, fragments, Running.fn, Running.pc)
    <3>1. /\ FragmentIndex(g, type) \in 1..Len(fragments[g])
          /\ fragments[g][FragmentIndex(g, type)].arg = type
      BY <1>3, <1>4, <1>6, <1>8, FragmentIndexFinds DEF JitInv
    <3> QED
      BY <1>4, <1>5, <3>1 DEF Known
  <2>5. Known(program, fragments', Running.fn, Running.pc)
    <3>1. Longer(fragments, fragments')
      BY <1>4, <2>1, <2>3, StartLonger
    <3>2. fragments \in FragmentTable /\ fragments' \in FragmentTable
      BY <1>3, TableIsTable DEF JitInv, TypeOK, FragmentTable
    <3>3. Running.pc \in 1..Len(program.body[f])
      BY <1>1, <1>4 DEF CallsiteSound
    <3> QED
      BY <1>4, <2>4, <3>1, <3>2, <3>3, ProgramFits, KnownStays
  <2> QED
    BY <1>3, <1>4, <1>6, <2>1, <2>2, <2>3, <2>5, StartSound DEF Why
<1> QED
  BY <1>7, <1>8

(* jit_compile_scope is entered.                                           *)
LEMMA ResolveSound ==
  ASSUME SoundInv, JitInv', Resolve
  PROVE  SoundInv'
  BY ResolveGoesOn, ResolveCompiles
-------------------------------------------------------------------------------
(* The visitor on top.                                                     *)
LEMMA AtSoundTop ==
  ASSUME SoundInv, compiling # <<>>
  PROVE  /\ Len(compiling) \in Nat \ {0} /\ Len(compiling) \in 1..Len(compiling)
         /\ Top = compiling[Len(compiling)] /\ Top \in Activation
         /\ Top.fn \in Scopes /\ Top.fn \in Nat
         /\ Top.pc \in Nat /\ Top.pc >= 1
         /\ Len(program.body[Top.fn]) \in Nat
         /\ Len(Top.sites) = Len(program.body[Top.fn])
         /\ Top.index \in 1..Len(fragments[Top.fn])
         /\ ActivationSound(program, callsites, Top)
         /\ outcome = "none"
<1>1. /\ Len(compiling) \in Nat \ {0} /\ Len(compiling) \in 1..Len(compiling)
      /\ Top = compiling[Len(compiling)] /\ Top \in Activation
      /\ Top.fn \in Scopes /\ Top.fn \in Nat
      /\ Top.pc \in Nat /\ Top.pc >= 1
      /\ Len(program.body[Top.fn]) \in Nat
      /\ Len(Top.sites) = Len(program.body[Top.fn])
      /\ Top.index \in 1..Len(fragments[Top.fn])
  BY ProgramFits, AtTop
<1> QED
  BY <1>1 DEF SoundInv, StackSound, OutcomeSound

(* The call that it is at has the type that its position says.             *)
LEMMA AtSoundCall ==
  ASSUME SoundInv, InCall
  PROVE  /\ compiling # <<>> /\ Top.pc \in 1..Len(program.body[Top.fn])
         /\ TheCall = program.body[Top.fn][Top.pc]
         /\ TheCall.callee \in Functions /\ TheCall.callee \in Scopes
         /\ TheType = TypeOfCall(program, Top.fn, Top.pc)
         /\ TheType \in Types /\ TheType # Indeterminate
<1>1. /\ compiling # <<>> /\ Top.pc \in 1..Len(program.body[Top.fn])
      /\ Top.fn \in Scopes
  BY AtSoundTop DEF InCall
<1>2. LastFits(program, Top.fn, Top.pc, Top.last)
  BY <1>1, AtSoundTop DEF ActivationSound
<1>3. TheType = TypeOfCall(program, Top.fn, Top.pc) /\ TheType \in Types
  BY <1>1, <1>2, ProgramFits, CallHasType DEF TheType, TheCall
<1>4. TheCall.callee \in Functions
  BY <1>1, ProgramFits, SuitesFit DEF TheCall
<1>5. TheType # Indeterminate
  BY <1>3, ProgramsAssumption
<1> QED
  BY <1>1, <1>3, <1>4, <1>5, Numbers DEF TheCall

(* The return statement has the type that the function returns.            *)
LEMMA ReturnedIsResult ==
  ASSUME SoundInv, AtEnd, NEW f, f = Top.fn
  PROVE  /\ f = Root => Returned = {}
         /\ f # Root => f \in Functions
         /\ program.eager /\ f # Root => Returned = {Result(program, f)}
<1>1. /\ compiling # <<>> /\ Top.pc \in Nat /\ Top.pc > Len(program.body[f])
      /\ f \in Scopes /\ Len(program.body[f]) \in Nat
      /\ ActivationSound(program, callsites, Top)
  BY AtSoundTop DEF AtEnd
<1>2. f = Root => Returned = {}
  BY <1>1 DEF ActivationSound, Returned
<1>3. f # Root => f \in Functions
  BY <1>1 DEF Scopes
<1>4. ASSUME program.eager, f # Root
      PROVE  Returned = {Result(program, f)}
  <2>1. Top.pc = Len(program.body[f]) + 1 /\ Top.returned = {}
    BY <1>1, <1>4 DEF ActivationSound
  <2>2. ~CutOff
    BY <1>1, <2>1 DEF CutOff
  <2>3. LastFits(program, f, Len(program.body[f]) + 1, Top.last)
    BY <1>1, <2>1 DEF ActivationSound
  <2>4. ReturnType(f, Top.last) = Result(program, f)
    BY <1>1, <2>3, ProgramFits, EndHasType DEF ReturnType
  <2> QED
    BY <1>4, <2>1, <2>2, <2>4 DEF Returned
<1> QED
  BY <1>2, <1>3, <1>4

(* Nothing is refused.                                                     *)
LEMMA NothingFails ==
  ASSUME SoundInv
  PROVE  ~CompileFails /\ ~FailFragment
<1>1. ASSUME AtEnd
      PROVE  /\ TopType \notin program.refused[Top.fn]
             /\ ~(program.annotation[Top.fn] = Indeterminate /\ Indeterminate \in Returned)
  <2>1. PICK f : f = Top.fn
    OBVIOUS
  <2>2. compiling # <<>> /\ f \in Scopes
    BY <1>1, <2>1, AtSoundTop DEF AtEnd
  <2>3. program.refused[f] = {}
    BY <2>2, ProgramFits DEF SoundProgram
  <2>4. ASSUME program.annotation[f] = Indeterminate
        PROVE  Indeterminate \notin Returned
    <3>1. CASE f = Root
      BY <1>1, <2>1, <3>1, ReturnedIsResult
    <3>2. CASE f # Root
      <4>1. f \in Functions
        BY <1>1, <2>1, <3>2, ReturnedIsResult
      <4>2. Result(program, f) \in Types /\ Indeterminate \notin Types
        BY <2>2, ProgramFits, ResultFits, ProgramsAssumption
      <4>3. program.eager
        BY <2>4, <4>1, <4>2, ProgramFits, ResultFits
      <4>4. Returned = {Result(program, f)}
        BY <1>1, <2>1, <3>2, <4>3, ReturnedIsResult
      <4> QED
        BY <4>2, <4>4
    <3> QED
      BY <3>1, <3>2
  <2> QED
    BY <2>1, <2>3, <2>4
<1>2. InCall => TheType # Indeterminate
  BY AtSoundCall
<1>3. ~CompileFails
  BY <1>1, <1>2 DEF CompileFails
<1> QED
  BY <1>3 DEF FailFragment

(* The return type that is inferred is the right one.                      *)
LEMMA InferredIsResult ==
  ASSUME SoundInv, AtEnd, Top.fn # Root
  PROVE  InferredType(Top.fn) = Result(program, Top.fn)
<1>1. PICK f : f = Top.fn
  OBVIOUS
<1>2. f \in Functions
  BY <1>1, ReturnedIsResult
<1>3. CASE program.annotation[f] # Indeterminate
  BY <1>1, <1>2, <1>3, ProgramFits, ResultFits DEF InferredType
<1>4. CASE program.annotation[f] = Indeterminate
  <2>1. f \in Scopes /\ Result(program, f) \in Types /\ Indeterminate \notin Types
    BY <1>2, Numbers, ProgramFits, ResultFits, ProgramsAssumption
  <2>2. program.eager
    BY <1>2, <1>4, <2>1, ProgramFits, ResultFits
  <2>3. Returned = {Result(program, f)}
    BY <1>1, <2>2, ReturnedIsResult
  <2>4. InferredType(f) = CHOOSE t \in Returned : TRUE
    BY <1>4, <2>3 DEF InferredType
  <2> QED
    BY <1>1, <2>3, <2>4
<1> QED
  BY <1>1, <1>3, <1>4
-------------------------------------------------------------------------------
(* The call that a visitor has come to has results of type t.              *)
CalleeGives(p, a, t) == t = Result(p, p.body[a.fn][a.pc].callee)

(* A visitor that has come to a call goes on after it.                     *)
LEMMA AfterCallSound ==
  ASSUME NEW p, WellFormedProgram(p), SoundProgram(p), NEW table,
         NEW a \in Activation, a.fn \in Scopes, a.pc \in 1..Len(p.body[a.fn]),
         Len(a.sites) = Len(p.body[a.fn]), ActivationSound(p, table, a),
         NEW c \in Nat, c # 0, NEW t \in FragmentTypes,
         CalleeGives(p, a, t)
  PROVE  LET b == AfterCall(a, c, t)
         IN  /\ ActivationSound(p, table, b)
             /\ b \in Activation
             /\ b.fn = a.fn /\ b.index = a.index /\ b.why = a.why /\ b.pc = a.pc + 1
             /\ \A s \in Nat : ComesToSplit(a, s) => ComesToSplit(b, s)
<1> SUFFICES ASSUME NEW b, b = AfterCall(a, c, t)
             PROVE  /\ ActivationSound(p, table, b)
                    /\ b \in Activation
                    /\ b.fn = a.fn /\ b.index = a.index /\ b.why = a.why /\ b.pc = a.pc + 1
                    /\ \A s \in Nat : ComesToSplit(a, s) => ComesToSplit(b, s)
  OBVIOUS
<1> PICK n \in Nat : n = Len(p.body[a.fn])
  BY SuitesFit
<1>1. a.pc \in 1..Len(a.sites)
  OBVIOUS
<1>2. /\ b \in Activation
      /\ b.fn = a.fn /\ b.index = a.index /\ b.why = a.why /\ b.pc = a.pc + 1
  BY <1>1, AfterCallEffect
<1>3. \A k \in 1..n : b.sites[k] = IF k = a.pc THEN Direct(c, t) ELSE a.sites[k]
  BY <1>1, AfterCallEffect
<1>4. b.splits = a.splits \cup {a.pc} /\ b.last = t /\ b.returned = a.returned
  BY DEF AfterCall, Activation
<1>5. PICK site : site = Direct(c, t)
  OBVIOUS
<1>6. site.kind = "direct" /\ site.target = c /\ site.type = t
  BY <1>5 DEF Direct
<1>7. SitesSound(p, table, a.fn, b.sites, a.pc + 1)
  <2>1. SiteSet(p, a.fn, a.sites, b.sites, a.pc, site)
    BY <1>3, <1>5 DEF SiteSet
  <2>2. SitesSound(p, table, a.fn, a.sites, a.pc)
    BY DEF ActivationSound
  <2> QED
    BY <1>6, <2>1, <2>2, SitesAfterCall DEF CalleeGives
<1>8. \A k \in b.splits : k \in 1..n /\ b.sites[k].kind = "direct"
  BY <1>3, <1>4, <1>5, <1>6 DEF ActivationSound
<1>9. LastFits(p, a.fn, a.pc + 1, t)
  <2>1. a.pc \in Nat
    OBVIOUS
  <2> QED
    BY <2>1, CallPassesResult DEF CalleeGives
<1>10. ActivationSound(p, table, b)
  <2>1. SitesSound(p, table, b.fn, b.sites, b.pc) /\ LastFits(p, b.fn, b.pc, b.last)
    BY <1>2, <1>4, <1>7, <1>9
  <2>2. \A k \in b.splits : k \in 1..Len(p.body[b.fn]) /\ b.sites[k].kind = "direct"
    BY <1>2, <1>8
  <2>3. b.fn = Root => b.returned = {}
    BY <1>2, <1>4 DEF ActivationSound
  <2>4. p.eager => b.returned = {}
    BY <1>2, <1>4 DEF ActivationSound
  <2>5. b.pc <= Len(p.body[b.fn]) + 1
    BY <1>2
  <2> QED
    BY <2>1, <2>2, <2>3, <2>4, <2>5 DEF ActivationSound
<1>11. ASSUME NEW s \in Nat, ComesToSplit(a, s)
       PROVE  ComesToSplit(b, s)
  <2>1. a.pc \in b.splits
    BY <1>4
  <2>2. PICK m \in Nat : m = a.pc
    OBVIOUS
  <2>3. b.pc = m + 1
    BY <1>2, <2>2
  <2>4. CASE s \in a.splits
    BY <1>4, <2>4 DEF ComesToSplit
  <2>5. CASE s = m
    BY <2>1, <2>2, <2>5 DEF ComesToSplit
  <2>6. CASE m < s
    <3>1. b.pc <= s
      BY <2>3, <2>6
    <3> QED
      BY <3>1 DEF ComesToSplit
  <2>7. m <= s \/ s \in a.splits
    BY <1>11, <2>2 DEF ComesToSplit
  <2> QED
    BY <2>2, <2>4, <2>5, <2>6, <2>7, SMTT(30)
<1>12. \A s \in Nat : ComesToSplit(a, s) => ComesToSplit(b, s)
  BY <1>11
<1> QED
  BY <1>2, <1>10, <1>12

(* The stack has the same fragments.                                       *)
LEMMA SameStack ==
  ASSUME NEW s, NEW u, Len(u) = Len(s),
         \A m \in 1..Len(s) : u[m].fn = s[m].fn /\ u[m].index = s[m].index
  PROVE  \A f, i : BeingCompiled(s, f, i) => BeingCompiled(u, f, i)
  BY DEF BeingCompiled

(* The fragments stay, and the visitor on top goes on.                     *)
LEMMA VisitSound ==
  ASSUME SoundInv, JitInv', compiling # <<>>,
         UNCHANGED <<program, fragments, code, resolving, frames, raising, outcome>>,
         CodeSound', CallsitesSound',
         NEW b \in Activation, compiling' = SetLast(compiling, b),
         b.fn = Top.fn, b.index = Top.index, b.why = Top.why,
         ActivationSound(program, callsites', b),
         ~program.eager => (b.pc <= Len(program.body[b.fn])
                              => KnownBefore(program, fragments, b.fn, b.pc)),
         ~program.eager => (b.why = "caller" => ComesToSplit(b, callsites'[resolving].split)),
         program.eager => callsites' = callsites,
         resolving # 0 => callsites'[resolving] = callsites[resolving]
  PROVE  SoundInv'
<1>1. PICK n \in Nat \ {0} : n = Len(compiling)
  BY AtSoundTop
<1>2. compiling \in Seq(Activation)
  BY ProgramFits DEF TypeOK
<1>3. /\ Len(compiling') = n /\ compiling'[n] = b /\ compiling' # <<>>
      /\ \A m \in 1..n : m # n => compiling'[m] = compiling[m]
  <2>1. \A x \in Activation : /\ Len(SetLast(compiling, x)) = Len(compiling)
                              /\ SetLast(compiling, x) # <<>>
                              /\ SetLast(compiling, x)[Len(compiling)] = x
                              /\ \A m \in 1..Len(compiling) :
                                   m # Len(compiling) => SetLast(compiling, x)[m] = compiling[m]
    BY <1>2, SetLastSeq
  <2> QED
    BY <1>1, <2>1
<1>4. \A m \in 1..n : /\ compiling'[m].fn = compiling[m].fn
                      /\ compiling'[m].index = compiling[m].index
                      /\ compiling'[m].why = compiling[m].why
  BY <1>1, <1>3, AtSoundTop
<1>5. FragmentsSound'
  <2>1. \A f, i : BeingCompiled(compiling, f, i) => BeingCompiled(compiling', f, i)
    BY <1>1, <1>3, <1>4, SameStack
  <2> QED
    BY <2>1 DEF SoundInv, FragmentsSound
<1>6. StackSound'
  <2>1. ASSUME NEW m \in 1..n
        PROVE  ActivationSound(program, callsites', compiling'[m])
    <3>1. CASE m = n
      BY <1>3, <3>1
    <3>2. CASE m # n
      <4>1. ActivationSound(program, callsites, compiling[m])
        BY <1>1 DEF SoundInv, StackSound
      <4>2. program.eager
        BY <1>1, <3>2 DEF SoundInv, StackSound
      <4> QED
        BY <1>3, <3>2, <4>1, <4>2
    <3> QED
      BY <3>1, <3>2
  <2>2. Top' = b
    BY <1>3 DEF Top
  <2>3. ~program.eager => Len(compiling') <= 1
    BY <1>1, <1>3 DEF SoundInv, StackSound
  <2> QED
    BY <1>3, <2>1, <2>2, <2>3 DEF StackSound
<1>7. FramesSound'
  BY DEF SoundInv, FramesSound, Running
<1>8. OutcomeSound'
  <2>1. compiling'[1].why = compiling[1].why
    BY <1>1, <1>4
  <2> QED
    BY <2>1 DEF SoundInv, OutcomeSound
<1> QED
  BY <1>5, <1>6, <1>7, <1>8 DEF SoundInv

(* There is a fragment, it has code and the right type.                    *)
LEMMA VisitDirectCallSound ==
  ASSUME NoRecursion, SoundInv, JitInv', VisitDirectCall
  PROVE  SoundInv'
<1>1. /\ compiling # <<>> /\ InCall /\ FragmentIndex(TheCall.callee, TheType) # 0
      /\ UNCHANGED <<program, fragments, code, callsites, resolving, frames, raising, outcome>>
  BY DEF VisitDirectCall, AtCall, InCall
<1>2. PICK g, type, i, a : /\ g = TheCall.callee /\ type = TheType
                           /\ i = FragmentIndex(g, type) /\ a = Top
  OBVIOUS
<1>3. /\ a.pc \in 1..Len(program.body[a.fn]) /\ g = program.body[a.fn][a.pc].callee
      /\ g \in Functions /\ g \in Scopes /\ type = TypeOfCall(program, a.fn, a.pc)
  BY <1>1, <1>2, AtSoundCall
<1>4. /\ a \in Activation /\ a.fn \in Scopes /\ a.fn \in Nat
      /\ Len(a.sites) = Len(program.body[a.fn])
      /\ ActivationSound(program, callsites, a)
      /\ Len(compiling) \in Nat \ {0}
      /\ WellFormedProgram(program) /\ SoundProgram(program)
  BY <1>1, <1>2, AtSoundTop, ProgramFits
<1>5. i \in 1..Len(fragments[g]) /\ fragments[g][i].arg = type
  <2>3. i = FragmentIndex(g, type) /\ i # 0
    BY <1>1, <1>2
  <2>4. TypeOK /\ FragmentsFit
    BY ProgramFits DEF JitInv
  <2>5. /\ FragmentIndex(g, type) \in 0..Len(fragments[g])
        /\ FragmentIndex(g, type) # 0 => fragments[g][FragmentIndex(g, type)].arg = type
    BY <1>3, <2>4, FragmentIndexFinds
  <2>1. /\ i \in 0..Len(fragments[g]) /\ i # 0
        /\ fragments[g][i].arg = type
    BY <2>3, <2>5
  <2>2. Len(fragments[g]) \in Nat
    BY <1>3, ProgramFits, TableIsTable
  <2> QED
    BY <2>1, <2>2
<1>6. ~BeingCompiled(compiling, g, i)
  <2>1. g > a.fn
    <3>1. program \in Programs
      BY ProgramFits DEF JitInv
    <3> QED
      BY <1>3, <1>4, <3>1 DEF NoRecursion
  <2>2. \A j \in 1..Len(compiling) : j # Len(compiling) =>
          compiling[j].fn < a.fn /\ compiling[j].fn \in Nat
    BY <1>1, <1>2, ProgramFits, AtTop
  <2>3. compiling[Len(compiling)].fn = a.fn
    BY <1>1, <1>2, AtSoundTop
  <2>4. g \in Nat
    BY <1>3, Numbers
  <2>5. \A j \in 1..Len(compiling) : compiling[j].fn # g
    BY <1>4, <2>1, <2>2, <2>3, <2>4
  <2> QED
    BY <2>5 DEF BeingCompiled
<1>7. PICK c, t : c = fragments[g][i].compiled /\ t = fragments[g][i].returnType
  OBVIOUS
<1>8. c # 0 /\ t = Result(program, g)
  BY <1>3, <1>5, <1>6, <1>7 DEF SoundInv, FragmentsSound
<1>9. c \in Nat /\ t \in FragmentTypes
  <2>1. fragments[g] \in Seq(Fragment)
    BY <1>3, ProgramFits, TableIsTable
  <2>2. fragments[g][i] \in Fragment
    BY <1>5, <2>1
  <2> QED
    BY <1>7, <2>2 DEF Fragment
<1>10. PICK b : b = AfterCall(a, c, t)
  OBVIOUS
<1>11. /\ ActivationSound(program, callsites, b) /\ b \in Activation
       /\ b.fn = a.fn /\ b.index = a.index /\ b.why = a.why /\ b.pc = a.pc + 1
       /\ \A s \in Nat : ComesToSplit(a, s) => ComesToSplit(b, s)
  <2>1. CalleeGives(program, a, t)
    BY <1>3, <1>8 DEF CalleeGives
  <2>2. a.pc \in 1..Len(program.body[a.fn]) /\ c # 0
    BY <1>3, <1>8
  <2> QED
    BY <1>4, <1>9, <1>10, <2>1, <2>2, AfterCallSound
<1>12. compiling' = SetLast(compiling, b)
  BY <1>2, <1>7, <1>10 DEF VisitDirectCall
<1>13. ASSUME ~program.eager
       PROVE  KnownBefore(program, fragments, b.fn, b.pc)
  <2>1. KnownBefore(program, fragments, a.fn, a.pc)
    BY <1>1, <1>2, <1>3, <1>13, AtSoundTop DEF SoundInv, StackSound
  <2>2. Known(program, fragments, a.fn, a.pc)
    BY <1>3, <1>5 DEF Known
  <2> QED
    BY <1>3, <1>4, <1>11, <2>1, <2>2, KnownAfterCall
<1>14. ASSUME ~program.eager, b.why = "caller"
       PROVE  ComesToSplit(b, callsites[resolving].split)
  <2>1. ComesToSplit(a, callsites[resolving].split)
    BY <1>1, <1>2, <1>11, <1>14 DEF SoundInv, StackSound
  <2>2. callsites[resolving].split \in Nat
    <3>1. resolving # 0
      <4>1. Top.why # "eager"
        BY <1>2, <1>11, <1>14
      <4> QED
        BY <1>1, <1>2, <1>11, <1>14, <4>1, ProgramFits, TopAlone
    <3>2. resolving \in 1..Len(callsites)
      <4>1. resolving \in 0..Len(callsites) /\ Len(callsites) \in Nat
        BY ProgramFits, LengthsAreNumbers DEF TypeOK
      <4> QED
        BY <3>1, <4>1
    <3>3. callsites \in Seq(Callsite)
      BY ProgramFits, LengthsAreNumbers
    <3>4. callsites[resolving] \in Callsite
      BY <3>2, <3>3
    <3> QED
      BY <3>4 DEF Callsite
  <2> QED
    BY <1>11, <2>1, <2>2
<1>15. CodeSound' /\ CallsitesSound'
  <2>1. CodeSound'
    BY <1>1 DEF SoundInv, CodeSound
  <2>2. CallsitesSound'
    BY <1>1 DEF SoundInv, CallsitesSound
  <2> QED
    BY <2>1, <2>2
<1> QED
  BY <1>1, <1>2, <1>11, <1>12, <1>13, <1>14, <1>15, VisitSound

(***************************************************************************)
(* What each operation of the compiler and of the running code does to it. *)
(***************************************************************************)

(* What AfterStub does besides.                                            *)
LEMMA AfterStubExactly ==
  ASSUME NEW a \in Activation, NEW token
  PROVE  LET b == AfterStub(a, token)
         IN  /\ program.body[a.fn][a.pc].suite = 0 => b.pc = Len(program.body[a.fn]) + 2
             /\ program.body[a.fn][a.pc].suite # 0 => b.pc = program.body[a.fn][a.pc].suite
             /\ b.splits = a.splits /\ b.last = Indeterminate
             /\ program.returns[a.fn] # "result" => b.returned = a.returned
<1> SUFFICES ASSUME NEW b, b = AfterStub(a, token)
             PROVE  /\ program.body[a.fn][a.pc].suite = 0 => b.pc = Len(program.body[a.fn]) + 2
                    /\ program.body[a.fn][a.pc].suite # 0 => b.pc = program.body[a.fn][a.pc].suite
                    /\ b.splits = a.splits /\ b.last = Indeterminate
                    /\ program.returns[a.fn] # "result" => b.returned = a.returned
  OBVIOUS
<1>1. PICK s, q, r :
        /\ s = [a.sites EXCEPT ![a.pc] = Stub(token)]
        /\ q = IF program.body[a.fn][a.pc].suite = 0 THEN Len(program.body[a.fn]) + 2
               ELSE program.body[a.fn][a.pc].suite
        /\ r = IF a.pc = Len(program.body[a.fn]) /\ program.body[a.fn][a.pc].suite = 0
                  /\ program.returns[a.fn] = "result"
               THEN a.returned \cup {Indeterminate} ELSE a.returned
  OBVIOUS
<1>2. b = [a EXCEPT !.sites = s, !.last = Indeterminate, !.pc = q, !.returned = r]
  BY <1>1 DEF AfterStub
<1>3. b.pc = q /\ b.splits = a.splits /\ b.last = Indeterminate /\ b.returned = r
  BY <1>2 DEF Activation
<1> QED
  BY <1>1, <1>3

(* A visitor that has come to a call goes on after a stub for it.          *)
LEMMA AfterStubSound ==
  ASSUME SoundInv, ~program.eager, NEW table, NEW longer,
         NEW a \in Activation, a.fn \in Scopes, a.pc \in 1..Len(program.body[a.fn]),
         Len(a.sites) = Len(program.body[a.fn]), ActivationSound(program, table, a),
         NEW token \in Nat, longer[token].split = a.pc,
         SameStubs(program, a.fn, a.sites, table, longer)
  PROVE  LET b == AfterStub(a, token)
         IN  ActivationSound(program, longer, b) /\ b.fn = a.fn
<1> SUFFICES ASSUME NEW b, b = AfterStub(a, token)
             PROVE  ActivationSound(program, longer, b) /\ b.fn = a.fn
  OBVIOUS
<1> PICK p : p = program
  OBVIOUS
<1>1. WellFormedProgram(p) /\ SoundProgram(p) /\ TypeOK
  BY ProgramFits
<1> PICK n \in Nat : n = Len(p.body[a.fn])
  BY <1>1, SuitesFit
<1> PICK q : q = AfterStubAt(p, a.fn, a.pc)
  OBVIOUS
<1>2. /\ b.fn = a.fn
      /\ \A k \in 1..n : b.sites[k] = IF k = a.pc THEN Stub(token) ELSE a.sites[k]
  <2>1. b.fn = a.fn
    BY <1>1, AfterStubEffect
  <2>2. \A k \in 1..Len(a.sites) : b.sites[k] = IF k = a.pc THEN Stub(token) ELSE a.sites[k]
    BY <1>1, AfterStubEffect
  <2> QED
    BY <2>1, <2>2
<1>3. /\ b.pc = q /\ b.splits = a.splits /\ b.last = Indeterminate
      /\ p.returns[a.fn] # "result" => b.returned = a.returned
  <2>1. /\ program.body[a.fn][a.pc].suite = 0 => b.pc = Len(program.body[a.fn]) + 2
        /\ program.body[a.fn][a.pc].suite # 0 => b.pc = program.body[a.fn][a.pc].suite
    BY AfterStubExactly
  <2>2. /\ b.splits = a.splits /\ b.last = Indeterminate
        /\ program.returns[a.fn] # "result" => b.returned = a.returned
    BY AfterStubExactly
  <2> QED
    BY <2>1, <2>2 DEF AfterStubAt
<1>4. PICK site : site = Stub(token)
  OBVIOUS
<1>5. site.kind = "stub" /\ site.target = token
  BY <1>4 DEF Stub
<1>6. SitesSound(p, table, a.fn, a.sites, a.pc)
  BY DEF ActivationSound
<1>7. SitesSound(p, longer, a.fn, b.sites, q)
  <2>1. SiteSet(p, a.fn, a.sites, b.sites, a.pc, site)
    BY <1>2, <1>4 DEF SiteSet
  <2>2. longer[site.target].split = a.pc
    BY <1>5
  <2>3. SameStubs(p, a.fn, a.sites, table, longer)
    OBVIOUS
  <2>4. a.pc \in 1..Len(p.body[a.fn])
    OBVIOUS
  <2> QED
    BY <1>1, <1>5, <1>6, <2>1, <2>2, <2>3, <2>4, SitesAfterStub
<1>8. \A k \in b.splits : k \in 1..n /\ b.sites[k].kind = "direct"
  <2>1. \A k \in a.splits : k \in 1..n /\ a.sites[k].kind = "direct"
    BY DEF ActivationSound
  <2>2. a.sites[a.pc].kind = "absent"
    BY <1>6 DEF SitesSound
  <2> QED
    BY <1>2, <1>3, <2>1, <2>2
<1>9. LastFits(p, a.fn, q, b.last)
  BY <1>1, SuiteForgets, EndsForget DEF AfterStubAt
<1>10. a.fn = Root => b.returned = {}
  BY <1>1, <1>3 DEF ActivationSound, SoundProgram
<1>11. /\ SitesSound(p, longer, b.fn, b.sites, b.pc) /\ LastFits(p, b.fn, b.pc, b.last)
       /\ \A k \in b.splits : k \in 1..Len(p.body[b.fn]) /\ b.sites[k].kind = "direct"
       /\ b.fn = Root => b.returned = {}
  BY <1>2, <1>3, <1>7, <1>8, <1>9, <1>10
<1> QED
  BY <1>2, <1>11 DEF ActivationSound

(* A visitor that was sent for a split comes to it, though it meets a call *)
(* that it has no fragment for.                                            *)
LEMMA StubComesToSplit ==
  ASSUME SoundInv, ~program.eager, NEW a \in Activation, a.fn \in Scopes,
         a.pc \in 1..Len(program.body[a.fn]),
         NEW token \in Nat, NEW b, b = AfterStub(a, token),
         ~Known(program, fragments, a.fn, a.pc),
         NEW s \in 1..Len(program.body[a.fn]), Known(program, fragments, a.fn, s),
         KnownBefore(program, fragments, a.fn, s), ComesToSplit(a, s)
  PROVE  ComesToSplit(b, s)
<1>1. WellFormedProgram(program) /\ SoundProgram(program)
  BY ProgramFits
<1> PICK n \in Nat : n = Len(program.body[a.fn])
  BY <1>1, SuitesFit
<1> PICK e \in Nat : e = program.body[a.fn][a.pc].suite
  BY <1>1, SuitesFit
<1> PICK q : q = IF e = 0 THEN n + 2 ELSE e
  OBVIOUS
<1> PICK m \in 1..n : m = a.pc
  OBVIOUS
<1>2. b.pc = q /\ b.splits = a.splits
  <2>1. /\ program.body[a.fn][a.pc].suite = 0 => b.pc = Len(program.body[a.fn]) + 2
        /\ program.body[a.fn][a.pc].suite # 0 => b.pc = program.body[a.fn][a.pc].suite
        /\ b.splits = a.splits
    BY AfterStubExactly
  <2> QED
    BY <2>1
<1>3. CASE s \in a.splits
  BY <1>2, <1>3 DEF ComesToSplit
<1>4. CASE m <= s
  <2>1. m # s
    OBVIOUS
  <2>2. ~Cuts(program, a.fn, m, s)
    BY DEF KnownBefore
  <2>3. e # 0 /\ e <= s
    BY <1>4, <2>1, <2>2, SMTT(30) DEF Cuts
  <2> QED
    BY <1>2, <2>3 DEF ComesToSplit
<1> QED
  BY <1>3, <1>4 DEF ComesToSplit

(* The call site that is being resolved.                                   *)
LEMMA ResolvingSite ==
  ASSUME SoundInv, resolving # 0, NEW site, site = callsites[resolving]
  PROVE  /\ resolving \in 1..Len(callsites) /\ frames # <<>>
         /\ site.fn = Running.fn /\ site.fn \in Scopes
         /\ site.split = Running.pc /\ site.split \in 1..Len(program.body[site.fn])
         /\ Known(program, fragments, site.fn, site.split)
         /\ KnownBefore(program, fragments, site.fn, site.split)
         /\ ~program.eager
<1>1. resolving \in 1..Len(callsites)
  <2>1. resolving \in 0..Len(callsites) /\ Len(callsites) \in Nat
    BY ProgramFits, LengthsAreNumbers DEF TypeOK
  <2> QED
    BY <2>1
<1>2. /\ site.fn = Running.fn /\ site.split = Running.pc /\ frames # <<>>
      /\ Known(program, fragments, Running.fn, Running.pc)
  BY DEF SoundInv, JitInv, FramesFit, FramesSound
<1>3. CallsiteSound(program, fragments, site)
  BY <1>1 DEF SoundInv, CallsitesSound
<1>4. site.fn \in Scopes
  BY <1>1, ProgramFits, CallsiteIsCallsite
<1>5. callsites # <<>>
  <2>1. callsites \in Seq(Callsite)
    BY ProgramFits, LengthsAreNumbers
  <2> QED
    BY <1>1, <2>1
<1>6. ~program.eager
  BY <1>5 DEF SoundInv, CallsitesSound
<1> QED
  BY <1>1, <1>2, <1>3, <1>4, <1>6 DEF CallsiteSound

(* The stubs that there are have call sites.                               *)
LEMMA StubsHaveCallsites ==
  ASSUME SoundInv, NEW f, NEW s, SitesFit(f, s), NEW longer,
         \A i \in 1..Len(callsites) : longer[i] = callsites[i]
  PROVE  SameStubs(program, f, s, callsites, longer)
  BY DEF SitesFit, SameStubs

(* A call becomes a stub: the code stays, a call site is added.            *)
LEMMA CallsitesWithStub ==
  ASSUME SoundInv, UNCHANGED <<program, fragments, code>>, ~program.eager,
         NEW token, token = Len(callsites) + 1, Len(callsites') = token,
         \A i \in 1..Len(callsites) : callsites'[i] = callsites[i],
         CallsiteSound(program, fragments, callsites'[token])
  PROVE  CodeSound' /\ CallsitesSound'
<1>1. ASSUME NEW c \in 1..Len(code)
      PROVE  SitesSound(program, callsites', code[c].fn, code[c].sites,
                        Len(program.body[code[c].fn]) + 1)
  <2>1. SitesFit(code[c].fn, code[c].sites)
    BY ProgramFits DEF JitInv, CodeFits, CodeFitsAt
  <2>2. PICK longer : longer = callsites'
    OBVIOUS
  <2>3. SameStubs(program, code[c].fn, code[c].sites, callsites, longer)
    BY <2>1, <2>2, StubsHaveCallsites
  <2>4. SitesSound(program, longer, code[c].fn, code[c].sites, Len(program.body[code[c].fn]) + 1)
    BY <2>3, CodeHasSites, SitesWithMore
  <2> QED
    BY <2>2, <2>4
<1>2. CodeSound'
  BY <1>1 DEF CodeSound
<1>3. ASSUME NEW t \in 1..Len(callsites')
      PROVE  CallsiteSound(program, fragments, callsites'[t])
  <2>1. Len(callsites) \in Nat
    BY ProgramFits, LengthsAreNumbers
  <2>2. CASE t = token
    BY <2>2
  <2>3. CASE t # token
    <3>1. t \in 1..Len(callsites)
      BY <2>1, <2>3
    <3> QED
      BY <3>1 DEF SoundInv, CallsitesSound
  <2> QED
    BY <2>2, <2>3
<1>4. CallsitesSound'
  BY <1>3 DEF CallsitesSound
<1> QED
  BY <1>2, <1>4

(* The call is not known: it becomes a stub.                               *)
LEMMA VisitLazyCallSound ==
  ASSUME SoundInv, JitInv', VisitLazyCall
  PROVE  SoundInv'
<1>1. /\ compiling # <<>> /\ InCall /\ FragmentIndex(TheCall.callee, TheType) = 0
      /\ ~program.eager
      /\ UNCHANGED <<program, fragments, code, resolving, frames, raising, outcome>>
  BY DEF VisitLazyCall, AtCall, InCall
<1>2. PICK g, type, a : g = TheCall.callee /\ type = TheType /\ a = Top
  OBVIOUS
<1>3. /\ a.pc \in 1..Len(program.body[a.fn]) /\ g = program.body[a.fn][a.pc].callee
      /\ g \in Functions /\ g \in Scopes /\ type = TypeOfCall(program, a.fn, a.pc)
  BY <1>1, <1>2, AtSoundCall
<1>4. /\ a \in Activation /\ a.fn \in Scopes
      /\ Len(a.sites) = Len(program.body[a.fn])
      /\ ActivationSound(program, callsites, a)
      /\ Len(compiling) \in Nat \ {0} /\ a = compiling[Len(compiling)]
      /\ TypeOK /\ WellFormedProgram(program) /\ SoundProgram(program)
  BY <1>1, <1>2, AtSoundTop, ProgramFits
<1>5. ~Known(program, fragments, a.fn, a.pc)
  <2>1. TypeOK /\ FragmentsFit
    BY ProgramFits DEF JitInv
  <2>2. \A j \in 1..Len(fragments[g]) : fragments[g][j].arg # type
    BY <1>1, <1>2, <1>3, <2>1, FragmentIndexFinds
  <2> QED
    BY <1>3, <2>2 DEF Known
<1>6. KnownBefore(program, fragments, a.fn, a.pc)
  BY <1>1, <1>2, <1>3 DEF SoundInv, StackSound
<1>7. PICK token \in Nat \ {0} : token = Len(callsites) + 1
  BY <1>4, LengthsAreNumbers
<1>8. PICK b : b = AfterStub(a, token)
  OBVIOUS
<1>9. compiling' = SetLast(compiling, b)
  BY <1>4, <1>7, <1>8 DEF VisitLazyCall, WriteStub, AfterStub
<1>10. b \in Activation /\ b.fn = a.fn /\ b.index = a.index /\ b.why = a.why
  BY <1>3, <1>4, <1>8, AfterStubEffect
<1>11. PICK site : site = CallsiteOf(a, TheCall)
  OBVIOUS
<1>12. /\ site.fn = a.fn /\ site.split = a.pc /\ site.callee = g /\ site.arg = type
  <2>1. type = ArgType(TheCall, a.last)
    BY <1>2 DEF TheType
  <2> QED
    BY <1>2, <1>11, <2>1 DEF CallsiteOf
<1>13. CallsiteSound(program, fragments, site)
  BY <1>3, <1>6, <1>12 DEF CallsiteSound
<1>14. PICK longer : longer = callsites'
  OBVIOUS
<1>15. /\ Len(longer) = token /\ longer[token] = site
       /\ \A i \in 1..Len(callsites) : longer[i] = callsites[i]
  <2>1. callsites' = Append(callsites, site)
    BY <1>2, <1>4, <1>11 DEF VisitLazyCall, WriteStub, TheCall
  <2>2. callsites \in Seq(Callsite)
    BY <1>4, LengthsAreNumbers
  <2>3. site \in Callsite
    <3>1. a.index \in Nat /\ a.pc \in Nat /\ a.last \in FragmentTypes
      BY <1>4 DEF Activation
    <3>2. type \in FragmentTypes
      BY <1>1, <1>2, AtSoundCall, Numbers
    <3>3. site = [callee |-> g, arg |-> type, fn |-> a.fn, index |-> a.index, split |-> a.pc]
      BY <1>2, <1>11 DEF CallsiteOf, TheType
    <3> QED
      BY <1>3, <1>4, <3>1, <3>2, <3>3 DEF Callsite
  <2> QED
    <3>1. /\ Len(callsites') = Len(callsites) + 1 /\ callsites'[Len(callsites) + 1] = site
          /\ \A i \in 1..Len(callsites) : callsites'[i] = callsites[i]
      BY <2>1, <2>2, <2>3, AppendSeq
    <3> QED
      BY <1>7, <1>14, <3>1
<1>16. CodeSound' /\ CallsitesSound'
  BY <1>1, <1>7, <1>13, <1>14, <1>15, CallsitesWithStub
<1>17. ActivationSound(program, longer, b)
  <2>1. SitesFit(a.fn, a.sites)
    <3>1. ActivationFits(Len(compiling))
      BY <1>4 DEF SoundInv, JitInv, StackFits
    <3> QED
      BY <1>4, <3>1 DEF ActivationFits
  <2>2. SameStubs(program, a.fn, a.sites, callsites, longer)
    BY <1>15, <2>1, StubsHaveCallsites
  <2>3. longer[token].split = a.pc
    BY <1>12, <1>15
  <2> QED
    BY <1>1, <1>3, <1>4, <1>7, <1>8, <2>2, <2>3, AfterStubSound
<1>18. ASSUME b.pc <= Len(program.body[b.fn])
       PROVE  KnownBefore(program, fragments, b.fn, b.pc)
  <2>1. PICK n \in Nat : n = Len(program.body[a.fn])
    BY <1>4, SuitesFit
  <2>2. program.body[a.fn][a.pc].suite = 0 => b.pc = n + 2
    BY <1>4, <1>8, <2>1, AfterStubExactly, SMTT(30)
  <2>3. program.body[a.fn][a.pc].suite # 0
    BY <1>10, <1>18, <2>1, <2>2
  <2>4. b.pc = program.body[a.fn][a.pc].suite
    BY <1>4, <1>8, <2>3, AfterStubExactly
  <2> QED
    BY <1>3, <1>4, <1>6, <1>10, <2>3, <2>4, KnownAfterSuite
<1>19. resolving # 0 => longer[resolving] = callsites[resolving]
  BY <1>15, ResolvingSite
<1>20. ASSUME b.why = "caller"
       PROVE  ComesToSplit(b, longer[resolving].split)
  <2>1. /\ resolving # 0 /\ a.fn = callsites[resolving].fn
    <3>1. Top.why = "caller" /\ Top.why # "eager" /\ Top.why # "root"
      BY <1>2, <1>10, <1>20
    <3> QED
      BY <1>1, <1>2, <3>1, ProgramFits, TopAlone
  <2>2. PICK r, s : r = callsites[resolving] /\ s = r.split
    OBVIOUS
  <2>3. ComesToSplit(a, s)
    BY <1>1, <1>2, <1>10, <1>20, <2>2 DEF SoundInv, StackSound
  <2>4. /\ s \in 1..Len(program.body[a.fn]) /\ Known(program, fragments, a.fn, s)
        /\ KnownBefore(program, fragments, a.fn, s)
    BY <2>1, <2>2, ResolvingSite
  <2>5. ComesToSplit(b, s)
    BY <1>1, <1>3, <1>4, <1>5, <1>7, <1>8, <2>3, <2>4, StubComesToSplit
  <2> QED
    BY <1>19, <2>1, <2>2, <2>5
<1> QED
  BY <1>1, <1>2, <1>9, <1>10, <1>14, <1>16, <1>17, <1>18, <1>19, <1>20, VisitSound

(* The call is not known: its callee is compiled on the spot.              *)
LEMMA VisitEagerCallSound ==
  ASSUME SoundInv, JitInv', VisitEagerCall
  PROVE  SoundInv'
<1>1. /\ compiling # <<>> /\ InCall /\ FragmentIndex(TheCall.callee, TheType) = 0
      /\ program.eager
      /\ UNCHANGED <<program, code, callsites, resolving, frames, raising, outcome>>
  BY DEF VisitEagerCall, AtCall, InCall
<1>2. PICK f, t : f = TheCall.callee /\ t = TheType
  OBVIOUS
<1>3. f \in Scopes /\ t \in FragmentTypes
  BY <1>1, <1>2, AtSoundCall, Numbers
<1>4. JitInv /\ outcome = "none" /\ Len(fragments[f]) \in Nat
  BY <1>1, <1>3, ProgramFits, AtSoundTop, TableIsTable
<1>5. PICK table : table = [fragments EXCEPT ![f] = Append(@, NewFragment(f, t))]
  OBVIOUS
<1>6. TableFor(table, f) /\ Len(table[f]) \in 1..Len(table[f])
  BY <1>1, <1>2, <1>3, <1>4, <1>5, LongerTable
<1>7. Len(table[f]) = Len(fragments[f]) + 1
  <2>1. NewFragment(f, t) \in Fragment
    BY <1>3, NewFragmentIsFragment
  <2>2. fragments \in FragmentTable
    BY <1>4, TableIsTable DEF JitInv
  <2> QED
    BY <1>3, <1>5, <2>1, <2>2, AddFragment
<1>8. \A j \in 1..Len(table[f]) : j > Len(fragments[f]) => j = Len(table[f])
  BY <1>4, <1>7
<1>9. StartCompiling(table, compiling, f, Len(table[f]), "eager") /\ "eager" \in Why
  BY <1>2, <1>5 DEF VisitEagerCall, StartCompiling, Why
<1>10. compiling[1] = compiling'[1]
  <2>1. \A j \in 1..Len(compiling) : compiling'[j] = compiling[j]
    BY <1>3, <1>4, <1>6, <1>9, StartView
  <2> QED
    BY <1>1, <2>1, AtSoundTop
<1>11. resolving = 0
  BY <1>1, ResolvingSite
<1> QED
  BY <1>1, <1>3, <1>4, <1>6, <1>8, <1>9, <1>10, <1>11, StartSound
-------------------------------------------------------------------------------
(* A fragment has got code: what it is exactly.                            *)
LEMMA FinishedExactly ==
  ASSUME SoundInv, FinishFragment, NEW f, f = Top.fn, NEW i, i = Top.index,
         NEW c, c = Len(code) + 1
  PROVE  \E r \in Fragment :
           /\ Changed(fragments, fragments', f, i, r)
           /\ r.returnType = InferredType(f) /\ r.compiled = c /\ r.splits = Top.splits
<1>1. compiling # <<>>
  BY DEF FinishFragment, AtEnd
<1>2. PICK q : q = InferredType(f)
  OBVIOUS
<1>3. PICK splits : splits = Top.splits
  OBVIOUS
<1>4. fragments' = [fragments EXCEPT ![f][i].returnType = q, ![f][i].compiled = c,
                                     ![f][i].splits = splits]
  BY <1>2, <1>3 DEF FinishFragment, NewCode, InferredType
<1>5. /\ TypeOK /\ f \in Scopes /\ i \in 1..Len(fragments[f]) /\ splits \in SUBSET Nat
  BY <1>1, <1>3, AtTop, TopIsActivation, ProgramFits
<1>6. /\ q \in FragmentTypes /\ c \in Nat /\ fragments \in FragmentTable
  BY <1>1, <1>2, <1>5, InferredTypeIsType, LengthsAreNumbers, TableIsTable
<1>7. PICK table, u : table = fragments /\ u = fragments'
  OBVIOUS
<1>8. /\ table \in FragmentTable /\ i \in 1..Len(table[f])
      /\ u = TableAfter(table, f, i, q, c, splits)
  BY <1>4, <1>5, <1>6, <1>7 DEF TableAfter
<1>9. \E r \in Fragment : /\ Changed(table, u, f, i, r) /\ r.arg = table[f][i].arg
                           /\ r.returnType = q /\ r.compiled = c /\ r.splits = splits
  BY <1>5, <1>6, <1>8, FinishExactly
<1> QED
  BY <1>2, <1>3, <1>7, <1>9

(* The old code stays, with the frames that run it.                        *)
LEMMA FramesSoundStill ==
  ASSUME SoundInv, NEW f, NEW i, NEW c, Finished(f, i, c), NEW k \in 1..Len(frames)
  PROVE  /\ FrameSound(program, code', frames[k])
         /\ k < Len(frames) => Calls(program, code', frames[k], frames[k + 1].fn)
<1>1. PICK r : r = frames[k]
  OBVIOUS
<1>2. /\ r.code \in 1..Len(code) /\ FrameSound(program, code, r)
      /\ k < Len(frames) => Calls(program, code, r, frames[k + 1].fn)
  BY <1>1, FrameHasSites
<1>3. SiteAt(code', r) = SiteAt(code, r)
  BY <1>2 DEF Finished, SiteAt
<1> QED
  BY <1>1, <1>2, <1>3 DEF FrameSound, Calls

(* The frames stay when a fragment has got code.                           *)
LEMMA FramesUntouched ==
  ASSUME SoundInv, NEW f, NEW i, NEW c, Finished(f, i, c),
         UNCHANGED <<frames, resolving>>
  PROVE  FramesSound'
<1>1. program' = program /\ callsites' = callsites
  BY DEF Finished
<1>2. \A k \in 1..Len(frames) :
        /\ FrameSound(program, code', frames[k])
        /\ k < Len(frames) => Calls(program, code', frames[k], frames[k + 1].fn)
  BY FramesSoundStill
<1>3. ASSUME resolving # 0
      PROVE  /\ Running.pc = callsites[resolving].split
             /\ Known(program, fragments', Running.fn, Running.pc)
  <2>1. PICK site : site = callsites[resolving]
    OBVIOUS
  <2>2. /\ site.fn = Running.fn /\ site.split = Running.pc /\ site.fn \in Scopes
        /\ Known(program, fragments, site.fn, site.split)
    BY <1>3, <2>1, ResolvingSite
  <2>3. site.split \in 1..Len(program.body[site.fn])
    BY <1>3, <2>1, ResolvingSite
  <2>4. fragments \in FragmentTable /\ fragments' \in FragmentTable
    BY ProgramFits, TableIsTable DEF Finished
  <2>5. Longer(fragments, fragments')
    BY <2>4, TableIsTable DEF Finished, Longer
  <2>6. Known(program, fragments', site.fn, site.split)
    BY <2>2, <2>3, <2>4, <2>5, ProgramFits, KnownStays
  <2> QED
    BY <2>1, <2>2, <2>6
<1> QED
  BY <1>1, <1>2, <1>3 DEF FramesSound, Running

(* The tables when a fragment has got code; the other activations go on.   *)
LEMMA FinishTablesSound ==
  ASSUME SoundInv, FinishFragment, NEW f, f = Top.fn, NEW i, i = Top.index,
         NEW c, c = Len(code) + 1,
         \A g, j : BeingCompiled(compiling, g, j) /\ ~(g = f /\ j = i)
                   => BeingCompiled(compiling', g, j)
  PROVE  CodeSound' /\ CallsitesSound' /\ FragmentsSound'
<1>1. /\ AtEnd /\ compiling # <<>>
  BY DEF FinishFragment, AtEnd
<1>2. Finished(f, i, c)
  BY ProgramFits, FinishView
<1>3. /\ program' = program /\ callsites' = callsites /\ fragments' \in FragmentTable
      /\ Len(code') = c /\ \A d \in 1..Len(code) : code'[d] = code[d]
      /\ code'[c].fn = f /\ code'[c].sites = Top.sites
  BY <1>2 DEF Finished
<1>4. Len(code) \in Nat /\ c \in Nat /\ c # 0
  BY ProgramFits, LengthsAreNumbers
<1>5. /\ f \in Scopes /\ Top.pc \in Nat /\ Top.pc > Len(program.body[f])
      /\ ActivationSound(program, callsites, Top)
      /\ WellFormedProgram(program) /\ SoundProgram(program)
  BY <1>1, AtSoundTop, ProgramFits DEF AtEnd
<1>6. SitesSound(program, callsites, f, Top.sites, Len(program.body[f]) + 1)
  <2>1. PICK s, pc : s = Top.sites /\ pc = Top.pc
    OBVIOUS
  <2>2. SitesSound(program, callsites, f, s, pc) /\ pc \in Nat /\ pc > Len(program.body[f])
    BY <1>5, <2>1 DEF ActivationSound
  <2>3. SitesSound(program, callsites, f, s, Len(program.body[f]) + 1)
    BY <1>5, <2>2, SitesAtEnd
  <2> QED
    BY <2>1, <2>3
<1>7. CodeSound'
  <2>1. ASSUME NEW d \in 1..c
        PROVE  SitesSound(program, callsites, code'[d].fn, code'[d].sites,
                          Len(program.body[code'[d].fn]) + 1)
    <3>1. CASE d = c
      BY <1>3, <1>6, <3>1
    <3>2. CASE d # c
      <4>1. d \in 1..Len(code)
        BY <1>4, <3>2
      <4> QED
        BY <1>3, <4>1, CodeHasSites
    <3> QED
      BY <3>1, <3>2
  <2> QED
    BY <1>3, <2>1 DEF CodeSound
<1>8. CallsitesSound'
  <2>1. \A g \in Scopes : Len(fragments[g]) \in Nat
    BY ProgramFits, TableIsTable
  <2>2. Longer(fragments, fragments')
    BY <1>2, <2>1 DEF Finished, Longer
  <2> QED
    BY <1>3, <2>2, CallsitesStaySound
<1>9. PICK r \in Fragment :
        /\ Changed(fragments, fragments', f, i, r)
        /\ r.returnType = InferredType(f) /\ r.compiled = c /\ r.splits = Top.splits
  BY FinishedExactly
<1>10. PICK u : u = fragments'
  OBVIOUS
<1>11. /\ \A g \in Scopes : Len(u[g]) = Len(fragments[g])
       /\ \A g \in Scopes : \A j \in 1..Len(fragments[g]) :
            u[g][j] = IF g = f /\ j = i THEN r ELSE fragments[g][j]
  BY <1>9, <1>10 DEF Changed
<1>12. ASSUME NEW g \in Functions, NEW j \in 1..Len(u[g])
       PROVE  \/ u[g][j].compiled # 0 /\ u[g][j].returnType = Result(program, g)
              \/ BeingCompiled(compiling', g, j)
  <2>1. g \in Scopes /\ g # Root
    BY Numbers, ProgramsAssumption DEF Root
  <2>2. CASE g = f /\ j = i
    <3>1. InferredType(f) = Result(program, f)
      BY <1>1, <2>1, <2>2, InferredIsResult
    <3>2. u[g][j] = r
      BY <1>11, <2>1, <2>2
    <3> QED
      BY <1>4, <1>9, <2>2, <3>1, <3>2
  <2>3. CASE ~(g = f /\ j = i)
    <3>1. u[g][j] = fragments[g][j] /\ j \in 1..Len(fragments[g])
      BY <1>11, <2>1, <2>3
    <3>2. \/ fragments[g][j].compiled # 0 /\ fragments[g][j].returnType = Result(program, g)
          \/ BeingCompiled(compiling, g, j)
      BY <3>1 DEF SoundInv, FragmentsSound
    <3> QED
      BY <2>3, <3>1, <3>2
  <2> QED
    BY <2>2, <2>3
<1>13. ASSUME NEW g \in Scopes, NEW j \in 1..Len(u[g])
       PROVE  SplitsSound(program, code', g, u[g][j])
  <2>1. CASE g = f /\ j = i
    <3>1. u[g][j] = r
      BY <1>11, <2>1
    <3>2. \A k \in Top.splits : k \in 1..Len(program.body[f]) /\ Top.sites[k].kind = "direct"
      BY <1>5 DEF ActivationSound
    <3> QED
      BY <1>3, <1>4, <1>9, <2>1, <3>1, <3>2 DEF SplitsSound
  <2>2. CASE ~(g = f /\ j = i)
    <3>1. u[g][j] = fragments[g][j] /\ j \in 1..Len(fragments[g])
      BY <1>11, <2>2
    <3>2. PICK x : x = fragments[g][j]
      OBVIOUS
    <3>3. SplitsSound(program, code, g, x)
      BY <3>1, <3>2 DEF SoundInv, FragmentsSound
    <3>4. x.compiled = 0 \/ x.compiled \in 1..Len(code)
      BY <3>1, <3>2, ProgramFits DEF JitInv, FragmentsFit
    <3>5. SplitsSound(program, code', g, x)
      BY <1>3, <3>3, <3>4 DEF SplitsSound
    <3> QED
      BY <3>1, <3>2, <3>5
  <2> QED
    BY <2>1, <2>2
<1>14. FragmentsSound'
  BY <1>3, <1>10, <1>12, <1>13 DEF FragmentsSound
<1> QED
  BY <1>7, <1>8, <1>14

(* An outermost compilation ends.                                          *)
LEMMA FinishOuterSound ==
  ASSUME SoundInv, JitInv', FinishFragment, Top.why # "eager", compiling' = <<>>,
         FramesSound', outcome' = outcome
  PROVE  SoundInv'
<1>1. PICK f, i, c : f = Top.fn /\ i = Top.index /\ c = Len(code) + 1
  OBVIOUS
<1>2. compiling # <<>> /\ raising' = raising /\ Finished(f, i, c)
  BY <1>1, ProgramFits, FinishView
<1>3. \A g, j : ~(BeingCompiled(compiling, g, j) /\ ~(g = f /\ j = i))
  <2>1. Len(compiling) = 1 /\ Top = compiling[1]
    BY <1>2, ProgramFits, TopAlone
  <2> QED
    BY <1>1, <2>1 DEF BeingCompiled
<1>4. CodeSound' /\ CallsitesSound' /\ FragmentsSound'
  BY <1>1, <1>3, FinishTablesSound
<1>5. outcome = "none" /\ raising = FALSE
  BY <1>2, AtSoundTop DEF SoundInv, OutcomeSound
<1>6. StackSound' /\ OutcomeSound'
  <2>1. Len(compiling') = 0
    OBVIOUS
  <2>2. StackSound'
    BY <2>1 DEF StackSound
  <2>3. OutcomeSound'
    BY <1>2, <1>5 DEF OutcomeSound
  <2> QED
    BY <2>2, <2>3
<1>7. SoundProgram(program)'
  BY <1>2, ProgramFits DEF Finished
<1> QED
  BY <1>4, <1>6, <1>7 DEF SoundInv

(* The root scope is compiled, and starts to run.                          *)
LEMMA FinishRootSound ==
  ASSUME SoundInv, JitInv', FinishFragment, Top.why = "root"
  PROVE  SoundInv'
<1>1. PICK f, i, c : f = Top.fn /\ i = Top.index /\ c = Len(code) + 1
  OBVIOUS
<1>2. compiling # <<>> /\ Finished(f, i, c)
  BY <1>1, ProgramFits, FinishView
<1>3. /\ compiling' = <<>> /\ resolving' = resolving /\ outcome' = outcome
      /\ frames' = <<[fn |-> Root, index |-> 1, code |-> Len(code) + 1,
                      arg |-> None, pc |-> 1, last |-> None]>>
  BY DEF FinishFragment
<1>4. f = Root /\ resolving = 0
  BY <1>1, <1>2, ProgramFits, TopAlone
<1>5. PICK r : r = [fn |-> Root, index |-> 1, code |-> c, arg |-> None, pc |-> 1, last |-> None]
  OBVIOUS
<1>6. r.fn = Root /\ r.code = c /\ r.pc = 1 /\ r.last = None
  BY <1>5
<1>7. Len(frames') = 1 /\ frames'[1] = r
  BY <1>1, <1>3, <1>5
<1>8. program' = program /\ code'[c].fn = Root /\ Len(code') = c /\ c \in 1..c
  <2>1. Len(code) \in Nat
    BY ProgramFits, LengthsAreNumbers
  <2>2. c \in 1..c
    BY <1>1, <2>1
  <2> QED
    BY <1>2, <1>4, <2>2 DEF Finished
<1>9. WellFormedProgram(program) /\ SoundProgram(program) /\ Root \in Scopes
  BY ProgramFits, Numbers
<1>10. CodeSound'
  <2>1. \A g, j : ~(BeingCompiled(compiling, g, j) /\ ~(g = f /\ j = i))
    <3>1. Len(compiling) = 1 /\ Top = compiling[1]
      BY <1>2, ProgramFits, TopAlone
    <3> QED
      BY <1>1, <3>1 DEF BeingCompiled
  <2> QED
    BY <1>1, <2>1, FinishTablesSound
<1>11. SitesSound(program, callsites', Root, code'[c].sites, Len(program.body[Root]) + 1)
  BY <1>8, <1>10 DEF CodeSound
<1>12. FrameSound(program, code', r)
  <2>1. LastFits(program, Root, 1, r.last)
    BY <1>9, EndsForget
  <2>2. PICK s, table : s = code'[c].sites /\ table = callsites'
    OBVIOUS
  <2>3. 1 <= Len(program.body[Root]) => s[1].kind # "absent"
    BY <1>9, <1>11, <2>2, ReachedIsCompiled
  <2> QED
    BY <1>6, <2>1, <2>2, <2>3 DEF FrameSound, SiteAt
<1>13. FramesSound'
  <2>1. \A k \in 1..Len(frames') : frames'[k] = r /\ ~(k < Len(frames'))
    BY <1>7
  <2>2. resolving' = 0
    BY <1>3, <1>4
  <2> QED
    BY <1>8, <1>12, <2>1, <2>2 DEF FramesSound
<1> QED
  BY <1>3, <1>13, FinishOuterSound

(* The callee of a stub is compiled.                                       *)
LEMMA FinishCalleeSound ==
  ASSUME SoundInv, JitInv', FinishFragment, Top.why = "callee"
  PROVE  SoundInv'
<1>1. PICK f, i, c : f = Top.fn /\ i = Top.index /\ c = Len(code) + 1
  OBVIOUS
<1>2. Finished(f, i, c)
  BY <1>1, ProgramFits, FinishView
<1>3. /\ compiling' = <<>> /\ resolving' = resolving /\ outcome' = outcome
      /\ frames' = frames
  BY DEF FinishFragment
<1>4. FramesSound'
  BY <1>2, <1>3, FramesUntouched
<1> QED
  BY <1>3, <1>4, FinishOuterSound

(* The caller of a stub is compiled again: it has the split.               *)
LEMMA SplitIsThere ==
  ASSUME SoundInv, AtEnd, Top.why = "caller"
  PROVE  /\ resolving # 0 /\ frames # <<>> /\ Top.fn = Running.fn
         /\ callsites[resolving].split = Running.pc
         /\ callsites[resolving].split \in Top.splits
<1>1. PICK site, s : site = callsites[resolving] /\ s = site.split
  OBVIOUS
<1>2. compiling # <<>> /\ Top.pc > Len(program.body[Top.fn])
  BY DEF AtEnd
<1>3. resolving # 0 /\ Top.fn = site.fn
  BY <1>1, <1>2, ProgramFits, TopAlone
<1>4. /\ frames # <<>> /\ site.fn = Running.fn /\ s = Running.pc
      /\ s \in 1..Len(program.body[site.fn]) /\ ~program.eager
  BY <1>1, <1>3, ResolvingSite
<1>5. ComesToSplit(Top, s)
  BY <1>1, <1>2, <1>4 DEF SoundInv, StackSound
<1>6. Top.pc \in Nat /\ Len(program.body[Top.fn]) \in Nat
  BY <1>2, AtSoundTop
<1>7. ~(Top.pc <= s)
  BY <1>2, <1>3, <1>4, <1>6
<1> QED
  BY <1>1, <1>3, <1>4, <1>5, <1>7 DEF ComesToSplit

(* The caller that was compiled again runs on at its split.                *)
LEMMA FinishCallerSound ==
  ASSUME SoundInv, JitInv', FinishFragment, Top.why = "caller"
  PROVE  SoundInv'
<1>1. PICK f, i, c : f = Top.fn /\ i = Top.index /\ c = Len(code) + 1
  OBVIOUS
<1>2. compiling # <<>> /\ AtEnd /\ Finished(f, i, c)
  BY <1>1, ProgramFits, FinishView DEF FinishFragment
<1>3. PICK s : s = callsites[resolving].split
  OBVIOUS
<1>4. /\ resolving # 0 /\ frames # <<>> /\ f = Running.fn
      /\ s = Running.pc /\ s \in Top.splits
  BY <1>1, <1>2, <1>3, SplitIsThere
<1>5. /\ compiling' = <<>> /\ resolving' = 0 /\ outcome' = outcome /\ ContinueIn(c)
  BY <1>1, <1>3, <1>4 DEF FinishFragment, NewCode, ContinueIn
<1>6. PICK r : r = [Running EXCEPT !.code = c]
  OBVIOUS
<1>7. /\ Running \in Frame /\ frames \in Seq(Frame) /\ Len(frames) \in Nat \ {0}
      /\ Running = frames[Len(frames)]
  BY <1>4, ProgramFits, AtFrame
<1>8. c \in Nat
  BY <1>1, ProgramFits, LengthsAreNumbers
<1>9. /\ r \in Frame /\ r.fn = f /\ r.code = c /\ r.pc = s /\ r.last = Running.last
  BY <1>4, <1>6, <1>7, <1>8 DEF Frame
<1>10. frames' = SetLast(frames, r)
  BY <1>5, <1>6 DEF ContinueIn
<1>11. PICK n \in Nat \ {0} : n = Len(frames)
  BY <1>7
<1>12. /\ Len(frames') = n /\ frames'[n] = r
       /\ \A k \in 1..n : k # n => frames'[k] = frames[k]
  <2>1. \A x \in Frame : /\ Len(SetLast(frames, x)) = Len(frames)
                          /\ SetLast(frames, x)[Len(frames)] = x
                          /\ \A k \in 1..Len(frames) :
                               k # Len(frames) => SetLast(frames, x)[k] = frames[k]
    BY <1>4, <1>7, SetLastSeq
  <2> QED
    BY <1>9, <1>10, <1>11, <2>1
<1>13. /\ program' = program /\ code'[c].fn = f /\ code'[c].sites = Top.sites
  BY <1>2 DEF Finished
<1>14. FrameSound(program, code', r)
  <2>1. FrameSound(program, code, Running)
    BY <1>7, <1>11 DEF SoundInv, FramesSound
  <2>2. Top.sites[s].kind = "direct"
    BY <1>2, <1>4, AtSoundTop DEF ActivationSound
  <2>3. SiteAt(code', r).kind = "direct"
    BY <1>9, <1>13, <2>2 DEF SiteAt
  <2> QED
    BY <1>4, <1>9, <2>1, <2>3 DEF FrameSound
<1>15. \A k \in 1..n : /\ FrameSound(program, code', frames[k])
                        /\ k < n => Calls(program, code', frames[k], frames[k + 1].fn)
  BY <1>2, <1>11, FramesSoundStill
<1>16. ASSUME NEW k \in 1..n
       PROVE  /\ FrameSound(program, code', frames'[k])
              /\ k < n => Calls(program, code', frames'[k], frames'[k + 1].fn)
  <2>1. CASE k = n
    BY <1>12, <1>14, <2>1
  <2>2. CASE k # n
    <3>1. k < n /\ k + 1 \in 1..n
      BY <2>2
    <3>2. frames'[k + 1].fn = frames[k + 1].fn
      <4>1. CASE k + 1 = n
        BY <1>4, <1>7, <1>9, <1>11, <1>12, <4>1
      <4>2. CASE k + 1 # n
        BY <1>12, <3>1, <4>2
      <4> QED
        BY <4>1, <4>2
    <3>3. frames'[k] = frames[k]
      BY <1>12, <2>2
    <3>4. /\ FrameSound(program, code', frames[k])
          /\ Calls(program, code', frames[k], frames[k + 1].fn)
      <4>1. k \in 1..Len(frames) /\ k < Len(frames)
        BY <1>11, <3>1
      <4> QED
        BY <1>2, <4>1, FramesSoundStill
    <3>5. PICK x, y, z : x = frames'[k] /\ y = frames'[k + 1].fn /\ z = code'
      OBVIOUS
    <3>6. FrameSound(program, z, x) /\ Calls(program, z, x, y)
      BY <3>2, <3>3, <3>4, <3>5
    <3> QED
      BY <3>5, <3>6
  <2> QED
    BY <2>1, <2>2
<1>17. FramesSound'
  BY <1>5, <1>12, <1>13, <1>16 DEF FramesSound
<1> QED
  BY <1>5, <1>17, FinishOuterSound

(* visit(FunctionCall) goes on with the fragment that was compiled on the  *)
(* spot.                                                                   *)
LEMMA FinishEagerSound ==
  ASSUME SoundInv, JitInv', FinishFragment, Top.why = "eager"
  PROVE  SoundInv'
<1>1. PICK f, i, c : f = Top.fn /\ i = Top.index /\ c = Len(code) + 1
  OBVIOUS
<1>2. compiling # <<>> /\ AtEnd /\ Finished(f, i, c) /\ raising' = raising
  BY <1>1, ProgramFits, FinishView DEF FinishFragment
<1>3. PICK n \in Nat \ {0} :
        /\ n = Len(compiling) - 1 /\ Len(compiling) = n + 1 /\ n \in 1..Len(compiling)
        /\ compiling[n] \in Activation /\ compiling[n].fn \in Scopes
        /\ compiling[n].pc \in 1..Len(program.body[compiling[n].fn])
        /\ Len(compiling[n].sites) = Len(program.body[compiling[n].fn])
        /\ program.body[compiling[n].fn][compiling[n].pc].callee = f
        /\ \A j \in 1..n : compiling[j].fn # f
  BY <1>1, <1>2, ProgramFits, EagerHasCaller
<1>4. PICK a, q : a = compiling[n] /\ q = InferredType(f)
  OBVIOUS
<1>5. PICK b : b = AfterCall(a, c, q)
  OBVIOUS
<1>6. /\ compiling' = SetLast(ButLast(compiling), b)
      /\ frames' = frames /\ resolving' = resolving /\ outcome' = outcome
  <2>1. LET r == compiling[Len(compiling) - 1]
        IN compiling' = SetLast(ButLast(compiling), AfterCall(r, c, InferredType(Top.fn)))
    BY <1>1 DEF FinishFragment, NewCode
  <2>2. compiling[Len(compiling) - 1] = a /\ InferredType(Top.fn) = q
    BY <1>1, <1>3, <1>4 DEF InferredType
  <2>3. compiling' = SetLast(ButLast(compiling), b)
    BY <1>5, <2>1, <2>2
  <2> QED
    BY <2>3 DEF FinishFragment
<1>7. /\ TypeOK /\ WellFormedProgram(program) /\ SoundProgram(program)
      /\ q \in FragmentTypes /\ c \in Nat /\ c # 0
  <2>1. TypeOK
    BY ProgramFits
  <2>2. q \in FragmentTypes
    BY <1>1, <1>2, <1>4, <2>1, InferredTypeIsType DEF InferredType
  <2>3. Len(code) \in Nat
    BY <2>1, LengthsAreNumbers
  <2> QED
    BY <1>1, <2>1, <2>2, <2>3, ProgramFits
<1>8. /\ a \in Activation /\ a.fn \in Scopes /\ a.pc \in 1..Len(program.body[a.fn])
      /\ Len(a.sites) = Len(program.body[a.fn])
      /\ f = program.body[a.fn][a.pc].callee
      /\ ActivationSound(program, callsites, a)
  BY <1>3, <1>4 DEF SoundInv, StackSound
<1>9. f # Root
  <2>1. f \in Functions
    BY <1>7, <1>8, SuitesFit
  <2> QED
    BY <2>1, ProgramsAssumption DEF Root
<1>10. q = Result(program, program.body[a.fn][a.pc].callee)
  <2>1. InferredType(Top.fn) = Result(program, Top.fn)
    BY <1>1, <1>2, <1>9, InferredIsResult
  <2>2. InferredType(Top.fn) = q
    BY <1>1, <1>4 DEF InferredType
  <2> QED
    BY <1>1, <1>8, <2>1, <2>2
<1>11. /\ b \in Activation /\ ActivationSound(program, callsites, b)
       /\ b.fn = a.fn /\ b.index = a.index /\ b.why = a.why
  <2>1. CalleeGives(program, a, q)
    BY <1>10 DEF CalleeGives
  <2> QED
    BY <1>5, <1>7, <1>8, <2>1, AfterCallSound
<1>12. PICK stack : stack = ButLast(compiling)
  OBVIOUS
<1>13. /\ stack \in Seq(Activation) /\ Len(stack) = n /\ stack # <<>>
       /\ \A j \in 1..n : stack[j] = compiling[j]
  <2>1. compiling \in Seq(Activation)
    BY <1>7 DEF TypeOK
  <2>2. /\ stack \in Seq(Activation) /\ Len(stack) = Len(compiling) - 1
        /\ \A j \in 1..Len(compiling) - 1 : stack[j] = compiling[j]
    BY <1>2, <1>12, <2>1, ButLastSeq
  <2>3. Len(stack) = n /\ \A j \in 1..n : stack[j] = compiling[j]
    BY <1>3, <2>2
  <2> QED
    BY <2>2, <2>3
<1>14. /\ Len(compiling') = n /\ compiling'[n] = b
       /\ \A j \in 1..n : j # n => compiling'[j] = compiling[j]
  <2>1. \A x \in Activation : /\ Len(SetLast(stack, x)) = Len(stack)
                               /\ SetLast(stack, x)[Len(stack)] = x
                               /\ \A j \in 1..Len(stack) :
                                    j # Len(stack) => SetLast(stack, x)[j] = stack[j]
    <3>1. stack \in Seq(Activation) /\ stack # <<>>
      BY <1>13
    <3> QED
      BY <3>1, SetLastSeq
  <2>2. compiling' = SetLast(stack, b) /\ b \in Activation
    BY <1>6, <1>11, <1>12
  <2>3. /\ Len(compiling') = Len(stack) /\ compiling'[Len(stack)] = b
        /\ \A j \in 1..Len(stack) : j # Len(stack) => compiling'[j] = stack[j]
    BY <2>1, <2>2
  <2> QED
    BY <1>13, <2>3
<1>15. program.eager
  <2>1. ~(Len(compiling) <= 1)
    BY <1>3
  <2> QED
    BY <2>1 DEF SoundInv, StackSound
<1>16. \A j \in 1..n : compiling'[j].fn = compiling[j].fn /\ compiling'[j].index = compiling[j].index
  BY <1>4, <1>11, <1>14
<1>17. \A g, j : BeingCompiled(compiling, g, j) /\ ~(g = f /\ j = i)
                 => BeingCompiled(compiling', g, j)
  <2> SUFFICES ASSUME NEW g, NEW j, NEW k \in 1..Len(compiling), compiling[k].fn = g,
                      compiling[k].index = j, ~(g = f /\ j = i)
               PROVE  BeingCompiled(compiling', g, j)
    BY DEF BeingCompiled
  <2>1. k # n + 1
    <3>1. compiling[n + 1].fn = f /\ compiling[n + 1].index = i
      BY <1>1, <1>3 DEF Top
    <3> QED
      BY <3>1
  <2>2. k \in 1..n
    BY <1>3, <2>1
  <2> QED
    BY <1>14, <1>16, <2>2 DEF BeingCompiled
<1>18. CodeSound' /\ CallsitesSound' /\ FragmentsSound'
  BY <1>1, <1>17, FinishTablesSound
<1>19. program' = program /\ callsites' = callsites
  BY <1>2 DEF Finished
<1>20. StackSound'
  <2>1. ASSUME NEW j \in 1..n
        PROVE  ActivationSound(program, callsites, compiling'[j])
    <3>1. CASE j = n
      BY <1>11, <1>14, <3>1
    <3>2. CASE j # n
      <4>1. ActivationSound(program, callsites, compiling[j])
        BY <1>3 DEF SoundInv, StackSound
      <4> QED
        BY <1>14, <3>2, <4>1
    <3> QED
      BY <3>1, <3>2
  <2> QED
    BY <1>14, <1>15, <1>19, <2>1 DEF StackSound
<1>21. FramesSound'
  BY <1>2, <1>6, FramesUntouched
<1>22. OutcomeSound'
  <2>1. compiling'[1].why = compiling[1].why
    <3>1. CASE n = 1
      BY <1>4, <1>11, <1>14, <3>1
    <3>2. CASE n # 1
      BY <1>14, <3>2
    <3> QED
      BY <3>1, <3>2
  <2> QED
    BY <1>2, <1>6, <2>1 DEF SoundInv, OutcomeSound
<1> QED
  BY <1>7, <1>18, <1>19, <1>20, <1>21, <1>22 DEF SoundInv

(* compile_fragment returns.                                               *)
LEMMA FinishFragmentSound ==
  ASSUME SoundInv, JitInv', FinishFragment
  PROVE  SoundInv'
<1>1. compiling # <<>>
  BY DEF FinishFragment, AtEnd
<1>2. Top.why \in {"root", "eager", "callee", "caller"}
  BY <1>1, AtSoundTop DEF Activation
<1> QED
  BY <1>2, FinishRootSound, FinishEagerSound, FinishCalleeSound, FinishCallerSound

(***************************************************************************)
(* The theorems.                                                           *)
(***************************************************************************)

(* Before the root scope is compiled.                                      *)
LEMMA InitSound ==
  ASSUME Init, Sound
  PROVE  SoundInv
<1>1. /\ program \in Programs /\ code = <<>> /\ callsites = <<>> /\ compiling = <<>>
      /\ resolving = 0 /\ frames = <<>> /\ raising = FALSE /\ outcome = "none"
  BY DEF Init
<1>2. SoundProgram(program)
  BY <1>1 DEF Sound
<1>3. PICK r : r = NewFragment(Root, None)
  OBVIOUS
<1>4. r.splits = {}
  BY <1>3 DEF NewFragment
<1>5. fragments = [f \in Scopes |-> IF f = Root THEN <<r>> ELSE <<>>]
  BY <1>3 DEF Init
<1>6. \A f \in Scopes : fragments[f] = IF f = Root THEN <<r>> ELSE <<>>
  BY <1>5
<1>7. /\ Len(<<r>>) = 1 /\ <<r>>[1] = r /\ Len(<<>>) = 0
      /\ \A i : i \notin 1..0
      /\ \A i \in 1..1 : i = 1
  OBVIOUS
<1>8. FragmentsSound
  <2>1. \A f \in Functions : f \in Scopes /\ f # Root
    BY Numbers, ProgramsAssumption DEF Root
  <2>2. \A f \in Functions : \A i \in 1..Len(fragments[f]) : FALSE
    BY <1>6, <1>7, <2>1
  <2>3. \A f \in Scopes : \A i \in 1..Len(fragments[f]) : fragments[f][i] = r
    BY <1>6, <1>7
  <2>4. \A f \in Scopes : SplitsSound(program, code, f, r)
    BY <1>4 DEF SplitsSound
  <2> QED
    BY <2>2, <2>3, <2>4 DEF FragmentsSound
<1>9. CodeSound /\ CallsitesSound
  BY <1>1, <1>7 DEF CodeSound, CallsitesSound
<1>10. StackSound
  BY <1>1, <1>7 DEF StackSound
<1>11. FramesSound
  BY <1>1, <1>7 DEF FramesSound
<1>12. OutcomeSound
  BY <1>1 DEF OutcomeSound
<1> QED
  BY <1>2, <1>8, <1>9, <1>10, <1>11, <1>12, InitFits DEF SoundInv

(* Every step keeps the invariant.                                         *)
LEMMA StepKeepsSound ==
  ASSUME NoRecursion, SoundInv, [Next]_vars
  PROVE  SoundInv'
<1>1. JitInv'
  BY ProgramFits, StepKeepsInvariant
<1>2. CASE Step
  BY <1>1, <1>2, CompileRootSound, VisitDirectCallSound, VisitEagerCallSound,
     VisitLazyCallSound, FinishFragmentSound, NothingFails, ResolveSound,
     RecompileCallerSound, CallFragmentSound, SkipSuiteSound, ReturnSound, NothingRaised
     DEF Step
<1>3. CASE UNCHANGED vars
  <2>1. UNCHANGED <<program, fragments, code, callsites, compiling,
                    resolving, frames, raising, outcome>>
    BY <1>3 DEF vars
  <2>2. SoundProgram(program)' /\ CodeSound' /\ CallsitesSound' /\ FragmentsSound' /\ StackSound'
    BY <2>1, TablesStaySound
  <2>3. FramesSound'
    BY <2>1 DEF SoundInv, FramesSound, Running
  <2>4. OutcomeSound'
    BY <2>1 DEF SoundInv, OutcomeSound
  <2> QED
    BY <1>1, <2>2, <2>3, <2>4 DEF SoundInv
<1> QED
  BY <1>2, <1>3 DEF Next, Terminated

(* The compiler meets nothing it has to refuse, whatever the order in      *)
(* which it comes to compile the functions of such a program.              *)
THEOREM SoundProgramsFit ==
  ASSUME NoRecursion, Sound
  PROVE  Spec => []SoundInv
<1>1. Init => SoundInv
  BY InitSound
<1>2. SoundInv /\ [Next]_vars => SoundInv'
  BY StepKeepsSound
<1> QED
  BY <1>1, <1>2, PTL DEF Spec

(* A direct call never goes to a fragment without code.                    *)
THEOREM NoNullCallHolds ==
  ASSUME NoRecursion, Sound
  PROVE  Spec => []NoNullCall
<1>1. SoundInv => NoNullCall
  BY DEF SoundInv, OutcomeSound, NoNullCall
<1> QED
  BY <1>1, SoundProgramsFit, PTL

(* Code that has been compiled again has the split that the running code   *)
(* waits at.                                                               *)
THEOREM ResumesAtSplitHolds ==
  ASSUME NoRecursion, Sound
  PROVE  Spec => []ResumesAtSplit
<1>1. SoundInv => ResumesAtSplit
  BY DEF SoundInv, OutcomeSound, ResumesAtSplit
<1> QED
  BY <1>1, SoundProgramsFit, PTL

(* A function that is about to return has the type that the code of its    *)
(* caller was compiled for.                                                *)
LEMMA ReturnsItsType ==
  ASSUME SoundInv
  PROVE  TypesHonest
<1> SUFFICES ASSUME Executing, Len(frames) > 1, Running.pc = Len(RunBody) + 1,
                    NEW caller, caller = frames[Len(frames) - 1]
             PROVE  code[caller.code].sites[caller.pc].type = ReturnType(Running.fn, Running.last)
  BY DEF TypesHonest
<1>1. PICK n \in Nat : n = Len(frames)
  BY AtSoundSite DEF Executing
<1>2. PICK r : r = Running
  OBVIOUS
<1>3. /\ frames # <<>> /\ r = frames[n] /\ r.fn \in Scopes
      /\ LastFits(program, r.fn, r.pc, r.last) /\ r.pc = Len(program.body[r.fn]) + 1
  BY <1>1, <1>2, AtSoundSite DEF Executing, FrameSound, RunBody
<1>4. ReturnType(r.fn, r.last) = Result(program, r.fn)
  BY <1>3, ProgramFits, EndHasType DEF ReturnType
<1>5. n - 1 \in 1..Len(frames) /\ n - 1 < Len(frames) /\ (n - 1) + 1 = n
  BY <1>1
<1>6. /\ Calls(program, code, caller, r.fn)
      /\ caller.pc \in 1..Len(program.body[caller.fn])
      /\ SitesSound(program, callsites, caller.fn, code[caller.code].sites,
                    Len(program.body[caller.fn]) + 1)
  <2>1. PICK i : i = n - 1
    OBVIOUS
  <2>2. i \in 1..Len(frames) /\ i < Len(frames) /\ frames[i + 1] = r /\ caller = frames[i]
    BY <1>1, <1>3, <1>5, <2>1
  <2>3. Calls(program, code, caller, frames[i + 1].fn)
    BY <2>2, FrameHasSites
  <2>4. caller.pc \in 1..Len(program.body[caller.fn])
    BY <2>2, FrameHasSites
  <2>5. SitesSound(program, callsites, caller.fn, code[caller.code].sites,
                   Len(program.body[caller.fn]) + 1)
    BY <2>2, FrameHasSites
  <2> QED
    BY <2>2, <2>3, <2>4, <2>5
<1>7. SiteSound(program, callsites, caller.fn, caller.pc, code[caller.code].sites[caller.pc])
  BY <1>6 DEF SitesSound
<1>8. code[caller.code].sites[caller.pc].type = Result(program, r.fn)
  BY <1>6, <1>7 DEF SiteSound, Calls, SiteAt
<1> QED
  BY <1>2, <1>4, <1>8

(* A call returns a value of the type its caller was compiled for.         *)
THEOREM TypesHonestHolds ==
  ASSUME NoRecursion, Sound
  PROVE  Spec => []TypesHonest
<1>1. SoundInv => TypesHonest
  BY ReturnsItsType
<1> QED
  BY <1>1, SoundProgramsFit, PTL
-------------------------------------------------------------------------------
CallRecord == [fn : Scopes, arg : FragmentTypes, pc : Nat, last : FragmentTypes]

(* The stack of calls that the frames stand for.                           *)
LEMMA CallsAre ==
  ASSUME NEW s \in Seq(Frame)
  PROVE  /\ CallsOf(s) \in Seq(CallRecord) /\ Len(CallsOf(s)) = Len(s)
         /\ \A i \in 1..Len(s) : CallsOf(s)[i] = CallOf(s[i])
         /\ CallsOf(s) = <<>> <=> s = <<>>
<1>1. PICK n \in Nat : n = Len(s)
  OBVIOUS
<1>2. \A i \in 1..n : s[i] \in Frame
  BY <1>1
<1>3. \A x \in Frame : CallOf(x) \in CallRecord
  BY DEF Frame, CallOf, CallRecord
<1>4. CallsOf(s) = [i \in 1..n |-> CallOf(s[i])]
  BY <1>1 DEF CallsOf
<1>5. CallsOf(s) \in Seq(CallRecord) /\ Len(CallsOf(s)) = n
  BY <1>2, <1>3, <1>4
<1>6. CallsOf(s) = <<>> <=> Len(CallsOf(s)) = 0
  BY <1>5
<1>7. s = <<>> <=> Len(s) = 0
  OBVIOUS
<1> QED
  BY <1>1, <1>4, <1>5, <1>6, <1>7

(* Frames that differ in their code only stand for the same calls.         *)
LEMMA SameCalls ==
  ASSUME NEW s \in Seq(Frame), NEW t \in Seq(Frame), Len(s) = Len(t),
         \A i \in 1..Len(s) : CallOf(s[i]) = CallOf(t[i])
  PROVE  CallsOf(s) = CallsOf(t)
  BY DEF CallsOf

(* A new frame is a new call.                                              *)
LEMMA CallsAppend ==
  ASSUME NEW s \in Seq(Frame), NEW x \in Frame
  PROVE  CallsOf(Append(s, x)) = Append(CallsOf(s), CallOf(x))
<1> PICK n \in Nat : n = Len(s)
  OBVIOUS
<1>1. PICK t, u, v : t = Append(s, x) /\ u = CallsOf(s) /\ v = CallsOf(t)
  OBVIOUS
<1>2. /\ t \in Seq(Frame) /\ Len(t) = n + 1
      /\ \A i \in 1..n : t[i] = s[i]
      /\ t[n + 1] = x
  BY <1>1, AppendSeq
<1>3. /\ u \in Seq(CallRecord) /\ Len(u) = n /\ \A i \in 1..n : u[i] = CallOf(s[i])
  BY <1>1, CallsAre
<1>4. /\ v \in Seq(CallRecord) /\ Len(v) = n + 1 /\ \A i \in 1..(n + 1) : v[i] = CallOf(t[i])
  BY <1>1, <1>2, CallsAre
<1>5. PICK y \in CallRecord : y = CallOf(x)
  BY DEF Frame, CallOf, CallRecord
<1>6. PICK w : w = Append(u, y)
  OBVIOUS
<1>7. /\ w \in Seq(CallRecord) /\ Len(w) = n + 1
      /\ \A i \in 1..n : w[i] = u[i]
      /\ w[n + 1] = y
  BY <1>3, <1>6, AppendSeq
<1>8. \A i \in 1..(n + 1) : w[i] = v[i]
  BY <1>2, <1>3, <1>4, <1>5, <1>7
<1>9. w = v
  BY <1>4, <1>7, <1>8, SeqEqual
<1> QED
  BY <1>1, <1>5, <1>6, <1>9

(* A change of the innermost frame is one of the innermost call.           *)
LEMMA CallsSetLast ==
  ASSUME NEW s \in Seq(Frame), s # <<>>, NEW x \in Frame
  PROVE  CallsOf(SetLast(s, x)) = [CallsOf(s) EXCEPT ![Len(CallsOf(s))] = CallOf(x)]
<1> PICK n \in Nat \ {0} : n = Len(s)
  BY LastOfSeq
<1>1. PICK t, u, v : t = SetLast(s, x) /\ u = CallsOf(s) /\ v = CallsOf(t)
  OBVIOUS
<1>2. /\ t \in Seq(Frame) /\ Len(t) = n /\ t[n] = x
      /\ \A i \in 1..n : i # n => t[i] = s[i]
  <2>1. SetLast(s, x) \in Seq(Frame)
    BY SetLastSeq
  <2>2. Len(SetLast(s, x)) = Len(s) /\ SetLast(s, x)[Len(s)] = x
    BY SetLastSeq
  <2>3. \A i \in 1..Len(s) : i # Len(s) => SetLast(s, x)[i] = s[i]
    BY SetLastSeq
  <2> QED
    BY <1>1, <2>1, <2>2, <2>3
<1>3. /\ u \in Seq(CallRecord) /\ Len(u) = n /\ \A i \in 1..n : u[i] = CallOf(s[i])
  BY <1>1, CallsAre
<1>4. /\ v \in Seq(CallRecord) /\ Len(v) = n /\ \A i \in 1..n : v[i] = CallOf(t[i])
  BY <1>1, <1>2, CallsAre
<1>5. PICK y \in CallRecord : y = CallOf(x)
  BY DEF Frame, CallOf, CallRecord
<1>6. PICK w : w = SetLast(u, y)
  OBVIOUS
<1>7. u # <<>>
  BY <1>3
<1>8. /\ w \in Seq(CallRecord) /\ Len(w) = n /\ w[n] = y
      /\ \A i \in 1..n : i # n => w[i] = u[i]
  <2>1. u \in Seq(CallRecord) /\ Len(u) = n
    BY <1>3
  <2>2. SetLast(u, y) \in Seq(CallRecord)
    BY <1>7, <2>1, SetLastSeq
  <2>3. Len(SetLast(u, y)) = Len(u) /\ SetLast(u, y)[Len(u)] = y
    <3>1. u \in Seq(CallRecord)
      BY <2>1
    <3>2. Len(SetLast(u, y)) = Len(u)
      BY <1>7, <3>1, SetLastSeq
    <3>3. SetLast(u, y)[Len(u)] = y
      BY <1>7, <3>1, SetLastSeq
    <3> QED
      BY <3>2, <3>3
  <2>4. \A i \in 1..Len(u) : i # Len(u) => SetLast(u, y)[i] = u[i]
    BY <1>7, <2>1, SetLastSeq
  <2> QED
    BY <1>6, <2>1, <2>2, <2>3, <2>4
<1>9. \A i \in 1..n : w[i] = v[i]
  BY <1>2, <1>3, <1>4, <1>5, <1>8
<1>10. w = v
  BY <1>4, <1>8, <1>9, SeqEqual
<1> QED
  BY <1>1, <1>5, <1>6, <1>10 DEF SetLast

(* The outer frames stand for the outer calls.                             *)
LEMMA CallsSubSeq ==
  ASSUME NEW s \in Seq(Frame), NEW m \in Nat, m <= Len(s)
  PROVE  /\ SubSeq(s, 1, m) \in Seq(Frame)
         /\ CallsOf(SubSeq(s, 1, m)) = SubSeq(CallsOf(s), 1, m)
<1> PICK n \in Nat : n = Len(s)
  OBVIOUS
<1>1. PICK t, u, v : t = SubSeq(s, 1, m) /\ u = CallsOf(s) /\ v = CallsOf(t)
  OBVIOUS
<1>2. /\ t \in Seq(Frame) /\ Len(t) = m /\ \A i \in 1..m : t[i] = s[i]
  BY <1>1
<1>3. /\ u \in Seq(CallRecord) /\ Len(u) = n /\ \A i \in 1..n : u[i] = CallOf(s[i])
  BY <1>1, CallsAre
<1>4. /\ v \in Seq(CallRecord) /\ Len(v) = m /\ \A i \in 1..m : v[i] = CallOf(t[i])
  BY <1>1, <1>2, CallsAre
<1>5. PICK w : w = SubSeq(u, 1, m)
  OBVIOUS
<1>6. w \in Seq(CallRecord) /\ Len(w) = m /\ \A i \in 1..m : w[i] = u[i]
  BY <1>1, <1>3, <1>5
<1>7. \A i \in 1..m : w[i] = v[i]
  BY <1>1, <1>2, <1>3, <1>4, <1>6
<1>8. w = v
  BY <1>4, <1>6, <1>7, SeqEqual
<1> QED
  BY <1>1, <1>2, <1>5, <1>8

(* CallSemantics and JitCompiler speak of the same programs.               *)
LEMMA SameNotions ==
  /\ Meaning!Root = Root /\ Meaning!None = None
  /\ \A p : Meaning!WellFormedProgram(p) <=> WellFormedProgram(p)
  /\ \A p, f, k : Meaning!SuiteStart(p, f, k) <=> SuiteStart(p, f, k)
  /\ \A c, last : Meaning!ArgType(c, last) = ArgType(c, last)
  /\ \A f, last : Meaning!ReturnType(program, f, last) = ReturnType(f, last)
<1>1. Meaning!Root = Root /\ Meaning!None = None
  BY DEF Meaning!Root, Root, Meaning!None, None
<1>2. Meaning!Item = Item /\ Meaning!Scopes = Scopes /\ Meaning!FragmentTypes = FragmentTypes
      /\ Meaning!Indeterminate = Indeterminate
  BY DEF Meaning!Item, Item, Meaning!Scopes, Scopes, Meaning!Root, Root,
         Meaning!FragmentTypes, FragmentTypes, Meaning!ValueTypes, ValueTypes,
         Meaning!Indeterminate, Indeterminate, Meaning!None, None
<1>3. \A p : Meaning!WellFormedProgram(p) <=> WellFormedProgram(p)
  BY <1>2 DEF Meaning!WellFormedProgram, WellFormedProgram
<1>4. \A p, f, k : Meaning!SuiteStart(p, f, k) <=> SuiteStart(p, f, k)
  BY DEF Meaning!SuiteStart, SuiteStart
<1>5. \A c, last : Meaning!ArgType(c, last) = ArgType(c, last)
  BY DEF Meaning!ArgType, ArgType
<1>6. \A f, last : Meaning!ReturnType(program, f, last) = ReturnType(f, last)
  BY DEF Meaning!ReturnType, ReturnType
<1> QED
  BY <1>1, <1>3, <1>4, <1>5, <1>6

(* The innermost frame is the current call.                                *)
LEMMA CurrentIsRunning ==
  ASSUME SoundInv, frames # <<>>
  PROVE  /\ frames \in Seq(Frame) /\ CallsOf(frames) # <<>>
         /\ Len(CallsOf(frames)) = Len(frames)
         /\ Meaning!Current = CallOf(Running)
         /\ Meaning!Current.fn = Running.fn /\ Meaning!Current.pc = Running.pc
         /\ Meaning!Current.last = Running.last
         /\ Meaning!Body = program.body[Running.fn]
         /\ Meaning!Here = program.body[Running.fn][Running.pc]
<1>1. /\ frames \in Seq(Frame) /\ Running = frames[Len(frames)]
      /\ Len(frames) \in 1..Len(frames)
  BY AtSoundSite, ProgramFits DEF TypeOK
<1>2. /\ Len(CallsOf(frames)) = Len(frames) /\ CallsOf(frames) # <<>>
      /\ CallsOf(frames)[Len(frames)] = CallOf(frames[Len(frames)])
  BY <1>1, CallsAre
<1>3. Meaning!Current = CallOf(Running)
  BY <1>1, <1>2 DEF Meaning!Current
<1>4. /\ CallOf(Running).fn = Running.fn /\ CallOf(Running).pc = Running.pc
      /\ CallOf(Running).last = Running.last
  BY DEF CallOf
<1>5. Meaning!Body = program.body[Running.fn]
  BY <1>3, <1>4 DEF Meaning!Body
<1>6. Meaning!Here = program.body[Running.fn][Running.pc]
  BY <1>3, <1>4, <1>5 DEF Meaning!Here
<1> QED
  BY <1>1, <1>2, <1>3, <1>4, <1>5, <1>6

(* Code runs: the current call goes on.                                    *)
LEMMA ExecutingIsRunning ==
  ASSUME SoundInv, Executing
  PROVE  Meaning!Running
<1>1. frames # <<>> /\ ~raising /\ outcome = "none"
  BY DEF Executing
<1>2. CallsOf(frames) # <<>>
  BY <1>1, CurrentIsRunning
<1> QED
  BY <1>1, <1>2 DEF Meaning!Running

(* A direct call enters the function that the program calls.               *)
LEMMA EntersCall ==
  ASSUME SoundInv, SoundInv', CallFragment
  PROVE  Meaning!Enter
<1>1. /\ Executing /\ frames # <<>> /\ Running.pc <= Len(program.body[Running.fn])
      /\ program' = program /\ raising' = raising
  BY DEF CallFragment, Executing, RunBody
<1>2. SiteHere.target # 0
  <2>1. outcome' # "null call"
    BY DEF SoundInv, OutcomeSound
  <2> QED
    BY <2>1 DEF CallFragment
<1>3. PICK f, type, x :
        /\ f = program.body[Running.fn][Running.pc].callee
        /\ type = ArgType(program.body[Running.fn][Running.pc], Running.last)
        /\ x = [fn |-> f, index |-> FragmentIndex(f, type), code |-> SiteHere.target,
                arg |-> type, pc |-> 1, last |-> None]
  OBVIOUS
<1>4. frames' = Append(frames, x) /\ outcome' = outcome
  BY <1>2, <1>3 DEF CallFragment, RunBody
<1>5. frames \in Seq(Frame) /\ frames' \in Seq(Frame)
  BY ProgramFits DEF SoundInv, JitInv, TypeOK
<1>6. x \in Frame
  <2>1. Len(frames) \in Nat /\ Len(frames') = Len(frames) + 1 /\ frames'[Len(frames) + 1] = x
    BY <1>4, <1>5
  <2>2. Len(frames) + 1 \in 1..Len(frames')
    BY <2>1
  <2> QED
    BY <1>5, <2>1, <2>2
<1>7. CallsOf(frames)' = Append(CallsOf(frames), CallOf(x))
  BY <1>4, <1>5, <1>6, CallsAppend
<1>8. CallOf(x) = [fn |-> f, arg |-> type, pc |-> 1, last |-> None]
  BY <1>3 DEF CallOf
<1>9. CallOf(x) = [fn |-> Meaning!Here.callee, arg |-> Meaning!ArgType(Meaning!Here, Meaning!Current.last),
                   pc |-> 1, last |-> Meaning!None]
  BY <1>1, <1>3, <1>8, CurrentIsRunning, SameNotions
<1>10. Meaning!Running /\ Meaning!Current.pc <= Len(Meaning!Body)
  BY <1>1, ExecutingIsRunning, CurrentIsRunning
<1> QED
  BY <1>1, <1>4, <1>7, <1>9, <1>10 DEF Meaning!Enter

(* Skipping a nested suite is what it is in the program.                   *)
LEMMA SkipsSuite ==
  ASSUME SoundInv, SkipSuite
  PROVE  Meaning!SkipSuite
<1>1. /\ Executing /\ frames # <<>> /\ SuiteStart(program, Running.fn, Running.pc)
      /\ program' = program /\ raising' = raising /\ outcome' = outcome
  BY DEF SkipSuite, Executing
<1>2. PICK q, x : /\ q = program.body[Running.fn][Running.pc].suite
                 /\ x = [Running EXCEPT !.pc = q]
  OBVIOUS
<1>3. frames' = SetLast(frames, x)
  BY <1>2 DEF SkipSuite, AfterSuite
<1>4. Running \in Frame /\ frames \in Seq(Frame)
  BY <1>1, AtSoundSite, CurrentIsRunning
<1>5. q \in Nat
  <2>1. Running.fn \in Scopes /\ Running.pc \in 1..Len(program.body[Running.fn])
    BY <1>1, AtSoundSite DEF SuiteStart
  <2> QED
    BY <1>2, <2>1, ProgramFits, SuitesFit
<1>6. x \in Frame
  BY <1>2, <1>4, <1>5 DEF Frame
<1>7. CallsOf(frames)' = [CallsOf(frames) EXCEPT ![Len(CallsOf(frames))] = CallOf(x)]
  BY <1>1, <1>3, <1>4, <1>6, CallsSetLast
<1>8. CallOf(x) = [CallOf(Running) EXCEPT !.pc = q]
  BY <1>2, <1>4 DEF CallOf, Frame
<1>9. CallOf(x) = [Meaning!Current EXCEPT !.pc = Meaning!Here.suite]
  BY <1>1, <1>2, <1>8, CurrentIsRunning
<1>10. Meaning!SuiteStart(program, Meaning!Current.fn, Meaning!Current.pc)
  BY <1>1, CurrentIsRunning, SameNotions
<1>11. Meaning!Running
  BY <1>1, ExecutingIsRunning
<1> QED
  BY <1>1, <1>7, <1>9, <1>10, <1>11 DEF Meaning!SkipSuite, Meaning!SetCurrent

(* Returning hands the same result to the same caller.                     *)
LEMMA ReturnsCall ==
  ASSUME SoundInv, ReturnFromFragment
  PROVE  Meaning!Return
<1>1. /\ Executing /\ frames # <<>> /\ Running.pc = Len(program.body[Running.fn]) + 1
      /\ program' = program /\ raising' = raising /\ outcome = "none"
  BY DEF ReturnFromFragment, Executing, RunBody
<1>2. frames \in Seq(Frame) /\ Len(CallsOf(frames)) = Len(frames)
  BY <1>1, CurrentIsRunning
<1>3. Meaning!Running /\ Meaning!Current.pc = Len(Meaning!Body) + 1
  BY <1>1, ExecutingIsRunning, CurrentIsRunning
<1>4. CASE Len(frames) = 1
  <2>1. frames' = <<>> /\ outcome' = "ended"
    BY <1>4 DEF ReturnFromFragment
  <2>2. CallsOf(<<>>) = <<>>
    <3>1. <<>> \in Seq(Frame)
      OBVIOUS
    <3> QED
      BY <3>1, CallsAre
  <2>3. CallsOf(frames)' = <<>> /\ (outcome \in {"ended", "refused"})'
    BY <2>1, <2>2
  <2> QED
    BY <1>1, <1>2, <1>3, <1>4, <2>3 DEF Meaning!Return
<1>5. CASE Len(frames) # 1
  <2>1. PICK n \in Nat : n = Len(frames)
    BY <1>2
  <2>2. n > 1
    <3>1. Len(frames) \in Nat \ {0}
      BY <1>1, AtSoundSite
    <3> QED
      BY <1>5, <2>1, <3>1
  <2>3. PICK caller, result, q, x, s :
          /\ caller = frames[n - 1] /\ result = ReturnType(Running.fn, Running.last)
          /\ q = caller.pc + 1 /\ x = [caller EXCEPT !.pc = q, !.last = result]
          /\ s = SubSeq(frames, 1, n - 2)
    OBVIOUS
  <2>4. frames' = Append(s, x) /\ outcome' = outcome
    BY <1>5, <2>1, <2>3 DEF ReturnFromFragment
  <2>5. n - 1 \in 1..Len(frames) /\ n - 2 \in Nat /\ n - 2 <= Len(frames)
    BY <2>1, <2>2
  <2>6. caller \in Frame
    BY <1>2, <2>3, <2>5
  <2>7. result \in FragmentTypes
    <3>1. Running.fn \in Scopes /\ Running.last \in FragmentTypes
      BY <1>1, ProgramFits, RunningIsFrame
    <3> QED
      BY <2>3, <3>1, ProgramFits, ReturnTypeIsType
  <2>8. x \in Frame
    <3>1. q \in Nat
      BY <2>3, <2>6 DEF Frame
    <3>2. x = [caller EXCEPT !.pc = q, !.last = result]
      BY <2>3
    <3> QED
      BY <2>6, <2>7, <3>1, <3>2 DEF Frame
  <2>9. s \in Seq(Frame) /\ CallsOf(s) = SubSeq(CallsOf(frames), 1, n - 2)
    BY <1>2, <2>3, <2>5, CallsSubSeq
  <2>10. CallsOf(frames)' = Append(SubSeq(CallsOf(frames), 1, n - 2), CallOf(x))
    <3>1. CallsOf(Append(s, x)) = Append(CallsOf(s), CallOf(x))
      BY <2>8, <2>9, CallsAppend
    <3> QED
      BY <2>4, <2>9, <3>1
  <2>11. CallsOf(frames)[n - 1] = CallOf(caller)
    BY <1>2, <2>3, <2>5, CallsAre
  <2>12. CallOf(x) = [CallOf(caller) EXCEPT !.pc = @ + 1, !.last = result]
    <3>1. x = [caller EXCEPT !.pc = q, !.last = result]
      BY <2>3
    <3>2. /\ x.fn = caller.fn /\ x.arg = caller.arg /\ x.pc = q /\ x.last = result
      BY <2>6, <3>1 DEF Frame
    <3>3. PICK y : y = CallOf(caller)
      OBVIOUS
    <3>4. /\ y = [fn |-> caller.fn, arg |-> caller.arg, pc |-> caller.pc, last |-> caller.last]
          /\ y.pc = caller.pc
      BY <3>3 DEF CallOf
    <3>5. [y EXCEPT !.pc = q, !.last = result]
            = [fn |-> caller.fn, arg |-> caller.arg, pc |-> q, last |-> result]
      <4>1. PICK f, a, p, l :
              f = caller.fn /\ a = caller.arg /\ p = caller.pc /\ l = caller.last
        OBVIOUS
      <4>2. y \in [fn : {f}, arg : {a}, pc : {p, q}, last : {l, result}]
        BY <3>4, <4>1
      <4>3. PICK z : z = [y EXCEPT !.pc = q, !.last = result]
        OBVIOUS
      <4>4. /\ z \in [fn : {f}, arg : {a}, pc : {p, q}, last : {l, result}]
            /\ z.fn = f /\ z.arg = a /\ z.pc = q /\ z.last = result
        BY <4>2, <4>3
      <4>5. z = [fn |-> f, arg |-> a, pc |-> q, last |-> result]
        BY <4>4
      <4> QED
        BY <4>1, <4>3, <4>5
    <3>6. [y EXCEPT !.pc = @ + 1, !.last = result] = [y EXCEPT !.pc = q, !.last = result]
      BY <2>3, <3>4
    <3>7. CallOf(x) = [fn |-> caller.fn, arg |-> caller.arg, pc |-> q, last |-> result]
      BY <3>2 DEF CallOf
    <3> QED
      BY <3>3, <3>5, <3>6, <3>7
  <2>13. result = Meaning!ReturnType(program, Meaning!Current.fn, Meaning!Current.last)
    BY <1>1, <2>3, CurrentIsRunning, SameNotions
  <2>14. /\ Len(CallsOf(frames)) = n /\ Len(CallsOf(frames)) # 1
         /\ (outcome \in {"ended", "refused"})' = (outcome \in {"ended", "refused"})
    BY <1>2, <1>5, <2>1, <2>4
  <2> QED
    BY <1>1, <1>3, <2>10, <2>11, <2>12, <2>13, <2>14 DEF Meaning!Return
<1> QED
  BY <1>4, <1>5

(* Moving to new code is not to be seen.                                   *)
LEMMA ContinueInStutters ==
  ASSUME SoundInv, frames # <<>>, NEW c, ContinueIn(c),
         frames' \in Seq(Frame)
  PROVE  CallsOf(frames)' = CallsOf(frames)
<1>1. PICK r : r = [Running EXCEPT !.code = c]
  OBVIOUS
<1>2. frames' = SetLast(frames, r)
  BY <1>1 DEF ContinueIn
<1>3. PICK n \in Nat \ {0} : n = Len(frames)
  BY AtSoundSite
<1>4. frames \in Seq(Frame) /\ Running = frames[n] /\ Running \in Frame
  BY <1>3, AtSoundSite, CurrentIsRunning
<1>5. frames' = [frames EXCEPT ![n] = r]
  BY <1>2, <1>3 DEF SetLast
<1>6. /\ Len(frames') = n /\ frames'[n] = r
      /\ \A i \in 1..n : i # n => frames'[i] = frames[i]
  BY <1>3, <1>4, <1>5
<1>7. CallOf(r) = CallOf(Running)
  BY <1>1, <1>4 DEF CallOf, Frame
<1>8. \A i \in 1..Len(frames) : CallOf(frames[i]) = CallOf(frames'[i])
  BY <1>3, <1>4, <1>6, <1>7
<1> QED
  BY <1>3, <1>4, <1>6, <1>8, SameCalls

(* Compiling is not to be seen.                                            *)
LEMMA SameStutters ==
  ASSUME UNCHANGED <<program, frames, raising, outcome>>
  PROVE  UNCHANGED Meaning!cvars
  BY DEF Meaning!cvars

(* Looking for the fragment of a stub is not to be seen.                   *)
LEMMA ResolveStutters ==
  ASSUME SoundInv, SoundInv', Resolve
  PROVE  UNCHANGED Meaning!cvars
<1>1. /\ frames # <<>> /\ UNCHANGED <<program, raising, outcome>>
      /\ frames' = frames \/ \E c : ContinueIn(c)
  BY DEF Resolve, Executing
<1>2. frames' \in Seq(Frame)
  BY DEF SoundInv, JitInv, TypeOK
<1>3. CallsOf(frames)' = CallsOf(frames)
  BY <1>1, <1>2, ContinueInStutters
<1> QED
  BY <1>1, <1>3 DEF Meaning!cvars

(* The root scope begins when it has been compiled; the end of any other   *)
(* compilation is not to be seen.                                          *)
LEMMA FinishBegins ==
  ASSUME SoundInv, SoundInv', FinishFragment
  PROVE  Meaning!Begin \/ UNCHANGED Meaning!cvars
<1>1. /\ compiling # <<>> /\ AtEnd /\ UNCHANGED <<program, raising>>
      /\ outcome = "none"
  BY AtSoundTop DEF FinishFragment, AtEnd
<1>2. frames' \in Seq(Frame) /\ frames \in Seq(Frame)
  BY ProgramFits DEF SoundInv, JitInv, TypeOK
<1>3. CASE Top.why = "root"
  <2>1. /\ outcome' = outcome
        /\ frames' = <<[fn |-> Root, index |-> 1, code |-> Len(code) + 1,
                        arg |-> None, pc |-> 1, last |-> None]>>
    BY <1>3 DEF FinishFragment
  <2>2. frames = <<>>
    <3>1. compiling[1].why = "root"
      BY <1>1, <1>3, ProgramFits, TopAlone
    <3> QED
      BY <1>1, <3>1 DEF SoundInv, OutcomeSound
  <2>3. CallsOf(frames) = <<>>
    BY <1>2, <2>2, CallsAre
  <2>4. PICK x : x = [fn |-> Root, index |-> 1, code |-> Len(code) + 1,
                      arg |-> None, pc |-> 1, last |-> None]
    OBVIOUS
  <2>5. Len(frames') = 1 /\ frames'[1] = x
    BY <2>1, <2>4
  <2>6. CallOf(x) = [fn |-> Root, arg |-> None, pc |-> 1, last |-> None]
    BY <2>4 DEF CallOf
  <2>7. CallsOf(frames)' = <<CallOf(x)>>
    <3>1. CallsOf(frames') = [i \in 1..1 |-> CallOf(frames'[i])]
      BY <2>5 DEF CallsOf
    <3>2. [i \in 1..1 |-> CallOf(frames'[i])] = <<CallOf(x)>>
      BY <2>5
    <3> QED
      BY <3>1, <3>2
  <2> QED
    BY <1>1, <2>1, <2>3, <2>6, <2>7, SameNotions DEF Meaning!Begin
<1>4. CASE Top.why = "eager" \/ Top.why = "callee"
  <2>1. frames' = frames /\ outcome' = outcome
    BY <1>4 DEF FinishFragment
  <2> QED
    BY <1>1, <2>1, SameStutters
<1>5. CASE Top.why = "caller"
  <2>1. frames # <<>> /\ callsites[resolving].split \in Top.splits
    BY <1>1, <1>5, SplitIsThere
  <2>2. outcome' = outcome /\ \E c : ContinueIn(c)
    BY <1>5, <2>1 DEF FinishFragment
  <2>3. CallsOf(frames)' = CallsOf(frames)
    BY <1>2, <2>1, <2>2, ContinueInStutters
  <2> QED
    BY <1>1, <2>2, <2>3 DEF Meaning!cvars
<1>6. Top.why \in {"root", "eager", "callee", "caller"}
  BY <1>1, AtSoundTop DEF Activation
<1> QED
  BY <1>3, <1>4, <1>5, <1>6

(* What the program does is what a program is meant to do: it begins, it   *)
(* enters functions with the arguments of its calls, it returns what they  *)
(* return.  Compiling, resolving and moving to new code are not to be seen.*)
THEOREM ImplementsCallsHolds ==
  ASSUME NoRecursion, Sound
  PROVE  Spec => ImplementsCalls
<1>1. Init => Meaning!Init
  <2> SUFFICES ASSUME Init
               PROVE  Meaning!Init
    OBVIOUS
  <2>1. /\ WellFormedProgram(program) /\ frames = <<>> /\ raising = FALSE /\ outcome = "none"
    BY ProgramsAssumption DEF Init
  <2>2. CallsOf(frames) = <<>>
    <3>1. frames \in Seq(Frame)
      BY <2>1
    <3> QED
      BY <2>1, <3>1, CallsAre
  <2> QED
    BY <2>1, <2>2, SameNotions DEF Meaning!Init
<1>2. SoundInv /\ SoundInv' /\ [Next]_vars => [Meaning!Next]_(Meaning!cvars)
  <2> SUFFICES ASSUME SoundInv, SoundInv', [Next]_vars
               PROVE  [Meaning!Next]_(Meaning!cvars)
    OBVIOUS
  <2>1. CASE CompileRoot \/ VisitDirectCall \/ VisitEagerCall \/ VisitLazyCall \/ RecompileCaller
    <3>1. UNCHANGED <<program, frames, raising, outcome>>
      BY <2>1 DEF CompileRoot, VisitDirectCall, VisitEagerCall, VisitLazyCall, RecompileCaller
    <3> QED
      BY <3>1, SameStutters
  <2>2. CASE FinishFragment
    BY <2>2, FinishBegins DEF Meaning!Next
  <2>3. CASE Resolve
    BY <2>3, ResolveStutters
  <2>4. CASE CallFragment
    BY <2>4, EntersCall DEF Meaning!Next
  <2>5. CASE SkipSuite
    BY <2>5, SkipsSuite DEF Meaning!Next
  <2>6. CASE ReturnFromFragment
    BY <2>6, ReturnsCall DEF Meaning!Next
  <2>7. CASE FailFragment \/ HandleException \/ LeaveFrame
    BY <2>7, NothingFails, NothingRaised
  <2>8. CASE UNCHANGED vars
    <3>1. UNCHANGED <<program, frames, raising, outcome>>
      BY <2>8 DEF vars
    <3> QED
      BY <3>1, SameStutters
  <2> QED
    BY <2>1, <2>2, <2>3, <2>4, <2>5, <2>6, <2>7, <2>8 DEF Next, Step, Terminated
<1>3. Spec => []SoundInv
  BY SoundProgramsFit
<1> QED
  BY <1>1, <1>2, <1>3, PTL DEF Spec, ImplementsCalls, Meaning!Spec

==============================================================================
