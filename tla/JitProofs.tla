-------------------------------- MODULE JitProofs --------------------------------
(***************************************************************************)
(* What each step of the just-in-time compiler does to its data: the       *)
(* types, and what stays of the tables, the code and the call sites.       *)
(***************************************************************************)
EXTENDS JitInvariant, TLAPS, SequenceTheorems

(* The three ways in which a sequence changes.                             *)
LEMMA LastOfSeq ==
  ASSUME NEW S, NEW s \in Seq(S), s # <<>>
  PROVE  /\ Len(s) \in Nat \ {0}
         /\ s[Len(s)] \in S
  OBVIOUS

(* The last element is replaced.                                           *)
LEMMA SetLastSeq ==
  ASSUME NEW S, NEW s \in Seq(S), s # <<>>, NEW r \in S
  PROVE  /\ SetLast(s, r) \in Seq(S)
         /\ SetLast(s, r) # <<>>
         /\ Len(SetLast(s, r)) = Len(s)
         /\ SetLast(s, r)[Len(s)] = r
         /\ \A i \in 1..Len(s) : i # Len(s) => SetLast(s, r)[i] = s[i]
  BY DEF SetLast

(* The last element is removed.                                            *)
LEMMA ButLastSeq ==
  ASSUME NEW S, NEW s \in Seq(S), s # <<>>
  PROVE  /\ ButLast(s) \in Seq(S)
         /\ Len(ButLast(s)) = Len(s) - 1
         /\ Len(s) > 1 => ButLast(s) # <<>>
         /\ \A i \in 1..Len(s) - 1 : ButLast(s)[i] = s[i]
<1>1. /\ ButLast(s) \in Seq(S)
      /\ Len(ButLast(s)) = Len(s) - 1
      /\ \A i \in 1..Len(s) - 1 : ButLast(s)[i] = s[i]
  <2> DEFINE n == Len(s) - 1
  <2>1. n \in Nat /\ \A i \in 1..n : s[i] \in S
    OBVIOUS
  <2>2. ButLast(s) = SubSeq(s, 1, n)
    BY DEF ButLast
  <2>3. /\ SubSeq(s, 1, n) \in Seq(S)
        /\ Len(SubSeq(s, 1, n)) = n
        /\ \A i \in 1..n : SubSeq(s, 1, n)[i] = s[i]
    <3> HIDE DEF n
    <3> QED
      BY <2>1, SubSeqProperties
  <2> QED
    BY <2>2, <2>3
<1> QED
  BY <1>1

(* An element is added.                                                    *)
LEMMA AppendSeq ==
  ASSUME NEW S, NEW s \in Seq(S), NEW r \in S
  PROVE  /\ Append(s, r) \in Seq(S)
         /\ Len(Append(s, r)) = Len(s) + 1
         /\ \A i \in 1..Len(s) : Append(s, r)[i] = s[i]
         /\ Append(s, r)[Len(s) + 1] = r
  OBVIOUS
-------------------------------------------------------------------------------
(* The calls of a program.                                                 *)
LEMMA Numbers ==
  /\ Root \in Scopes /\ Scopes \subseteq Nat /\ Functions \subseteq Scopes
  /\ None \in FragmentTypes /\ Indeterminate \in FragmentTypes
  /\ Types \subseteq FragmentTypes /\ "result" \notin Types
  BY ProgramsAssumption DEF Scopes, Root, FragmentTypes, ValueTypes

(* The calls in the body of a function.                                    *)
LEMMA CallIsItem ==
  ASSUME TypeOK, NEW f \in Scopes
  PROVE  /\ Len(program.body[f]) \in Nat
         /\ \A k \in 1..Len(program.body[f]) :
              /\ program.body[f][k].callee \in Functions
              /\ program.body[f][k].callee \in Scopes
              /\ program.body[f][k].arg \in Types \cup {"result"}
              /\ program.body[f][k].suite \in Nat
              /\ program.body[f][k].suite # 0 =>
                   program.body[f][k].suite \in (k + 1)..(Len(program.body[f]) + 1)
<1>0. program.body \in [Scopes -> Seq(Item)]
  BY DEF TypeOK, WellFormedProgram
<1>1. program.body[f] \in Seq(Item) /\ Len(program.body[f]) \in Nat
  BY <1>0
<1>2. \A k \in 1..Len(program.body[f]) : program.body[f][k] \in Item
  BY <1>1
<1>3. \A k \in 1..Len(program.body[f]) :
        \/ program.body[f][k].suite = 0
        \/ program.body[f][k].suite \in (k + 1)..(Len(program.body[f]) + 1)
  BY DEF TypeOK, WellFormedProgram
<1>4. \A k \in 1..Len(program.body[f]) :
        /\ program.body[f][k].callee \in Functions
        /\ program.body[f][k].arg \in Types \cup {"result"}
        /\ program.body[f][k].suite \in Nat
  BY <1>2 DEF Item
<1> QED
  BY <1>1, <1>3, <1>4, Numbers

(* The type of a call's argument is a type.                                *)
LEMMA ArgTypeIsType ==
  ASSUME TypeOK, NEW f \in Scopes, NEW k \in 1..Len(program.body[f]),
         NEW t \in FragmentTypes
  PROVE  ArgType(program.body[f][k], t) \in FragmentTypes
  BY CallIsItem, Numbers DEF ArgType

(* So is the type of what a function returns.                              *)
LEMMA ReturnTypeIsType ==
  ASSUME TypeOK, NEW f \in Scopes, NEW t \in FragmentTypes
  PROVE  /\ ReturnType(f, t) \in FragmentTypes
         /\ program.annotation[f] \in FragmentTypes
  BY Numbers DEF ReturnType, TypeOK, WellFormedProgram

(* fragment_index_for_call_args finds the one fragment for these types.    *)
LEMMA FragmentIndexFinds ==
  ASSUME TypeOK, FragmentsFit, NEW f \in Scopes, NEW t
  PROVE  /\ FragmentIndex(f, t) \in 0..Len(fragments[f])
         /\ FragmentIndex(f, t) # 0 => fragments[f][FragmentIndex(f, t)].arg = t
         /\ FragmentIndex(f, t) = 0 =>
              \A j \in 1..Len(fragments[f]) : fragments[f][j].arg # t
<1> DEFINE match == {i \in 1..Len(fragments[f]) : fragments[f][i].arg = t}
<1>0. fragments \in [Scopes -> Seq(Fragment)]
  BY DEF TypeOK
<1>1. fragments[f] \in Seq(Fragment) /\ Len(fragments[f]) \in Nat
  BY <1>0
<1>2. CASE match = {}
  BY <1>1, <1>2 DEF FragmentIndex
<1>3. CASE match # {}
  <2>1. PICK i \in match : TRUE
    BY <1>3
  <2>2. \A j \in match : j = i
    BY <2>1 DEF FragmentsFit
  <2>3. \A j \in match : i <= j
    BY <1>1, <2>1, <2>2
  <2>4. FragmentIndex(f, t) \in match
    BY <1>3, <2>1, <2>3 DEF FragmentIndex
  <2> QED
    BY <1>1, <2>4
<1> QED
  BY <1>2, <1>3

(* A new fragment has no code.                                             *)
LEMMA NewFragmentIsFragment ==
  ASSUME NEW f, NEW t \in FragmentTypes
  PROVE  /\ NewFragment(f, t) \in Fragment
         /\ NewFragment(f, t).arg = t
         /\ NewFragment(f, t).compiled = 0
  BY Numbers DEF NewFragment, Fragment

(* What is on top: the activation and the frame.                           *)
LEMMA TopIsActivation ==
  ASSUME TypeOK, compiling # <<>>
  PROVE  /\ Len(compiling) \in Nat \ {0}
         /\ Top = compiling[Len(compiling)]
         /\ Top \in Activation
         /\ Top.fn \in Scopes /\ Top.index \in Nat /\ Top.pc \in Nat
         /\ Top.last \in FragmentTypes /\ Top.splits \in SUBSET Nat
         /\ Top.returned \in SUBSET FragmentTypes
         /\ Top.sites \in Seq(Site)
<1>1. compiling \in Seq(Activation)
  BY DEF TypeOK
<1>2. Len(compiling) \in Nat \ {0} /\ Top = compiling[Len(compiling)] /\ Top \in Activation
  BY <1>1, LastOfSeq DEF Top
<1> QED
  BY <1>2 DEF Activation

(* The innermost frame is a frame.                                         *)
LEMMA RunningIsFrame ==
  ASSUME TypeOK, frames # <<>>
  PROVE  /\ Len(frames) \in Nat \ {0}
         /\ Running = frames[Len(frames)]
         /\ Running \in Frame
         /\ Running.fn \in Scopes /\ Running.pc \in Nat
         /\ Running.last \in FragmentTypes
<1>1. frames \in Seq(Frame)
  BY DEF TypeOK
<1>2. Len(frames) \in Nat \ {0} /\ Running = frames[Len(frames)] /\ Running \in Frame
  BY <1>1, LastOfSeq DEF Running
<1> QED
  BY <1>2 DEF Frame
-------------------------------------------------------------------------------
FragmentTable == [Scopes -> Seq(Fragment)]
Why == {"root", "eager", "callee", "caller"}

(* A table has a sequence of fragments for every function.                 *)
LEMMA TableIsTable ==
  /\ TypeOK => fragments \in FragmentTable
  /\ \A table \in FragmentTable : \A g \in Scopes :
       table[g] \in Seq(Fragment) /\ Len(table[g]) \in Nat
<1>1. TypeOK => fragments \in FragmentTable
  BY DEF TypeOK, FragmentTable
<1>2. \A table \in FragmentTable : \A g \in Scopes : table[g] \in Seq(Fragment)
  BY DEF FragmentTable
<1> QED
  BY <1>1, <1>2

(* Two tables of fragments that differ in return types and splits only.    *)
SameFragments(t, u) ==
  \A g \in Scopes :
    /\ Len(u[g]) = Len(t[g])
    /\ \A j \in 1..Len(t[g]) : u[g][j].arg = t[g][j].arg /\ u[g][j].compiled = t[g][j].compiled

(* One fragment of a table is replaced.                                    *)
LEMMA SetFragment ==
  ASSUME NEW table \in FragmentTable, NEW f \in Scopes,
         NEW i \in 1..Len(table[f]), NEW r \in Fragment
  PROVE  LET u == [table EXCEPT ![f] = [@ EXCEPT ![i] = r]]
         IN /\ u \in FragmentTable
            /\ \A g \in Scopes : Len(u[g]) = Len(table[g])
            /\ \A g \in Scopes : \A j \in 1..Len(table[g]) :
                  u[g][j] = IF g = f /\ j = i THEN r ELSE table[g][j]
<1> DEFINE s == [table[f] EXCEPT ![i] = r]
           u == [table EXCEPT ![f] = s]
<1>1. table[f] \in Seq(Fragment)
  BY DEF FragmentTable
<1>2. /\ s \in Seq(Fragment) /\ Len(s) = Len(table[f])
      /\ \A j \in 1..Len(table[f]) : s[j] = IF j = i THEN r ELSE table[f][j]
  BY <1>1, ExceptSeq
<1>3. u \in FragmentTable /\ \A g \in Scopes : u[g] = IF g = f THEN s ELSE table[g]
  <2> HIDE DEF s
  <2> QED
    BY <1>2 DEF FragmentTable
<1> QED
  BY <1>2, <1>3

(* The table after compile_fragment has reset the fragment.                *)
LEMMA ResetFragment ==
  ASSUME NEW table \in FragmentTable, NEW f \in Scopes,
         NEW i \in 1..Len(table[f]), NEW t \in FragmentTypes
  PROVE  LET u == [table EXCEPT ![f][i].returnType = t, ![f][i].splits = {}]
         IN u \in FragmentTable /\ SameFragments(table, u)
<1> DEFINE r == [table[f][i] EXCEPT !.returnType = t, !.splits = {}]
           u == [table EXCEPT ![f] = [@ EXCEPT ![i] = r]]
           v == [table EXCEPT ![f][i].returnType = t, ![f][i].splits = {}]
<1>1. table[f] \in Seq(Fragment) /\ table[f][i] \in Fragment
  BY DEF FragmentTable
<1>2. r \in Fragment /\ r.arg = table[f][i].arg /\ r.compiled = table[f][i].compiled
  BY <1>1 DEF Fragment
<1>3. v = u
  BY <1>1 DEF FragmentTable
<1>4. /\ u \in FragmentTable
      /\ \A g \in Scopes : Len(u[g]) = Len(table[g])
      /\ \A g \in Scopes : \A j \in 1..Len(table[g]) :
            u[g][j] = IF g = f /\ j = i THEN r ELSE table[g][j]
  BY <1>2, SetFragment
<1>5. SameFragments(table, u)
  <2> HIDE DEF r, u
  <2> QED
    BY <1>2, <1>4 DEF SameFragments
<1> QED
  BY <1>3, <1>4, <1>5

(* The table after compile_fragment has returned.                          *)
TableAfter(table, f, i, t, c, splits) ==
  [table EXCEPT ![f][i].returnType = t, ![f][i].compiled = c, ![f][i].splits = splits]

(* It differs from the table before in that one fragment has code c.       *)
LEMMA FinishTable ==
  ASSUME NEW table \in FragmentTable, NEW f \in Scopes,
         NEW i \in 1..Len(table[f]), NEW t \in FragmentTypes,
         NEW c \in Nat, NEW splits \in SUBSET Nat, NEW w,
         w = TableAfter(table, f, i, t, c, splits)
  PROVE  /\ w \in FragmentTable
         /\ \A g \in Scopes : Len(w[g]) = Len(table[g])
         /\ \A g \in Scopes : \A j \in 1..Len(table[g]) :
              /\ w[g][j].arg = table[g][j].arg
              /\ w[g][j].compiled = IF g = f /\ j = i THEN c ELSE table[g][j].compiled
<1> DEFINE r == [table[f][i] EXCEPT !.returnType = t, !.compiled = c, !.splits = splits]
           u == [table EXCEPT ![f] = [@ EXCEPT ![i] = r]]
           v == [table EXCEPT ![f][i].returnType = t, ![f][i].compiled = c,
                              ![f][i].splits = splits]
<1>1. table[f] \in Seq(Fragment) /\ table[f][i] \in Fragment
  BY DEF FragmentTable
<1>2. r \in Fragment /\ r.arg = table[f][i].arg /\ r.compiled = c
  BY <1>1 DEF Fragment
<1>3. v = u
  BY <1>1 DEF FragmentTable
<1>4. /\ u \in FragmentTable
      /\ \A g \in Scopes : Len(u[g]) = Len(table[g])
      /\ \A g \in Scopes : \A j \in 1..Len(table[g]) :
            u[g][j] = IF g = f /\ j = i THEN r ELSE table[g][j]
  BY <1>2, SetFragment
<1>5. /\ u \in FragmentTable
      /\ \A g \in Scopes : Len(u[g]) = Len(table[g])
      /\ \A g \in Scopes : \A j \in 1..Len(table[g]) :
           /\ u[g][j].arg = table[g][j].arg
           /\ u[g][j].compiled = IF g = f /\ j = i THEN c ELSE table[g][j].compiled
  <2> HIDE DEF r, u
  <2> QED
    BY <1>2, <1>4
<1>6. /\ v \in FragmentTable
      /\ \A g \in Scopes : Len(v[g]) = Len(table[g])
      /\ \A g \in Scopes : \A j \in 1..Len(table[g]) :
           /\ v[g][j].arg = table[g][j].arg
           /\ v[g][j].compiled = IF g = f /\ j = i THEN c ELSE table[g][j].compiled
  <2> HIDE DEF u, v
  <2> QED
    BY <1>3, <1>5
<1>7. w = v
  BY DEF TableAfter
<1> HIDE DEF v
<1> QED
  BY <1>6, <1>7

(* A fragment is added to a function's list.                               *)
LEMMA AddFragment ==
  ASSUME NEW table \in FragmentTable, NEW f \in Scopes, NEW r \in Fragment
  PROVE  LET u == [table EXCEPT ![f] = Append(@, r)]
         IN /\ u \in FragmentTable
            /\ Len(u[f]) = Len(table[f]) + 1 /\ u[f][Len(u[f])] = r
            /\ \A j \in 1..Len(table[f]) : u[f][j] = table[f][j]
            /\ \A g \in Scopes : g # f => u[g] = table[g]
<1> DEFINE s == Append(table[f], r)
           u == [table EXCEPT ![f] = s]
<1>1. table[f] \in Seq(Fragment)
  BY DEF FragmentTable
<1>2. /\ s \in Seq(Fragment) /\ Len(s) = Len(table[f]) + 1
      /\ \A j \in 1..Len(table[f]) : s[j] = table[f][j]
      /\ s[Len(s)] = r
  BY <1>1, AppendSeq
<1>3. u \in FragmentTable /\ \A g \in Scopes : u[g] = IF g = f THEN s ELSE table[g]
  <2> HIDE DEF s
  <2> QED
    BY <1>2 DEF FragmentTable
<1> QED
  BY <1>2, <1>3

(* A function's last fragment is removed.                                  *)
Dropped(table, f, u) ==
  /\ u \in FragmentTable
  /\ Len(u[f]) = Len(table[f]) - 1
  /\ \A j \in 1..Len(table[f]) - 1 : u[f][j] = table[f][j]
  /\ \A g \in Scopes : g # f => u[g] = table[g]

(* The catch clause of visit(FunctionCall) leaves the others.              *)
LEMMA DropFragment ==
  ASSUME NEW table \in FragmentTable, NEW f \in Scopes, table[f] # <<>>,
         NEW u, u = [table EXCEPT ![f] = ButLast(@)]
  PROVE  Dropped(table, f, u)
<1>1. table[f] \in Seq(Fragment)
  BY DEF FragmentTable
<1>2. PICK s : s = ButLast(table[f])
  OBVIOUS
<1>3. /\ s \in Seq(Fragment) /\ Len(s) = Len(table[f]) - 1
      /\ \A j \in 1..Len(table[f]) - 1 : s[j] = table[f][j]
  BY <1>1, <1>2, ButLastSeq
<1>4. u \in FragmentTable /\ \A g \in Scopes : u[g] = IF g = f THEN s ELSE table[g]
  BY <1>2, <1>3 DEF FragmentTable
<1> QED
  BY <1>3, <1>4 DEF Dropped

(* What StartCompiling does: a new activation on top, and nothing else of  *)
(* the table than what ResetFragment says.                                 *)
LEMMA StartEffect ==
  ASSUME TypeOK, NEW table \in FragmentTable,
         NEW f \in Scopes, NEW i \in 1..Len(table[f]),
         NEW why \in Why,
         StartCompiling(table, compiling, f, i, why)
  PROVE  /\ fragments' \in FragmentTable /\ SameFragments(table, fragments')
         /\ inProgress' = inProgress \cup {<<f, table[f][i].arg>>}
         /\ inProgress' \subseteq Scopes \X FragmentTypes
         /\ compiling' \in Seq(Activation)
         /\ Len(compiling') = Len(compiling) + 1
         /\ \A j \in 1..Len(compiling) : compiling'[j] = compiling[j]
         /\ compiling'[Len(compiling) + 1].fn = f
         /\ compiling'[Len(compiling) + 1].index = i
         /\ compiling'[Len(compiling) + 1].why = why
         /\ compiling'[Len(compiling) + 1].pc = 1
         /\ compiling'[Len(compiling) + 1].sites = [k \in 1..Len(program.body[f]) |-> Absent]
<1> DEFINE n == Len(program.body[f])
           sites == [k \in 1..n |-> Absent]
           a == [fn |-> f, index |-> i, why |-> why, pc |-> 1, sites |-> sites,
                 splits |-> {}, last |-> None, returned |-> {}]
<1>1. fragments' \in FragmentTable /\ SameFragments(table, fragments')
  BY ReturnTypeIsType, ResetFragment, Numbers DEF StartCompiling
<1>2. table[f][i].arg \in FragmentTypes
  <2>1. table[f] \in Seq(Fragment) /\ table[f][i] \in Fragment
    BY DEF FragmentTable
  <2> QED
    BY <2>1 DEF Fragment
<1>3. /\ inProgress' = inProgress \cup {<<f, table[f][i].arg>>}
      /\ inProgress' \subseteq Scopes \X FragmentTypes
  <2>1. inProgress \subseteq Scopes \X FragmentTypes
    BY DEF TypeOK
  <2>2. inProgress' = inProgress \cup {<<f, table[f][i].arg>>}
    BY DEF StartCompiling, ScopeName
  <2>3. <<f, table[f][i].arg>> \in Scopes \X FragmentTypes
    BY <1>2
  <2> QED
    BY <2>1, <2>2, <2>3
<1>4. Absent \in Site
  BY Numbers DEF Absent, Site
<1>5. /\ sites \in Seq(Site) /\ Len(sites) = n
      /\ \A k \in 1..n : sites[k] = Absent
  BY <1>4, CallIsItem
<1>6. a \in Activation
  <2> HIDE DEF sites
  <2> QED
    BY <1>5, Numbers DEF Activation, Why
<1>7. compiling' = Append(compiling, a)
  BY DEF StartCompiling
<1>8. /\ compiling' \in Seq(Activation) /\ Len(compiling') = Len(compiling) + 1
      /\ \A j \in 1..Len(compiling) : compiling'[j] = compiling[j]
      /\ compiling'[Len(compiling) + 1] = a
  <2>1. compiling \in Seq(Activation)
    BY DEF TypeOK
  <2> HIDE DEF a
  <2> QED
    BY <1>6, <1>7, <2>1, AppendSeq
<1>9. a.fn = f /\ a.index = i /\ a.why = why /\ a.pc = 1 /\ a.sites = sites
  OBVIOUS
<1>10. sites = [k \in 1..Len(program.body[f]) |-> Absent]
  OBVIOUS
<1> HIDE DEF a, sites
<1> QED
  BY <1>1, <1>3, <1>8, <1>9, <1>10
-------------------------------------------------------------------------------
(* The visitor goes on after a direct call.                                *)
LEMMA AfterCallEffect ==
  ASSUME NEW a \in Activation, a.pc \in 1..Len(a.sites), NEW c \in Nat, NEW t \in FragmentTypes
  PROVE  LET b == AfterCall(a, c, t)
         IN  /\ b \in Activation
             /\ b.fn = a.fn /\ b.index = a.index /\ b.why = a.why /\ b.pc = a.pc + 1
             /\ Len(b.sites) = Len(a.sites)
             /\ \A k \in 1..Len(a.sites) :
                   b.sites[k] = IF k = a.pc THEN Direct(c, t) ELSE a.sites[k]
<1> SUFFICES ASSUME NEW b, b = AfterCall(a, c, t)
             PROVE  /\ b \in Activation
                    /\ b.fn = a.fn /\ b.index = a.index /\ b.why = a.why /\ b.pc = a.pc + 1
                    /\ Len(b.sites) = Len(a.sites)
                    /\ \A k \in 1..Len(a.sites) :
                          b.sites[k] = IF k = a.pc THEN Direct(c, t) ELSE a.sites[k]
  OBVIOUS
<1> DEFINE s == [a.sites EXCEPT ![a.pc] = Direct(c, t)]
<1>1. /\ a.sites \in Seq(Site) /\ a.pc \in Nat /\ a.splits \in SUBSET Nat
      /\ Direct(c, t) \in Site
  BY DEF Activation, Direct, Site
<1>2. /\ s \in Seq(Site) /\ Len(s) = Len(a.sites)
      /\ \A k \in 1..Len(a.sites) : s[k] = IF k = a.pc THEN Direct(c, t) ELSE a.sites[k]
  BY <1>1, ExceptSeq
<1>3. AfterCall(a, c, t) = [a EXCEPT !.sites = s, !.splits = @ \cup {a.pc}, !.last = t,
                                     !.pc = @ + 1]
  BY DEF AfterCall
<1> HIDE DEF s
<1>4. a.splits \cup {a.pc} \in SUBSET Nat /\ a.pc + 1 \in Nat
  BY <1>1
<1>5. /\ AfterCall(a, c, t) \in Activation /\ AfterCall(a, c, t).sites = s
      /\ AfterCall(a, c, t).fn = a.fn /\ AfterCall(a, c, t).index = a.index
      /\ AfterCall(a, c, t).why = a.why /\ AfterCall(a, c, t).pc = a.pc + 1
  BY <1>2, <1>3, <1>4 DEF Activation
<1> QED
  BY <1>2, <1>5

(* The visitor goes on after a stub.                                       *)
LEMMA AfterStubEffect ==
  ASSUME TypeOK, NEW a \in Activation, NEW token \in Nat,
         a.pc \in 1..Len(program.body[a.fn]), Len(a.sites) = Len(program.body[a.fn])
  PROVE  LET b == AfterStub(a, token)
         IN  /\ b \in Activation
             /\ b.fn = a.fn /\ b.index = a.index /\ b.why = a.why /\ b.pc >= 1
             /\ Len(b.sites) = Len(a.sites)
             /\ \A k \in 1..Len(a.sites) :
                   b.sites[k] = IF k = a.pc THEN Stub(token) ELSE a.sites[k]
<1> SUFFICES ASSUME NEW b, b = AfterStub(a, token)
             PROVE  /\ b \in Activation
                    /\ b.fn = a.fn /\ b.index = a.index /\ b.why = a.why /\ b.pc >= 1
                    /\ Len(b.sites) = Len(a.sites)
                    /\ \A k \in 1..Len(a.sites) :
                          b.sites[k] = IF k = a.pc THEN Stub(token) ELSE a.sites[k]
  OBVIOUS
<1> DEFINE c == program.body[a.fn][a.pc]
           n == Len(program.body[a.fn])
           s == [a.sites EXCEPT ![a.pc] = Stub(token)]
           p == IF c.suite = 0 THEN n + 2 ELSE c.suite
           r == IF a.pc = n /\ c.suite = 0 /\ program.returns[a.fn] = "result"
                THEN a.returned \cup {Indeterminate} ELSE a.returned
<1>1. /\ a.fn \in Scopes /\ a.sites \in Seq(Site) /\ a.returned \in SUBSET FragmentTypes
      /\ Stub(token) \in Site
  BY Numbers DEF Activation, Stub, Site
<1>2. /\ s \in Seq(Site) /\ Len(s) = Len(a.sites)
      /\ \A k \in 1..Len(a.sites) : s[k] = IF k = a.pc THEN Stub(token) ELSE a.sites[k]
  BY <1>1, ExceptSeq
<1>3. p \in Nat /\ p >= 1
  <2>1. n \in Nat /\ c.suite \in Nat
    BY <1>1, CallIsItem
  <2> HIDE DEF n, c
  <2> QED
    BY <2>1
<1>4. r \in SUBSET FragmentTypes
  BY <1>1, Numbers
<1>5. AfterStub(a, token) = [a EXCEPT !.sites = s, !.last = Indeterminate, !.pc = p,
                                      !.returned = r]
  BY DEF AfterStub
<1> HIDE DEF s, p, r
<1>6. /\ AfterStub(a, token) \in Activation /\ AfterStub(a, token).sites = s
      /\ AfterStub(a, token).fn = a.fn /\ AfterStub(a, token).index = a.index
      /\ AfterStub(a, token).why = a.why /\ AfterStub(a, token).pc = p
  BY <1>2, <1>3, <1>4, <1>5, Numbers DEF Activation
<1> QED
  BY <1>2, <1>3, <1>6

Callsite == [callee : Functions, arg : FragmentTypes, fn : Scopes, index : Nat, split : Nat]

(* What WriteStub does to the call sites and to the activation on top.     *)
LEMMA WriteStubEffect ==
  ASSUME TypeOK, NEW stack \in Seq(Activation), stack # <<>>,
         NEW a, a = stack[Len(stack)],
         a.pc \in 1..Len(program.body[a.fn]), Len(a.sites) = Len(program.body[a.fn]),
         WriteStub(stack),
         NEW b, b = compiling'[Len(stack)], NEW token, token = Len(callsites) + 1,
         NEW site, site = callsites'[token]
  PROVE  /\ callsites' \in Seq(Callsite) /\ Len(callsites') = token
         /\ \A i \in 1..Len(callsites) : callsites'[i] = callsites[i]
         /\ site.fn = a.fn /\ site.index = a.index
         /\ compiling' \in Seq(Activation) /\ Len(compiling') = Len(stack)
         /\ \A i \in 1..Len(stack) : i # Len(stack) => compiling'[i] = stack[i]
         /\ b = AfterStub(a, token)
<1> DEFINE c == program.body[a.fn][a.pc]
<1>1. callsites \in Seq(Callsite) /\ token \in Nat
  <2>1. callsites \in Seq(Callsite)
    BY DEF TypeOK, Callsite
  <2> QED
    BY <2>1
<1>2. a \in Activation
  BY LastOfSeq
<1>3. /\ a.fn \in Scopes /\ a.last \in FragmentTypes /\ a.index \in Nat /\ a.pc \in Nat
  BY <1>2 DEF Activation
<1>4. c.callee \in Functions /\ ArgType(c, a.last) \in FragmentTypes
  BY <1>3, CallIsItem, ArgTypeIsType
<1>5. /\ CallsiteOf(a, c) \in Callsite
      /\ CallsiteOf(a, c).fn = a.fn /\ CallsiteOf(a, c).index = a.index
  <2> HIDE DEF c
  <2> QED
    BY <1>3, <1>4 DEF CallsiteOf, Callsite
<1>6. callsites' = Append(callsites, CallsiteOf(a, c))
  BY DEF WriteStub
<1>7. /\ callsites' \in Seq(Callsite) /\ Len(callsites') = token
      /\ \A i \in 1..Len(callsites) : callsites'[i] = callsites[i]
      /\ callsites'[token] = CallsiteOf(a, c)
  <2> DEFINE r == CallsiteOf(a, c)
  <2>1. r \in Callsite /\ callsites' = Append(callsites, r)
    BY <1>5, <1>6
  <2> HIDE DEF r
  <2>2. /\ callsites' \in Seq(Callsite) /\ Len(callsites') = Len(callsites) + 1
        /\ \A i \in 1..Len(callsites) : callsites'[i] = callsites[i]
        /\ callsites'[Len(callsites) + 1] = r
    BY <1>1, <2>1, AppendSeq
  <2> QED
    BY <2>2 DEF r
<1>8. compiling' = SetLast(stack, AfterStub(a, token))
  BY DEF WriteStub, AfterStub
<1>9. AfterStub(a, token) \in Activation
  BY <1>1, <1>2, AfterStubEffect
<1>10. /\ compiling' \in Seq(Activation) /\ Len(compiling') = Len(stack)
       /\ \A i \in 1..Len(stack) : i # Len(stack) => compiling'[i] = stack[i]
       /\ compiling'[Len(stack)] = AfterStub(a, token)
  <2>1. \A r \in Activation :
          /\ SetLast(stack, r) \in Seq(Activation) /\ Len(SetLast(stack, r)) = Len(stack)
          /\ \A i \in 1..Len(stack) : i # Len(stack) => SetLast(stack, r)[i] = stack[i]
          /\ SetLast(stack, r)[Len(stack)] = r
    BY SetLastSeq
  <2> QED
    BY <1>8, <1>9, <2>1
<1>11. b = AfterStub(a, token)
  BY <1>10
<1>12. site.fn = a.fn /\ site.index = a.index
  BY <1>5, <1>7
<1> QED
  BY <1>7, <1>10, <1>11, <1>12
=================================================================================
