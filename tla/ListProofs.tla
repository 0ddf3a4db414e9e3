------------------------------ MODULE ListProofs ------------------------------
(* Proofs about List, for any set of objects and all bounds. *)
EXTENDS List, FiniteSetTheorems, FunctionTheorems, SequenceTheorems, TLAPS

(* The array never has more slots than the capacity says: with TypeOK and  *)
(* NeverGrows this is inductive.                                           *)
ArrayWithinCapacity == Len(items) <= capacity

(* There are no items when there is no list. *)
NoListNoItems == ~alive => count = 0

Shape == TypeOK /\ NeverGrows /\ ArrayWithinCapacity /\ NoListNoItems

Steps ==
  \/ \E s \in Literals : New(s)
  \/ \E position \in Positions : GetItem(position)
  \/ \E position \in Positions : PopShrinking(position)
  \/ \E position \in Positions : PopInPlace(position)
  \/ \E position \in Positions, o \in Objects : SetItem(position, o)
  \/ \E position \in Positions, o \in Objects : Insert(position, o)
  \/ Clear
  \/ Delete
  \/ \E o \in Objects : Drop(o)

(* Next, with its disjuncts side by side. *)
LEMMA NextSteps == Next => Steps
  BY DEF Next, Steps

(* The number of uses of an object is a natural number. *)
LEMMA UsesType ==
  ASSUME NEW S, NEW s \in Seq(S), NEW o
  PROVE  /\ IsFiniteSet({i \in DOMAIN s : s[i] = o})
         /\ Uses(s, o) \in Nat
<1>1. IsFiniteSet(1..Len(s))
  BY FS_Interval
<1>2. {i \in DOMAIN s : s[i] = o} \in SUBSET (1..Len(s))
  OBVIOUS
<1>3. IsFiniteSet({i \in DOMAIN s : s[i] = o})
  BY <1>1, <1>2, FS_Subset
<1> QED
  BY <1>3, FS_CardinalityType DEF Uses

(* Sequence r is s with another item at q; with one more behind p items.   *)
Replaced(s, r, q) ==
  /\ Len(r) = Len(s)
  /\ q \in 1..Len(s)
  /\ \A i \in 1..Len(s) : i # q => r[i] = s[i]

Inserted(s, r, p) ==
  /\ Len(r) = Len(s) + 1
  /\ p \in 0..Len(s)
  /\ \A i \in 1..p : r[i] = s[i]
  /\ \A i \in p + 1 .. Len(s) : r[i + 1] = s[i]

(* One item is replaced. *)
LEMMA UsesReplaced ==
  ASSUME NEW s \in Seq(Objects), NEW r \in Seq(Objects), NEW q,
         Replaced(s, r, q), NEW o
  PROVE  Uses(r, o) = Uses(s, o) - (IF s[q] = o THEN 1 ELSE 0)
                                 + (IF r[q] = o THEN 1 ELSE 0)
<1> USE DEF Replaced
<1> DEFINE A == {i \in DOMAIN s : s[i] = o}
           B == {i \in DOMAIN r : r[i] = o}
<1>1. A \ {q} = B \ {q}
  OBVIOUS
<1>2. IsFiniteSet(A) /\ IsFiniteSet(B) /\ Uses(s, o) \in Nat /\ Uses(r, o) \in Nat
  BY UsesType
<1>3. Cardinality(A \ {q}) = IF q \in A THEN Cardinality(A) - 1 ELSE Cardinality(A)
  BY <1>2, FS_RemoveElement
<1>4. Cardinality(B \ {q}) = IF q \in B THEN Cardinality(B) - 1 ELSE Cardinality(B)
  BY <1>2, FS_RemoveElement
<1>5. Uses(s, o) = Cardinality(A) /\ Uses(r, o) = Cardinality(B)
  BY DEF Uses
<1>6. (q \in A <=> s[q] = o) /\ (q \in B <=> r[q] = o)
  OBVIOUS
<1>7. Cardinality(A \ {q}) = Cardinality(B \ {q})
  BY <1>1
<1> HIDE DEF A, B
<1>8. CASE s[q] = o
  BY <1>2, <1>3, <1>4, <1>5, <1>6, <1>7, <1>8
<1>9. CASE s[q] # o
  BY <1>2, <1>3, <1>4, <1>5, <1>6, <1>7, <1>9
<1> QED
  BY <1>8, <1>9

(* One item is inserted behind the first p: those that follow move up.     *)
LEMMA UsesInserted ==
  ASSUME NEW s \in Seq(Objects), NEW r \in Seq(Objects), NEW p,
         Inserted(s, r, p), NEW o
  PROVE  Uses(r, o) = Uses(s, o) + (IF r[p + 1] = o THEN 1 ELSE 0)
<1> USE DEF Inserted
<1> DEFINE A == {i \in DOMAIN s : s[i] = o}
           B == {i \in DOMAIN r : r[i] = o}
           C == B \ {p + 1}
           Up == [i \in A |-> IF i <= p THEN i ELSE i + 1]
<1>1. IsFiniteSet(A) /\ IsFiniteSet(B) /\ Uses(s, o) \in Nat /\ Uses(r, o) \in Nat
  BY UsesType
<1>2. Up \in [A -> C]
  <2>1. ASSUME NEW i \in A, i <= p PROVE i \in C
    BY <2>1
  <2>2. ASSUME NEW i \in A, ~(i <= p) PROVE i + 1 \in C
    BY <2>2
  <2> QED
    BY <2>1, <2>2
<1>3. \A i, j \in A : Up[i] = Up[j] => i = j
  OBVIOUS
<1>4. ASSUME NEW k \in C PROVE \E i \in A : Up[i] = k
  <2>1. CASE k <= p
    <3>1. k \in A /\ Up[k] = k
      BY <2>1
    <3> QED
      BY <3>1
  <2>2. CASE ~(k <= p)
    <3>1. k - 1 \in p + 1 .. Len(s) /\ (k - 1) + 1 = k
      BY <2>2
    <3>2. k - 1 \in A
      BY <3>1
    <3>3. Up[k - 1] = k
      BY <3>1, <3>2
    <3> QED
      BY <3>2, <3>3
  <2> QED
    BY <2>1, <2>2
<1>5. ExistsBijection(A, C)
  <2> HIDE DEF A, C, Up
  <2>1. Up \in Bijection(A, C)
    BY <1>2, <1>3, <1>4, Fun_IsBij
  <2> QED
    BY <2>1 DEF ExistsBijection
<1>6. Cardinality(C) = Cardinality(A)
  BY <1>1, <1>5, FS_Bijection
<1>7. Cardinality(C) =
        IF p + 1 \in B THEN Cardinality(B) - 1 ELSE Cardinality(B)
  BY <1>1, FS_RemoveElement
<1>8. Uses(s, o) = Cardinality(A) /\ Uses(r, o) = Cardinality(B)
  BY DEF Uses
<1>9. p + 1 \in B <=> r[p + 1] = o
  OBVIOUS
<1> HIDE DEF A, B, C
<1>10. CASE r[p + 1] = o
  <2>1. Cardinality(C) = Cardinality(B) - 1
    BY <1>7, <1>9, <1>10
  <2> QED
    BY <1>1, <1>6, <1>8, <1>10, <2>1
<1>11. CASE r[p + 1] # o
  <2>1. Cardinality(C) = Cardinality(B)
    BY <1>7, <1>9, <1>11
  <2> QED
    BY <1>1, <1>6, <1>8, <1>11, <2>1
<1> QED
  BY <1>10, <1>11

(* Nothing is used by no items. *)
LEMMA UsesNone ==
  ASSUME NEW s, DOMAIN s = {}, NEW o
  PROVE  Uses(s, o) = 0
<1>1. {i \in DOMAIN s : s[i] = o} = {}
  OBVIOUS
<1> QED
  BY <1>1, FS_EmptySet DEF Uses

(* The items of the list are a sequence of objects. *)
LEMMA ContentType ==
  ASSUME TypeOK
  PROVE  /\ Content \in Seq(Objects)
         /\ Len(Content) = count
         /\ \A i \in 1..count : Content[i] = items[i]
<1> USE DEF TypeOK, Content
<1>1. Content = [i \in 1..count |-> items[i]]
  OBVIOUS
<1> QED
  BY <1>1

(* Shape in two parts: the array, and the reference counts. *)
ArrayShape ==
  /\ alive \in BOOLEAN /\ corrupt \in BOOLEAN
  /\ count \in Nat /\ capacity \in Nat
  /\ items \in Seq(Objects \cup {Unset})
  /\ count <= Len(items)
  /\ \A i \in 1..count : items[i] \in Objects
  /\ count <= capacity
  /\ Len(items) <= capacity
  /\ ~alive => count = 0

CountShape ==
  /\ refs \in [Objects -> Int]
  /\ held \in [Objects -> 0..MaxHeld]
  /\ doubled \in [Objects -> Nat]

(* The shape is the shape of the array and that of the counts.             *)
LEMMA ShapeParts == Shape <=> ArrayShape /\ CountShape
  BY DEF Shape, TypeOK, NeverGrows, ArrayWithinCapacity, NoListNoItems, ArrayShape, CountShape

(* What has as many slots as the array, with objects in them, is an array. *)
LEMMA ArrayType ==
  ASSUME NEW S, NEW a \in Seq(S), NEW f \in [DOMAIN a -> S]
  PROVE  f \in Seq(S) /\ Len(f) = Len(a) /\ DOMAIN f = 1..Len(a)
<1>1. DOMAIN a = 1..Len(a) /\ Len(a) \in Nat
  OBVIOUS
<1> QED
  BY <1>1

(* The empty array. *)
LEMMA EmptyArray ==
  ASSUME NEW S
  PROVE  /\ <<>> \in Seq(S) /\ Len(<<>>) = 0
         /\ \A i \in 1..0 : <<>>[i] \in S
  OBVIOUS

(* A new list has the shape.                                               *)
LEMMA ShapeInit == Init => Shape
<1> SUFFICES ASSUME Init PROVE ArrayShape /\ CountShape
  BY ShapeParts
<1>1. ArrayShape
  <2>1. items \in Seq(Objects \cup {Unset}) /\ Len(items) = 0
    BY EmptyArray DEF Init
  <2>2. \A i \in 1..count : items[i] \in Objects
    BY DEF Init
  <2>3. count = 0 /\ capacity = 0 /\ alive \in BOOLEAN /\ corrupt \in BOOLEAN
    BY DEF Init
  <2> QED
    BY <2>1, <2>2, <2>3 DEF ArrayShape
<1>2. CountShape
  BY ListAssumption DEF Init, CountShape
<1> QED
  BY <1>1, <1>2

(* Every operation keeps the shape.                                        *)
LEMMA ShapeStep ==
  ASSUME ArrayShape, CountShape, [Next]_vars
  PROVE  ArrayShape' /\ CountShape'
<1> USE DEF ArrayShape, CountShape
<1>0. TypeOK
  BY DEF TypeOK
<1>1. ASSUME NEW s \in Literals, New(s) PROVE ArrayShape' /\ CountShape'
  <2>1. PICK n \in 0..MaxLength : s \in [1..n -> Objects]
    BY <1>1 DEF Literals
  <2>2. n \in Nat
    BY ListAssumption
  <2>3. s \in Seq(Objects) /\ s \in Seq(Objects \cup {Unset}) /\ Len(s) = n
    BY <2>1, <2>2
  <2>4. \A o \in Objects : Uses(s, o) \in Nat
    BY <2>3, UsesType
  <2>5. ArrayShape'
    BY <1>1, <2>2, <2>3 DEF New, LiteralCapacity
  <2>6. CountShape'
    BY <1>1, <2>4 DEF New
  <2> QED
    BY <2>5, <2>6
<1>2. ASSUME NEW position \in Positions, GetItem(position)
      PROVE  ArrayShape' /\ CountShape'
  <2>1. ArrayShape'
    BY <1>2, ListAssumption DEF GetItem, Absolute, Positions
  <2>2. CountShape'
    <3>1. Absolute(position) \in 0..count - 1
      BY <1>2 DEF GetItem
    <3>2. PICK x \in Objects : x = items[Absolute(position) + 1]
      BY <3>1
    <3>3. held[x] < MaxHeld /\ held' = [held EXCEPT ![x] = @ + 1]
      BY <1>2, <3>2 DEF GetItem
    <3>4. refs' = [refs EXCEPT ![x] = @ + 1] /\ doubled' = doubled
      BY <1>2, <3>2 DEF GetItem
    <3> QED
      BY <3>3, <3>4, ListAssumption
  <2> QED
    BY <2>1, <2>2
<1>3. ASSUME NEW position \in Positions, PopShrinking(position)
      PROVE  ArrayShape' /\ CountShape'
  <2>1. ArrayShape'
    BY <1>3, ListAssumption DEF PopShrinking, Absolute, Positions
  <2>2. CountShape'
    <3>1. Absolute(position) \in 0..count - 1
      BY <1>3 DEF PopShrinking
    <3>2. items[Absolute(position) + 1] \in Objects
      BY <3>1
    <3>3. PICK x \in Objects : x = items[Absolute(position) + 1]
      BY <3>2
    <3>4. held[x] < MaxHeld /\ held' = [held EXCEPT ![x] = @ + 1]
      BY <1>3, <3>3 DEF PopShrinking
    <3>5. doubled' = [doubled EXCEPT ![x] = @ + 1] /\ refs' = refs
      BY <1>3, <3>3 DEF PopShrinking
    <3> QED
      BY <3>4, <3>5, ListAssumption
  <2> QED
    BY <2>1, <2>2
<1>4. ASSUME NEW position \in Positions, PopInPlace(position)
      PROVE  ArrayShape' /\ CountShape'
  <2>1. ArrayShape'
    <3>1. items' \in [DOMAIN items -> Objects \cup {Unset}]
      BY <1>4, ListAssumption, SMTT(30) DEF PopInPlace, Absolute, Positions
    <3>2. items' \in Seq(Objects \cup {Unset}) /\ Len(items') = Len(items)
      BY <3>1, ArrayType
    <3>3. \A i \in 1..count' : items'[i] \in Objects
      BY <1>4, <3>1, ListAssumption DEF PopInPlace, Absolute, Positions
    <3> QED
      <4>1. Absolute(position) \in 0..count - 1
        BY <1>4 DEF PopInPlace
      <4>2. count' \in Nat /\ count' <= count
        BY <1>4, <4>1 DEF PopInPlace
      <4>3. UNCHANGED <<alive, capacity, corrupt>>
        BY <1>4 DEF PopInPlace
      <4> QED
        BY <3>2, <3>3, <4>2, <4>3
  <2>2. CountShape'
    <3>1. Absolute(position) \in 0..count - 1
      BY <1>4 DEF PopInPlace
    <3>2. PICK x \in Objects : x = items[Absolute(position) + 1]
      BY <3>1
    <3>3. held[x] < MaxHeld /\ held' = [held EXCEPT ![x] = @ + 1]
      BY <1>4, <3>2 DEF PopInPlace
    <3>4. refs' = refs /\ doubled' = doubled
      BY <1>4 DEF PopInPlace
    <3> QED
      BY <3>3, <3>4, ListAssumption
  <2> QED
    BY <2>1, <2>2
<1>5. ASSUME NEW position \in Positions, NEW o \in Objects, SetItem(position, o)
      PROVE  ArrayShape' /\ CountShape'
  <2>1. ArrayShape'
    <3>1. PICK q : q \in 1..count /\ items' = [items EXCEPT ![q] = o]
      <4>1. Absolute(position) \in 0..count - 1
        BY <1>5 DEF SetItem
      <4>2. Absolute(position) + 1 \in 1..count
        BY <4>1
      <4>3. items' = [items EXCEPT ![Absolute(position) + 1] = o]
        BY <1>5 DEF SetItem
      <4> QED
        BY <4>2, <4>3
    <3>2. UNCHANGED <<alive, count, capacity, corrupt>>
      BY <1>5 DEF SetItem
    <3>3. items' \in Seq(Objects \cup {Unset}) /\ Len(items') = Len(items)
      <4>1. items' \in [DOMAIN items -> Objects \cup {Unset}]
        BY <3>1
      <4> QED
        BY <4>1, ArrayType
    <3>4. \A i \in 1..count' : items'[i] \in Objects
      BY <3>1, <3>2
    <3> QED
      BY <3>2, <3>3, <3>4
  <2>2. CountShape'
    <3>1. Absolute(position) \in 0..count - 1
      BY <1>5 DEF SetItem
    <3>2. items[Absolute(position) + 1] \in Objects
      BY <3>1
    <3>3. PICK x \in Objects : x = items[Absolute(position) + 1]
      BY <3>2
    <3>4. refs' = [[refs EXCEPT ![x] = @ - 1] EXCEPT ![o] = @ + 1]
      BY <1>5, <3>3 DEF SetItem
    <3>5. held' = held /\ doubled' = doubled
      BY <1>5 DEF SetItem
    <3> DEFINE less == [refs EXCEPT ![x] = @ - 1]
    <3>6. less \in [Objects -> Int]
      BY <3>3
    <3>7. refs' = [less EXCEPT ![o] = @ + 1]
      BY <3>4
    <3> HIDE DEF less
    <3>8. refs' \in [Objects -> Int]
      BY <3>6, <3>7
    <3> QED
      BY <3>5, <3>8
  <2> QED
    BY <2>1, <2>2
<1>6. ASSUME NEW position \in Positions, NEW o \in Objects, Insert(position, o)
      PROVE  ArrayShape' /\ CountShape'
  <2>1. HasRoom
    BY DEF HasRoom
  <2>2. CASE count < Len(items)
    <3>1. ArrayShape'
      <4>0. PICK p \in 0..count :
              items' = [i \in DOMAIN items |->
                          IF i <= p THEN items[i] ELSE IF i = p + 1 THEN o
                          ELSE IF i <= count + 1 THEN items[i - 1] ELSE items[i]]
        BY <1>6, <2>1, <2>2 DEF Insert
      <4>1. items' \in [DOMAIN items -> Objects \cup {Unset}]
        BY <4>0, <2>2
      <4>2. items' \in Seq(Objects \cup {Unset}) /\ Len(items') = Len(items)
        BY <4>1, ArrayType
      <4>3. \A i \in 1..count' : items'[i] \in Objects
        <5>1. count' = count + 1
          BY <1>6, <2>1, <2>2 DEF Insert
        <5> QED
          BY <4>0, <5>1, <2>2
      <4>4. count' = count + 1 /\ UNCHANGED <<alive, capacity, corrupt>>
        BY <1>6, <2>1, <2>2 DEF Insert
      <4>5. ~alive' => count' = 0
        BY <1>6, <4>4 DEF Insert, Usable
      <4> QED
        BY <2>2, <4>2, <4>3, <4>4, <4>5
    <3>2. CountShape'
      <4>1. refs' = [refs EXCEPT ![o] = @ + 1]
        BY <1>6, <2>1, <2>2 DEF Insert
      <4>2. held' = held /\ doubled' = doubled
        BY <1>6 DEF Insert
      <4> QED
        BY <4>1, <4>2
    <3> QED
      BY <3>1, <3>2
  <2>3. CASE ~(count < Len(items))
    BY <1>6, <2>1, <2>3 DEF Insert
  <2> QED
    BY <2>2, <2>3
<1>7. CASE Clear \/ Delete
  <2>1. \A o \in Objects : Uses(Content, o) \in Nat
    <3>1. Content \in Seq(Objects \cup {Unset})
      BY <1>0, ContentType
    <3> QED
      BY <3>1, UsesType
  <2>2. Released \in [Objects -> Int]
    BY <2>1 DEF Released
  <2>3. ArrayShape'
    <3>1. items' \in Seq(Objects \cup {Unset}) /\ Len(items') = 0
      BY <1>7, EmptyArray DEF Clear, Delete
    <3> QED
      <4>1. count' = 0 /\ capacity' \in Nat
        BY <1>7 DEF Clear, Delete, ClearedCapacity
      <4>2. alive' \in {alive, FALSE} /\ corrupt' = corrupt
        BY <1>7 DEF Clear, Delete
      <4>3. \A i \in 1..count' : items'[i] \in Objects
        BY <4>1
      <4>4. alive' \in BOOLEAN /\ corrupt' \in BOOLEAN
        BY <4>2
      <4> QED
        BY <3>1, <4>1, <4>3, <4>4
  <2>4. CountShape'
    BY <1>7, <2>2 DEF Clear, Delete
  <2> QED
    BY <2>3, <2>4
<1>8. ASSUME NEW o \in Objects, Drop(o)
      PROVE  ArrayShape' /\ CountShape'
  <2>1. ArrayShape'
    BY <1>8, ListAssumption DEF Drop
  <2>2. CountShape'
    BY <1>8, ListAssumption DEF Drop
  <2> QED
    BY <2>1, <2>2
<1>9. CASE UNCHANGED vars
  BY <1>9 DEF vars
<1> QED
  BY <1>1, <1>2, <1>3, <1>4, <1>5, <1>6, <1>7, <1>8, <1>9, NextSteps DEF Steps

(* The shape holds in every state.                                         *)
LEMMA ShapeInvariant == Spec => []Shape
<1>1. Shape /\ [Next]_vars => Shape'
  BY ShapeStep
     DEF Shape, TypeOK, NeverGrows, ArrayWithinCapacity, NoListNoItems, ArrayShape, CountShape
<1> QED
  BY <1>1, ShapeInit, PTL DEF Spec

(* The type invariant, for any objects and bounds: a list that exists has  *)
(* written each of its items, and callers never hold more than the bound.  *)
THEOREM ListTypeCorrect == Spec => []TypeOK
  BY ShapeInvariant, PTL DEF Shape

(* The code of list_insert that grows the array is dead, however lists are *)
(* used and however long they are.                                         *)
THEOREM ListNeverGrows == Spec => []NeverGrows
  BY ShapeInvariant, PTL DEF Shape
-------------------------------------------------------------------------------
(* RefsBalance is inductive together with the shape of the array. What     *)
(* each operation does to the content is one of the three lemmas above.    *)

Balance(o) == refs[o] = held[o] + Uses(Content, o) - doubled[o]

(* The references balance before the first operation.                      *)
LEMMA BalanceInit == Init => RefsBalance
<1> SUFFICES ASSUME Init, NEW o \in Objects PROVE Balance(o)
  BY DEF RefsBalance, Balance
<1>1. DOMAIN Content = {}
  BY DEF Init, Content
<1>2. Uses(Content, o) = 0
  BY <1>1, UsesNone
<1> QED
  BY <1>2 DEF Init, Balance

(* The new content is a sequence of objects, too. *)
LEMMA NewContentType ==
  ASSUME ArrayShape'
  PROVE  /\ Content' \in Seq(Objects) /\ Len(Content') = count'
         /\ \A i \in 1..count' : Content'[i] = items'[i]
<1>1. Content' = [i \in 1..count' |-> items'[i]]
  BY DEF Content, ArrayShape
<1> QED
  BY <1>1 DEF ArrayShape

(* Every operation keeps the balance of the references.                    *)
LEMMA BalanceStep ==
  ASSUME ArrayShape, CountShape, RefsBalance, [Next]_vars
  PROVE  RefsBalance'
<1> USE DEF CountShape
<1> SUFFICES ASSUME NEW x \in Objects PROVE Balance(x)'
  BY DEF RefsBalance, Balance
<1>1. Balance(x) /\ ArrayShape' /\ TypeOK
  BY ShapeStep DEF RefsBalance, Balance, ArrayShape, TypeOK
<1>2. PICK old \in Seq(Objects) :
        /\ old = Content /\ Len(old) = count
        /\ \A i \in 1..count : old[i] = items[i]
  BY <1>1, ContentType
<1>3. PICK new \in Seq(Objects) :
        /\ new = Content' /\ Len(new) = count'
        /\ \A i \in 1..count' : new[i] = items'[i]
  BY <1>1, NewContentType
<1>0. /\ count \in Nat /\ Len(items) \in Nat /\ count <= Len(items)
      /\ DOMAIN items = 1..Len(items)
  BY DEF ArrayShape
<1>4. /\ Uses(old, x) \in Int /\ Uses(new, x) \in Int
      /\ refs[x] \in Int /\ held[x] \in Int /\ doubled[x] \in Int
      /\ refs[x] = held[x] + Uses(old, x) - doubled[x]
      /\ Balance(x)' <=> refs'[x] = held'[x] + Uses(new, x) - doubled'[x]
  <2>1. Uses(old, x) \in Nat /\ Uses(new, x) \in Nat
    BY UsesType
  <2>2. refs[x] \in Int /\ held[x] \in Int /\ doubled[x] \in Int
    BY ListAssumption
  <2> QED
    BY <1>1, <1>2, <1>3, <2>1, <2>2 DEF Balance
<1>5. ASSUME NEW s \in Literals, New(s) PROVE Balance(x)'
  <2>1. new = s
    <3>1. PICK n \in 0..MaxLength : s \in [1..n -> Objects]
      BY <1>5 DEF Literals
    <3>2. n \in Nat
      BY ListAssumption
    <3>3. s \in Seq(Objects) /\ Len(s) = n
      BY <3>1, <3>2
    <3>4. items' = s /\ count' = Len(s)
      BY <1>5 DEF New
    <3>5. \A i \in 1..Len(s) : new[i] = s[i]
      BY <1>3, <3>4
    <3> QED
      BY <1>3, <3>3, <3>4, <3>5
  <2>2. refs'[x] = refs[x] + Uses(s, x) /\ held' = held /\ doubled' = doubled
    BY <1>5 DEF New
  <2>3. count = 0
    BY <1>5 DEF New, ArrayShape
  <2>4. Uses(old, x) = 0
    BY <1>2, <2>3, UsesNone
  <2> QED
    BY <1>4, <2>1, <2>2, <2>4
<1>6. ASSUME NEW position \in Positions, GetItem(position) PROVE Balance(x)'
  <2>1. PICK o \in Objects : /\ refs' = [refs EXCEPT ![o] = @ + 1]
                           /\ held' = [held EXCEPT ![o] = @ + 1]
    <3>1. Absolute(position) \in 0..count - 1
      BY <1>6 DEF GetItem
    <3>2. items[Absolute(position) + 1] \in Objects
      BY <3>1 DEF ArrayShape
    <3> QED
      BY <1>6, <3>2 DEF GetItem
  <2>2. doubled' = doubled /\ new = old
    BY <1>2, <1>3, <1>6 DEF GetItem, Content
  <2>3. /\ refs'[x] = refs[x] + (IF o = x THEN 1 ELSE 0)
        /\ held'[x] = held[x] + (IF o = x THEN 1 ELSE 0)
    BY <2>1
  <2> QED
    BY <1>4, <2>2, <2>3
<1>7. ASSUME NEW position \in Positions, PopShrinking(position) PROVE Balance(x)'
  <2>1. PICK o \in Objects : /\ doubled' = [doubled EXCEPT ![o] = @ + 1]
                           /\ held' = [held EXCEPT ![o] = @ + 1]
    <3>1. Absolute(position) \in 0..count - 1
      BY <1>7 DEF PopShrinking
    <3>2. items[Absolute(position) + 1] \in Objects
      BY <3>1 DEF ArrayShape
    <3>3. PICK o \in Objects : o = items[Absolute(position) + 1]
      BY <3>2
    <3>4. doubled' = [doubled EXCEPT ![o] = @ + 1]
      BY <1>7, <3>3 DEF PopShrinking
    <3>5. held' = [held EXCEPT ![o] = @ + 1]
      BY <1>7, <3>3 DEF PopShrinking
    <3> QED
      BY <3>4, <3>5
  <2>2. refs' = refs /\ new = old
    BY <1>2, <1>3, <1>7 DEF PopShrinking, Content
  <2> QED
    BY <1>4, <2>1, <2>2
<1>8. ASSUME NEW position \in Positions, PopInPlace(position) PROVE Balance(x)'
  <2>1. PICK p \in Int :
          /\ p \in 0..count - 1
          /\ held' = [held EXCEPT ![items[p + 1]] = @ + 1]
          /\ items' = [i \in DOMAIN items |->
                         IF i \in p + 1 .. count - 1 THEN items[i + 1] ELSE items[i]]
    <3>1. Absolute(position) \in Int /\ Absolute(position) \in 0..count - 1
      BY <1>0, <1>8 DEF PopInPlace
    <3> QED
      BY <1>8, <3>1 DEF PopInPlace
  <2>2. count' = count - 1 /\ refs' = refs /\ doubled' = doubled
    BY <1>8 DEF PopInPlace
  <2>3. p \in 0..Len(new) /\ Len(old) = Len(new) + 1
    BY <1>0, <1>2, <1>3, <2>1, <2>2
  <2>4. ASSUME NEW i \in 1..p PROVE old[i] = new[i]
    <3>1. i \in 1..count /\ i \in 1..count' /\ i \in DOMAIN items
      BY <1>0, <2>1, <2>2
    <3>2. items'[i] = items[i]
      BY <1>0, <2>1, <3>1
    <3> QED
      BY <1>2, <1>3, <3>1, <3>2
  <2>5. ASSUME NEW i \in p + 1 .. Len(new) PROVE old[i + 1] = new[i]
    <3>1. i + 1 \in 1..count /\ i \in 1..count' /\ i \in DOMAIN items
      BY <1>0, <1>2, <2>1, <2>2, <2>3
    <3>2. items'[i] = items[i + 1]
      BY <1>0, <2>1, <2>2, <3>1
    <3> QED
      BY <1>2, <1>3, <3>1, <3>2
  <2>6. Uses(old, x) = Uses(new, x) + (IF old[p + 1] = x THEN 1 ELSE 0)
    <3>1. Inserted(new, old, p)
      BY <2>3, <2>4, <2>5 DEF Inserted
    <3> QED
      BY <3>1, UsesInserted
  <2>7. PICK y \in Objects : y = old[p + 1] /\ y = items[p + 1]
    <3>1. p + 1 \in 1..count
      BY <1>0, <2>1
    <3>2. old[p + 1] = items[p + 1] /\ items[p + 1] \in Objects
      BY <1>2, <3>1 DEF ArrayShape
    <3> QED
      BY <3>2
  <2>8. held' = [held EXCEPT ![y] = @ + 1]
    BY <2>1, <2>7
  <2>9. held'[x] = held[x] + (IF y = x THEN 1 ELSE 0)
    BY <2>8
  <2> QED
    BY <1>4, <2>2, <2>6, <2>7, <2>9
<1>9. ASSUME NEW position \in Positions, NEW o \in Objects, SetItem(position, o)
      PROVE  Balance(x)'
  <2>1. PICK q \in Int :
          /\ q \in 1..count
          /\ items' = [items EXCEPT ![q] = o]
          /\ refs' = [[refs EXCEPT ![items[q]] = @ - 1] EXCEPT ![o] = @ + 1]
    <3>1. Absolute(position) \in 0..count - 1
      BY <1>9 DEF SetItem
    <3>2. Absolute(position) + 1 \in Int /\ Absolute(position) + 1 \in 1..count
      BY <1>0, <3>1
    <3>3. items' = [items EXCEPT ![Absolute(position) + 1] = o]
      BY <1>9 DEF SetItem
    <3>4. refs' = [[refs EXCEPT ![items[Absolute(position) + 1]] = @ - 1]
                     EXCEPT ![o] = @ + 1]
      BY <1>9 DEF SetItem
    <3> QED
      BY <3>2, <3>3, <3>4
  <2>2. count' = count /\ held' = held /\ doubled' = doubled
    BY <1>9 DEF SetItem
  <2>3. Len(new) = Len(old) /\ q \in 1..Len(old)
    BY <1>2, <1>3, <2>1, <2>2
  <2>4. new[q] = o
    <3>1. items'[q] = o
      BY <1>0, <2>1
    <3> QED
      BY <1>3, <2>1, <2>2, <3>1
  <2>5. ASSUME NEW i \in 1..Len(old), i # q PROVE new[i] = old[i]
    <3>1. i \in 1..count /\ i \in 1..count' /\ i \in DOMAIN items
      BY <1>0, <1>2, <2>2
    <3>2. items'[i] = items[i]
      BY <2>1, <2>5, <3>1
    <3> QED
      BY <1>2, <1>3, <3>1, <3>2
  <2>6. Uses(new, x) = Uses(old, x) - (IF old[q] = x THEN 1 ELSE 0)
                                    + (IF new[q] = x THEN 1 ELSE 0)
    <3>1. Replaced(old, new, q)
      BY <2>3, <2>5 DEF Replaced
    <3> QED
      BY <3>1, UsesReplaced
  <2>7. PICK y \in Objects : y = old[q] /\ y = items[q]
    BY <1>2, <2>1
  <2>8. refs' = [[refs EXCEPT ![y] = @ - 1] EXCEPT ![o] = @ + 1]
    BY <2>1, <2>7
  <2>9. refs'[x] = refs[x] - (IF y = x THEN 1 ELSE 0) + (IF o = x THEN 1 ELSE 0)
    BY <2>8
  <2>10. Uses(new, x) = Uses(old, x) - (IF y = x THEN 1 ELSE 0)
                                     + (IF o = x THEN 1 ELSE 0)
    BY <2>4, <2>6, <2>7
  <2>11. held'[x] = held[x] /\ doubled'[x] = doubled[x]
    BY <2>2
  <2>12. PICK r \in Int, h \in Int, u \in Int, d \in Int :
           r = refs[x] /\ h = held[x] /\ u = Uses(old, x) /\ d = doubled[x]
    BY <1>4
  <2>13. r = h + u - d
    BY <1>4, <2>12
  <2>14. CASE y = o
    <3>1. refs'[x] = refs[x] /\ Uses(new, x) = Uses(old, x)
      BY <1>4, <2>9, <2>10, <2>14, SMTT(30)
    <3> QED
      BY <1>4, <2>11, <3>1
  <2>15. CASE y # o /\ y = x
    <3>1. refs'[x] = refs[x] - 1 /\ Uses(new, x) = Uses(old, x) - 1
      BY <1>4, <2>9, <2>10, <2>15
    <3>2. r - 1 = h + (u - 1) - d
      BY <2>13
    <3>3. refs'[x] = held'[x] + Uses(new, x) - doubled'[x]
      BY <2>11, <2>12, <3>1, <3>2, Zenon
    <3> QED
      BY <1>4, <3>3, Zenon
  <2>16. CASE y # o /\ o = x
    <3>1. refs'[x] = refs[x] + 1 /\ Uses(new, x) = Uses(old, x) + 1
      BY <1>4, <2>9, <2>10, <2>16
    <3>2. r + 1 = h + (u + 1) - d
      BY <2>13
    <3>3. refs'[x] = held'[x] + Uses(new, x) - doubled'[x]
      BY <2>11, <2>12, <3>1, <3>2, Zenon
    <3> QED
      BY <1>4, <3>3, Zenon
  <2>17. CASE y # x /\ o # x
    <3>1. refs'[x] = refs[x] /\ Uses(new, x) = Uses(old, x)
      BY <1>4, <2>9, <2>10, <2>17
    <3> QED
      BY <1>4, <2>11, <3>1
  <2> QED
    BY <2>14, <2>15, <2>16, <2>17
<1>10. ASSUME NEW position \in Positions, NEW o \in Objects, Insert(position, o)
       PROVE  Balance(x)'
  <2>1. CASE count < Len(items)
    <3>1. PICK p \in 0..count :
            items' = [i \in DOMAIN items |->
                        IF i <= p THEN items[i] ELSE IF i = p + 1 THEN o
                        ELSE IF i <= count + 1 THEN items[i - 1] ELSE items[i]]
      BY <1>10, <2>1 DEF Insert, HasRoom, ArrayShape
    <3>2. /\ count' = count + 1 /\ refs' = [refs EXCEPT ![o] = @ + 1]
          /\ held' = held /\ doubled' = doubled
      BY <1>10, <2>1 DEF Insert, HasRoom, ArrayShape
    <3>3. p \in 0..Len(old) /\ Len(new) = Len(old) + 1
      BY <1>2, <1>3, <3>2
    <3>4. ASSUME NEW i \in 1..p PROVE new[i] = old[i]
      <4>1. i \in 1..count /\ i \in 1..count' /\ i \in DOMAIN items
        BY <1>0, <3>2
      <4>2. items'[i] = items[i]
        BY <3>1, <4>1
      <4> QED
        BY <1>2, <1>3, <4>1, <4>2
    <3>5. ASSUME NEW i \in p + 1 .. Len(old) PROVE new[i + 1] = old[i]
      <4>1. i \in 1..count /\ i + 1 \in 1..count' /\ i + 1 \in DOMAIN items
        BY <1>0, <1>2, <2>1, <3>2
      <4>2. items'[i + 1] = items[i]
        BY <1>0, <3>1, <4>1
      <4> QED
        BY <1>2, <1>3, <4>1, <4>2
    <3>6. new[p + 1] = o
      <4>1. p + 1 \in 1..count' /\ p + 1 \in DOMAIN items
        BY <1>0, <2>1, <3>2
      <4>2. items'[p + 1] = o
        BY <1>0, <3>1, <4>1
      <4> QED
        BY <1>3, <4>1, <4>2
    <3>7. Uses(new, x) = Uses(old, x) + (IF new[p + 1] = x THEN 1 ELSE 0)
      <4>1. Inserted(old, new, p)
        BY <3>3, <3>4, <3>5 DEF Inserted
      <4> QED
        BY <4>1, UsesInserted
    <3> QED
      BY <1>4, <3>2, <3>6, <3>7, SMTT(30)
  <2>2. CASE ~(count < Len(items))
    <3>1. UNCHANGED <<items, count, refs, held, doubled>>
      BY <1>10, <2>2 DEF Insert, HasRoom, ArrayShape
    <3> QED
      BY <1>1, <3>1 DEF Balance, Content
  <2> QED
    BY <2>1, <2>2
<1>11. CASE Clear \/ Delete
  <2>1. DOMAIN new = {}
    BY <1>3, <1>11 DEF Clear, Delete
  <2>2. Uses(new, x) = 0
    BY <2>1, UsesNone
  <2>3. refs' = Released /\ held' = held /\ doubled' = doubled
    BY <1>11 DEF Clear, Delete
  <2>4. refs'[x] = refs[x] - Uses(old, x)
    BY <1>2, <2>3 DEF Released
  <2> QED
    BY <1>4, <2>2, <2>3, <2>4
<1>12. ASSUME NEW o \in Objects, Drop(o) PROVE Balance(x)'
  <2>1. doubled' = doubled /\ new = old
    BY <1>2, <1>3, <1>12 DEF Drop, Content
  <2>2. refs' = [refs EXCEPT ![o] = @ - 1] /\ held' = [held EXCEPT ![o] = @ - 1]
    BY <1>12 DEF Drop
  <2>3. /\ refs'[x] = refs[x] - (IF o = x THEN 1 ELSE 0)
        /\ held'[x] = held[x] - (IF o = x THEN 1 ELSE 0)
    BY <2>2
  <2> QED
    BY <1>4, <2>1, <2>3
<1>13. CASE UNCHANGED vars
  BY <1>1, <1>13 DEF vars, Balance, Content
<1> QED
  BY <1>5, <1>6, <1>7, <1>8, <1>9, <1>10, <1>11, <1>12, <1>13, NextSteps DEF Steps

(* However a list is used, the count of every object is what its callers   *)
(* own and what the list owns, but for what pop handed out while it kept   *)
(* it: nothing else is ever leaked or deleted twice.                       *)
THEOREM ListRefsBalance == Spec => []RefsBalance
<1>1. Init => ArrayShape /\ CountShape /\ RefsBalance
  BY ShapeInit, BalanceInit
     DEF Shape, TypeOK, NeverGrows, ArrayWithinCapacity, NoListNoItems,
         ArrayShape, CountShape
<1>2. /\ ArrayShape /\ CountShape /\ RefsBalance /\ [Next]_vars
      => (ArrayShape /\ CountShape /\ RefsBalance)'
  BY ShapeStep, BalanceStep
<1> QED
  BY <1>1, <1>2, PTL DEF Spec
-------------------------------------------------------------------------------
(* What the operations do to the content is what sequences call it. *)

(* Two sequences with the same items are the same.                         *)
LEMMA SameItems ==
  ASSUME NEW s \in Seq(Objects), NEW r \in Seq(Objects), Len(s) = Len(r),
         \A i \in 1..Len(s) : s[i] = r[i]
  PROVE  s = r
  OBVIOUS

(* An item more behind p items is inserted at p + 1.                       *)
LEMMA InsertedIs ==
  ASSUME NEW s \in Seq(Objects), NEW r \in Seq(Objects), NEW p \in Int, NEW o \in Objects,
         Inserted(s, r, p), r[p + 1] = o
  PROVE  r = InsertAt(s, p + 1, o)
<1> DEFINE a == SubSeq(s, 1, p)
           b == SubSeq(s, p + 1, Len(s))
<1>0. Len(s) \in Nat /\ p \in 0..Len(s) /\ Len(r) = Len(s) + 1
  BY DEF Inserted
<1>1. /\ a \in Seq(Objects) /\ Len(a) = p /\ \A i \in 1..p : a[i] = s[i]
  <2>1. a = [i \in 1..p |-> s[i]]
    BY <1>0
  <2> QED
    BY <1>0, <2>1
<1>2. /\ b \in Seq(Objects) /\ Len(b) = Len(s) - p
      /\ \A i \in 1..Len(s) - p : b[i] = s[p + i]
  <2>1. b = [i \in 1..Len(s) - p |-> s[p + i]]
    BY <1>0
  <2>2. \A i \in 1..Len(s) - p : s[p + i] \in Objects
    BY <1>0
  <2> QED
    BY <1>0, <2>1, <2>2
<1> HIDE DEF a, b
<1>3. PICK m \in Seq(Objects) : /\ m = a \o <<o>> /\ Len(m) = p + 1
                                /\ \A i \in 1..p : m[i] = s[i]
                                /\ m[p + 1] = o
  <2>1. /\ <<o>> \in Seq(Objects) /\ Len(<<o>>) = 1 /\ <<o>>[1] = o
        /\ (p + 1) - p = 1 /\ ~(p + 1 <= p)
    BY <1>0
  <2>2. /\ a \o <<o>> \in Seq(Objects) /\ Len(a \o <<o>>) = p + 1
        /\ \A i \in 1..p + 1 : (a \o <<o>>)[i] = IF i <= p THEN a[i] ELSE <<o>>[i - p]
    BY <1>0, <1>1, <2>1, ConcatProperties
  <2>3. (a \o <<o>>)[p + 1] = o
    <3>1. p + 1 \in 1..p + 1
      BY <1>0
    <3> QED
      BY <2>1, <2>2, <3>1
  <2>4. \A i \in 1..p : i \in 1..p + 1 /\ i <= p
    BY <1>0
  <2> QED
    BY <1>1, <2>2, <2>3, <2>4
<1>4. PICK t \in Seq(Objects) : /\ t = m \o b /\ Len(t) = Len(s) + 1
                                /\ \A i \in 1..p + 1 : t[i] = m[i]
                                /\ \A i \in p + 2 .. Len(s) + 1 : t[i] = b[i - (p + 1)]
  <2>1. /\ m \o b \in Seq(Objects) /\ Len(m \o b) = Len(s) + 1
        /\ \A i \in 1..Len(s) + 1 :
             (m \o b)[i] = IF i <= p + 1 THEN m[i] ELSE b[i - (p + 1)]
    <3>1. (p + 1) + (Len(s) - p) = Len(s) + 1
      BY <1>0
    <3>2. /\ m \o b \in Seq(Objects) /\ Len(m \o b) = Len(m) + Len(b)
          /\ \A i \in 1..Len(m) + Len(b) :
               (m \o b)[i] = IF i <= Len(m) THEN m[i] ELSE b[i - Len(m)]
      BY <1>2, <1>3, ConcatProperties
    <3>3. Len(m) = p + 1 /\ Len(m) + Len(b) = Len(s) + 1
      <4>1. Len(m) = p + 1 /\ Len(b) = Len(s) - p
        BY <1>2, <1>3
      <4> QED
        BY <3>1, <4>1
    <3>4. \A i \in 1..Len(s) + 1 :
            (m \o b)[i] = IF i <= p + 1 THEN m[i] ELSE b[i - (p + 1)]
      BY <3>2, <3>3
    <3> QED
      BY <3>2, <3>3, <3>4
  <2>2. /\ \A i \in 1..p + 1 : i \in 1..Len(s) + 1 /\ i <= p + 1
        /\ \A i \in p + 2 .. Len(s) + 1 : i \in 1..Len(s) + 1 /\ ~(i <= p + 1)
    BY <1>0
  <2> QED
    BY <2>1, <2>2
<1>5. ASSUME NEW i \in 1..Len(r) PROVE r[i] = t[i]
  <2>1. CASE i <= p
    BY <1>0, <1>3, <1>4, <2>1 DEF Inserted
  <2>2. CASE i = p + 1
    BY <1>0, <1>3, <1>4, <2>2
  <2>3. CASE i > p + 1
    <3>1. i - 1 \in p + 1 .. Len(s) /\ (i - 1) + 1 = i
      BY <1>0, <2>3
    <3>2. r[i] = s[i - 1]
      BY <3>1 DEF Inserted
    <3>3. PICK j \in 1..Len(s) - p : j = i - (p + 1) /\ p + j = i - 1
      BY <1>0, <3>1
    <3>4. t[i] = b[j] /\ b[j] = s[i - 1]
      <4>1. i \in p + 2 .. Len(s) + 1
        BY <1>0, <3>1
      <4>2. t[i] = b[j]
        BY <1>4, <3>3, <4>1
      <4>3. b[j] = s[p + j]
        BY <1>2, <3>3
      <4> QED
        BY <3>3, <4>2, <4>3
    <3> QED
      BY <3>2, <3>4
  <2> QED
    BY <1>0, <2>1, <2>2, <2>3
<1>6. r = t
  <2>1. Len(r) = Len(t)
    BY <1>0, <1>4
  <2> QED
    BY <1>5, <2>1, SameItems
<1>7. (p + 1) - 1 = p
  BY <1>0
<1> QED
  BY <1>3, <1>4, <1>6, <1>7 DEF InsertAt, a, b

(* What is left when the item behind p items is gone.                      *)
LEMMA RemovedIs ==
  ASSUME NEW s \in Seq(Objects), NEW r \in Seq(Objects), NEW p \in Int, Inserted(r, s, p)
  PROVE  r = RemoveAt(s, p + 1)
<1> DEFINE a == SubSeq(s, 1, p)
           b == SubSeq(s, p + 2, Len(s))
<1>0. Len(r) \in Nat /\ p \in 0..Len(r) /\ Len(s) = Len(r) + 1
  BY DEF Inserted
<1>1. /\ a \in Seq(Objects) /\ Len(a) = p /\ \A i \in 1..p : a[i] = s[i]
  <2>1. a = [i \in 1..p |-> s[i]]
    BY <1>0
  <2> QED
    BY <1>0, <2>1
<1>2. /\ b \in Seq(Objects) /\ Len(b) = Len(r) - p
      /\ \A i \in 1..Len(r) - p : b[i] = s[p + 1 + i]
  <2>1. b = [i \in 1..Len(r) - p |-> s[p + 1 + i]]
    BY <1>0
  <2>2. \A i \in 1..Len(r) - p : s[p + 1 + i] \in Objects
    BY <1>0
  <2> QED
    BY <1>0, <2>1, <2>2
<1> HIDE DEF a, b
<1>3. PICK t \in Seq(Objects) : /\ t = a \o b /\ Len(t) = Len(r)
                                /\ \A i \in 1..p : t[i] = a[i]
                                /\ \A i \in p + 1 .. Len(r) : t[i] = b[i - p]
  <2>1. /\ a \o b \in Seq(Objects) /\ Len(a \o b) = Len(r)
        /\ \A i \in 1..Len(r) : (a \o b)[i] = IF i <= p THEN a[i] ELSE b[i - p]
    <3>1. p + (Len(r) - p) = Len(r)
      BY <1>0
    <3>2. /\ a \o b \in Seq(Objects) /\ Len(a \o b) = Len(a) + Len(b)
          /\ \A i \in 1..Len(a) + Len(b) :
               (a \o b)[i] = IF i <= Len(a) THEN a[i] ELSE b[i - Len(a)]
      BY <1>1, <1>2, ConcatProperties
    <3>3. Len(a) = p /\ Len(b) = Len(r) - p
      BY <1>1, <1>2
    <3> QED
      BY <3>1, <3>2, <3>3
  <2>2. /\ \A i \in 1..p : i \in 1..Len(r) /\ i <= p
        /\ \A i \in p + 1 .. Len(r) : i \in 1..Len(r) /\ ~(i <= p)
    BY <1>0
  <2> QED
    BY <2>1, <2>2
<1>4. ASSUME NEW i \in 1..Len(r) PROVE r[i] = t[i]
  <2>1. CASE i <= p
    BY <1>0, <1>1, <1>3, <2>1 DEF Inserted
  <2>2. CASE i > p
    <3>1. i - p \in 1..Len(r) - p /\ p + 1 + (i - p) = i + 1 /\ i \in p + 1 .. Len(r)
      BY <1>0, <2>2
    <3>2. s[i + 1] = r[i]
      BY <3>1 DEF Inserted
    <3>3. t[i] = b[i - p] /\ b[i - p] = s[p + 1 + (i - p)]
      BY <1>2, <1>3, <3>1
    <3> QED
      BY <3>1, <3>2, <3>3
  <2> QED
    BY <1>0, <2>1, <2>2
<1>5. r = t
  <2>1. Len(r) = Len(t)
    BY <1>3
  <2> QED
    BY <1>4, <2>1, SameItems
<1>6. (p + 1) - 1 = p /\ (p + 1) + 1 = p + 2
  BY <1>0
<1> QED
  BY <1>3, <1>5, <1>6 DEF RemoveAt, a, b

(* Another item at q.                                                      *)
LEMMA ReplacedIs ==
  ASSUME NEW s \in Seq(Objects), NEW r \in Seq(Objects), NEW q, NEW o \in Objects,
         Replaced(s, r, q), r[q] = o
  PROVE  r = ReplaceAt(s, q, o)
<1>1. [s EXCEPT ![q] = o] \in Seq(Objects) /\ Len([s EXCEPT ![q] = o]) = Len(s)
  BY DEF Replaced
<1>2. \A i \in 1..Len(r) : r[i] = [s EXCEPT ![q] = o][i]
  BY DEF Replaced
<1> QED
  BY <1>1, <1>2, SameItems DEF Replaced, ReplaceAt

(* The position that a caller gives is the promise's index.                *)
LEMMA IndexIs ==
  ASSUME ArrayShape, NEW position \in Positions
  PROVE  Promise!Index(position) = Absolute(position) + 1 /\ Absolute(position) \in Int
<1>1. Len(Content) = count
  BY DEF ArrayShape, Content
<1>2. position \in Int /\ count \in Nat
  BY ListAssumption DEF Positions, ArrayShape
<1> QED
  BY <1>1, <1>2 DEF Promise!Index, Absolute

(* One step does to the content what SequenceUnlessSparse says.            *)
LEMMA SequenceStep ==
  ASSUME ArrayShape, CountShape, [Next]_vars
  PROVE  /\ \A position \in Positions :
              /\ GetItem(position) \/ PopShrinking(position) => UNCHANGED Content
              /\ PopInPlace(position) => Promise!Pop(position)
              /\ \A o \in Objects :
                   /\ SetItem(position, o) => Promise!Set(position, o)
                   /\ Insert(position, o) /\ ~corrupt' => Promise!Insert(position, o)
         /\ Clear \/ Delete => Promise!Clear
         /\ \A o \in Objects : Drop(o) => UNCHANGED Content
<1>1. ArrayShape' /\ TypeOK
  BY ShapeStep DEF ArrayShape, CountShape, TypeOK
<1>2. PICK old \in Seq(Objects) :
        /\ old = Content /\ Len(old) = count /\ DOMAIN old = 1..count
        /\ \A i \in 1..count : old[i] = items[i]
  BY <1>1, ContentType
<1>3. PICK new \in Seq(Objects) :
        /\ new = Content' /\ Len(new) = count'
        /\ \A i \in 1..count' : new[i] = items'[i]
  BY <1>1, NewContentType
<1>0. /\ count \in Nat /\ Len(items) \in Nat /\ count <= Len(items)
      /\ DOMAIN items = 1..Len(items)
  BY DEF ArrayShape
<1>4. ASSUME NEW position \in Positions, GetItem(position) \/ PopShrinking(position)
      PROVE  UNCHANGED Content
  BY <1>4 DEF GetItem, PopShrinking, Content
<1>5. ASSUME NEW position \in Positions, PopInPlace(position) PROVE Promise!Pop(position)
  <2>1. PICK p \in Int :
          /\ p = Absolute(position) /\ p \in 0..count - 1
          /\ items' = [i \in DOMAIN items |->
                         IF i \in p + 1 .. count - 1 THEN items[i + 1] ELSE items[i]]
    BY <1>5, IndexIs DEF PopInPlace
  <2>2. count' = count - 1
    BY <1>5 DEF PopInPlace
  <2>3. p \in 0..Len(new) /\ Len(old) = Len(new) + 1
    BY <1>0, <1>2, <1>3, <2>1, <2>2
  <2>4. ASSUME NEW i \in 1..p PROVE old[i] = new[i]
    <3>1. i \in 1..count /\ i \in 1..count' /\ i \in DOMAIN items
      BY <1>0, <2>1, <2>2
    <3>2. items'[i] = items[i]
      BY <1>0, <2>1, <3>1
    <3> QED
      BY <1>2, <1>3, <3>1, <3>2
  <2>5. ASSUME NEW i \in p + 1 .. Len(new) PROVE old[i + 1] = new[i]
    <3>1. i + 1 \in 1..count /\ i \in 1..count' /\ i \in DOMAIN items
      BY <1>0, <1>2, <2>1, <2>2, <2>3
    <3>2. items'[i] = items[i + 1]
      BY <1>0, <2>1, <2>2, <3>1
    <3> QED
      BY <1>2, <1>3, <3>1, <3>2
  <2>6. new = RemoveAt(old, p + 1)
    <3>1. Inserted(new, old, p)
      BY <2>3, <2>4, <2>5 DEF Inserted
    <3> QED
      BY <3>1, RemovedIs
  <2>7. Promise!Index(position) = p + 1 /\ p + 1 \in 1..count
    BY <1>0, <2>1, IndexIs
  <2> QED
    BY <1>2, <1>3, <2>6, <2>7 DEF Promise!Pop, Promise!RemoveAt, RemoveAt
<1>6. ASSUME NEW position \in Positions, NEW o \in Objects, SetItem(position, o)
      PROVE  Promise!Set(position, o)
  <2>1. PICK q \in Int :
          /\ q = Absolute(position) + 1 /\ q \in 1..count
          /\ items' = [items EXCEPT ![q] = o]
    <3>1. Absolute(position) \in 0..count - 1 /\ Absolute(position) \in Int
      BY <1>6, IndexIs DEF SetItem
    <3>2. Absolute(position) + 1 \in Int /\ Absolute(position) + 1 \in 1..count
      BY <1>0, <3>1
    <3>3. items' = [items EXCEPT ![Absolute(position) + 1] = o]
      BY <1>6 DEF SetItem
    <3> QED
      BY <3>2, <3>3
  <2>2. count' = count
    BY <1>6 DEF SetItem
  <2>3. Len(new) = Len(old) /\ q \in 1..Len(old)
    BY <1>2, <1>3, <2>1, <2>2
  <2>4. new[q] = o
    <3>1. items'[q] = o
      BY <1>0, <2>1
    <3> QED
      BY <1>3, <2>1, <2>2, <3>1
  <2>5. ASSUME NEW i \in 1..Len(old), i # q PROVE new[i] = old[i]
    <3>1. i \in 1..count /\ i \in 1..count' /\ i \in DOMAIN items
      BY <1>0, <1>2, <2>2
    <3>2. items'[i] = items[i]
      BY <2>1, <2>5, <3>1
    <3> QED
      BY <1>2, <1>3, <3>1, <3>2
  <2>6. new = ReplaceAt(old, q, o)
    <3>1. Replaced(old, new, q)
      BY <2>3, <2>5 DEF Replaced
    <3> QED
      BY <2>4, <3>1, ReplacedIs
  <2>7. Promise!Index(position) = q
    BY <2>1, IndexIs
  <2> QED
    BY <1>2, <1>3, <2>1, <2>6, <2>7 DEF Promise!Set, Promise!ReplaceAt, ReplaceAt
<1>7. ASSUME NEW position \in Positions, NEW o \in Objects, Insert(position, o), ~corrupt'
      PROVE  Promise!Insert(position, o)
  <2>1. count < Len(items)
    BY <1>7 DEF Insert, HasRoom, ArrayShape
  <2>2. PICK p \in Int :
          /\ p = Absolute(position) /\ p \in 0..count
          /\ items' = [i \in DOMAIN items |->
                         IF i <= p THEN items[i] ELSE IF i = p + 1 THEN o
                         ELSE IF i <= count + 1 THEN items[i - 1] ELSE items[i]]
    BY <1>7, <2>1, IndexIs DEF Insert, HasRoom, ArrayShape
  <2>3. count' = count + 1
    BY <1>7, <2>1 DEF Insert, HasRoom, ArrayShape
  <2>4. p \in 0..Len(old) /\ Len(new) = Len(old) + 1
    BY <1>2, <1>3, <2>2, <2>3
  <2>5. ASSUME NEW i \in 1..p PROVE new[i] = old[i]
    <3>1. i \in 1..count /\ i \in 1..count' /\ i \in DOMAIN items
      BY <1>0, <2>2, <2>3
    <3>2. items'[i] = items[i]
      BY <2>2, <3>1
    <3> QED
      BY <1>2, <1>3, <3>1, <3>2
  <2>6. ASSUME NEW i \in p + 1 .. Len(old) PROVE new[i + 1] = old[i]
    <3>1. i \in 1..count /\ i + 1 \in 1..count' /\ i + 1 \in DOMAIN items
      BY <1>0, <1>2, <2>1, <2>2, <2>3
    <3>2. items'[i + 1] = items[i]
      BY <1>0, <2>2, <3>1
    <3> QED
      BY <1>2, <1>3, <3>1, <3>2
  <2>7. new[p + 1] = o
    <3>1. p + 1 \in 1..count' /\ p + 1 \in DOMAIN items
      BY <1>0, <2>1, <2>2, <2>3
    <3>2. items'[p + 1] = o
      BY <1>0, <2>2, <3>1
    <3> QED
      BY <1>3, <3>1, <3>2
  <2>8. new = InsertAt(old, p + 1, o)
    <3>1. Inserted(old, new, p)
      BY <2>4, <2>5, <2>6 DEF Inserted
    <3> QED
      BY <2>7, <3>1, InsertedIs
  <2>9. Promise!Index(position) = p + 1 /\ p + 1 \in 1..Len(old) + 1
    BY <1>0, <1>2, <2>2, IndexIs
  <2> QED
    BY <1>2, <1>3, <2>8, <2>9 DEF Promise!Insert, Promise!InsertAt, InsertAt
<1>8. ASSUME Clear \/ Delete PROVE Promise!Clear
  <2>1. count' = 0
    BY <1>8 DEF Clear, Delete
  <2>2. new = <<>>
    BY <1>3, <2>1
  <2> QED
    BY <1>3, <2>2 DEF Promise!Clear
<1>9. ASSUME NEW o \in Objects, Drop(o) PROVE UNCHANGED Content
  BY <1>9 DEF Drop, Content
<1> QED
  BY <1>4, <1>5, <1>6, <1>7, <1>8, <1>9

(* Each operation of a list does to its items what the operation of a      *)
(* sequence does, at the position given, from either end: except that a    *)
(* list at most half full keeps what pop returns, and but for a step that  *)
(* writes behind the array.                                                *)
THEOREM ListIsSequence == Spec => SequenceUnlessSparse
<1>1. ArrayShape /\ CountShape /\ [Next]_vars =>
        [ /\ \A position \in Positions :
               /\ GetItem(position) \/ PopShrinking(position) => UNCHANGED Content
               /\ PopInPlace(position) => Promise!Pop(position)
               /\ \A o \in Objects :
                    /\ SetItem(position, o) => Promise!Set(position, o)
                    /\ Insert(position, o) /\ ~corrupt' => Promise!Insert(position, o)
          /\ Clear \/ Delete => Promise!Clear
          /\ \A o \in Objects : Drop(o) => UNCHANGED Content
        ]_vars
  BY SequenceStep
<1>2. Shape => ArrayShape /\ CountShape
  BY ShapeParts
<1> QED
  BY <1>1, <1>2, ShapeInvariant, PTL DEF Spec, SequenceUnlessSparse
===============================================================================
