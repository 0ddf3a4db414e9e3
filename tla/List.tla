--------------------------------- MODULE List ---------------------------------
(***************************************************************************)
(* A list of objects (List.cc) and its callers. The array "items" is a     *)
(* sequence of as many slots as are allocated, which need not be as many   *)
(* as "capacity" says. Objects are counted: refs[o] is the reference count *)
(* of object o, held[o] the references that are the callers'.              *)
(***************************************************************************)
EXTENDS Integers, Sequences, FiniteSets, SequencesExt

CONSTANTS
  Objects,
  Unset,      \* what a slot holds that was never written
  MaxLength,  \* the bound on literals and on positions
  MaxHeld     \* the bound on the references callers hold to an object

ASSUME ListAssumption ==
  /\ Unset \notin Objects
  /\ MaxLength \in Nat /\ MaxHeld \in Nat \ {0}

VARIABLES
  alive,     \* does the list exist?
  count,
  capacity,
  items,
  refs,
  held,
  doubled,   \* for each object, how often pop returned a reference the list keeps
  corrupt    \* was there a write outside of the array?

vars == <<alive, count, capacity, items, refs, held, doubled, corrupt>>

Positions == -MaxLength .. MaxLength
Content   == SubSeq(items, 1, count)
Uses(s, o) == Cardinality({i \in DOMAIN s : s[i] = o})

(* Nothing of what C++ leaves undefined has happened so far: no write      *)
(* outside of the array, no object destroyed that is still in use.         *)
Defined ==
  /\ ~corrupt
  /\ \A o \in Objects : held[o] > 0 \/ Uses(Content, o) > 0 => refs[o] > 0

Usable == alive /\ Defined

(* Positions from the end are negative. *)
Absolute(position) == IF position < 0 THEN position + count ELSE position

Init ==
  /\ alive = FALSE
  /\ count = 0
  /\ capacity = 0
  /\ items = <<>>
  /\ refs = [o \in Objects |-> 1]
  /\ held = [o \in Objects |-> 1]
  /\ doubled = [o \in Objects |-> 0]
  /\ corrupt = FALSE

UnsizedLiteral(s) == 0  \* mutant: an empty list, to which items are appended

LiteralCapacity(s) == Len(s)

(* A list literal: list_new, and then the items with a reference each.     *)
New(s) ==
  /\ ~alive /\ Defined
  /\ \A i \in DOMAIN s : held[s[i]] > 0
  /\ alive' = TRUE
  /\ count' = Len(s)
  /\ capacity' = LiteralCapacity(s)
  /\ items' = s
  /\ refs' = [o \in Objects |-> refs[o] + Uses(s, o)]
  /\ UNCHANGED <<held, doubled, corrupt>>

GetItem(position) ==
  LET p == Absolute(position)
  IN /\ Usable
     /\ p \in 0..count - 1
     /\ held[items[p + 1]] < MaxHeld
     /\ refs' = [refs EXCEPT ![items[p + 1]] = @ + 1]
     /\ held' = [held EXCEPT ![items[p + 1]] = @ + 1]
     /\ UNCHANGED <<alive, count, capacity, items, doubled, corrupt>>

SetItem(position, o) ==
  LET p == Absolute(position)
      Deleted == [refs EXCEPT ![items[p + 1]] = @ - 1]
  IN /\ Usable
     /\ held[o] > 0
     /\ p \in 0..count - 1
     /\ items' = [items EXCEPT ![p + 1] = o]
     /\ refs' = [Deleted EXCEPT ![o] = @ + 1]
     /\ UNCHANGED <<alive, count, capacity, held, doubled, corrupt>>

(* The condition under which list_insert writes into the array it has. *)
HasRoom == count <= capacity

NewCapacity == IF capacity = 0 THEN 1 ELSE 2 * capacity

(* A new array with the same content. *)
Grown == Content \o [i \in 1..NewCapacity - count |-> Unset]

(* The items from position p on move up by one; array a must have the      *)
(* slot behind the last. list_append inserts at the end.                   *)
Insert(position, o) ==
  LET p == Absolute(position)
      a == IF HasRoom THEN items ELSE Grown
      Fits == count < Len(a)
      Moved(i) == IF i <= p THEN a[i] ELSE IF i = p + 1 THEN o
                  ELSE IF i <= count + 1 THEN a[i - 1] ELSE a[i]
  IN /\ Usable
     /\ held[o] > 0
     /\ p \in 0..count
     /\ capacity' = IF HasRoom THEN capacity ELSE NewCapacity
     /\ IF Fits
          THEN /\ items' = [i \in DOMAIN a |-> Moved(i)]
               /\ count' = count + 1
               /\ refs' = [refs EXCEPT ![o] = @ + 1]
               /\ corrupt' = corrupt
          ELSE /\ corrupt' = TRUE
               /\ UNCHANGED <<items, count, refs>>
     /\ UNCHANGED <<alive, held, doubled>>

(* The condition under which list_pop "shrinks to fit". *)
Sparse == count <= capacity \div 2

(* The item's reference passes to the caller. An array that fits is        *)
(* allocated and filled - and forgotten; the list stays as it is.          *)
PopShrinking(position) ==
  LET p == Absolute(position)
      o == items[p + 1]
  IN /\ Usable
     /\ p \in 0..count - 1
     /\ Sparse
     /\ held[o] < MaxHeld
     /\ held' = [held EXCEPT ![o] = @ + 1]
     /\ doubled' = [doubled EXCEPT ![o] = @ + 1]
     /\ UNCHANGED <<alive, count, capacity, items, refs, corrupt>>

(* mutant: the item next to it stays *)
PopInPlaceOff(position) ==
  LET p == Absolute(position)
  IN /\ Usable
     /\ p \in 0..count - 1
     /\ ~Sparse
     /\ held[items[p + 1]] < MaxHeld
     /\ held' = [held EXCEPT ![items[p + 1]] = @ + 1]
     /\ items' = [i \in DOMAIN items |->
                    IF i \in p + 2 .. count - 1 THEN items[i + 1] ELSE items[i]]
     /\ count' = count - 1
     /\ UNCHANGED <<alive, capacity, refs, doubled, corrupt>>

(* The items behind it move down by one. *)
PopInPlace(position) ==
  LET p == Absolute(position)
      o == items[p + 1]
  IN /\ Usable
     /\ p \in 0..count - 1
     /\ ~Sparse
     /\ held[o] < MaxHeld
     /\ held' = [held EXCEPT ![o] = @ + 1]
     /\ items' = [i \in DOMAIN items |->
                    IF i \in p + 1 .. count - 1 THEN items[i + 1] ELSE items[i]]
     /\ count' = count - 1
     /\ UNCHANGED <<alive, capacity, refs, doubled, corrupt>>

(* mutant: a reference is deleted per object, not per item *)
ReleasedOnce ==
  [o \in Objects |-> IF Uses(Content, o) = 0 THEN refs[o] ELSE refs[o] - 1]

Released == [o \in Objects |-> refs[o] - Uses(Content, o)]

ClearedCapacity == capacity

Clear ==
  /\ Usable
  /\ refs' = Released
  /\ items' = <<>>
  /\ count' = 0
  /\ capacity' = ClearedCapacity
  /\ UNCHANGED <<alive, held, doubled, corrupt>>

(* The last reference to the list itself is deleted. *)
Delete ==
  /\ Usable
  /\ refs' = Released
  /\ alive' = FALSE
  /\ items' = <<>>
  /\ count' = 0
  /\ capacity' = 0
  /\ UNCHANGED <<held, doubled, corrupt>>

(* mutant: a caller deletes a reference it does not have *)
DropUnheld(o) ==
  /\ Defined
  /\ held' = [held EXCEPT ![o] = @ - 1]
  /\ refs' = [refs EXCEPT ![o] = @ - 1]
  /\ UNCHANGED <<alive, count, capacity, items, doubled, corrupt>>

(* A caller deletes a reference of its own. *)
Drop(o) ==
  /\ Defined
  /\ held[o] > 0
  /\ held' = [held EXCEPT ![o] = @ - 1]
  /\ refs' = [refs EXCEPT ![o] = @ - 1]
  /\ UNCHANGED <<alive, count, capacity, items, doubled, corrupt>>

Literals == UNION {[1..n -> Objects] : n \in 0..MaxLength}

Next ==
  \/ \E s \in Literals : New(s)
  \/ \E position \in Positions :
       \/ GetItem(position)
       \/ PopShrinking(position)
       \/ PopInPlace(position)
       \/ \E o \in Objects : SetItem(position, o) \/ Insert(position, o)
  \/ Clear
  \/ Delete
  \/ \E o \in Objects : Drop(o)

Spec == Init /\ [][Next]_vars
-------------------------------------------------------------------------------
(* Types; and a list that exists has written all its items.                *)
TypeOK ==
  /\ alive \in BOOLEAN /\ corrupt \in BOOLEAN
  /\ count \in Nat /\ capacity \in Nat
  /\ items \in Seq(Objects \cup {Unset})
  /\ count <= Len(items)
  /\ \A i \in 1..count : items[i] \in Objects
  /\ refs \in [Objects -> Int]  \* below 0: deleted once more after its end
  /\ held \in [Objects -> 0..MaxHeld]
  /\ doubled \in [Objects -> Nat]

(* The code in list_insert that grows the array is never reached: however  *)
(* a list is used, its count is at most its capacity, and HasRoom holds.   *)
NeverGrows == count <= capacity

Promise == INSTANCE ItemSequence WITH seq <- Content

(* Each operation does to the items what it promises at the position it    *)
(* was given, unless it writes outside of the array; except that popping   *)
(* an item of a list that is at most half full does not remove it.         *)
SequenceUnlessSparse ==
  [][ /\ \A position \in Positions :
           /\ GetItem(position) \/ PopShrinking(position) => UNCHANGED Content
           /\ PopInPlace(position) => Promise!Pop(position)
           /\ \A o \in Objects :
                /\ SetItem(position, o) => Promise!Set(position, o)
                /\ Insert(position, o) /\ ~corrupt' => Promise!Insert(position, o)
      /\ Clear \/ Delete => Promise!Clear
      /\ \A o \in Objects : Drop(o) => UNCHANGED Content
    ]_vars

(* Whoever deletes a reference or adds one, an object's count is what its  *)
(* callers hold and what the list holds, but for the references that pop   *)
(* returned while the list kept them.                                      *)
RefsBalance ==
  \A o \in Objects : refs[o] = held[o] + Uses(Content, o) - doubled[o]

===============================================================================
