------------------------------ MODULE Dictionary ------------------------------
(***************************************************************************)
(* The trie of Dictionary.cc. A node is addressed by its path from the     *)
(* root, the characters that its ancestors' parent_slot fields spell; it   *)
(* has slots for a range of characters, and each slot is empty, holds an   *)
(* item (a leaf) or a node. Objects are counted: refs[o] is the reference  *)
(* count of object o, held[o] the references that are the callers'.        *)
(***************************************************************************)
EXTENDS Integers, Sequences, FiniteSets, FiniteSetsExt, SequencesExt, Functions

CONSTANTS
  KeyObjects,
  ValueObjects,
  Text,            \* the characters of each key object (key_length, key_char)
  Shared,          \* the objects that callers let go of while they are in use
  MaxFailures      \* how many allocations may fail

VARIABLES
  nodes,      \* path -> node
  count,      \* DictionaryObject::count
  nodeCount,  \* DictionaryObject::node_count
  refs,       \* BasicObject::refcount of each key and value
  held,       \* the references to it that callers account for
  failures    \* the number of failed allocations

vars == <<nodes, count, nodeCount, refs, held, failures>>

Map == INSTANCE AssociativeArray WITH map <- <<>>

Texts   == Map!Texts
Items   == Map!Items
Objects == KeyObjects \cup ValueObjects
Char    == 0..255

ASSUME DictionaryAssumption ==
  /\ Text \in [KeyObjects -> Seq(Char)]
  /\ KeyObjects \cap ValueObjects = {}
  /\ Shared \subseteq Objects
  /\ MaxFailures \in Nat
-------------------------------------------------------------------------------
(* Nodes. "value" is the node's own item, in a set of at most one.         *)
Root == <<>>

Node(first, last, value) ==
  [start |-> first, end |-> last, value |-> value, sub |-> {}, leaf |-> <<>>]

InRange(n, c)  == c \in n.start .. n.end
Occupied(n)    == n.sub \cup DOMAIN n.leaf
LeafAt(n, c)   == {n.leaf[x] : x \in {c} \cap DOMAIN n.leaf}
SetLeaf(n, c, item) ==
  [n EXCEPT !.leaf = [x \in DOMAIN @ \cup {c} |-> IF x = c THEN item ELSE @[x]]]
SetNode(n, c)  == [n EXCEPT !.sub = @ \cup {c}, !.leaf = Restrict(@, DOMAIN @ \ {c})]
SetEmpty(n, c) == [n EXCEPT !.sub = @ \ {c}, !.leaf = Restrict(@, DOMAIN @ \ {c})]

ExtendedAtEnd(n, c) == [n EXCEPT !.end = c]  \* mutant: as if c were above

(* A node that replaces n and has a slot for character c as well.          *)
Extended(n, c) ==
  IF c < n.start THEN [n EXCEPT !.start = c] ELSE [n EXCEPT !.end = c]

HasContent(n) == {Occupied(n) # {} \/ n.value # {}}  \* mutant: or an item

(* Node::has_children. There is a byte of flags for every four slots; of   *)
(* these bytes every fourth is looked at, also where there is none any     *)
(* more: what is found there is anybody's guess.                           *)
HasChildren(n) ==
  LET fields == n.end - n.start + 1
      bytes  == (fields + 3) \div 4
      Read   == {x \in 0..fields - 1 : x % 4 = 0}
      Byte(x) == {c \in Occupied(n) : (c - n.start) \div 4 = x}
  IN IF \E x \in Read : x < bytes /\ Byte(x) # {} THEN {TRUE}
     ELSE IF \A x \in Read : x < bytes THEN {FALSE}
     ELSE BOOLEAN

-------------------------------------------------------------------------------
(* DictionaryObject::traverse over trie T, with the text t of a key.       *)
Prefix(t, i) == SubSeq(t, 1, i)
Descends(T, t, i) == Prefix(t, i) \in DOMAIN T /\ t[i + 1] \in T[Prefix(t, i)].sub

(* How many characters are followed before there is no further node.       *)
Depth(T, t) ==
  CHOOSE i \in 0..Len(t) :
    /\ \A j \in 0..i - 1 : Descends(T, t, j)
    /\ i = Len(t) \/ ~Descends(T, t, i)

Deepest(T, t) == T[Prefix(t, Depth(T, t))]

(* mutant: a leaf is found on the way to a longer key *)
FindOnTheWay(T, t) ==
  LET i == Depth(T, t)
  IN IF T = <<>> THEN {}
     ELSE IF i = Len(t) THEN Deepest(T, t).value
     ELSE LeafAt(Deepest(T, t), t[i + 1])

(* The item that is found: a set of one, or of none.                       *)
Find(T, t) ==
  LET i == Depth(T, t)
  IN IF T = <<>> THEN {}
     ELSE IF i = Len(t) THEN Deepest(T, t).value
     ELSE IF i = Len(t) - 1 THEN LeafAt(Deepest(T, t), t[i + 1])
     ELSE {}

(* With create, a trie gets a root, the deepest node on the way a range    *)
(* that includes the next character, and then nodes for all characters but *)
(* the last. The first of them takes over the item of the slot it gets.    *)
WithRoot(T, t) ==
  IF T # <<>> THEN T
  ELSE [p \in {Root} |-> IF t = <<>> THEN Node(1, 0, {}) ELSE Node(t[1], t[1], {})]

NeedsRange(T, t) ==
  LET i == Depth(T, t)
  IN i < Len(t) /\ ~InRange(Deepest(T, t), t[i + 1])

WithRange(T, t) ==
  LET i == Depth(T, t)
  IN IF NeedsRange(T, t)
       THEN [T EXCEPT ![Prefix(t, i)] = Extended(@, t[i + 1])]
       ELSE T

Missing(T, t) == Max({0, Len(t) - 1 - Depth(T, t)})

ItemLost(T, t) == {}  \* mutant

ItemTaken(T, t) == LeafAt(Deepest(T, t), t[Depth(T, t) + 1])

WithPath(T, t, n) ==
  LET i == Depth(T, t)
      New == {Prefix(t, i + j) : j \in 1..n}
      Value(p) == IF Len(p) = i + 1 THEN ItemTaken(T, t) ELSE {}
      NewNode(p) == Node(t[Len(p) + 1], t[Len(p) + 1], Value(p))
      Linked(m, p) == IF Len(p) \in i..i + n - 1 THEN SetNode(m, t[Len(p) + 1]) ELSE m
  IN [p \in DOMAIN T \cup New |->
        IF p \in New THEN Linked(NewNode(p), p)
        ELSE IF p = Prefix(t, i) THEN Linked(T[p], p)
        ELSE T[p]]

(* The trie in which the slot for t is ready but for its last n nodes.     *)
Prepared(T, t, n) ==
  LET R == WithRange(WithRoot(T, t), t)
  IN WithPath(R, t, Missing(R, t) - n)

NewRoots(T)    == IF T = <<>> THEN 1 ELSE 0
NewNodes(T, t) == Missing(WithRoot(T, t), t)

(* set_slot at the end of the traversal. *)
SetItem(T, t, item) ==
  LET i == Depth(T, t)
  IN [T EXCEPT ![Prefix(t, i)] =
        IF i = Len(t) THEN [@ EXCEPT !.value = {item}] ELSE SetLeaf(@, t[i + 1], item)]

SetNoItem(T, t) ==
  LET i == Depth(T, t)
  IN [T EXCEPT ![Prefix(t, i)] =
        IF i = Len(t) THEN [@ EXCEPT !.value = {}] ELSE SetEmpty(@, t[i + 1])]
-------------------------------------------------------------------------------
(* References: what a set of items holds of object o. *)
Uses(items, o) == Cardinality({i \in items : i.key = o \/ i.value = o})

ExchangeAdding(gone, new) == [o \in Objects |-> refs[o] + Uses(new, o)]  \* mutant

(* The references after the items "gone" are deleted and "new" are added.  *)
Exchange(gone, new) == [o \in Objects |-> refs[o] - Uses(gone, o) + Uses(new, o)]

Init ==
  /\ nodes = <<>>
  /\ count = 0
  /\ nodeCount = 0
  /\ refs = [o \in Objects |-> 1]
  /\ held = [o \in Objects |-> 1]
  /\ failures = 0

AlwaysOne(old) == 1  \* mutant: an item that replaces another is counted

(* What an item adds to count that replaces the items old. *)
Added(old) == 1 - Cardinality(old)

Insert(k, v) ==
  LET t == Text[k]
      T == Prepared(nodes, t, 0)
      old == Find(T, t)
  IN /\ held[k] > 0 /\ held[v] > 0
     /\ nodes' = SetItem(T, t, Map!Item(k, v))
     /\ count' = count + Added(old)
     /\ nodeCount' = nodeCount + NewRoots(nodes) + NewNodes(nodes, t)
     /\ refs' = Exchange(old, {Map!Item(k, v)})
     /\ UNCHANGED <<held, failures>>

(* An allocation of Insert fails, and MemoryError is raised: for the root, *)
(* for the node that is to replace one, or for one of the new nodes.       *)
NoRoot(t) ==
  /\ nodes = <<>>
  /\ nodeCount' = nodeCount + 1
  /\ UNCHANGED nodes

NoRange(t) ==
  /\ nodes # <<>> /\ NeedsRange(nodes, t)
  /\ UNCHANGED <<nodes, nodeCount>>

NoPath(t) ==
  \E n \in 1..NewNodes(nodes, t) :
    /\ nodes' = Prepared(nodes, t, n)
    /\ nodeCount' = nodeCount + NewRoots(nodes) + NewNodes(nodes, t) - n

InsertFails(k, v) ==
  /\ held[k] > 0 /\ held[v] > 0
  /\ failures < MaxFailures
  /\ failures' = failures + 1
  /\ NoRoot(Text[k]) \/ NoRange(Text[k]) \/ NoPath(Text[k])
  /\ UNCHANGED <<count, refs, held>>
-------------------------------------------------------------------------------
(* Trie T, in which t's item is already gone, without the lowest j nodes   *)
(* on the way to t. What hangs below them is lost with them; the item of   *)
(* the topmost of them moves up into its slot.                             *)
Without(T, t, j) ==
  LET top  == Depth(T, t) - j + 1
      Up   == Prefix(t, top - 1)
      Left == {p \in DOMAIN T : ~IsPrefix(Prefix(t, top), p)}
      Unlinked(n) == SetEmpty(n, t[top])
  IN IF j = 0 THEN T
     ELSE [p \in Left |->
             IF p # Up THEN T[p]
             ELSE IF T[Prefix(t, top)].value = {} THEN Unlinked(T[p])
             ELSE SetLeaf(Unlinked(T[p]), t[top],
                          CHOOSE i \in T[Prefix(t, top)].value : TRUE)]

(* May the loop of dictionary_erase that deletes empty nodes delete the    *)
(* lowest j nodes, and stop there?                                         *)
Empties(T, t, j) ==
  LET d == Depth(T, t)
      On(i) == T[Prefix(t, i)]
      Lowest(i) == IF i = d THEN On(i) ELSE SetEmpty(On(i), t[i + 1])
  IN /\ \A i \in d - j + 1 .. d : FALSE \in HasChildren(Lowest(i))
     /\ \A i \in d - j + 2 .. d : On(i).value = {}
     /\ \/ j = d
        \/ j > 0 /\ On(d - j + 1).value # {}
        \/ TRUE \in HasChildren(Lowest(d - j))

(* The root is looked at when all nodes below it on the way are deleted,   *)
(* unless the loop ended because an item moved up.                         *)
RootIsReached(T, t, j) ==
  LET d == Depth(T, t)
  IN j = d /\ (d > 0 => T[Prefix(t, 1)].value = {})

DropRoot(T, t, j) ==
  /\ RootIsReached(T, t, j)
  /\ LET root == Without(T, t, j)[Root]
     IN root.value = {} /\ FALSE \in HasChildren(root)
  /\ nodes' = <<>>
  /\ nodeCount' = nodeCount - j - 1

KeepRoot(T, t, j) ==
  /\ RootIsReached(T, t, j) =>
       LET root == Without(T, t, j)[Root]
       IN root.value # {} \/ TRUE \in HasChildren(root)
  /\ nodes' = Without(T, t, j)
  /\ nodeCount' = nodeCount - j

Erase(t) ==
  LET old == Find(nodes, t)
      T == SetNoItem(nodes, t)
  IN /\ old # {}
     /\ refs' = Exchange(old, {})
     /\ count' = count - 1
     /\ \E j \in 0..Depth(nodes, t) :
          Empties(T, t, j) /\ (DropRoot(T, t, j) \/ KeepRoot(T, t, j))
     /\ UNCHANGED <<held, failures>>

(* Every item of the trie, wherever it is.                                 *)
ItemsOf(n) == n.value \cup Range(n.leaf)
Stored     == UNION {ItemsOf(nodes[p]) : p \in DOMAIN nodes}

Clear ==
  /\ nodes # <<>>
  /\ nodes' = <<>>
  /\ count' = 0
  /\ nodeCount' = 0
  /\ refs' = Exchange(Stored, {})
  /\ UNCHANGED <<held, failures>>

(* A caller lets go of an object: its reference is deleted. *)
Drop(o) ==
  /\ o \in Shared /\ held[o] > 0
  /\ held' = [held EXCEPT ![o] = @ - 1]
  /\ refs' = [refs EXCEPT ![o] = @ - 1]
  /\ UNCHANGED <<nodes, count, nodeCount, failures>>

Next ==
  \/ \E k \in KeyObjects, v \in ValueObjects : Insert(k, v) \/ InsertFails(k, v)
  \/ \E t \in Texts : Erase(t)
  \/ Clear
  \/ \E o \in Shared : Drop(o)

Spec == Init /\ [][Next]_vars
-------------------------------------------------------------------------------
(* Where trie T has items, and the items there. *)
Positions(T) ==
  {p \in DOMAIN T : T[p].value # {}}
    \cup UNION {{Append(p, c) : c \in DOMAIN T[p].leaf} : p \in DOMAIN T}

ItemAt(T, t) ==
  IF t \in DOMAIN T THEN CHOOSE i \in T[t].value : TRUE
  ELSE T[Front(t)].leaf[Last(t)]

BehindOrAt(t, j, u) ==  \* mutant: from the key's own slot
  /\ j < Len(u) /\ Prefix(u, j) = Prefix(t, j)
  /\ j = Len(t) \/ u[j + 1] >= t[j + 1]

(* dictionary_next_item: from the slot after the current key's slot, in    *)
(* the deepest node on the way to it or, when that has no more, in the     *)
(* nodes above; within the deepest node from its first slot if the key is  *)
(* the node's own. The first call starts with the root.                    *)
BehindSlot(t, j, u) ==
  /\ j < Len(u) /\ Prefix(u, j) = Prefix(t, j)
  /\ j = Len(t) \/ u[j + 1] > t[j + 1]

NextItem(T, t) ==
  LET Behind == {u \in Positions(T) : \E j \in 0..Depth(T, t) : BehindSlot(t, j, u)}
  IN {ItemAt(T, u) : u \in Map!First(Behind)}

FirstItem(T) ==
  IF T = <<>> THEN {}
  ELSE IF T[Root].value # {} THEN T[Root].value
  ELSE {ItemAt(T, u) : u \in Map!First(Positions(T))}
-------------------------------------------------------------------------------
(* Types and ranges: every slot that is used is in its node's range, a     *)
(* slot is a leaf or a node, and a node has at most one item of its own.   *)
TypeOK ==
  /\ \A p \in DOMAIN nodes :
       LET n == nodes[p] IN
       /\ p \in Seq(Char)
       /\ n.start \in Char /\ n.end \in Char
       /\ Occupied(n) \subseteq n.start .. n.end
       /\ n.sub \cap DOMAIN n.leaf = {}
       /\ ItemsOf(n) \subseteq Items /\ Cardinality(n.value) <= 1
  /\ count \in Nat /\ nodeCount \in Nat /\ failures \in 0..MaxFailures
  /\ refs \in [Objects -> Nat] /\ held \in [Objects -> Nat]

Contents == [t \in Positions(nodes) |-> ItemAt(nodes, t)]

Abstract == INSTANCE AssociativeArray WITH map <- Contents

(* However nodes are extended, split, pruned and merged, and wherever an   *)
(* allocation fails, the trie is a map: insert, erase and clear do what    *)
(* AssociativeArray says, all else changes nothing (Dictionary.hh).        *)
ImplementsMap == Abstract!Spec

(* dictionary_at and dictionary_exists find each key that is stored,       *)
(* whether it sits in a leaf or in a node that others hang from, and no    *)
(* key that was erased or that ends on the way to another.                 *)
LookupsAgree == \A t \in Texts : Find(nodes, t) = Abstract!At(t)

(* dictionary_next_item goes on with the least key after the current one,  *)
(* also when the current key has been erased or other keys were inserted   *)
(* meanwhile (posix.execve and compiled loops iterate this way).           *)
IterationInOrder ==
  /\ FirstItem(nodes) = {Contents[u] : u \in Abstract!First(DOMAIN Contents)}
  /\ \A t \in Texts : NextItem(nodes, t) = Abstract!After(t)

(* count, which dictionary_size returns, is the number of stored keys      *)
(* ("expect_eq(expected.size(), dictionary_size(d))", DictionaryTest.cc),  *)
(* and node_count the number of nodes, but for roots counted before their  *)
(* allocation failed.                                                      *)
CountExact ==
  /\ count = Cardinality(Positions(nodes))
  /\ nodeCount - Cardinality(DOMAIN nodes) \in 0..failures

(* "delete all empty nodes on the path" (dictionary_erase): unless an      *)
(* allocation failed, a node has children, or it is the root and has an    *)
(* item.                                                                   *)
NoEmptyNodes ==
  failures = 0 =>
    \A p \in DOMAIN nodes :
      Occupied(nodes[p]) # {} \/ (p = Root /\ nodes[p].value # {})

(* The reference count of an object is what its callers hold plus what the *)
(* dictionary holds: one reference for each item it is in.                 *)
RefsExact == \A o \in Objects : refs[o] = held[o] + Uses(Stored, o)
===============================================================================
