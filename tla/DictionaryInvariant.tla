-------------------------- MODULE DictionaryInvariant --------------------------
(***************************************************************************)
(* What holds of the trie in every state, and makes the properties of      *)
(* Dictionary hold for all keys. Everything a reader of the trie sees is   *)
(* said by two sets: the paths that have a node and the items that are     *)
(* stored; the shape below ties every node and slot to them.               *)
(***************************************************************************)
EXTENDS Dictionary

(* A node is well formed by itself.                                        *)
NodeShape(n) ==
  /\ n = [start |-> n.start, end |-> n.end, value |-> n.value, sub |-> n.sub,
          leaf |-> n.leaf]
  /\ n.start \in Char /\ n.end \in Char /\ n.start <= n.end + 1
  /\ Occupied(n) \subseteq n.start .. n.end
  /\ n.sub \cap DOMAIN n.leaf = {}

(* The items of the node at p are those of keys that end there.            *)
ItemsEndAt(n, p) ==
  /\ \A x \in n.value : x \in Items /\ Text[x.key] = p
  /\ \A x, y \in n.value : x = y
  /\ \A c \in DOMAIN n.leaf :
       n.leaf[c] \in Items /\ Text[n.leaf[c].key] = Append(p, c)

(* A node hangs from the slots that lead to it, and from no leaf.          *)
Trie(T) ==
  /\ T # <<>> => Root \in DOMAIN T
  /\ DOMAIN T \subseteq Seq(Char)
  /\ \A p \in DOMAIN T :
       /\ \A i \in 0..Len(p) : Prefix(p, i) \in DOMAIN T
       /\ \A c \in Char : c \in T[p].sub <=> Append(p, c) \in DOMAIN T
       /\ NodeShape(T[p])
       /\ ItemsEndAt(T[p], p)

StoredIn(T) == UNION {ItemsOf(T[p]) : p \in DOMAIN T}

(* The counts cover what there is: HasChildren may miss what a wide node   *)
(* has, and deleting it loses items and nodes that stay counted.           *)
Counted ==
  /\ IsFiniteSet(DOMAIN nodes) /\ IsFiniteSet(Stored)
  /\ count \in Nat /\ nodeCount \in Nat /\ failures \in 0..MaxFailures
  /\ Cardinality(Stored) <= count
  /\ Cardinality(DOMAIN nodes) <= nodeCount
  /\ refs \in [Objects -> Nat] /\ held \in [Objects -> Nat]
  /\ \A o \in Objects : held[o] + Uses(Stored, o) <= refs[o]

DictInv == Trie(nodes) /\ Counted

(* While no node has more slots than one byte of flags is for, HasChildren *)
(* tells the truth and nothing is lost.                                    *)
Narrow(n)   == n.end - n.start < 4
NarrowNodes == \A p \in DOMAIN nodes : Narrow(nodes[p])

ExactInv ==
  /\ DictInv
  /\ count = Cardinality(Stored)
  /\ nodeCount - Cardinality(DOMAIN nodes) \in 0..failures
  /\ RefsExact
  /\ NoEmptyNodes

(* That is so when the characters of all keys are within four of each      *)
(* other; a root made for the key with no characters starts at 1.          *)
CloseTexts ==
  \E a \in Char :
    /\ \A k \in KeyObjects : Text[k] \in Seq(a .. a + 3)
    /\ Root \in Texts => 1 \in a .. a + 3
===============================================================================
