--------------------------- MODULE AssociativeArray ---------------------------
(***************************************************************************)
(* What a dictionary promises (Dictionary.hh), with no trie in sight: a    *)
(* finite map from the texts of keys to items, which an iteration visits   *)
(* in the order of the texts.                                              *)
(***************************************************************************)
EXTENDS Integers, Sequences, Functions

CONSTANTS
  KeyObjects,    \* the objects that may be keys
  ValueObjects,  \* the objects that may be values
  Text           \* the characters of each key object

VARIABLE map

Texts == {Text[k] : k \in KeyObjects}
Items == [key : KeyObjects, value : ValueObjects]
Item(k, v) == [key |-> k, value |-> v]

Less(s, t) ==
  \E n \in 0..Len(s) :
    /\ n < Len(t)
    /\ \A i \in 1..n : s[i] = t[i]
    /\ n = Len(s) \/ s[n + 1] < t[n + 1]

First(S) == {t \in S : \A u \in S : u = t \/ Less(t, u)}

(* What a lookup and an iteration that has come as far as t must find: a   *)
(* set of one item, or of none.                                            *)
At(t)    == {map[u] : u \in {t} \cap DOMAIN map}
After(t) == {map[u] : u \in First({u \in DOMAIN map : Less(t, u)})}

Init == map = <<>>

Insert(k, v) ==
  map' = [t \in DOMAIN map \cup {Text[k]} |->
            IF t = Text[k] THEN Item(k, v) ELSE map[t]]

Erase(t) ==
  /\ t \in DOMAIN map
  /\ map' = Restrict(map, DOMAIN map \ {t})

Clear == map' = <<>>

Next ==
  \/ \E k \in KeyObjects, v \in ValueObjects : Insert(k, v)
  \/ \E t \in Texts : Erase(t)
  \/ Clear

Spec == Init /\ [][Next]_map
===============================================================================
