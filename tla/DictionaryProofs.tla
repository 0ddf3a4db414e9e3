--------------------------- MODULE DictionaryProofs ---------------------------
(* Proofs about Dictionary: for any set of keys, whatever their texts.     *)
EXTENDS DictionaryInvariant, FiniteSetTheorems, FunctionTheorems,
        WellFoundedInduction, TLAPS

(* A set of natural numbers that is not empty has a least element.         *)
LEMMA Least ==
  ASSUME NEW S \in SUBSET Nat, S # {}
  PROVE  \E x \in S : \A y \in S : x <= y
<1>1. PICK R : R = OpToRel(<, Nat)
  OBVIOUS
<1>2. IsWellFoundedOn(R, Nat)
  BY <1>1, NatLessThanWellFounded
<1>3. PICK x \in S : \A y \in S : ~(<<y, x>> \in R)
  BY <1>2, WFMin
<1>4. \A y \in Nat, z \in Nat : y < z => <<y, z>> \in R
  BY <1>1 DEF OpToRel
<1>5. x \in Nat
  OBVIOUS
<1>6. \A y \in S : y \in Nat
  OBVIOUS
<1>7. \A y \in S : ~(y < x)
  BY <1>3, <1>4, <1>5, <1>6
<1>8. \A y \in S : x <= y
  BY <1>5, <1>6, <1>7
<1> QED
  BY <1>8
-------------------------------------------------------------------------------
(* Texts and their prefixes.                                               *)
LEMMA SameText ==
  ASSUME NEW s \in Seq(Char), NEW t \in Seq(Char), Len(s) = Len(t),
         \A i \in 1..Len(s) : s[i] = t[i]
  PROVE  s = t
  OBVIOUS

(* A prefix is a text, and has the characters of the text it is of.        *)
LEMMA PrefixIs ==
  ASSUME NEW t \in Seq(Char), NEW i \in 0..Len(t)
  PROVE  /\ Prefix(t, i) \in Seq(Char)
         /\ Len(Prefix(t, i)) = i
         /\ \A j \in 1..i : Prefix(t, i)[j] = t[j]
  BY DEF Prefix

(* The longest and the shortest prefix.                                    *)
LEMMA PrefixAll ==
  ASSUME NEW t \in Seq(Char)
  PROVE  Prefix(t, Len(t)) = t /\ Prefix(t, 0) = Root
  BY DEF Prefix, Root

(* A prefix of a prefix. *)
LEMMA PrefixShorter ==
  ASSUME NEW t \in Seq(Char), NEW i \in 0..Len(t), NEW j \in 0..i
  PROVE  Prefix(Prefix(t, i), j) = Prefix(t, j)
<1>1. Prefix(t, i) \in Seq(Char) /\ Len(Prefix(t, i)) = i
  BY PrefixIs
<1>2. j \in 0..Len(t) /\ j \in 0..Len(Prefix(t, i))
  BY <1>1
<1>3. /\ Prefix(t, j) \in Seq(Char) /\ Len(Prefix(t, j)) = j
      /\ \A k \in 1..j : Prefix(t, j)[k] = t[k]
  BY <1>2, PrefixIs
<1>4. /\ Prefix(Prefix(t, i), j) \in Seq(Char) /\ Len(Prefix(Prefix(t, i), j)) = j
      /\ \A k \in 1..j : Prefix(Prefix(t, i), j)[k] = Prefix(t, i)[k]
  BY <1>1, <1>2, PrefixIs
<1>5. \A k \in 1..j : Prefix(t, i)[k] = t[k]
  BY PrefixIs
<1> HIDE DEF Char
<1> QED
  BY <1>3, <1>4, <1>5, SameText

(* A prefix and the character that follows it. *)
LEMMA PrefixStep ==
  ASSUME NEW t \in Seq(Char), NEW i \in 0..Len(t) - 1
  PROVE  /\ t[i + 1] \in Char
         /\ Append(Prefix(t, i), t[i + 1]) = Prefix(t, i + 1)
<1>1. /\ Prefix(t, i) \in Seq(Char) /\ Len(Prefix(t, i)) = i
      /\ \A k \in 1..i : Prefix(t, i)[k] = t[k]
  BY PrefixIs
<1>2. i + 1 \in 0..Len(t) /\ i + 1 \in 1..Len(t)
  OBVIOUS
<1>3. /\ Prefix(t, i + 1) \in Seq(Char) /\ Len(Prefix(t, i + 1)) = i + 1
      /\ \A k \in 1..i + 1 : Prefix(t, i + 1)[k] = t[k]
  BY <1>2, PrefixIs
<1>4. t[i + 1] \in Char
  BY <1>2
<1>5. /\ Append(Prefix(t, i), t[i + 1]) \in Seq(Char)
      /\ Len(Append(Prefix(t, i), t[i + 1])) = i + 1
      /\ \A k \in 1..i + 1 : Append(Prefix(t, i), t[i + 1])[k] = t[k]
  BY <1>1, <1>4
<1>6. \A k \in 1..i + 1 : Append(Prefix(t, i), t[i + 1])[k] = Prefix(t, i + 1)[k]
  BY <1>3, <1>5
<1> QED
  BY <1>3, <1>4, <1>5, <1>6, SameText

(* What a text is that one more character makes, and its prefixes.         *)
LEMMA AppendIs ==
  ASSUME NEW p \in Seq(Char), NEW c \in Char
  PROVE  /\ Append(p, c) \in Seq(Char)
         /\ Len(Append(p, c)) = Len(p) + 1
         /\ Append(p, c)[Len(p) + 1] = c
         /\ \A i \in 0..Len(p) : Prefix(Append(p, c), i) = Prefix(p, i)
         /\ Prefix(Append(p, c), Len(p)) = p
         /\ Append(p, c) # Root
<1>1. /\ Append(p, c) \in Seq(Char)
      /\ Len(Append(p, c)) = Len(p) + 1
      /\ Append(p, c)[Len(p) + 1] = c
      /\ \A k \in 1..Len(p) : Append(p, c)[k] = p[k]
  OBVIOUS
<1>2. ASSUME NEW i \in 0..Len(p) PROVE Prefix(Append(p, c), i) = Prefix(p, i)
  <2>1. i \in 0..Len(Append(p, c))
    BY <1>1
  <2>2. /\ Prefix(p, i) \in Seq(Char) /\ Len(Prefix(p, i)) = i
        /\ \A k \in 1..i : Prefix(p, i)[k] = p[k]
    BY PrefixIs
  <2>3. /\ Prefix(Append(p, c), i) \in Seq(Char) /\ Len(Prefix(Append(p, c), i)) = i
        /\ \A k \in 1..i : Prefix(Append(p, c), i)[k] = Append(p, c)[k]
    BY <1>1, <2>1, PrefixIs
  <2>4. \A k \in 1..i : Append(p, c)[k] = p[k]
    BY <1>1
  <2> QED
    BY <2>2, <2>3, <2>4, SameText
<1>3. Prefix(p, Len(p)) = p /\ Len(p) \in 0..Len(p)
  BY PrefixAll
<1>4. Append(p, c) # Root
  BY <1>1 DEF Root
<1> QED
  BY <1>1, <1>2, <1>3, <1>4

(* Two texts are the same only when they end the same way.                 *)
LEMMA AppendInjective ==
  ASSUME NEW p \in Seq(Char), NEW c \in Char, NEW q \in Seq(Char), NEW d \in Char,
         Append(p, c) = Append(q, d)
  PROVE  p = q /\ c = d
<1>1. /\ Len(Append(p, c)) = Len(p) + 1 /\ Append(p, c)[Len(p) + 1] = c
      /\ Prefix(Append(p, c), Len(p)) = p
  BY AppendIs
<1>2. /\ Len(Append(q, d)) = Len(q) + 1 /\ Append(q, d)[Len(q) + 1] = d
      /\ Prefix(Append(q, d), Len(q)) = q
  BY AppendIs
<1>3. Len(p) = Len(q)
  BY <1>1, <1>2
<1> QED
  BY <1>1, <1>2, <1>3

(* A text other than the empty one is a shorter one and a character.       *)
LEMMA TextSplits ==
  ASSUME NEW t \in Seq(Char), t # Root
  PROVE  /\ Len(t) - 1 \in 0..Len(t) - 1
         /\ Prefix(t, Len(t) - 1) \in Seq(Char)
         /\ t[Len(t)] \in Char
         /\ Append(Prefix(t, Len(t) - 1), t[Len(t)]) = t
<1>1. Len(t) - 1 \in 0..Len(t) - 1 /\ Len(t) - 1 \in 0..Len(t) /\ (Len(t) - 1) + 1 = Len(t)
  BY DEF Root
<1>2. /\ t[(Len(t) - 1) + 1] \in Char
      /\ Append(Prefix(t, Len(t) - 1), t[(Len(t) - 1) + 1]) = Prefix(t, (Len(t) - 1) + 1)
  BY <1>1, PrefixStep
<1>3. Prefix(t, Len(t) - 1) \in Seq(Char)
  BY <1>1, PrefixIs
<1> QED
  BY <1>1, <1>2, <1>3, PrefixAll

(* The key with no characters has the path of the root.                    *)
LEMMA EmptyText == Root \in Seq(Char) /\ Len(Root) = 0
  BY DEF Root
-------------------------------------------------------------------------------
(* What the shape of a trie says of a node and its slots.                  *)
LEMMA TrieNode ==
  ASSUME NEW T, Trie(T), NEW p \in DOMAIN T
  PROVE  /\ p \in Seq(Char)
         /\ \A i \in 0..Len(p) : Prefix(p, i) \in DOMAIN T
         /\ \A c \in Char : c \in T[p].sub <=> Append(p, c) \in DOMAIN T
         /\ NodeShape(T[p])
         /\ ItemsEndAt(T[p], p)
         /\ T[p].sub \subseteq Char /\ DOMAIN T[p].leaf \subseteq Char
<1>1. /\ p \in Seq(Char)
      /\ \A i \in 0..Len(p) : Prefix(p, i) \in DOMAIN T
      /\ \A c \in Char : c \in T[p].sub <=> Append(p, c) \in DOMAIN T
      /\ NodeShape(T[p])
      /\ ItemsEndAt(T[p], p)
  BY DEF Trie
<1>2. T[p].sub \subseteq Char /\ DOMAIN T[p].leaf \subseteq Char
  <2>1. T[p].start \in Char /\ T[p].end \in Char
    BY <1>1 DEF NodeShape
  <2>2. T[p].start .. T[p].end \subseteq Char
    BY <2>1 DEF Char
  <2>3. Occupied(T[p]) \subseteq T[p].start .. T[p].end
    BY <1>1 DEF NodeShape
  <2> QED
    BY <2>2, <2>3 DEF Occupied
<1> QED
  BY <1>1, <1>2

(* A slot on the way to t has a node when t's longer prefix has one.       *)
LEMMA Hangs ==
  ASSUME NEW T, Trie(T), NEW t \in Seq(Char), NEW i \in 0..Len(t) - 1
  PROVE  /\ Prefix(t, i + 1) \in DOMAIN T => Prefix(t, i) \in DOMAIN T
         /\ Descends(T, t, i) <=> Prefix(t, i + 1) \in DOMAIN T
<1>1. t[i + 1] \in Char /\ Append(Prefix(t, i), t[i + 1]) = Prefix(t, i + 1)
  BY PrefixStep
<1>2. i + 1 \in 0..Len(t) /\ i \in 0..i + 1 /\ i \in 0..Len(t)
  OBVIOUS
<1>3. Len(Prefix(t, i + 1)) = i + 1 /\ Prefix(Prefix(t, i + 1), i) = Prefix(t, i)
  BY <1>2, PrefixIs, PrefixShorter
<1>4. ASSUME Prefix(t, i + 1) \in DOMAIN T PROVE Prefix(t, i) \in DOMAIN T
  BY <1>2, <1>3, <1>4, TrieNode
<1>5. ASSUME Prefix(t, i) \in DOMAIN T
      PROVE  t[i + 1] \in T[Prefix(t, i)].sub <=> Prefix(t, i + 1) \in DOMAIN T
  BY <1>1, <1>5, TrieNode
<1> QED
  BY <1>4, <1>5 DEF Descends

(* Depth is defined. *)
LEMMA DepthType ==
  ASSUME NEW T, NEW t \in Seq(Char)
  PROVE  /\ Depth(T, t) \in 0..Len(t)
         /\ \A j \in 0..Depth(T, t) - 1 : Descends(T, t, j)
         /\ Depth(T, t) = Len(t) \/ ~Descends(T, t, Depth(T, t))
<1> DEFINE Ends(i) == i = Len(t) \/ ~Descends(T, t, i)
           S == {i \in 0..Len(t) : Ends(i)}
<1>1. Len(t) \in Nat
  OBVIOUS
<1>2. Len(t) \in S /\ S \in SUBSET Nat
  BY <1>1
<1>3. PICK i \in S : \A j \in S : i <= j
  BY <1>2, Least
<1>4. i \in 0..Len(t) /\ Ends(i)
  BY <1>3
<1>5. \A j \in 0..i - 1 : Descends(T, t, j)
  <2>1. TAKE j \in 0..i - 1
  <2>2. j \in 0..Len(t) /\ ~(i <= j)
    BY <1>1, <1>4
  <2>3. j \notin S
    BY <1>3, <2>2
  <2> QED
    BY <2>2, <2>3
<1>6. \E k \in 0..Len(t) : /\ \A j \in 0..k - 1 : Descends(T, t, j)
                           /\ k = Len(t) \/ ~Descends(T, t, k)
  BY <1>4, <1>5
<1> QED
  BY <1>6, Zenon DEF Depth

(* The prefixes of t that have a node are those as long as Depth at most.  *)
LEMMA DepthOf ==
  ASSUME NEW T, Trie(T), T # <<>>, NEW t \in Seq(Char)
  PROVE  /\ Depth(T, t) \in 0..Len(t)
         /\ \A i \in 0..Len(t) : Prefix(t, i) \in DOMAIN T <=> i <= Depth(T, t)
<1> DEFINE d == Depth(T, t)
<1>1. /\ d \in 0..Len(t)
      /\ \A j \in 0..d - 1 : Descends(T, t, j)
      /\ d = Len(t) \/ ~Descends(T, t, d)
  BY DepthType
<1> HIDE DEF d
<1>2. Prefix(t, d) \in DOMAIN T
  <2>1. CASE d = 0
    BY <2>1, PrefixAll DEF Trie
  <2>2. CASE d # 0
    <3>1. d - 1 \in 0..d - 1 /\ d - 1 \in 0..Len(t) - 1 /\ (d - 1) + 1 = d
      BY <1>1, <2>2
    <3>2. Descends(T, t, d - 1)
      BY <1>1, <3>1
    <3> QED
      BY <3>1, <3>2, Hangs
  <2> QED
    BY <2>1, <2>2
<1>3. ASSUME NEW i \in 0..Len(t), i <= d PROVE Prefix(t, i) \in DOMAIN T
  <2>1. i \in 0..d
    BY <1>3
  <2>2. Len(Prefix(t, d)) = d /\ Prefix(Prefix(t, d), i) = Prefix(t, i)
    BY <1>1, <2>1, PrefixIs, PrefixShorter
  <2> QED
    BY <1>2, <2>1, <2>2, TrieNode
<1>4. ASSUME NEW i \in 0..Len(t), ~(i <= d), Prefix(t, i) \in DOMAIN T PROVE FALSE
  <2>1. d + 1 \in 0..Len(Prefix(t, i)) /\ d + 1 \in 0..i /\ d \in 0..Len(t) - 1 /\ d # Len(t)
    BY <1>1, <1>4, PrefixIs
  <2>2. Prefix(Prefix(t, i), d + 1) = Prefix(t, d + 1)
    BY <2>1, PrefixShorter
  <2>3. Prefix(t, d + 1) \in DOMAIN T
    BY <1>4, <2>1, <2>2, TrieNode
  <2> QED
    BY <1>1, <2>1, <2>3, Hangs
<1>5. \A i \in 0..Len(t) : Prefix(t, i) \in DOMAIN T <=> i <= d
  BY <1>3, <1>4
<1> QED
  BY <1>1, <1>5 DEF d

(* A text leads as deep as the longest of its prefixes with a node.        *)
LEMMA DepthIs ==
  ASSUME NEW T, Trie(T), T # <<>>, NEW t \in Seq(Char), NEW i \in 0..Len(t),
         Prefix(t, i) \in DOMAIN T, i = Len(t) \/ Prefix(t, i + 1) \notin DOMAIN T
  PROVE  Depth(T, t) = i
<1>1. /\ Depth(T, t) \in 0..Len(t)
      /\ \A j \in 0..Len(t) : Prefix(t, j) \in DOMAIN T <=> j <= Depth(T, t)
  BY DepthOf
<1>2. i <= Depth(T, t)
  BY <1>1
<1>3. CASE i = Len(t)
  BY <1>1, <1>2, <1>3
<1>4. CASE i # Len(t)
  <2>1. i + 1 \in 0..Len(t)
    BY <1>4
  <2>2. ~(i + 1 <= Depth(T, t))
    BY <1>1, <1>4, <2>1
  <2> QED
    BY <1>1, <1>2, <2>2
<1> QED
  BY <1>3, <1>4
-------------------------------------------------------------------------------
(* The items that are stored for text t.                                   *)
With(T, t) == {x \in StoredIn(T) : Text[x.key] = t}

(* An item is a node's own or sits in one of its leaves; its key's text    *)
(* tells where.                                                            *)
LEMMA StoredWhere ==
  ASSUME NEW T, Trie(T), NEW x \in StoredIn(T)
  PROVE  /\ x \in Items
         /\ Text[x.key] \in Seq(Char)
         /\ \/ /\ Text[x.key] \in DOMAIN T
               /\ x \in T[Text[x.key]].value
            \/ \E p \in DOMAIN T, c \in Char :
                 /\ c \in DOMAIN T[p].leaf
                 /\ Text[x.key] = Append(p, c)
                 /\ Append(p, c) \notin DOMAIN T
                 /\ x = T[p].leaf[c]
<1>1. PICK p \in DOMAIN T : x \in ItemsOf(T[p])
  BY DEF StoredIn
<1>2. x \in T[p].value \/ \E c \in DOMAIN T[p].leaf : x = T[p].leaf[c]
  BY <1>1 DEF ItemsOf, Range
<1>3. /\ p \in Seq(Char) /\ NodeShape(T[p]) /\ ItemsEndAt(T[p], p)
      /\ DOMAIN T[p].leaf \subseteq Char
      /\ \A c \in Char : c \in T[p].sub <=> Append(p, c) \in DOMAIN T
  BY TrieNode
<1>4. CASE x \in T[p].value
  BY <1>3, <1>4 DEF ItemsEndAt
<1>5. ASSUME NEW c \in DOMAIN T[p].leaf, x = T[p].leaf[c]
      PROVE  /\ x \in Items /\ Text[x.key] = Append(p, c) /\ c \in Char
             /\ Append(p, c) \in Seq(Char)
             /\ Append(p, c) \notin DOMAIN T
  <2>1. c \in Char /\ c \notin T[p].sub
    BY <1>3, <1>5 DEF NodeShape
  <2>2. x \in Items /\ Text[x.key] = Append(p, c)
    BY <1>3, <1>5 DEF ItemsEndAt
  <2>3. Append(p, c) \notin DOMAIN T
    BY <1>3, <2>1
  <2>4. Append(p, c) \in Seq(Char)
    BY <1>3, <2>1, AppendIs
  <2> QED
    BY <2>1, <2>2, <2>3, <2>4
<1> QED
  BY <1>2, <1>4, <1>5

(* What is stored for a text with a node is the node's own item.           *)
LEMMA ValueIsStored ==
  ASSUME NEW T, Trie(T), NEW p \in DOMAIN T
  PROVE  T[p].value = With(T, p)
<1>1. p \in Seq(Char) /\ ItemsEndAt(T[p], p)
  BY TrieNode
<1>2. ASSUME NEW x \in T[p].value PROVE x \in With(T, p)
  BY <1>1 DEF With, StoredIn, ItemsOf, ItemsEndAt
<1>3. ASSUME NEW x \in With(T, p) PROVE x \in T[p].value
  <2>1. x \in StoredIn(T) /\ Text[x.key] = p
    BY DEF With
  <2>2. ~\E q \in DOMAIN T, c \in Char : p = Append(q, c) /\ Append(q, c) \notin DOMAIN T
    OBVIOUS
  <2> QED
    BY <2>1, <2>2, StoredWhere
<1> QED
  BY <1>2, <1>3

(* What is stored for a text without a node is the leaf of its last        *)
(* character.                                                              *)
LEMMA LeafIsStored ==
  ASSUME NEW T, Trie(T), NEW p \in DOMAIN T, NEW c \in Char, Append(p, c) \notin DOMAIN T
  PROVE  LeafAt(T[p], c) = With(T, Append(p, c))
<1>1. p \in Seq(Char) /\ ItemsEndAt(T[p], p)
  BY TrieNode
<1>2. ASSUME NEW x \in LeafAt(T[p], c) PROVE x \in With(T, Append(p, c))
  <2>1. c \in DOMAIN T[p].leaf /\ x = T[p].leaf[c]
    BY <1>2 DEF LeafAt
  <2> QED
    BY <1>1, <2>1 DEF With, StoredIn, ItemsOf, ItemsEndAt, Range
<1>3. ASSUME NEW x \in With(T, Append(p, c)) PROVE x \in LeafAt(T[p], c)
  <2>1. x \in StoredIn(T) /\ Text[x.key] = Append(p, c)
    BY DEF With
  <2>2. PICK q \in DOMAIN T, e \in Char : /\ e \in DOMAIN T[q].leaf
                                          /\ Append(p, c) = Append(q, e)
                                          /\ x = T[q].leaf[e]
    <3>1. Text[x.key] \notin DOMAIN T
      BY <2>1
    <3> DEFINE At(q, e) == /\ e \in DOMAIN T[q].leaf
                           /\ Text[x.key] = Append(q, e)
                           /\ Append(q, e) \notin DOMAIN T
                           /\ x = T[q].leaf[e]
    <3>2. (Text[x.key] \in DOMAIN T) \/ \E q \in DOMAIN T, e \in Char : At(q, e)
      BY <2>1, StoredWhere
    <3>3. PICK q \in DOMAIN T, e \in Char : At(q, e)
      BY <3>1, <3>2
    <3> QED
      BY <2>1, <3>3
  <2>3. q \in Seq(Char)
    BY TrieNode
  <2>4. p = q /\ c = e
    BY <1>1, <2>1, <2>2, <2>3, AppendInjective
  <2> QED
    BY <2>2, <2>4 DEF LeafAt
<1> QED
  BY <1>2, <1>3

(* A text without a node to hang from has no item.                         *)
LEMMA NothingStored ==
  ASSUME NEW T, Trie(T), NEW t \in Seq(Char), t \notin DOMAIN T,
         t = Root \/ Prefix(t, Len(t) - 1) \notin DOMAIN T
  PROVE  With(T, t) = {}
<1>1. SUFFICES ASSUME NEW x \in With(T, t) PROVE FALSE
  OBVIOUS
<1>2. x \in StoredIn(T) /\ Text[x.key] = t
  BY DEF With
<1>3. PICK q \in DOMAIN T, e \in Char : t = Append(q, e)
  BY <1>2, StoredWhere
<1>4. q \in Seq(Char)
  BY TrieNode
<1>5. t # Root /\ Prefix(t, Len(t) - 1) = q
  BY <1>3, <1>4, AppendIs
<1> QED
  BY <1>5

(* Find finds what is stored for the text, and nothing else.               *)
LEMMA FindIs ==
  ASSUME NEW T, Trie(T), NEW t \in Seq(Char)
  PROVE  Find(T, t) = With(T, t)
<1>1. CASE T = <<>>
  <2>1. Find(T, t) = {}
    BY <1>1 DEF Find
  <2>2. StoredIn(T) = {}
    BY <1>1 DEF StoredIn
  <2> QED
    BY <2>1, <2>2 DEF With
<1>2. CASE T # <<>>
  <2> DEFINE d == Depth(T, t)
  <2>1. /\ d \in 0..Len(t)
        /\ \A i \in 0..Len(t) : Prefix(t, i) \in DOMAIN T <=> i <= d
    BY <1>2, DepthOf
  <2>2. Find(T, t) = IF d = Len(t) THEN T[Prefix(t, d)].value
                     ELSE IF d = Len(t) - 1 THEN LeafAt(T[Prefix(t, d)], t[d + 1])
                     ELSE {}
    BY <1>2 DEF Find, Deepest
  <2> HIDE DEF d
  <2>3. Prefix(t, d) \in DOMAIN T /\ (d # Len(t) => Prefix(t, Len(t)) \notin DOMAIN T)
    BY <2>1
  <2>4. CASE d = Len(t)
    BY <2>2, <2>3, <2>4, PrefixAll, ValueIsStored
  <2>5. CASE d = Len(t) - 1
    <3>1. d \in 0..Len(t) - 1 /\ d # Len(t) /\ d + 1 = Len(t)
      BY <2>1, <2>5
    <3>2. t[d + 1] \in Char /\ Append(Prefix(t, d), t[d + 1]) = Prefix(t, d + 1)
      BY <3>1, PrefixStep
    <3>3. Append(Prefix(t, d), t[d + 1]) = t /\ t \notin DOMAIN T
      BY <2>3, <3>1, <3>2, PrefixAll
    <3>4. LeafAt(T[Prefix(t, d)], t[d + 1]) = With(T, t)
      BY <2>3, <3>2, <3>3, LeafIsStored
    <3> QED
      BY <2>2, <2>5, <3>1, <3>4
  <2>6. CASE d # Len(t) /\ d # Len(t) - 1
    <3>1. t \notin DOMAIN T
      BY <2>3, <2>6, PrefixAll
    <3>2. Len(t) - 1 \in 0..Len(t) /\ ~(Len(t) - 1 <= d)
      BY <2>1, <2>6
    <3>3. Prefix(t, Len(t) - 1) \notin DOMAIN T
      BY <2>1, <3>2
    <3> QED
      BY <2>2, <2>6, <3>1, <3>3, NothingStored
  <2> QED
    BY <2>4, <2>5, <2>6
<1> QED
  BY <1>1, <1>2

(* There is one item for a text at most. *)
LEMMA OneItem ==
  ASSUME NEW T, Trie(T), NEW x \in StoredIn(T), NEW y \in StoredIn(T),
         Text[x.key] = Text[y.key]
  PROVE  x = y
<1>1. CASE Text[x.key] \in DOMAIN T
  <2>1. x \in T[Text[x.key]].value /\ y \in T[Text[x.key]].value
    BY <1>1, ValueIsStored DEF With
  <2>2. ItemsEndAt(T[Text[x.key]], Text[x.key])
    BY <1>1, TrieNode
  <2> QED
    BY <2>1, <2>2 DEF ItemsEndAt
<1>2. CASE Text[x.key] \notin DOMAIN T
  <2>1. PICK p \in DOMAIN T, c \in Char : /\ Text[x.key] = Append(p, c)
                                          /\ Append(p, c) \notin DOMAIN T
    BY <1>2, StoredWhere
  <2>2. With(T, Append(p, c)) = LeafAt(T[p], c)
    BY <2>1, LeafIsStored
  <2>3. x \in LeafAt(T[p], c) /\ y \in LeafAt(T[p], c)
    BY <2>1, <2>2 DEF With
  <2> QED
    BY <2>3 DEF LeafAt
<1> QED
  BY <1>1, <1>2
-------------------------------------------------------------------------------
(* What the operators on nodes make of a node, field by field.             *)
Fields(s, e, v, u, l) == [start |-> s, end |-> e, value |-> v, sub |-> u, leaf |-> l]

(* The fields of a node made of them.                                      *)
LEMMA FieldsAre ==
  ASSUME NEW s, NEW e, NEW v, NEW u, NEW l
  PROVE  /\ Fields(s, e, v, u, l).start = s /\ Fields(s, e, v, u, l).end = e
         /\ Fields(s, e, v, u, l).value = v /\ Fields(s, e, v, u, l).sub = u
         /\ Fields(s, e, v, u, l).leaf = l
  BY DEF Fields

(* When such a node is well formed.                                        *)
LEMMA FieldsShape ==
  ASSUME NEW s \in Char, NEW e \in Char, s <= e + 1, NEW v, NEW u, NEW l,
         u \cup DOMAIN l \subseteq s .. e, u \cap DOMAIN l = {}
  PROVE  NodeShape(Fields(s, e, v, u, l))
<1> DEFINE m == Fields(s, e, v, u, l)
<1>1. m.start = s /\ m.end = e /\ m.value = v /\ m.sub = u /\ m.leaf = l
  BY FieldsAre
<1>2. m = [start |-> s, end |-> e, value |-> v, sub |-> u, leaf |-> l]
  BY DEF Fields
<1> HIDE DEF m
<1>3. NodeShape(m)
  BY <1>1, <1>2 DEF NodeShape, Occupied
<1> QED
  BY <1>3 DEF m

(* One field of a node is set. *)
LEMMA SubSet ==
  ASSUME NEW n, NodeShape(n), NEW u
  PROVE  [n EXCEPT !.sub = u] = Fields(n.start, n.end, n.value, u, n.leaf)
  BY DEF NodeShape, Fields

(* A node with another item of its own.                                    *)
LEMMA ValueSet ==
  ASSUME NEW n, NodeShape(n), NEW v
  PROVE  [n EXCEPT !.value = v] = Fields(n.start, n.end, v, n.sub, n.leaf)
  BY DEF NodeShape, Fields

(* A node with other leaves.                                               *)
LEMMA LeafSet ==
  ASSUME NEW s, NEW e, NEW v, NEW u, NEW l, NEW k
  PROVE  [Fields(s, e, v, u, l) EXCEPT !.leaf = k] = Fields(s, e, v, u, k)
  BY DEF Fields

(* A new node is well formed and empty.                                    *)
LEMMA NodeFields ==
  ASSUME NEW s \in Char, NEW e \in Char, s <= e + 1, NEW v
  PROVE  /\ NodeShape(Node(s, e, v))
         /\ Node(s, e, v).start = s /\ Node(s, e, v).end = e
         /\ Node(s, e, v).value = v /\ Node(s, e, v).sub = {}
         /\ DOMAIN Node(s, e, v).leaf = {}
<1>1. Node(s, e, v) = Fields(s, e, v, {}, <<>>) /\ DOMAIN <<>> = {}
  BY DEF Node, Fields
<1> QED
  BY <1>1, FieldsAre, FieldsShape

(* Node m is n with a node, nothing, or item x in the slot for c; with the *)
(* items v as its own.                                                     *)
SameRange(m, n) == NodeShape(m) /\ m.start = n.start /\ m.end = n.end

(* m is n with a node in c's slot.                                         *)
HasNode(m, n, c) ==
  /\ SameRange(m, n) /\ m.value = n.value
  /\ m.sub = n.sub \cup {c}
  /\ m.leaf = Restrict(n.leaf, DOMAIN n.leaf \ {c})

(* m is n with c's slot empty.                                             *)
HasNothing(m, n, c) ==
  /\ SameRange(m, n) /\ m.value = n.value
  /\ m.sub = n.sub \ {c}
  /\ m.leaf = Restrict(n.leaf, DOMAIN n.leaf \ {c})

(* m is n with leaf x in c's slot.                                         *)
HasLeaf(m, n, c, x) ==
  /\ SameRange(m, n) /\ m.value = n.value
  /\ m.sub = n.sub
  /\ m.leaf = [y \in DOMAIN n.leaf \cup {c} |-> IF y = c THEN x ELSE n.leaf[y]]

(* m is n with the own items v.                                            *)
HasValue(m, n, v) ==
  /\ SameRange(m, n) /\ m.value = v
  /\ m.sub = n.sub
  /\ m.leaf = n.leaf

(* A slot that gets a node.                                                *)
LEMMA SetNodeFields ==
  ASSUME NEW n, NodeShape(n), NEW c, InRange(n, c)
  PROVE  HasNode(SetNode(n, c), n, c)
<1> DEFINE u == n.sub \cup {c}
           m == [n EXCEPT !.sub = u]
           l == Restrict(n.leaf, DOMAIN n.leaf \ {c})
<1>1. SetNode(n, c) = [m EXCEPT !.leaf = Restrict(m.leaf, DOMAIN m.leaf \ {c})]
  BY DEF SetNode
<1> HIDE DEF m
<1>2. m = Fields(n.start, n.end, n.value, u, n.leaf)
  BY SubSet DEF m
<1>3. SetNode(n, c) = Fields(n.start, n.end, n.value, u, l)
  <2>1. m.leaf = n.leaf
    BY <1>2, FieldsAre
  <2>2. [Fields(n.start, n.end, n.value, u, n.leaf) EXCEPT !.leaf = l]
          = Fields(n.start, n.end, n.value, u, l)
    <3> HIDE DEF l, u
    <3> QED
      BY LeafSet
  <2>3. [m EXCEPT !.leaf = l] = Fields(n.start, n.end, n.value, u, l)
    BY <1>2, <2>2
  <2> QED
    BY <1>1, <2>1, <2>3
<1>4. DOMAIN l = DOMAIN n.leaf \ {c}
  BY DEF Restrict
<1>5. /\ n.start \in Char /\ n.end \in Char /\ n.start <= n.end + 1
      /\ u \cup DOMAIN l \subseteq n.start .. n.end /\ u \cap DOMAIN l = {}
  BY <1>4 DEF NodeShape, Occupied, InRange
<1> HIDE DEF u, l
<1>6. NodeShape(SetNode(n, c))
  BY <1>3, <1>5, FieldsShape
<1> QED
  BY <1>3, <1>6, FieldsAre DEF u, l, HasNode, SameRange

(* An emptied slot.                                                        *)
LEMMA SetEmptyFields ==
  ASSUME NEW n, NodeShape(n), NEW c
  PROVE  HasNothing(SetEmpty(n, c), n, c)
<1> DEFINE u == n.sub \ {c}
           m == [n EXCEPT !.sub = u]
           l == Restrict(n.leaf, DOMAIN n.leaf \ {c})
<1>1. SetEmpty(n, c) = [m EXCEPT !.leaf = Restrict(m.leaf, DOMAIN m.leaf \ {c})]
  BY DEF SetEmpty
<1> HIDE DEF m
<1>2. m = Fields(n.start, n.end, n.value, u, n.leaf)
  BY SubSet DEF m
<1>3. SetEmpty(n, c) = Fields(n.start, n.end, n.value, u, l)
  <2>1. m.leaf = n.leaf
    BY <1>2, FieldsAre
  <2>2. [Fields(n.start, n.end, n.value, u, n.leaf) EXCEPT !.leaf = l]
          = Fields(n.start, n.end, n.value, u, l)
    <3> HIDE DEF l, u
    <3> QED
      BY LeafSet
  <2>3. [m EXCEPT !.leaf = l] = Fields(n.start, n.end, n.value, u, l)
    BY <1>2, <2>2
  <2> QED
    BY <1>1, <2>1, <2>3
<1>4. DOMAIN l = DOMAIN n.leaf \ {c}
  BY DEF Restrict
<1>5. /\ n.start \in Char /\ n.end \in Char /\ n.start <= n.end + 1
      /\ u \cup DOMAIN l \subseteq n.start .. n.end /\ u \cap DOMAIN l = {}
  BY <1>4 DEF NodeShape, Occupied
<1> HIDE DEF u, l
<1>6. NodeShape(SetEmpty(n, c))
  BY <1>3, <1>5, FieldsShape
<1> QED
  BY <1>3, <1>6, FieldsAre DEF u, l, HasNothing, SameRange

(* A slot that gets a leaf.                                                *)
LEMMA SetLeafFields ==
  ASSUME NEW n, NodeShape(n), NEW c, InRange(n, c), c \notin n.sub, NEW x
  PROVE  HasLeaf(SetLeaf(n, c, x), n, c, x)
<1> DEFINE l == [y \in DOMAIN n.leaf \cup {c} |-> IF y = c THEN x ELSE n.leaf[y]]
<1>1. SetLeaf(n, c, x) = Fields(n.start, n.end, n.value, n.sub, l)
  BY DEF SetLeaf, NodeShape, Fields
<1>2. DOMAIN l = DOMAIN n.leaf \cup {c}
  OBVIOUS
<1>3. /\ n.start \in Char /\ n.end \in Char /\ n.start <= n.end + 1
      /\ n.sub \cup DOMAIN l \subseteq n.start .. n.end /\ n.sub \cap DOMAIN l = {}
  BY <1>2 DEF NodeShape, Occupied, InRange
<1> HIDE DEF l
<1>4. NodeShape(SetLeaf(n, c, x))
  BY <1>1, <1>3, FieldsShape
<1> QED
  BY <1>1, <1>4, FieldsAre DEF l, HasLeaf, SameRange

(* A node that gets an item of its own, or loses it.                       *)
LEMMA SetValueFields ==
  ASSUME NEW n, NodeShape(n), NEW v
  PROVE  HasValue([n EXCEPT !.value = v], n, v)
<1>1. [n EXCEPT !.value = v] = Fields(n.start, n.end, v, n.sub, n.leaf)
  BY ValueSet
<1>2. /\ n.start \in Char /\ n.end \in Char /\ n.start <= n.end + 1
      /\ n.sub \cup DOMAIN n.leaf \subseteq n.start .. n.end
      /\ n.sub \cap DOMAIN n.leaf = {}
  BY DEF NodeShape, Occupied
<1>3. NodeShape([n EXCEPT !.value = v])
  BY <1>1, <1>2, FieldsShape
<1> QED
  BY <1>1, <1>3, FieldsAre DEF HasValue, SameRange

(* A range of characters that is extended below or above.                  *)
LEMMA Ranges ==
  ASSUME NEW s \in Char, NEW e \in Char, s <= e + 1, NEW c \in Char
  PROVE  /\ c < s => s .. e \subseteq c .. e /\ c <= e /\ c \in c .. e
         /\ ~(c < s) /\ c \notin s .. e => c > e
         /\ ~(c < s) /\ c > e => s .. e \subseteq s .. c /\ s <= c /\ c \in s .. c
  BY DEF Char

(* A node is replaced by one with a range that includes c too.             *)
LEMMA ExtendedFields ==
  ASSUME NEW n, NodeShape(n), NEW c \in Char, ~InRange(n, c)
  PROVE  /\ NodeShape(Extended(n, c))
         /\ Extended(n, c).value = n.value
         /\ Extended(n, c).sub = n.sub
         /\ Extended(n, c).leaf = n.leaf
         /\ \/ c < n.start /\ Extended(n, c).start = c /\ Extended(n, c).end = n.end
            \/ c > n.end /\ Extended(n, c).start = n.start /\ Extended(n, c).end = c
         /\ InRange(Extended(n, c), c)
<1>1. /\ n.start \in Char /\ n.end \in Char /\ n.start <= n.end + 1
      /\ n.sub \cup DOMAIN n.leaf \subseteq n.start .. n.end
      /\ n.sub \cap DOMAIN n.leaf = {}
  BY DEF NodeShape, Occupied
<1>2. CASE c < n.start
  <2>1. Extended(n, c) = Fields(c, n.end, n.value, n.sub, n.leaf)
    BY <1>2 DEF Extended, NodeShape, Fields
  <2>2. n.start .. n.end \subseteq c .. n.end /\ c <= n.end /\ c \in c .. n.end
    BY <1>1, <1>2, Ranges
  <2> c <= n.end + 1
    BY <1>1, <2>2 DEF Char
  <2>3. n.sub \cup DOMAIN n.leaf \subseteq c .. n.end
    BY <1>1, <2>2
  <2>4. NodeShape(Extended(n, c))
    BY <1>1, <2>1, <2>2, <2>3, FieldsShape
  <2>5. /\ Extended(n, c).start = c /\ Extended(n, c).end = n.end
        /\ Extended(n, c).value = n.value /\ Extended(n, c).sub = n.sub
        /\ Extended(n, c).leaf = n.leaf
    BY <2>1, FieldsAre
  <2>6. InRange(Extended(n, c), c)
    BY <2>2, <2>5 DEF InRange
  <2> QED
    BY <1>2, <2>4, <2>5, <2>6
<1>3. CASE ~(c < n.start)
  <2>1. Extended(n, c) = Fields(n.start, c, n.value, n.sub, n.leaf)
    BY <1>3 DEF Extended, NodeShape, Fields
  <2>2. c > n.end
    BY <1>1, <1>3, Ranges DEF InRange
  <2>3. n.start .. n.end \subseteq n.start .. c /\ n.start <= c /\ c \in n.start .. c
    BY <1>1, <1>3, <2>2, Ranges
  <2> n.start <= c + 1
    BY <1>1, <2>3 DEF Char
  <2>4. n.sub \cup DOMAIN n.leaf \subseteq n.start .. c
    BY <1>1, <2>3
  <2>5. NodeShape(Extended(n, c))
    BY <1>1, <2>1, <2>3, <2>4, FieldsShape
  <2>6. /\ Extended(n, c).start = n.start /\ Extended(n, c).end = c
        /\ Extended(n, c).value = n.value /\ Extended(n, c).sub = n.sub
        /\ Extended(n, c).leaf = n.leaf
    BY <2>1, FieldsAre
  <2>7. InRange(Extended(n, c), c)
    BY <2>3, <2>6 DEF InRange
  <2> QED
    BY <2>2, <2>5, <2>6, <2>7
<1> QED
  BY <1>2, <1>3
-------------------------------------------------------------------------------
(* The steps of an insertion and of a deletion, on whole tries.            *)
(* A node at p that takes over the items of another there, or gets some of *)
(* its own.                                                                *)
LEMMA EndAt ==
  ASSUME NEW n, NEW p, ItemsEndAt(n, p), NEW m, m.value = n.value,
         \A y \in DOMAIN m.leaf :
           \/ y \in DOMAIN n.leaf /\ m.leaf[y] = n.leaf[y]
           \/ m.leaf[y] \in Items /\ Text[m.leaf[y].key] = Append(p, y)
  PROVE  ItemsEndAt(m, p)
<1>1. \A y \in DOMAIN m.leaf : m.leaf[y] \in Items /\ Text[m.leaf[y].key] = Append(p, y)
  BY DEF ItemsEndAt
<1>2. /\ \A x \in m.value : x \in Items /\ Text[x.key] = p
      /\ \A x, y \in m.value : x = y
  BY DEF ItemsEndAt
<1> QED
  BY <1>1, <1>2 DEF ItemsEndAt

(* Characters are numbers.                                                 *)
LEMMA CharNumber == \A c \in Char : c \in Nat /\ c <= c + 1
  BY DEF Char

(* A dictionary without a root stores nothing.                             *)
LEMMA NoTrie == DOMAIN <<>> = {} /\ Trie(<<>>) /\ StoredIn(<<>>) = {}
  BY DEF Trie, StoredIn

(* A dictionary with a node has a root.                                    *)
LEMMA TrieHasRoot ==
  ASSUME NEW T, NEW p \in DOMAIN T
  PROVE  T # <<>>
  OBVIOUS

(* One node is replaced, and nothing is hung from it or taken down; items  *)
(* may go and come.                                                        *)
Replaces(T, p, m, gone, new) ==
  /\ m.sub = T[p].sub
  /\ ItemsOf(m) = (ItemsOf(T[p]) \ gone) \cup new
  /\ \A q \in DOMAIN T : q # p => ItemsOf(T[q]) \cap gone = {}

(* U is T with node m at p, and stores "new" in the place of "gone".       *)
Replaced(U, T, p, m, gone, new) ==
  /\ DOMAIN U = DOMAIN T
  /\ U[p] = m
  /\ \A q \in DOMAIN T : q # p => U[q] = T[q]
  /\ Trie(U)
  /\ StoredIn(U) = (StoredIn(T) \ gone) \cup new

(* To replace one node by a well-formed one keeps the trie a trie.         *)
LEMMA SetAt ==
  ASSUME NEW T, Trie(T), NEW p \in DOMAIN T, NEW m, NodeShape(m), ItemsEndAt(m, p),
         NEW gone, NEW new, Replaces(T, p, m, gone, new)
  PROVE  Replaced([T EXCEPT ![p] = m], T, p, m, gone, new)
<1> DEFINE U == [T EXCEPT ![p] = m]
<1>0. /\ m.sub = T[p].sub
      /\ ItemsOf(m) = (ItemsOf(T[p]) \ gone) \cup new
      /\ \A q \in DOMAIN T : q # p => ItemsOf(T[q]) \cap gone = {}
  BY DEF Replaces
<1>1. /\ DOMAIN U = DOMAIN T /\ U[p] = m
      /\ \A q \in DOMAIN T : q # p => U[q] = T[q]
  OBVIOUS
<1> HIDE DEF U
<1>2. Trie(U)
  <2>1. Root \in DOMAIN U
    BY <1>1, TrieHasRoot DEF Trie
  <2>2. DOMAIN U \subseteq Seq(Char)
    BY <1>1 DEF Trie
  <2>3. ASSUME NEW q \in DOMAIN U
        PROVE  /\ \A i \in 0..Len(q) : Prefix(q, i) \in DOMAIN U
               /\ \A c \in Char : c \in U[q].sub <=> Append(q, c) \in DOMAIN U
               /\ NodeShape(U[q]) /\ ItemsEndAt(U[q], q)
    <3>1. /\ \A i \in 0..Len(q) : Prefix(q, i) \in DOMAIN T
          /\ \A c \in Char : c \in T[q].sub <=> Append(q, c) \in DOMAIN T
          /\ NodeShape(T[q]) /\ ItemsEndAt(T[q], q)
      BY <1>1, TrieNode
    <3>2. U[q].sub = T[q].sub
      BY <1>0, <1>1
    <3>3. NodeShape(U[q]) /\ ItemsEndAt(U[q], q)
      BY <1>1, <3>1
    <3> QED
      BY <1>1, <3>1, <3>2, <3>3
  <2> QED
    BY <2>1, <2>2, <2>3 DEF Trie
<1>3. StoredIn(U) = (StoredIn(T) \ gone) \cup new
  <2>1. ASSUME NEW x \in StoredIn(U) PROVE x \in (StoredIn(T) \ gone) \cup new
    <3>1. PICK q \in DOMAIN T : x \in ItemsOf(U[q])
      BY <1>1 DEF StoredIn
    <3>2. CASE q = p
      BY <1>0, <1>1, <3>1, <3>2 DEF StoredIn
    <3>3. CASE q # p
      BY <1>0, <1>1, <3>1, <3>3 DEF StoredIn
    <3> QED
      BY <3>2, <3>3
  <2>2. ASSUME NEW x \in (StoredIn(T) \ gone) \cup new PROVE x \in StoredIn(U)
    <3>1. CASE x \in new
      BY <1>0, <1>1, <3>1 DEF StoredIn
    <3>2. CASE x \in StoredIn(T) \ gone
      <4>1. PICK q \in DOMAIN T : x \in ItemsOf(T[q])
        BY <3>2 DEF StoredIn
      <4>2. x \in ItemsOf(U[q])
        BY <1>0, <1>1, <3>2, <4>1
      <4> QED
        BY <1>1, <4>2 DEF StoredIn
    <3> QED
      BY <3>1, <3>2
  <2> QED
    BY <2>1, <2>2
<1> QED
  BY <1>1, <1>2, <1>3 DEF Replaced, U

(* A trie has a root before anything else. *)
LEMMA WithRootIs ==
  ASSUME NEW T, Trie(T), NEW t \in Seq(Char)
  PROVE  /\ Trie(WithRoot(T, t))
         /\ WithRoot(T, t) # <<>>
         /\ DOMAIN WithRoot(T, t) = DOMAIN T \cup {Root}
         /\ StoredIn(WithRoot(T, t)) = StoredIn(T)
         /\ T # <<>> => WithRoot(T, t) = T
         /\ T = <<>> => /\ Root \notin DOMAIN T
                        /\ t = Root => WithRoot(T, t)[Root] = Node(1, 0, {})
                        /\ t # Root => WithRoot(T, t)[Root] = Node(t[1], t[1], {})
<1>1. CASE T # <<>>
  <2>1. WithRoot(T, t) = T /\ Root \in DOMAIN T
    BY <1>1 DEF WithRoot, Trie
  <2> QED
    BY <1>1, <2>1
<1>2. CASE T = <<>>
  <2> DEFINE n == IF t = <<>> THEN Node(1, 0, {}) ELSE Node(t[1], t[1], {})
             U == WithRoot(T, t)
  <2>1. U = [p \in {Root} |-> n]
    BY <1>2 DEF WithRoot
  <2>2. DOMAIN U = {Root} /\ U[Root] = n
    BY <2>1
  <2>3. NodeShape(n) /\ n.value = {} /\ n.sub = {} /\ DOMAIN n.leaf = {}
    <3>1. CASE t = <<>>
      <4>1. 1 \in Char /\ 0 \in Char /\ 1 <= 0 + 1
        BY DEF Char
      <4>2. n = Node(1, 0, {})
        BY <3>1
      <4> QED
        BY <4>1, <4>2, NodeFields
    <3>2. CASE t # <<>>
      <4>1. n = Node(t[1], t[1], {})
        BY <3>2
      <4>2. t[1] \in Char
        BY <3>2
      <4>3. t[1] <= t[1] + 1
        BY <4>2, CharNumber
      <4>4. /\ NodeShape(Node(t[1], t[1], {})) /\ Node(t[1], t[1], {}).value = {}
            /\ Node(t[1], t[1], {}).sub = {} /\ DOMAIN Node(t[1], t[1], {}).leaf = {}
        BY <4>2, <4>3, NodeFields
      <4> HIDE DEF n
      <4> QED
        BY <4>1, <4>4
    <3> QED
      BY <3>1, <3>2
  <2>4. t = Root => n = Node(1, 0, {})
    BY DEF Root
  <2>5. t # Root => n = Node(t[1], t[1], {})
    BY DEF Root
  <2> HIDE DEF n, U
  <2>6. ItemsOf(n) = {}
    BY <2>3 DEF ItemsOf, Range
  <2>7. StoredIn(U) = {} /\ StoredIn(T) = {}
    BY <1>2, <2>2, <2>6, NoTrie DEF StoredIn
  <2>8. Trie(U)
    <3>1. Root \in Seq(Char) /\ \A i \in 0..Len(Root) : Prefix(Root, i) = Root
      <4>1. \A i \in 0..Len(Root) : i = 0
        BY EmptyText
      <4> QED
        BY <4>1, EmptyText, PrefixAll
    <3>2. \A c \in Char : c \in n.sub <=> Append(Root, c) \in DOMAIN U
      BY <2>2, <2>3, EmptyText, AppendIs
    <3>3. ItemsEndAt(n, Root)
      BY <2>3 DEF ItemsEndAt
    <3> QED
      BY <2>2, <2>3, <3>1, <3>2, <3>3 DEF Trie
  <2>9. U # <<>>
    BY <2>2, TrieHasRoot
  <2>10. DOMAIN T = {}
    BY <1>2
  <2> QED
    BY <1>2, <2>2, <2>4, <2>5, <2>7, <2>8, <2>9, <2>10 DEF U
<1> QED
  BY <1>1, <1>2

(* The deepest node on the way gets a range with the next character.       *)
LEMMA WithRangeIs ==
  ASSUME NEW T, Trie(T), T # <<>>, NEW t \in Seq(Char)
  PROVE  LET U == WithRange(T, t)
             d == Depth(T, t)
         IN
         /\ DOMAIN U = DOMAIN T
         /\ Trie(U) /\ U # <<>>
         /\ StoredIn(U) = StoredIn(T)
         /\ Depth(U, t) = d
         /\ d < Len(t) => InRange(U[Prefix(t, d)], t[d + 1])
         /\ \A q \in DOMAIN T :
              \/ U[q] = T[q]
              \/ /\ q = Prefix(t, d) /\ d < Len(t)
                 /\ t[d + 1] \in Char /\ ~InRange(T[q], t[d + 1])
                 /\ U[q] = Extended(T[q], t[d + 1])
<1> DEFINE U == WithRange(T, t)
           d == Depth(T, t)
           c == t[d + 1]
           p == Prefix(t, d)
<1>1. d \in 0..Len(t) /\ \A i \in 0..Len(t) : Prefix(t, i) \in DOMAIN T <=> i <= d
  BY DepthOf
<1>2. p \in DOMAIN T
  BY <1>1
<1>3. d < Len(t) => c \in Char
  BY <1>1
<1>4. NeedsRange(T, t) <=> d < Len(t) /\ ~InRange(T[p], c)
  BY DEF NeedsRange, Deepest
<1>5. U = IF NeedsRange(T, t) THEN [T EXCEPT ![p] = Extended(T[p], c)] ELSE T
  BY DEF WithRange
<1> HIDE DEF U, d, p, c
<1>6. CASE ~NeedsRange(T, t)
  <2>1. U = T
    BY <1>5, <1>6
  <2> QED
    BY <1>4, <1>6, <2>1 DEF U, d, p, c
<1>7. CASE NeedsRange(T, t)
  <2> DEFINE m == Extended(T[p], c)
  <2>1. /\ NodeShape(T[p]) /\ ItemsEndAt(T[p], p)
        /\ c \in Char /\ ~InRange(T[p], c) /\ d < Len(t)
    BY <1>2, <1>3, <1>4, <1>7, TrieNode
  <2>2. /\ NodeShape(m) /\ m.value = T[p].value /\ m.sub = T[p].sub
        /\ m.leaf = T[p].leaf /\ InRange(m, c)
    BY <2>1, ExtendedFields
  <2> HIDE DEF m
  <2> DEFINE none == {}
  <2>3. ItemsEndAt(m, p)
    BY <2>1, <2>2 DEF ItemsEndAt
  <2>4. U = [T EXCEPT ![p] = m]
    BY <1>5, <1>7 DEF m
  <2>5. Replaces(T, p, m, none, none)
    BY <2>2 DEF Replaces, ItemsOf
  <2> HIDE DEF none
  <2>6. /\ DOMAIN U = DOMAIN T /\ U[p] = m
        /\ \A q \in DOMAIN T : q # p => U[q] = T[q]
        /\ Trie(U)
        /\ StoredIn(U) = (StoredIn(T) \ none) \cup none
    <3>1. Replaced([T EXCEPT ![p] = m], T, p, m, none, none)
      BY <1>2, <2>2, <2>3, <2>5, SetAt
    <3> QED
      BY <2>4, <3>1 DEF Replaced
  <2>7. U # <<>>
    BY <1>2, <2>6, TrieHasRoot
  <2>8. Depth(U, t) = d
    <3>1. Prefix(t, d) \in DOMAIN U
      BY <1>2, <2>6 DEF p
    <3>2. d = Len(t) \/ Prefix(t, d + 1) \notin DOMAIN U
      BY <1>1, <2>6
    <3> QED
      BY <1>1, <2>6, <2>7, <3>1, <3>2, DepthIs
  <2>9. \A q \in DOMAIN T :
              \/ U[q] = T[q]
              \/ /\ q = p /\ d < Len(t)
                 /\ c \in Char /\ ~InRange(T[q], c)
                 /\ U[q] = Extended(T[q], c)
    BY <2>1, <2>6 DEF m
  <2>10. InRange(U[p], c)
    BY <2>2, <2>6
  <2>11. StoredIn(U) = StoredIn(T)
    BY <2>6 DEF none
  <2> QED
    BY <2>6, <2>7, <2>8, <2>9, <2>10, <2>11 DEF U, d, p, c
<1> QED
  BY <1>6, <1>7

(* The new nodes of WithPath, and the one they hang from.                  *)
NewPaths(t, i, n) == {Prefix(t, i + j) : j \in 1..n}

(* The new nodes of U: the first has the item taken, each but the last the *)
(* next.                                                                   *)
OnPath(U, t, i, n, taken) ==
  \A j \in 1..n :
    LET m == U[Prefix(t, i + j)]
        c == t[i + j + 1]
    IN /\ c \in Char
       /\ NodeShape(m)
       /\ m.start = c /\ m.end = c
       /\ m.value = IF j = 1 THEN taken ELSE {}
       /\ m.sub = IF j < n THEN {c} ELSE {}
       /\ DOMAIN m.leaf = {}

(* U is T with n new nodes on the way to t, below the one at depth i.      *)
PathAdded(U, T, t, i, n) ==
  /\ DOMAIN U = DOMAIN T \cup NewPaths(t, i, n)
  /\ \A q \in DOMAIN T : q # Prefix(t, i) => U[q] = T[q]
  /\ HasNode(U[Prefix(t, i)], T[Prefix(t, i)], t[i + 1])
  /\ OnPath(U, t, i, n, ItemTaken(T, t))

(* The node at depth i, where the way to t ends, has a slot for the next   *)
(* of n nodes.                                                             *)
PathReady(T, t, i, n) ==
  /\ i = Depth(T, t)
  /\ i + n <= Len(t) - 1
  /\ InRange(T[Prefix(t, i)], t[i + 1])

(* WithPath adds these nodes and changes no other but their parent.        *)
LEMMA WithPathNodes ==
  ASSUME NEW T, Trie(T), T # <<>>, NEW t \in Seq(Char), NEW i \in Nat, NEW n \in Nat,
         n > 0, PathReady(T, t, i, n)
  PROVE  PathAdded(WithPath(T, t, n), T, t, i, n)
<1> DEFINE New == NewPaths(t, i, n)
           U == WithPath(T, t, n)
           P == Prefix(t, i)
           Value(p) == IF Len(p) = i + 1 THEN ItemTaken(T, t) ELSE {}
           NewNode(p) == Node(t[Len(p) + 1], t[Len(p) + 1], Value(p))
           Linked(m, p) == IF Len(p) \in i..i + n - 1 THEN SetNode(m, t[Len(p) + 1]) ELSE m
<1>1. i = Depth(T, t) /\ i + n <= Len(t) - 1 /\ InRange(T[P], t[i + 1])
  BY DEF PathReady
<1>2. /\ i \in 0..Len(t) - 1 /\ i \in 0..Len(t)
      /\ \A q \in 0..Len(t) : Prefix(t, q) \in DOMAIN T <=> q <= i
  BY <1>1, DepthOf
<1>3. ASSUME NEW j \in 1..n
      PROVE  /\ i + j \in 0..Len(t) - 1 /\ i + j \in 0..Len(t)
             /\ Prefix(t, i + j) \notin DOMAIN T
             /\ Len(Prefix(t, i + j)) = i + j
             /\ t[i + j + 1] \in Char
  <2>1. i + j \in 0..Len(t) - 1 /\ i + j \in 0..Len(t) /\ ~(i + j <= i)
    BY <1>1
  <2> QED
    BY <1>2, <2>1, PrefixIs, PrefixStep
<1>4. P \in DOMAIN T /\ Len(P) = i /\ P \notin New
  BY <1>2, <1>3, PrefixIs DEF NewPaths
<1>5. U = [p \in DOMAIN T \cup New |->
             IF p \in New THEN Linked(NewNode(p), p)
             ELSE IF p = P THEN Linked(T[p], p)
             ELSE T[p]]
  BY <1>1 DEF WithPath, NewPaths
<1> HIDE DEF U, New
<1>6. DOMAIN U = DOMAIN T \cup New
  BY <1>5
<1>7. ASSUME NEW q \in DOMAIN T, q # P PROVE U[q] = T[q]
  <2>1. q \notin New
    BY <1>3 DEF New, NewPaths
  <2> QED
    BY <1>5, <1>7, <2>1
<1>8. HasNode(U[P], T[P], t[i + 1])
  <2>1. U[P] = SetNode(T[P], t[i + 1])
    <3>1. U[P] = Linked(T[P], P)
      BY <1>4, <1>5
    <3>2. Len(P) \in i..i + n - 1
      BY <1>4
    <3> QED
      BY <1>4, <3>1, <3>2
  <2>2. NodeShape(T[P])
    BY <1>4, TrieNode
  <2> QED
    BY <1>1, <2>1, <2>2, SetNodeFields
<1>9. ASSUME NEW j \in 1..n
      PROVE  LET m == U[Prefix(t, i + j)]
                 c == t[i + j + 1]
             IN /\ c \in Char
                /\ NodeShape(m)
                /\ m.start = c /\ m.end = c
                /\ m.value = IF j = 1 THEN ItemTaken(T, t) ELSE {}
                /\ m.sub = IF j < n THEN {c} ELSE {}
                /\ DOMAIN m.leaf = {}
  <2> DEFINE p == Prefix(t, i + j)
             c == t[i + j + 1]
             v == IF j = 1 THEN ItemTaken(T, t) ELSE {}
  <2>1. p \in New /\ Len(p) = i + j /\ c \in Char
    BY <1>3 DEF New, NewPaths
  <2>2. U[p] = Linked(NewNode(p), p)
    BY <1>5, <2>1
  <2>3. NewNode(p) = Node(c, c, v)
    BY <2>1
  <2>4. Len(p) \in i..i + n - 1 <=> j < n
    BY <2>1
  <2>5. U[p] = IF j < n THEN SetNode(Node(c, c, v), c) ELSE Node(c, c, v)
    BY <2>1, <2>2, <2>3, <2>4
  <2> HIDE DEF p, c, v
  <2>6. c <= c + 1 /\ c \in c .. c
    BY <2>1, CharNumber
  <2>7. /\ NodeShape(Node(c, c, v)) /\ Node(c, c, v).start = c /\ Node(c, c, v).end = c
        /\ Node(c, c, v).value = v /\ Node(c, c, v).sub = {}
        /\ DOMAIN Node(c, c, v).leaf = {}
    BY <2>1, <2>6, NodeFields
  <2>8. CASE ~(j < n)
    BY <2>1, <2>5, <2>7, <2>8 DEF p, c, v
  <2>9. CASE j < n
    <3>1. InRange(Node(c, c, v), c)
      BY <2>6, <2>7 DEF InRange
    <3>2. HasNode(SetNode(Node(c, c, v), c), Node(c, c, v), c)
      BY <2>7, <3>1, SetNodeFields
    <3>3. HasNode(U[p], Node(c, c, v), c)
      BY <2>5, <2>9, <3>2
    <3>4. /\ NodeShape(U[p]) /\ U[p].start = c /\ U[p].end = c
          /\ U[p].value = v /\ U[p].sub = {c}
      BY <2>7, <3>3 DEF HasNode, SameRange
    <3>5. DOMAIN U[p].leaf = {}
      BY <2>7, <3>3 DEF HasNode, Restrict
    <3> QED
      BY <2>1, <2>9, <3>4, <3>5 DEF p, c, v
  <2> QED
    BY <2>8, <2>9
<1>10. OnPath(U, t, i, n, ItemTaken(T, t))
  BY <1>9 DEF OnPath
<1> QED
  BY <1>6, <1>7, <1>8, <1>10 DEF U, New, PathAdded

(* The paths of the new nodes: which they are, and what they hang from.    *)
LEMMA PathFacts ==
  ASSUME NEW T, Trie(T), T # <<>>, NEW t \in Seq(Char), NEW i \in Nat, NEW n \in Nat,
         n > 0, PathReady(T, t, i, n)
  PROVE  /\ i \in 0..Len(t) - 1
         /\ t[i + 1] \in Char
         /\ Prefix(t, i) \in DOMAIN T
         /\ Append(Prefix(t, i), t[i + 1]) = Prefix(t, i + 1)
         /\ ItemTaken(T, t) = LeafAt(T[Prefix(t, i)], t[i + 1])
<1>1. i = Depth(T, t) /\ i + n <= Len(t) - 1
  BY DEF PathReady
<1>2. /\ i \in 0..Len(t) - 1 /\ i \in 0..Len(t)
      /\ \A q \in 0..Len(t) : Prefix(t, q) \in DOMAIN T <=> q <= i
  BY <1>1, DepthOf
<1>3. Prefix(t, i) \in DOMAIN T
  BY <1>2
<1>4. t[i + 1] \in Char /\ Append(Prefix(t, i), t[i + 1]) = Prefix(t, i + 1)
  BY <1>2, PrefixStep
<1>5. ItemTaken(T, t) = LeafAt(T[Prefix(t, i)], t[i + 1])
  BY <1>1 DEF ItemTaken, Deepest
<1> QED
  BY <1>2, <1>3, <1>4, <1>5

(* The paths of the new nodes had none before.                             *)
LEMMA NewPathFacts ==
  ASSUME NEW T, Trie(T), T # <<>>, NEW t \in Seq(Char), NEW i \in Nat, NEW n \in Nat,
         n > 0, PathReady(T, t, i, n), NEW j \in 1..n
  PROVE  /\ Prefix(t, i + j) \in Seq(Char)
         /\ Len(Prefix(t, i + j)) = i + j
         /\ Prefix(t, i + j) \notin DOMAIN T
<1>1. i + j \in 0..Len(t) /\ ~(i + j <= Depth(T, t))
  BY DEF PathReady
<1> QED
  BY <1>1, DepthOf, PrefixIs

(* The paths that lead to a new node.                                      *)
LEMMA ParentOfNewPath ==
  ASSUME NEW T, NEW t \in Seq(Char), NEW i \in Nat, NEW n \in Nat,
         PathReady(T, t, i, n), NEW j \in 1..n,
         NEW q \in Seq(Char), NEW c \in Char, Append(q, c) = Prefix(t, i + j)
  PROVE  q = Prefix(t, i + j - 1) /\ c = t[i + j]
<1>0. i + n <= Len(t) - 1 /\ Len(t) \in Nat
  BY DEF PathReady
<1>1. /\ i + j - 1 \in 0..Len(t) - 1 /\ i + j - 1 \in 0..Len(t)
      /\ (i + j - 1) + 1 = i + j
  BY <1>0
<1>2. /\ t[(i + j - 1) + 1] \in Char
      /\ Append(Prefix(t, i + j - 1), t[(i + j - 1) + 1]) = Prefix(t, (i + j - 1) + 1)
  BY <1>1, PrefixStep
<1>3. t[i + j] \in Char /\ Append(q, c) = Append(Prefix(t, i + j - 1), t[i + j])
  BY <1>1, <1>2
<1>4. Prefix(t, i + j - 1) \in Seq(Char)
  BY <1>1, PrefixIs
<1> QED
  BY <1>3, <1>4, AppendInjective

(* A node without leaves has no items but its own.                         *)
LEMMA NoLeaves ==
  ASSUME NEW m, DOMAIN m.leaf = {}
  PROVE  ItemsOf(m) = m.value
  BY DEF ItemsOf, Range

(* The trie with the new nodes is one, and has the items it had.           *)
LEMMA PathAddedIsTrie ==
  ASSUME NEW T, Trie(T), T # <<>>, NEW t \in Seq(Char), NEW i \in Nat, NEW n \in Nat,
         n > 0, PathReady(T, t, i, n), NEW U, PathAdded(U, T, t, i, n)
  PROVE  Trie(U) /\ StoredIn(U) = StoredIn(T)
<1> DEFINE New == NewPaths(t, i, n)
           P == Prefix(t, i)
           a == t[i + 1]
           taken == ItemTaken(T, t)
<1>1. /\ DOMAIN U = DOMAIN T \cup New
      /\ \A q \in DOMAIN T : q # P => U[q] = T[q]
      /\ HasNode(U[P], T[P], a)
      /\ OnPath(U, t, i, n, taken)
  BY DEF PathAdded
<1>2. a \in Char /\ P \in DOMAIN T /\ Append(P, a) = Prefix(t, i + 1) /\ P \in Seq(Char)
  BY PathFacts, TrieNode
<1>3. taken = LeafAt(T[P], a)
  BY PathFacts
<1> DEFINE N(j) == Prefix(t, i + j)
<1>4. ASSUME NEW j \in 1..n
      PROVE  N(j) \in Seq(Char) /\ Len(N(j)) = i + j /\ N(j) \notin DOMAIN T /\ N(j) \in New
  <2>1. Prefix(t, i + j) \in Seq(Char)
    BY NewPathFacts
  <2>2. Len(Prefix(t, i + j)) = i + j
    BY NewPathFacts
  <2>3. Prefix(t, i + j) \notin DOMAIN T
    BY NewPathFacts
  <2>4. Prefix(t, i + j) \in NewPaths(t, i, n)
    BY DEF NewPaths
  <2> QED
    BY <2>1, <2>2, <2>3, <2>4
<1>5. ASSUME NEW j \in 1..n, NEW q \in Seq(Char), NEW c \in Char, Append(q, c) = N(j)
      PROVE  q = Prefix(t, i + j - 1) /\ c = t[i + j]
  BY <1>5, ParentOfNewPath
<1>6. \A p \in New : \E j \in 1..n : p = N(j)
  BY DEF NewPaths
<1>7. N(1) = Prefix(t, i + 1) /\ 1 \in 1..n
  OBVIOUS
<1>8. ASSUME NEW j \in 1..n
      PROVE  /\ NodeShape(U[N(j)])
             /\ U[N(j)].value = IF j = 1 THEN taken ELSE {}
             /\ U[N(j)].sub = IF j < n THEN {t[i + j + 1]} ELSE {}
             /\ DOMAIN U[N(j)].leaf = {}
  BY <1>1 DEF OnPath
<1>9. Prefix(t, i + 1 - 1) = P
  OBVIOUS
<1>10. ASSUME NEW j \in 1..n, j # 1 PROVE Prefix(t, i + j - 1) = N(j - 1) /\ j - 1 \in 1..n
  <2>1. i + j - 1 = i + (j - 1) /\ j - 1 \in 1..n
    BY <1>10
  <2> QED
    BY <2>1
<1> HIDE DEF N, New, P, a, taken
<1>11. ASSUME NEW q \in DOMAIN T, q # P
       PROVE  \A c \in Char : Append(q, c) \notin New
  <2>1. SUFFICES ASSUME NEW c \in Char, NEW j \in 1..n, Append(q, c) = N(j) PROVE FALSE
    BY <1>6
  <2>2. q = Prefix(t, i + j - 1)
    BY <1>5, <2>1, TrieNode
  <2> QED
    BY <1>4, <1>9, <1>10, <1>11, <2>2
<1>12. \A c \in Char : Append(P, c) \in New <=> c = a
  <2>1. ASSUME NEW c \in Char, NEW j \in 1..n, Append(P, c) = N(j) PROVE c = a
    <3>1. P = Prefix(t, i + j - 1) /\ c = t[i + j]
      BY <1>2, <1>5, <2>1
    <3>2. j = 1
      BY <1>2, <1>4, <1>10, <3>1
    <3> QED
      BY <3>1, <3>2 DEF a
  <2>2. Append(P, a) \in New
    BY <1>2, <1>4, <1>7
  <2> QED
    BY <1>6, <2>1, <2>2
<1>13. ASSUME NEW j \in 1..n
       PROVE  \A c \in Char : /\ Append(N(j), c) \notin DOMAIN T
                              /\ Append(N(j), c) \in New <=> j < n /\ c = t[i + j + 1]
  <2>1. TAKE c \in Char
  <2>2. N(j) \in Seq(Char) /\ Len(N(j)) = i + j /\ N(j) \notin DOMAIN T
    BY <1>4
  <2>3. /\ Append(N(j), c) \in Seq(Char) /\ Len(Append(N(j), c)) = i + j + 1
        /\ Prefix(Append(N(j), c), i + j) = N(j)
        /\ i + j \in 0..i + j + 1
    BY <2>2, AppendIs
  <2>4. Append(N(j), c) \notin DOMAIN T
    BY <2>2, <2>3, TrieNode
  <2>5. ASSUME Append(N(j), c) \in New PROVE j < n /\ c = t[i + j + 1]
    <3>1. PICK k \in 1..n : Append(N(j), c) = N(k)
      BY <1>6, <2>5
    <3>2. k = j + 1
      BY <1>4, <2>3, <3>1
    <3>3. c = t[i + k]
      BY <1>5, <2>2, <3>1
    <3> QED
      BY <3>2, <3>3
  <2>6. ASSUME j < n, c = t[i + j + 1] PROVE Append(N(j), c) \in New
    <3>1. j + 1 \in 1..n /\ i + j \in 0..Len(t) - 1 /\ i + (j + 1) = (i + j) + 1
      BY <2>6 DEF PathReady
    <3>2. Append(Prefix(t, i + j), t[(i + j) + 1]) = Prefix(t, (i + j) + 1)
      BY <3>1, PrefixStep
    <3>3. Append(N(j), c) = N(j + 1)
      BY <2>6, <3>1, <3>2 DEF N
    <3> QED
      BY <1>4, <3>1, <3>3
  <2> QED
    BY <2>4, <2>5, <2>6
<1>14. Trie(U)
  <2>1. Root \in DOMAIN U /\ DOMAIN U \subseteq Seq(Char)
    BY <1>1, <1>4, <1>6 DEF Trie
  <2>2. ASSUME NEW q \in DOMAIN T
        PROVE  \A k \in 0..Len(q) : Prefix(q, k) \in DOMAIN U
    BY <1>1, TrieNode
  <2>3. ASSUME NEW q \in DOMAIN T, q # P
        PROVE  /\ \A c \in Char : c \in U[q].sub <=> Append(q, c) \in DOMAIN U
               /\ NodeShape(U[q])
               /\ ItemsEndAt(U[q], q)
    <3>1. \A c \in Char : Append(q, c) \in DOMAIN U <=> Append(q, c) \in DOMAIN T
      BY <1>1, <1>11, <2>3
    <3> QED
      BY <1>1, <2>3, <3>1, TrieNode
  <2>4. /\ \A c \in Char : c \in U[P].sub <=> Append(P, c) \in DOMAIN U
        /\ NodeShape(U[P])
        /\ ItemsEndAt(U[P], P)
    <3>1. /\ NodeShape(U[P]) /\ U[P].value = T[P].value /\ U[P].sub = T[P].sub \cup {a}
          /\ U[P].leaf = Restrict(T[P].leaf, DOMAIN T[P].leaf \ {a})
      BY <1>1 DEF HasNode, SameRange
    <3>2. /\ \A c \in Char : c \in T[P].sub <=> Append(P, c) \in DOMAIN T
          /\ ItemsEndAt(T[P], P)
      BY <1>2, TrieNode
    <3>3. \A c \in Char : c \in U[P].sub <=> Append(P, c) \in DOMAIN U
      BY <1>1, <1>12, <3>1, <3>2
    <3>4. /\ DOMAIN U[P].leaf \subseteq DOMAIN T[P].leaf
          /\ \A c \in DOMAIN U[P].leaf : U[P].leaf[c] = T[P].leaf[c]
      BY <3>1 DEF Restrict
    <3>5. ItemsEndAt(U[P], P)
      BY <3>1, <3>2, <3>4 DEF ItemsEndAt
    <3> QED
      BY <3>1, <3>3, <3>5
  <2>5. ASSUME NEW j \in 1..n
        PROVE  /\ \A k \in 0..Len(N(j)) : Prefix(N(j), k) \in DOMAIN U
               /\ \A c \in Char : c \in U[N(j)].sub <=> Append(N(j), c) \in DOMAIN U
               /\ NodeShape(U[N(j)])
               /\ ItemsEndAt(U[N(j)], N(j))
    <3>1. ASSUME NEW k \in 0..Len(N(j)) PROVE Prefix(N(j), k) \in DOMAIN U
      <4>1. k \in 0..i + j /\ i + j \in 0..Len(t)
        <5>1. Len(N(j)) = i + j
          BY <1>4
        <5>2. i + n <= Len(t) - 1 /\ Len(t) \in Nat
          BY DEF PathReady
        <5>3. i + j \in 0..Len(t)
          BY <5>2
        <5> QED
          BY <5>1, <5>3
      <4>2. Prefix(N(j), k) = Prefix(t, k)
        BY <4>1, PrefixShorter DEF N
      <4>3. CASE k <= i
        <5>1. k \in 0..Len(t) /\ k <= Depth(T, t)
          BY <4>1, <4>3 DEF PathReady
        <5>2. Prefix(t, k) \in DOMAIN T
          BY <5>1, DepthOf
        <5> QED
          BY <1>1, <4>2, <5>2
      <4>4. CASE ~(k <= i)
        <5>1. k - i \in 1..n /\ i + (k - i) = k
          BY <4>1, <4>4
        <5>2. N(k - i) \in New /\ N(k - i) = Prefix(t, k)
          BY <1>4, <5>1 DEF N
        <5> QED
          BY <1>1, <4>2, <5>2
      <4> QED
        BY <4>3, <4>4
    <3>2. \A c \in Char : c \in U[N(j)].sub <=> Append(N(j), c) \in DOMAIN U
      <4>1. \A c \in Char : c \in U[N(j)].sub <=> j < n /\ c = t[i + j + 1]
        <5>1. U[N(j)].sub = IF j < n THEN {t[i + j + 1]} ELSE {}
          BY <1>8
        <5>2. CASE j < n
          BY <5>1, <5>2
        <5>3. CASE ~(j < n)
          BY <5>1, <5>3
        <5> QED
          BY <5>2, <5>3
      <4>2. \A c \in Char : Append(N(j), c) \in DOMAIN U <=> j < n /\ c = t[i + j + 1]
        BY <1>1, <1>13
      <4> QED
        BY <4>1, <4>2
    <3>3. ItemsEndAt(U[N(j)], N(j))
      <4>1. CASE j = 1
        <5>1. /\ ItemsEndAt(T[P], P) /\ N(j) = Append(P, a)
          BY <1>2, <1>7, <4>1, TrieNode
        <5>2. U[N(j)].value = LeafAt(T[P], a) /\ DOMAIN U[N(j)].leaf = {}
          BY <1>3, <1>8, <4>1
        <5> QED
          BY <5>1, <5>2 DEF ItemsEndAt, LeafAt
      <4>2. CASE j # 1
        <5>1. U[N(j)].value = {} /\ DOMAIN U[N(j)].leaf = {}
          BY <1>8, <4>2
        <5> QED
          BY <5>1 DEF ItemsEndAt
      <4> QED
        BY <4>1, <4>2
    <3> QED
      BY <1>8, <3>1, <3>2, <3>3
  <2>6. ASSUME NEW q \in DOMAIN U
        PROVE  /\ \A k \in 0..Len(q) : Prefix(q, k) \in DOMAIN U
               /\ \A c \in Char : c \in U[q].sub <=> Append(q, c) \in DOMAIN U
               /\ NodeShape(U[q])
               /\ ItemsEndAt(U[q], q)
    BY <1>1, <1>6, <2>2, <2>3, <2>4, <2>5
  <2> QED
    BY <2>1, <2>6 DEF Trie
<1>15. StoredIn(U) = StoredIn(T)
  <2>1. /\ U[P].value = T[P].value
        /\ U[P].leaf = Restrict(T[P].leaf, DOMAIN T[P].leaf \ {a})
    BY <1>1 DEF HasNode
  <2>2. DOMAIN U[P].leaf = DOMAIN T[P].leaf \ {a}
    BY <2>1 DEF Restrict
  <2>3. \A c \in DOMAIN U[P].leaf : U[P].leaf[c] = T[P].leaf[c]
    BY <2>1 DEF Restrict
  <2>4. ItemsOf(T[P]) = ItemsOf(U[P]) \cup taken
    BY <1>3, <2>1, <2>2, <2>3 DEF ItemsOf, Range, LeafAt
  <2>5. ItemsOf(U[N(1)]) = taken
    BY <1>7, <1>8, NoLeaves
  <2>6. ASSUME NEW j \in 1..n, j # 1 PROVE ItemsOf(U[N(j)]) = {}
    <3>1. U[N(j)].value = {} /\ DOMAIN U[N(j)].leaf = {}
      BY <1>8, <2>6
    <3> QED
      BY <3>1, NoLeaves
  <2>7. ASSUME NEW x \in StoredIn(U) PROVE x \in StoredIn(T)
    <3>1. PICK q \in DOMAIN U : x \in ItemsOf(U[q])
      BY DEF StoredIn
    <3>2. CASE q \in DOMAIN T /\ q # P
      BY <1>1, <3>1, <3>2 DEF StoredIn
    <3>3. CASE q = P
      BY <1>2, <2>4, <3>1, <3>3 DEF StoredIn
    <3>4. CASE q \in New
      <4>1. PICK j \in 1..n : q = N(j)
        BY <1>6, <3>4
      <4>2. x \in taken
        BY <2>5, <2>6, <3>1, <4>1
      <4> QED
        BY <1>2, <2>4, <4>2 DEF StoredIn
    <3> QED
      BY <1>1, <3>2, <3>3, <3>4
  <2>8. ASSUME NEW x \in StoredIn(T) PROVE x \in StoredIn(U)
    <3>1. PICK q \in DOMAIN T : x \in ItemsOf(T[q])
      BY DEF StoredIn
    <3>2. CASE q # P
      BY <1>1, <3>1, <3>2 DEF StoredIn
    <3>3. CASE q = P /\ x \in ItemsOf(U[P])
      BY <1>1, <1>2, <3>3 DEF StoredIn
    <3>4. CASE q = P /\ x \in taken
      BY <1>1, <1>4, <1>7, <2>5, <3>4 DEF StoredIn
    <3> QED
      BY <2>4, <3>1, <3>2, <3>3, <3>4
  <2> QED
    BY <2>7, <2>8
<1> QED
  BY <1>14, <1>15

(* A trie with the same nodes is a trie that stores the same.              *)
LEMMA SameNodes ==
  ASSUME NEW T, Trie(T), T # <<>>, NEW U, DOMAIN U = DOMAIN T,
         \A q \in DOMAIN T : U[q] = T[q]
  PROVE  Trie(U) /\ StoredIn(U) = StoredIn(T)
<1>1. Root \in DOMAIN U /\ DOMAIN U \subseteq Seq(Char)
  BY DEF Trie
<1>2. ASSUME NEW q \in DOMAIN U
      PROVE  /\ \A i \in 0..Len(q) : Prefix(q, i) \in DOMAIN U
             /\ \A c \in Char : c \in U[q].sub <=> Append(q, c) \in DOMAIN U
             /\ NodeShape(U[q])
             /\ ItemsEndAt(U[q], q)
  BY TrieNode
<1>3. Trie(U)
  BY <1>1, <1>2 DEF Trie
<1>4. {ItemsOf(U[q]) : q \in DOMAIN U} = {ItemsOf(T[q]) : q \in DOMAIN T}
  OBVIOUS
<1> QED
  BY <1>3, <1>4 DEF StoredIn

(* A path of no nodes changes nothing.                                     *)
LEMMA WithPathNone ==
  ASSUME NEW T, NEW t, NEW i \in Int, i = Depth(T, t)
  PROVE  /\ DOMAIN WithPath(T, t, 0) = DOMAIN T
         /\ \A q \in DOMAIN T : WithPath(T, t, 0)[q] = T[q]
<1> DEFINE New == {Prefix(t, i + j) : j \in 1..0}
           Value(p) == IF Len(p) = i + 1 THEN ItemTaken(T, t) ELSE {}
           NewNode(p) == Node(t[Len(p) + 1], t[Len(p) + 1], Value(p))
           Linked(m, p) == IF Len(p) \in i..i + 0 - 1 THEN SetNode(m, t[Len(p) + 1]) ELSE m
<1>1. WithPath(T, t, 0) = [p \in DOMAIN T \cup New |->
             IF p \in New THEN Linked(NewNode(p), p)
             ELSE IF p = Prefix(t, i) THEN Linked(T[p], p)
             ELSE T[p]]
  BY DEF WithPath
<1>2. New = {}
  OBVIOUS
<1>3. \A m, p : Linked(m, p) = m
  <2>1. i..i + 0 - 1 = {}
    OBVIOUS
  <2> QED
    BY <2>1
<1> HIDE DEF New, Linked, NewNode
<1> QED
  BY <1>1, <1>2, <1>3

(* Max, when the other number is 0.                                        *)
LEMMA MaxIs ==
  ASSUME NEW x \in Int
  PROVE  Max({0, x}) = IF x > 0 THEN x ELSE 0
<1> DEFINE M == IF x > 0 THEN x ELSE 0
<1>1. M \in {0, x} /\ \A y \in {0, x} : M >= y
  OBVIOUS
<1>2. \A z \in {0, x} : (\A y \in {0, x} : z >= y) => z = M
  OBVIOUS
<1> HIDE DEF M
<1>3. Max({0, x}) = M
  BY <1>1, <1>2 DEF Max
<1> QED
  BY <1>3 DEF M

(* How many nodes a path lacks is a number.                                *)
LEMMA NewNodesType ==
  ASSUME NEW T, NEW t \in Seq(Char)
  PROVE  NewNodes(T, t) \in Nat
<1> DEFINE d == Depth(WithRoot(T, t), t)
<1>1. d \in 0..Len(t)
  BY DepthType
<1>2. NewNodes(T, t) = Max({0, Len(t) - 1 - d})
  BY DEF NewNodes, Missing
<1> HIDE DEF d
<1>3. Len(t) - 1 - d \in Int
  BY <1>1
<1>4. Max({0, Len(t) - 1 - d}) = IF Len(t) - 1 - d > 0 THEN Len(t) - 1 - d ELSE 0
  BY <1>3, MaxIs
<1> QED
  BY <1>2, <1>3, <1>4

(* The trie before and after the new nodes: all that is needed for t but   *)
(* n nodes.                                                                *)
Ranged(T, t)     == WithRange(WithRoot(T, t), t)
Reached(T, t)    == Depth(WithRoot(T, t), t)

(* Prepared, step by step: a root, a range, and a path.                    *)
LEMMA PreparedSteps ==
  ASSUME NEW T, Trie(T), NEW t \in Seq(Char), NEW n \in 0..NewNodes(T, t)
  PROVE  /\ Reached(T, t) \in 0..Len(t)
         /\ Depth(Ranged(T, t), t) = Reached(T, t)
         /\ Trie(Ranged(T, t)) /\ Ranged(T, t) # <<>>
         /\ DOMAIN Ranged(T, t) = DOMAIN T \cup {Root}
         /\ StoredIn(Ranged(T, t)) = StoredIn(T)
         /\ NewNodes(T, t) = IF Len(t) - 1 > Reached(T, t) THEN Len(t) - 1 - Reached(T, t)
                                                          ELSE 0
         /\ Prepared(T, t, n) = WithPath(Ranged(T, t), t, NewNodes(T, t) - n)
         /\ Reached(T, t) < Len(t) =>
              InRange(Ranged(T, t)[Prefix(t, Reached(T, t))], t[Reached(T, t) + 1])
<1> DEFINE W == WithRoot(T, t)
           R == WithRange(W, t)
           d == Depth(W, t)
<1>1. /\ Trie(W) /\ W # <<>> /\ DOMAIN W = DOMAIN T \cup {Root}
      /\ StoredIn(W) = StoredIn(T)
  BY WithRootIs
<1> HIDE DEF W
<1>2. d \in 0..Len(t)
  BY <1>1, DepthOf
<1>3. /\ DOMAIN R = DOMAIN W
      /\ Trie(R) /\ R # <<>>
      /\ StoredIn(R) = StoredIn(W)
      /\ Depth(R, t) = d
      /\ d < Len(t) => InRange(R[Prefix(t, d)], t[d + 1])
  BY <1>1, WithRangeIs
<1>4. Missing(R, t) = Max({0, Len(t) - 1 - d}) /\ Missing(W, t) = Max({0, Len(t) - 1 - d})
  BY <1>3 DEF Missing
<1>5. NewNodes(T, t) = Missing(W, t) /\ Prepared(T, t, n) = WithPath(R, t, Missing(R, t) - n)
  BY DEF NewNodes, Prepared, W
<1>6. Len(t) - 1 - d \in Int
  BY <1>2
<1> HIDE DEF R, d
<1>7. Missing(W, t) = IF Len(t) - 1 > d THEN Len(t) - 1 - d ELSE 0
  BY <1>2, <1>4, <1>6, MaxIs
<1> QED
  BY <1>1, <1>2, <1>3, <1>4, <1>5, <1>7 DEF W, R, d, Ranged, Reached

(* The slot for t is there and within the range of its node.               *)
Ready(T, t) ==
  \/ t \in DOMAIN T
  \/ /\ t # Root
     /\ Prefix(t, Len(t) - 1) \in DOMAIN T
     /\ InRange(T[Prefix(t, Len(t) - 1)], t[Len(t)])

(* What Prepared makes is a trie that stores the same; with all nodes of   *)
(* the path the slot for t is there.                                       *)
LEMMA PreparedIs ==
  ASSUME NEW T, Trie(T), NEW t \in Seq(Char), NEW n \in 0..NewNodes(T, t),
         NEW k, k = NewNodes(T, t) - n
  PROVE  /\ Trie(Prepared(T, t, n)) /\ Prepared(T, t, n) # <<>>
         /\ StoredIn(Prepared(T, t, n)) = StoredIn(T)
         /\ DOMAIN Prepared(T, t, n)
              = DOMAIN T \cup {Root} \cup NewPaths(t, Reached(T, t), k)
         /\ n = 0 => Ready(Prepared(T, t, n), t)
<1> DEFINE R == Ranged(T, t)
           d == Reached(T, t)
           U == Prepared(T, t, n)
<1>1. /\ d \in 0..Len(t)
      /\ Depth(R, t) = d
      /\ Trie(R) /\ R # <<>>
      /\ DOMAIN R = DOMAIN T \cup {Root}
      /\ StoredIn(R) = StoredIn(T)
      /\ NewNodes(T, t) = IF Len(t) - 1 > d THEN Len(t) - 1 - d ELSE 0
      /\ U = WithPath(R, t, k)
      /\ d < Len(t) => InRange(R[Prefix(t, d)], t[d + 1])
  BY PreparedSteps
<1>2. \A i \in 0..Len(t) : Prefix(t, i) \in DOMAIN R <=> i <= d
  BY <1>1, DepthOf
<1> HIDE DEF R, d, U
<1>3. NewNodes(T, t) \in Nat /\ k \in Nat /\ Len(t) \in Nat
  BY <1>1
<1>4. CASE k = 0
  <2>1. DOMAIN U = DOMAIN R /\ \A q \in DOMAIN R : U[q] = R[q]
    BY <1>1, <1>4, WithPathNone
  <2>2. Trie(U) /\ StoredIn(U) = StoredIn(R)
    BY <1>1, <2>1, SameNodes
  <2>3. U # <<>>
    BY <1>1, <2>1, TrieHasRoot
  <2>4. NewPaths(t, d, k) = {}
    BY <1>4 DEF NewPaths
  <2>5. ASSUME n = 0 PROVE Ready(U, t)
    <3>1. d = Len(t) \/ (d = Len(t) - 1 /\ d < Len(t))
      BY <1>1, <1>4, <2>5
    <3>2. CASE d = Len(t)
      BY <1>2, <2>1, <3>2, PrefixAll DEF Ready
    <3>3. CASE d = Len(t) - 1 /\ d < Len(t)
      <4>1. t # Root /\ d + 1 = Len(t)
        BY <1>1, <3>3, EmptyText
      <4>2. Prefix(t, d) \in DOMAIN R
        BY <1>1, <1>2
      <4> QED
        BY <1>1, <2>1, <3>3, <4>1, <4>2 DEF Ready
    <3> QED
      BY <3>1, <3>2, <3>3
  <2> QED
    BY <1>1, <2>1, <2>2, <2>3, <2>4, <2>5 DEF U, d
<1>5. CASE k # 0
  <2>1. d \in Nat /\ k > 0 /\ d + k <= Len(t) - 1 /\ (n = 0 => d + k = Len(t) - 1)
    BY <1>1, <1>3, <1>5
  <2>2. PathReady(R, t, d, k)
    BY <1>1, <2>1 DEF PathReady
  <2>3. PathAdded(U, R, t, d, k)
    BY <1>1, <1>3, <2>1, <2>2, WithPathNodes
  <2>4. Trie(U) /\ StoredIn(U) = StoredIn(R)
    BY <1>1, <1>3, <2>1, <2>2, <2>3, PathAddedIsTrie
  <2>5. DOMAIN U = DOMAIN R \cup NewPaths(t, d, k) /\ OnPath(U, t, d, k, ItemTaken(R, t))
    BY <2>3 DEF PathAdded
  <2>6. U # <<>>
    BY <1>1, <2>5, TrieHasRoot
  <2>7. ASSUME n = 0 PROVE Ready(U, t)
    <3>1. k \in 1..k /\ d + k = Len(t) - 1 /\ d + k + 1 = Len(t) /\ t # Root
      BY <1>3, <2>1, <2>7, EmptyText
    <3>2. /\ t[d + k + 1] \in Char
          /\ U[Prefix(t, d + k)].start = t[d + k + 1]
          /\ U[Prefix(t, d + k)].end = t[d + k + 1]
      BY <2>5, <3>1 DEF OnPath
    <3>3. InRange(U[Prefix(t, d + k)], t[d + k + 1])
      BY <3>2, CharNumber DEF InRange
    <3>4. Prefix(t, d + k) \in NewPaths(t, d, k)
      BY <3>1 DEF NewPaths
    <3> QED
      BY <2>5, <3>1, <3>3, <3>4 DEF Ready
  <2> QED
    BY <1>1, <2>4, <2>5, <2>6, <2>7 DEF U, d
<1> QED
  BY <1>4, <1>5
-------------------------------------------------------------------------------
(* The node that has the slot for t, and the items in its other slots.     *)
LEMMA ItemsTexts ==
  ASSUME NEW T, Trie(T), NEW q \in DOMAIN T, NEW x \in ItemsOf(T[q])
  PROVE  \/ x \in T[q].value /\ Text[x.key] = q
         \/ \E c \in DOMAIN T[q].leaf :
              /\ x = T[q].leaf[c] /\ Text[x.key] = Append(q, c)
              /\ c \in Char /\ Append(q, c) \notin DOMAIN T
<1>1. /\ NodeShape(T[q]) /\ ItemsEndAt(T[q], q) /\ DOMAIN T[q].leaf \subseteq Char
      /\ \A c \in Char : c \in T[q].sub <=> Append(q, c) \in DOMAIN T
  BY TrieNode
<1>2. T[q].sub \cap DOMAIN T[q].leaf = {}
  BY <1>1 DEF NodeShape
<1>3. CASE x \in T[q].value
  BY <1>1, <1>3 DEF ItemsEndAt
<1>4. CASE x \in Range(T[q].leaf)
  <2>1. PICK c \in DOMAIN T[q].leaf : x = T[q].leaf[c]
    BY <1>4 DEF Range
  <2>2. Text[x.key] = Append(q, c)
    BY <1>1, <2>1 DEF ItemsEndAt
  <2>3. c \in Char /\ Append(q, c) \notin DOMAIN T
    BY <1>1, <1>2
  <2> QED
    BY <2>1, <2>2, <2>3
<1> QED
  BY <1>3, <1>4 DEF ItemsOf

(* The item for a node's own text is in that node only.                    *)
LEMMA OwnSlot ==
  ASSUME NEW T, Trie(T), NEW t \in DOMAIN T
  PROVE  /\ \A q \in DOMAIN T : q # t => ItemsOf(T[q]) \cap With(T, t) = {}
         /\ ItemsOf(T[t]) \ With(T, t) = Range(T[t].leaf)
<1>1. ASSUME NEW q \in DOMAIN T, q # t, NEW x \in ItemsOf(T[q]) PROVE x \notin With(T, t)
  <2>1. CASE Text[x.key] = q
    BY <1>1, <2>1 DEF With
  <2>2. CASE Text[x.key] # q
    <3>1. PICK c \in DOMAIN T[q].leaf : /\ Text[x.key] = Append(q, c)
                                        /\ Append(q, c) \notin DOMAIN T
      BY <2>2, ItemsTexts
    <3> QED
      BY <3>1 DEF With
  <2> QED
    BY <2>1, <2>2
<1>2. T[t].value = With(T, t)
  BY ValueIsStored
<1>3. ASSUME NEW x \in Range(T[t].leaf) PROVE x \notin With(T, t)
  <2>1. PICK c \in DOMAIN T[t].leaf : x = T[t].leaf[c]
    BY DEF Range
  <2>2. Text[x.key] = Append(t, c) /\ c \in Char /\ t \in Seq(Char)
    BY <2>1, TrieNode DEF ItemsEndAt
  <2>3. Len(Append(t, c)) = Len(t) + 1 /\ Len(t) \in Nat
    BY <2>2, AppendIs
  <2>4. Text[x.key] # t
    BY <2>2, <2>3
  <2> QED
    BY <2>4 DEF With
<1> QED
  BY <1>1, <1>2, <1>3 DEF ItemsOf

(* The items of the leaves of n, but for c's.                              *)
OtherLeaves(n, c) == {n.leaf[y] : y \in DOMAIN n.leaf \ {c}}

(* The item of a leaf is in that leaf only.                                *)
LEMMA LeafSlot ==
  ASSUME NEW T, Trie(T), NEW s \in DOMAIN T, NEW c \in Char, Append(s, c) \notin DOMAIN T
  PROVE  /\ \A q \in DOMAIN T : q # s => ItemsOf(T[q]) \cap With(T, Append(s, c)) = {}
         /\ ItemsOf(T[s]) \ With(T, Append(s, c))
              = T[s].value \cup OtherLeaves(T[s], c)
<1> DEFINE t == Append(s, c)
<1>1. s \in Seq(Char)
  BY TrieNode
<1>2. ASSUME NEW q \in DOMAIN T, q # s, NEW x \in ItemsOf(T[q]) PROVE x \notin With(T, t)
  <2>1. q \in Seq(Char)
    BY TrieNode
  <2>2. \A e \in Char : Append(q, e) # t
    BY <1>1, <1>2, <2>1, AppendInjective
  <2>3. Text[x.key] # t
    <3> HIDE DEF t
    <3>1. t \notin DOMAIN T
      BY DEF t
    <3> QED
      BY <2>2, <3>1, ItemsTexts
  <2> QED
    BY <2>3 DEF With
<1>3. LeafAt(T[s], c) = With(T, t)
  BY LeafIsStored
<1>4. ASSUME NEW x \in T[s].value PROVE x \notin With(T, t)
  <2>1. Text[x.key] = s
    BY TrieNode DEF ItemsEndAt
  <2> QED
    BY <2>1 DEF With
<1>5. ASSUME NEW y \in DOMAIN T[s].leaf, y # c PROVE T[s].leaf[y] \notin With(T, t)
  <2>1. Text[T[s].leaf[y].key] = Append(s, y) /\ y \in Char
    BY TrieNode DEF ItemsEndAt
  <2>2. Append(s, y) # t
    BY <1>1, <1>5, <2>1, AppendInjective
  <2> QED
    BY <2>1, <2>2 DEF With
<1>6. With(T, t) = {T[s].leaf[y] : y \in {c} \cap DOMAIN T[s].leaf}
  BY <1>3 DEF LeafAt
<1> HIDE DEF t
<1>7. ItemsOf(T[s]) = T[s].value \cup {T[s].leaf[y] : y \in DOMAIN T[s].leaf}
  BY DEF ItemsOf, Range
<1>8. ItemsOf(T[s]) \ With(T, t)
        = T[s].value \cup OtherLeaves(T[s], c)
  BY <1>4, <1>5, <1>6, <1>7 DEF OtherLeaves
<1> QED
  BY <1>2, <1>8 DEF t

(* Where the slot for t is. *)
LEMMA Slot ==
  ASSUME NEW T, Trie(T), T # <<>>, NEW t \in Seq(Char)
  PROVE  /\ t \in DOMAIN T => Depth(T, t) = Len(t) /\ Prefix(t, Depth(T, t)) = t
         /\ t # Root /\ t \notin DOMAIN T /\ Prefix(t, Len(t) - 1) \in DOMAIN T
              => /\ Depth(T, t) = Len(t) - 1 /\ Depth(T, t) # Len(t)
                 /\ Depth(T, t) + 1 = Len(t)
                 /\ t[Len(t)] \in Char
                 /\ Append(Prefix(t, Depth(T, t)), t[Len(t)]) = t
<1>1. Prefix(t, Len(t)) = t /\ Len(t) \in 0..Len(t)
  BY PrefixAll
<1>2. t \in DOMAIN T => Depth(T, t) = Len(t)
  BY <1>1, DepthIs
<1>3. ASSUME t # Root, t \notin DOMAIN T, Prefix(t, Len(t) - 1) \in DOMAIN T
      PROVE  /\ Depth(T, t) = Len(t) - 1 /\ Depth(T, t) # Len(t)
             /\ Depth(T, t) + 1 = Len(t)
             /\ t[Len(t)] \in Char
             /\ Append(Prefix(t, Depth(T, t)), t[Len(t)]) = t
  <2>1. /\ Len(t) - 1 \in 0..Len(t) - 1 /\ t[Len(t)] \in Char
        /\ Append(Prefix(t, Len(t) - 1), t[Len(t)]) = t
    BY <1>3, TextSplits
  <2>2. Len(t) - 1 \in 0..Len(t) /\ (Len(t) - 1) + 1 = Len(t)
    BY <2>1
  <2>3. Prefix(t, (Len(t) - 1) + 1) \notin DOMAIN T
    BY <1>1, <1>3, <2>2
  <2>4. Depth(T, t) = Len(t) - 1
    BY <1>3, <2>2, <2>3, DepthIs
  <2> QED
    BY <2>1, <2>2, <2>4
<1> QED
  BY <1>1, <1>2, <1>3

(* An item is set in its slot. *)
LEMMA SetItemIs ==
  ASSUME NEW T, Trie(T), T # <<>>, NEW t \in Seq(Char), Ready(T, t),
         NEW x \in Items, Text[x.key] = t,
         NEW s, s = Prefix(t, Depth(T, t)), NEW m, m = SetItem(T, t, x)[s]
  PROVE  /\ s \in DOMAIN T
         /\ Replaced(SetItem(T, t, x), T, s, m, With(T, t), {x})
         /\ IF t \in DOMAIN T THEN HasValue(m, T[s], {x}) ELSE HasLeaf(m, T[s], t[Len(t)], x)
<1> DEFINE d == Depth(T, t)
           c == t[Len(t)]
           U == SetItem(T, t, x)
           v == IF d = Len(t) THEN [T[s] EXCEPT !.value = {x}] ELSE SetLeaf(T[s], t[d + 1], x)
<1>1. U = [T EXCEPT ![s] = v]
  BY DEF SetItem
<1>2. CASE t \in DOMAIN T
  <2>1. d = Len(t) /\ s = t
    BY <1>2, Slot
  <2>2. v = [T[s] EXCEPT !.value = {x}] /\ NodeShape(T[s]) /\ ItemsEndAt(T[s], s)
    BY <1>2, <2>1, TrieNode
  <2> HIDE DEF v, U
  <2>3. HasValue(v, T[s], {x})
    BY <2>2, SetValueFields
  <2>4. /\ NodeShape(v) /\ v.value = {x} /\ v.sub = T[s].sub /\ v.leaf = T[s].leaf
    BY <2>3 DEF HasValue, SameRange
  <2>5. ItemsEndAt(v, s)
    BY <2>1, <2>2, <2>4 DEF ItemsEndAt
  <2>6. /\ \A q \in DOMAIN T : q # s => ItemsOf(T[q]) \cap With(T, t) = {}
        /\ ItemsOf(T[s]) \ With(T, t) = Range(T[s].leaf)
    BY <1>2, <2>1, OwnSlot
  <2>7. ItemsOf(v) = Range(T[s].leaf) \cup {x}
    BY <2>4 DEF ItemsOf
  <2>8. Replaces(T, s, v, With(T, t), {x})
    BY <2>4, <2>6, <2>7 DEF Replaces
  <2>9. Replaced(U, T, s, v, With(T, t), {x})
    BY <1>1, <1>2, <2>1, <2>4, <2>5, <2>8, SetAt
  <2>10. m = v
    BY <2>9 DEF Replaced, U
  <2> QED
    BY <1>2, <2>1, <2>3, <2>9, <2>10 DEF U
<1>3. CASE t \notin DOMAIN T
  <2>1. t # Root /\ Prefix(t, Len(t) - 1) \in DOMAIN T /\ InRange(T[Prefix(t, Len(t) - 1)], c)
    BY <1>3 DEF Ready
  <2>2. d = Len(t) - 1 /\ d # Len(t) /\ d + 1 = Len(t) /\ c \in Char /\ Append(s, c) = t
    BY <1>3, <2>1, Slot
  <2>3. v = SetLeaf(T[s], c, x) /\ s \in DOMAIN T /\ InRange(T[s], c)
    BY <2>1, <2>2
  <2> HIDE DEF v, U, c, d
  <2>4. /\ NodeShape(T[s]) /\ ItemsEndAt(T[s], s) /\ c \notin T[s].sub
    BY <1>3, <2>2, <2>3, TrieNode
  <2>5. HasLeaf(v, T[s], c, x)
    BY <2>3, <2>4, SetLeafFields
  <2>6. /\ NodeShape(v) /\ v.value = T[s].value /\ v.sub = T[s].sub
        /\ v.leaf = [y \in DOMAIN T[s].leaf \cup {c} |-> IF y = c THEN x ELSE T[s].leaf[y]]
    BY <2>5 DEF HasLeaf, SameRange
  <2>7. /\ DOMAIN v.leaf = DOMAIN T[s].leaf \cup {c} /\ v.leaf[c] = x
        /\ \A y \in DOMAIN T[s].leaf : y # c => v.leaf[y] = T[s].leaf[y]
    BY <2>6
  <2>8. ItemsEndAt(v, s)
    <3>1. \A y \in DOMAIN v.leaf :
             \/ y \in DOMAIN T[s].leaf /\ v.leaf[y] = T[s].leaf[y]
             \/ v.leaf[y] \in Items /\ Text[v.leaf[y].key] = Append(s, y)
      BY <2>2, <2>7
    <3> QED
      <4>1. ItemsEndAt(T[s], s) /\ v.value = T[s].value
        BY <2>4, <2>6
      <4>2. ASSUME NEW n, n = T[s] PROVE ItemsEndAt(v, s)
        <5>1. \A y \in DOMAIN v.leaf :
                 \/ y \in DOMAIN n.leaf /\ v.leaf[y] = n.leaf[y]
                 \/ v.leaf[y] \in Items /\ Text[v.leaf[y].key] = Append(s, y)
          BY <3>1, <4>2
        <5>2. ItemsEndAt(n, s) /\ v.value = n.value
          BY <4>1, <4>2
        <5> QED
          BY <5>1, <5>2, EndAt
      <4> QED
        BY <4>2
  <2>9. /\ \A q \in DOMAIN T : q # s => ItemsOf(T[q]) \cap With(T, t) = {}
        /\ ItemsOf(T[s]) \ With(T, t)
             = T[s].value \cup OtherLeaves(T[s], c)
    <3>0. s \in DOMAIN T /\ c \in Char
      BY <2>2, <2>3
    <3>1. Append(s, c) \notin DOMAIN T
      BY <1>3, <2>2
    <3>2. \A q \in DOMAIN T : q # s => ItemsOf(T[q]) \cap With(T, Append(s, c)) = {}
      BY <3>0, <3>1, LeafSlot
    <3>3. ItemsOf(T[s]) \ With(T, Append(s, c))
             = T[s].value \cup OtherLeaves(T[s], c)
      BY <3>0, <3>1, LeafSlot
    <3> QED
      BY <2>2, <3>2, <3>3
  <2>10. Range(v.leaf) = OtherLeaves(T[s], c) \cup {x}
    BY <2>7 DEF Range, OtherLeaves
  <2>11. ItemsOf(v) = (ItemsOf(T[s]) \ With(T, t)) \cup {x}
    BY <2>6, <2>9, <2>10 DEF ItemsOf
  <2>12. Replaces(T, s, v, With(T, t), {x})
    BY <2>6, <2>9, <2>11 DEF Replaces
  <2>13. Replaced(U, T, s, v, With(T, t), {x})
    BY <1>1, <2>3, <2>6, <2>8, <2>12, SetAt
  <2>14. m = v
    BY <2>13 DEF Replaced, U
  <2> QED
    BY <1>3, <2>3, <2>5, <2>13, <2>14 DEF U, c
<1> QED
  BY <1>2, <1>3

(* An item is taken out of its slot. *)
LEMMA SetNoItemIs ==
  ASSUME NEW T, Trie(T), T # <<>>, NEW t \in Seq(Char), With(T, t) # {},
         NEW s, s = Prefix(t, Depth(T, t)), NEW m, m = SetNoItem(T, t)[s]
  PROVE  /\ s \in DOMAIN T
         /\ Replaced(SetNoItem(T, t), T, s, m, With(T, t), {})
         /\ IF t \in DOMAIN T THEN HasValue(m, T[s], {}) ELSE HasNothing(m, T[s], t[Len(t)])
         /\ t \notin DOMAIN T => /\ Depth(T, t) = Len(t) - 1
                                 /\ t[Len(t)] \in Char /\ Append(s, t[Len(t)]) = t
<1> DEFINE d == Depth(T, t)
           c == t[Len(t)]
           U == SetNoItem(T, t)
           v == IF d = Len(t) THEN [T[s] EXCEPT !.value = {}] ELSE SetEmpty(T[s], t[d + 1])
<1>1. U = [T EXCEPT ![s] = v]
  BY DEF SetNoItem
<1>2. CASE t \in DOMAIN T
  <2>1. d = Len(t) /\ s = t
    BY <1>2, Slot
  <2>2. v = [T[s] EXCEPT !.value = {}] /\ NodeShape(T[s]) /\ ItemsEndAt(T[s], s)
    BY <1>2, <2>1, TrieNode
  <2> HIDE DEF v, U
  <2>3. HasValue(v, T[s], {})
    BY <2>2, SetValueFields
  <2>4. /\ NodeShape(v) /\ v.value = {} /\ v.sub = T[s].sub /\ v.leaf = T[s].leaf
    BY <2>3 DEF HasValue, SameRange
  <2>5. ItemsEndAt(v, s)
    BY <2>1, <2>2, <2>4 DEF ItemsEndAt
  <2>6. /\ \A q \in DOMAIN T : q # s => ItemsOf(T[q]) \cap With(T, t) = {}
        /\ ItemsOf(T[s]) \ With(T, t) = Range(T[s].leaf)
    BY <1>2, <2>1, OwnSlot
  <2>7. ItemsOf(v) = Range(T[s].leaf)
    BY <2>4 DEF ItemsOf
  <2>8. Replaces(T, s, v, With(T, t), {})
    BY <2>4, <2>6, <2>7 DEF Replaces
  <2>9. Replaced(U, T, s, v, With(T, t), {})
    BY <1>1, <1>2, <2>1, <2>4, <2>5, <2>8, SetAt
  <2>10. m = v
    BY <2>9 DEF Replaced, U
  <2> QED
    BY <1>2, <2>1, <2>3, <2>9, <2>10 DEF U
<1>3. CASE t \notin DOMAIN T
  <2>1. t # Root /\ Prefix(t, Len(t) - 1) \in DOMAIN T
    BY <1>3, NothingStored
  <2>2. d = Len(t) - 1 /\ d # Len(t) /\ d + 1 = Len(t) /\ c \in Char /\ Append(s, c) = t
    BY <1>3, <2>1, Slot
  <2>3. v = SetEmpty(T[s], c) /\ s \in DOMAIN T
    BY <2>1, <2>2
  <2> HIDE DEF v, U, c, d
  <2>4. /\ NodeShape(T[s]) /\ ItemsEndAt(T[s], s) /\ c \notin T[s].sub
    BY <1>3, <2>2, <2>3, TrieNode
  <2>5. HasNothing(v, T[s], c)
    BY <2>3, <2>4, SetEmptyFields
  <2>6. /\ NodeShape(v) /\ v.value = T[s].value /\ v.sub = T[s].sub
        /\ v.leaf = Restrict(T[s].leaf, DOMAIN T[s].leaf \ {c})
    BY <2>4, <2>5 DEF HasNothing, SameRange
  <2>7. /\ DOMAIN v.leaf = DOMAIN T[s].leaf \ {c}
        /\ \A y \in DOMAIN T[s].leaf : y # c => v.leaf[y] = T[s].leaf[y]
    BY <2>6 DEF Restrict
  <2>8. ItemsEndAt(v, s)
    BY <2>4, <2>6, <2>7 DEF ItemsEndAt
  <2>9. /\ \A q \in DOMAIN T : q # s => ItemsOf(T[q]) \cap With(T, t) = {}
        /\ ItemsOf(T[s]) \ With(T, t)
             = T[s].value \cup OtherLeaves(T[s], c)
    <3>0. s \in DOMAIN T /\ c \in Char
      BY <2>2, <2>3
    <3>1. Append(s, c) \notin DOMAIN T
      BY <1>3, <2>2
    <3>2. \A q \in DOMAIN T : q # s => ItemsOf(T[q]) \cap With(T, Append(s, c)) = {}
      BY <3>0, <3>1, LeafSlot
    <3>3. ItemsOf(T[s]) \ With(T, Append(s, c))
             = T[s].value \cup OtherLeaves(T[s], c)
      BY <3>0, <3>1, LeafSlot
    <3> QED
      BY <2>2, <3>2, <3>3
  <2>10. Range(v.leaf) = OtherLeaves(T[s], c)
    BY <2>7 DEF Range, OtherLeaves
  <2>11. ItemsOf(v) = ItemsOf(T[s]) \ With(T, t)
    BY <2>6, <2>9, <2>10 DEF ItemsOf
  <2>12. Replaces(T, s, v, With(T, t), {})
    BY <2>6, <2>9, <2>11 DEF Replaces
  <2>13. Replaced(U, T, s, v, With(T, t), {})
    BY <1>1, <2>3, <2>6, <2>8, <2>12, SetAt
  <2>14. m = v
    BY <2>13 DEF Replaced, U
  <2> QED
    BY <1>3, <2>2, <2>3, <2>5, <2>13, <2>14 DEF U, c, d
<1> QED
  BY <1>2, <1>3
-------------------------------------------------------------------------------
(* The nodes below a place on the way to t.                                *)
LEMMA BelowIs ==
  ASSUME NEW t \in Seq(Char), NEW i \in 0..Len(t), NEW p \in Seq(Char)
  PROVE  IsPrefix(Prefix(t, i), p) <=> i <= Len(p) /\ Prefix(p, i) = Prefix(t, i)
<1>1. Prefix(t, i) \in Seq(Char) /\ Len(Prefix(t, i)) = i
  BY PrefixIs
<1>2. Prefix(Prefix(t, i), i) = Prefix(t, i)
  BY <1>1, PrefixAll
<1>3. IsPrefix(Prefix(t, i), p)
        <=> i <= Len(p) /\ Prefix(Prefix(t, i), i) = Prefix(p, i)
  BY <1>1 DEF IsPrefix, Prefix
<1> QED
  BY <1>2, <1>3

(* What does not hang below a node has no prefix that does; only its       *)
(* parent has a slot for it.                                               *)
LEMMA LeftClosed ==
  ASSUME NEW t \in Seq(Char), NEW i \in 1..Len(t), NEW p \in Seq(Char),
         ~IsPrefix(Prefix(t, i), p)
  PROVE  /\ \A k \in 0..Len(p) : ~IsPrefix(Prefix(t, i), Prefix(p, k))
         /\ \A c \in Char :
              IsPrefix(Prefix(t, i), Append(p, c)) => p = Prefix(t, i - 1) /\ c = t[i]
<1>0. i \in 0..Len(t) /\ i - 1 \in 0..Len(t) - 1 /\ i - 1 \in 0..Len(t) /\ (i - 1) + 1 = i
  OBVIOUS
<1>1. ~(i <= Len(p) /\ Prefix(p, i) = Prefix(t, i))
  BY <1>0, BelowIs
<1>2. ASSUME NEW k \in 0..Len(p) PROVE ~IsPrefix(Prefix(t, i), Prefix(p, k))
  <2>1. Prefix(p, k) \in Seq(Char) /\ Len(Prefix(p, k)) = k
    BY PrefixIs
  <2>2. ASSUME i <= k, Prefix(Prefix(p, k), i) = Prefix(t, i) PROVE FALSE
    <3>1. i \in 0..k
      BY <2>2
    <3>2. Prefix(Prefix(p, k), i) = Prefix(p, i)
      BY <3>1, PrefixShorter
    <3> QED
      BY <1>1, <2>2, <3>2
  <2> QED
    BY <1>0, <2>1, <2>2, BelowIs
<1>3. ASSUME NEW c \in Char, IsPrefix(Prefix(t, i), Append(p, c))
      PROVE  p = Prefix(t, i - 1) /\ c = t[i]
  <2>1. /\ Append(p, c) \in Seq(Char) /\ Len(Append(p, c)) = Len(p) + 1
        /\ \A k \in 0..Len(p) : Prefix(Append(p, c), k) = Prefix(p, k)
    BY AppendIs
  <2>2. i <= Len(p) + 1 /\ Prefix(Append(p, c), i) = Prefix(t, i)
    <3> DEFINE a == Append(p, c)
    <3>1. a \in Seq(Char) /\ Len(a) = Len(p) + 1 /\ IsPrefix(Prefix(t, i), a)
      BY <1>3, <2>1
    <3> HIDE DEF a
    <3>2. i <= Len(a) /\ Prefix(a, i) = Prefix(t, i)
      BY <1>0, <3>1, BelowIs
    <3> QED
      BY <3>1, <3>2 DEF a
  <2>3. i = Len(p) + 1
    BY <1>1, <2>1, <2>2
  <2>4. Prefix(Append(p, c), Len(p) + 1) = Append(p, c)
    BY <2>1, PrefixAll
  <2>5. t[(i - 1) + 1] \in Char /\ Append(Prefix(t, i - 1), t[(i - 1) + 1]) = Prefix(t, (i - 1) + 1)
    BY <1>0, PrefixStep
  <2>6. t[i] \in Char /\ Append(p, c) = Append(Prefix(t, i - 1), t[i])
    BY <1>0, <2>2, <2>3, <2>4, <2>5
  <2>7. Prefix(t, i - 1) \in Seq(Char)
    BY <1>0, PrefixIs
  <2> QED
    BY <2>6, <2>7, AppendInjective
<1> QED
  BY <1>2, <1>3

(* Without, written for the case that it takes nodes away: the slot at p   *)
(* for c was the topmost one's, which had the items "up".                  *)
LeftNodes(T, t, i) == {p \in DOMAIN T : ~IsPrefix(Prefix(t, i), p)}

(* m is n with the item of the node in c's slot, if it has one, in the     *)
(* place of that node.                                                     *)
MovedUp(m, n, c, up) ==
  \/ up = {} /\ HasNothing(m, n, c)
  \/ \E x \in up : /\ SameRange(m, n) /\ m.value = n.value
                   /\ m.sub = n.sub \ {c}
                   /\ DOMAIN m.leaf = (DOMAIN n.leaf \ {c}) \cup {c}
                   /\ m.leaf[c] = x
                   /\ \A y \in DOMAIN n.leaf : y # c => m.leaf[y] = n.leaf[y]

(* U is T without the node at depth i on t's way and what hangs below it.  *)
TakenAway(U, T, t, i) ==
  /\ DOMAIN U = LeftNodes(T, t, i)
  /\ \A q \in DOMAIN U : q # Prefix(t, i - 1) => U[q] = T[q]
  /\ MovedUp(U[Prefix(t, i - 1)], T[Prefix(t, i - 1)], t[i], T[Prefix(t, i)].value)

(* This is what Without does to the parent of the topmost node it deletes. *)
LEMMA MovesUp ==
  ASSUME NEW n, NodeShape(n), NEW c \in n.sub, NEW up,
         NEW m, m = IF up = {} THEN SetEmpty(n, c)
                    ELSE SetLeaf(SetEmpty(n, c), c, CHOOSE x \in up : TRUE)
  PROVE  MovedUp(m, n, c, up)
<1> DEFINE e == SetEmpty(n, c)
           x == CHOOSE y \in up : TRUE
<1>1. HasNothing(e, n, c)
  BY SetEmptyFields
<1>2. CASE up = {}
  BY <1>1, <1>2 DEF MovedUp
<1>3. CASE up # {}
  <2>1. x \in up
    BY <1>3
  <2>2. m = SetLeaf(e, c, x)
    BY <1>3
  <2> HIDE DEF x, e
  <2>3. /\ NodeShape(e) /\ e.start = n.start /\ e.end = n.end /\ e.value = n.value
        /\ e.sub = n.sub \ {c} /\ e.leaf = Restrict(n.leaf, DOMAIN n.leaf \ {c})
    BY <1>1 DEF HasNothing, SameRange
  <2>4. c \notin e.sub /\ InRange(e, c)
    BY <2>3 DEF NodeShape, Occupied, InRange
  <2>5. HasLeaf(m, e, c, x)
    BY <2>2, <2>3, <2>4, SetLeafFields
  <2>6. /\ NodeShape(m) /\ m.start = e.start /\ m.end = e.end /\ m.value = e.value
        /\ m.sub = e.sub
        /\ m.leaf = [y \in DOMAIN e.leaf \cup {c} |-> IF y = c THEN x ELSE e.leaf[y]]
    BY <2>5 DEF HasLeaf, SameRange
  <2>7. /\ DOMAIN e.leaf = DOMAIN n.leaf \ {c}
        /\ \A y \in DOMAIN n.leaf : y # c => e.leaf[y] = n.leaf[y]
    BY <2>3 DEF Restrict
  <2>8. /\ DOMAIN m.leaf = DOMAIN e.leaf \cup {c} /\ m.leaf[c] = x
        /\ \A y \in DOMAIN e.leaf : y # c => m.leaf[y] = e.leaf[y]
    BY <2>6
  <2>9. SameRange(m, n) /\ m.value = n.value /\ m.sub = n.sub \ {c}
    BY <2>3, <2>6 DEF SameRange
  <2>10. DOMAIN m.leaf = (DOMAIN n.leaf \ {c}) \cup {c} /\ m.leaf[c] = x
    BY <2>7, <2>8
  <2>11. \A y \in DOMAIN n.leaf : y # c => m.leaf[y] = n.leaf[y]
    BY <2>7, <2>8
  <2> QED
    BY <2>1, <2>9, <2>10, <2>11 DEF MovedUp
<1> QED
  BY <1>2, <1>3

(* Without takes the nodes away.                                           *)
LEMMA WithoutTakesAway ==
  ASSUME NEW T, Trie(T), T # <<>>, NEW t \in Seq(Char), NEW j \in 1..Depth(T, t),
         NEW i, i = Depth(T, t) - j + 1
  PROVE  /\ i \in 1..Depth(T, t) /\ i \in 1..Len(t)
         /\ Prefix(t, i - 1) \in LeftNodes(T, t, i)
         /\ Prefix(t, i - 1) \in DOMAIN T /\ Prefix(t, i) \in DOMAIN T
         /\ t[i] \in T[Prefix(t, i - 1)].sub
         /\ t[i] \in Char /\ Append(Prefix(t, i - 1), t[i]) = Prefix(t, i)
         /\ TakenAway(Without(T, t, j), T, t, i)
<1> DEFINE P == Prefix(t, i - 1)
           up == T[Prefix(t, i)].value
           U == Without(T, t, j)
<1>1. /\ Depth(T, t) \in 0..Len(t)
      /\ \A k \in 0..Len(t) : Prefix(t, k) \in DOMAIN T <=> k <= Depth(T, t)
  BY DepthOf
<1>2. /\ i \in 1..Depth(T, t) /\ i \in 1..Len(t) /\ i \in 0..Len(t) /\ i - 1 \in 0..Len(t) - 1
      /\ i - 1 \in 0..Len(t) /\ (i - 1) + 1 = i
  BY <1>1
<1>3. P \in DOMAIN T /\ Prefix(t, i) \in DOMAIN T /\ P \in Seq(Char) /\ Len(P) = i - 1
  BY <1>1, <1>2, PrefixIs
<1>4. t[(i - 1) + 1] \in Char /\ Append(P, t[(i - 1) + 1]) = Prefix(t, (i - 1) + 1)
  BY <1>2, PrefixStep
<1>5. t[i] \in Char /\ Append(P, t[i]) = Prefix(t, i)
  BY <1>2, <1>4
<1>6. t[i] \in T[P].sub
  BY <1>3, <1>5, TrieNode
<1>7. P \in LeftNodes(T, t, i)
  <2>1. ~(i <= Len(P))
    BY <1>2, <1>3
  <2> QED
    BY <1>2, <1>3, <2>1, BelowIs DEF LeftNodes
<1>8. U = [p \in LeftNodes(T, t, i) |->
             IF p # P THEN T[p]
             ELSE IF up = {} THEN SetEmpty(T[p], t[i])
             ELSE SetLeaf(SetEmpty(T[p], t[i]), t[i], CHOOSE x \in up : TRUE)]
  BY DEF Without, LeftNodes
<1> HIDE DEF P, up, U
<1>9. /\ DOMAIN U = LeftNodes(T, t, i)
      /\ \A q \in DOMAIN U : q # P => U[q] = T[q]
      /\ U[P] = IF up = {} THEN SetEmpty(T[P], t[i])
                ELSE SetLeaf(SetEmpty(T[P], t[i]), t[i], CHOOSE x \in up : TRUE)
  BY <1>7, <1>8
<1>10. MovedUp(U[P], T[P], t[i], up)
  BY <1>3, <1>6, <1>9, TrieNode, MovesUp
<1>11. TakenAway(U, T, t, i)
  BY <1>9, <1>10 DEF TakenAway, P, up
<1> QED
  BY <1>2, <1>3, <1>5, <1>6, <1>7, <1>11 DEF P, U

(* What is left is a trie, with no item that was not there.                *)
LEMMA TakenAwayIsTrie ==
  ASSUME NEW T, Trie(T), NEW t \in Seq(Char), NEW i \in 1..Len(t),
         Prefix(t, i - 1) \in DOMAIN T, Prefix(t, i) \in DOMAIN T,
         Prefix(t, i - 1) \in LeftNodes(T, t, i),
         t[i] \in Char, Append(Prefix(t, i - 1), t[i]) = Prefix(t, i),
         NEW U, TakenAway(U, T, t, i)
  PROVE  Trie(U) /\ U # <<>> /\ StoredIn(U) \subseteq StoredIn(T)
<1> DEFINE P == Prefix(t, i - 1)
           N == Prefix(t, i)
           up == T[N].value
           c == t[i]
<1>1. /\ DOMAIN U = LeftNodes(T, t, i)
      /\ \A q \in DOMAIN U : q # P => U[q] = T[q]
      /\ MovedUp(U[P], T[P], c, up)
  BY DEF TakenAway
<1>2. \A q : q \in DOMAIN U <=> q \in DOMAIN T /\ ~IsPrefix(N, q)
  BY <1>1 DEF LeftNodes
<1>3. P \in DOMAIN U /\ P \in DOMAIN T /\ N \in DOMAIN T /\ c \in Char /\ Append(P, c) = N
  BY <1>1
<1>4. i \in 0..Len(t)
  OBVIOUS
<1>5. N \notin DOMAIN U
  <2>1. N \in Seq(Char) /\ Len(N) = i /\ Prefix(N, i) = N
    <3>1. N \in Seq(Char) /\ Len(N) = i
      BY <1>4, PrefixIs
    <3> QED
      BY <3>1, PrefixAll
  <2>2. IsPrefix(N, N)
    BY <1>4, <2>1, BelowIs
  <2> QED
    BY <1>2, <2>2
<1>6. ASSUME NEW q \in DOMAIN U
      PROVE  /\ q \in Seq(Char)
             /\ \A k \in 0..Len(q) : Prefix(q, k) \in DOMAIN U
             /\ \A e \in Char : Append(q, e) \in DOMAIN U
                                  <=> Append(q, e) \in DOMAIN T /\ ~(q = P /\ e = c)
  <2>1. q \in DOMAIN T /\ ~IsPrefix(N, q) /\ q \in Seq(Char)
    BY <1>2, TrieNode
  <2>2. \A k \in 0..Len(q) : Prefix(q, k) \in DOMAIN T /\ ~IsPrefix(N, Prefix(q, k))
    BY <2>1, LeftClosed, TrieNode
  <2>3. \A e \in Char : IsPrefix(N, Append(q, e)) => q = P /\ e = c
    BY <2>1, LeftClosed
  <2>4. \A e \in Char : Append(q, e) \in DOMAIN U
                          <=> Append(q, e) \in DOMAIN T /\ ~(q = P /\ e = c)
    BY <1>2, <1>3, <1>5, <2>3
  <2> QED
    BY <1>2, <2>1, <2>2, <2>4
<1> HIDE DEF P, N, up, c
<1>7. /\ NodeShape(U[P]) /\ U[P].value = T[P].value /\ U[P].sub = T[P].sub \ {c}
      /\ \A y \in DOMAIN U[P].leaf :
           \/ y \in DOMAIN T[P].leaf /\ U[P].leaf[y] = T[P].leaf[y]
           \/ y = c /\ U[P].leaf[y] \in up
  <2>1. CASE HasNothing(U[P], T[P], c)
    <3>1. U[P].leaf = Restrict(T[P].leaf, DOMAIN T[P].leaf \ {c})
      BY <2>1 DEF HasNothing
    <3>2. \A y \in DOMAIN U[P].leaf : y \in DOMAIN T[P].leaf /\ U[P].leaf[y] = T[P].leaf[y]
      BY <3>1 DEF Restrict
    <3>3. NodeShape(U[P]) /\ U[P].value = T[P].value /\ U[P].sub = T[P].sub \ {c}
      BY <2>1 DEF HasNothing, SameRange
    <3> QED
      BY <3>2, <3>3
  <2>2. ASSUME NEW x \in up,
               /\ SameRange(U[P], T[P]) /\ U[P].value = T[P].value
               /\ U[P].sub = T[P].sub \ {c}
               /\ DOMAIN U[P].leaf = (DOMAIN T[P].leaf \ {c}) \cup {c}
               /\ U[P].leaf[c] = x
               /\ \A y \in DOMAIN T[P].leaf : y # c => U[P].leaf[y] = T[P].leaf[y]
        PROVE  /\ NodeShape(U[P]) /\ U[P].value = T[P].value /\ U[P].sub = T[P].sub \ {c}
               /\ \A y \in DOMAIN U[P].leaf :
                    \/ y \in DOMAIN T[P].leaf /\ U[P].leaf[y] = T[P].leaf[y]
                    \/ y = c /\ U[P].leaf[y] \in up
    BY <2>2 DEF SameRange
  <2> QED
    BY <1>1, <2>1, <2>2 DEF MovedUp
<1>8. ASSUME NEW q \in DOMAIN U
      PROVE  /\ \A e \in Char : e \in U[q].sub <=> Append(q, e) \in DOMAIN U
             /\ NodeShape(U[q])
             /\ ItemsEndAt(U[q], q)
  <2>1. /\ q \in DOMAIN T
        /\ \A e \in Char : e \in T[q].sub <=> Append(q, e) \in DOMAIN T
        /\ NodeShape(T[q]) /\ ItemsEndAt(T[q], q)
    BY <1>2, TrieNode
  <2>2. CASE q # P
    BY <1>1, <1>6, <2>1, <2>2
  <2>3. CASE q = P
    <3>1. \A e \in Char : e \in U[P].sub <=> Append(P, e) \in DOMAIN U
      BY <1>6, <1>7, <2>1, <2>3
    <3>2. \A x \in up : x \in Items /\ Text[x.key] = Append(P, c)
      BY <1>3, TrieNode DEF up, ItemsEndAt
    <3>3. ItemsEndAt(U[P], P)
      <4>1. \A y \in DOMAIN U[P].leaf :
               \/ y \in DOMAIN T[P].leaf /\ U[P].leaf[y] = T[P].leaf[y]
               \/ U[P].leaf[y] \in Items /\ Text[U[P].leaf[y].key] = Append(P, y)
        BY <1>7, <3>2
      <4>2. ItemsEndAt(T[P], P) /\ U[P].value = T[P].value
        BY <1>7, <2>1, <2>3
      <4>3. ASSUME NEW n, n = T[P], NEW m, m = U[P] PROVE ItemsEndAt(m, P)
        <5>1. \A y \in DOMAIN m.leaf :
                 \/ y \in DOMAIN n.leaf /\ m.leaf[y] = n.leaf[y]
                 \/ m.leaf[y] \in Items /\ Text[m.leaf[y].key] = Append(P, y)
          BY <4>1, <4>3
        <5>2. ItemsEndAt(n, P) /\ m.value = n.value
          BY <4>2, <4>3
        <5> QED
          BY <5>1, <5>2, EndAt
      <4> QED
        BY <4>3
    <3> QED
      BY <1>7, <2>3, <3>1, <3>3
  <2> QED
    BY <2>2, <2>3
<1>9. Trie(U)
  <2>1. Root \in DOMAIN U
    <3>1. 0 \in 0..Len(P) /\ Prefix(P, 0) = Root /\ P \in Seq(Char)
      BY <1>3, <1>6, PrefixAll
    <3> QED
      BY <1>3, <1>6, <3>1
  <2> QED
    BY <1>6, <1>8, <2>1 DEF Trie
<1>10. U # <<>>
  BY <1>3, TrieHasRoot
<1>11. ASSUME NEW x \in StoredIn(U) PROVE x \in StoredIn(T)
  <2>1. PICK q \in DOMAIN U : x \in ItemsOf(U[q])
    BY DEF StoredIn
  <2>2. q \in DOMAIN T
    BY <1>2
  <2>3. CASE q # P
    BY <1>1, <2>1, <2>2, <2>3 DEF StoredIn
  <2>4. CASE q = P
    <3>1. CASE x \in U[P].value
      BY <1>3, <1>7, <3>1 DEF StoredIn, ItemsOf
    <3>2. ASSUME NEW y \in DOMAIN U[P].leaf, x = U[P].leaf[y] PROVE x \in StoredIn(T)
      <4>1. CASE y \in DOMAIN T[P].leaf /\ x = T[P].leaf[y]
        BY <1>3, <4>1 DEF StoredIn, ItemsOf, Range
      <4>2. CASE x \in up
        BY <1>3, <4>2 DEF StoredIn, ItemsOf, up
      <4> QED
        BY <1>7, <3>2, <4>1, <4>2
    <3> QED
      BY <2>1, <2>4, <3>1, <3>2 DEF ItemsOf, Range
  <2> QED
    BY <2>3, <2>4
<1> QED
  BY <1>9, <1>10, <1>11

(* The nodes that an erase deletes, when each of them is empty but for the *)
(* way to the next; only the topmost has an item.                          *)
Bare(T, t, i, d) ==
  \A k \in i..d :
    /\ DOMAIN T[Prefix(t, k)].leaf = {}
    /\ \A c \in T[Prefix(t, k)].sub : k < d /\ c = t[k + 1]
    /\ k > i => T[Prefix(t, k)].value = {}

(* Then nothing else hangs below the topmost.                              *)
LEMMA BareIsPath ==
  ASSUME NEW T, Trie(T), NEW t \in Seq(Char), NEW d \in 0..Len(t), NEW i \in 1..d,
         Bare(T, t, i, d), NEW p \in DOMAIN T, IsPrefix(Prefix(t, i), p)
  PROVE  Len(p) \in i..d /\ p = Prefix(t, Len(p))
<1> DEFINE Off(m) == ~(m <= d /\ Prefix(p, m) = Prefix(t, m))
           S == {m \in i..Len(p) : Off(m)}
<1>1. p \in Seq(Char) /\ Len(p) \in Nat /\ i \in 0..Len(t)
  BY TrieNode
<1>2. i <= Len(p) /\ Prefix(p, i) = Prefix(t, i)
  BY <1>1, BelowIs
<1>3. S = {}
  <2>1. SUFFICES ASSUME S # {} PROVE FALSE
    OBVIOUS
  <2>2. S \in SUBSET Nat
    BY <1>1
  <2>3. PICK m \in S : \A k \in S : m <= k
    BY <2>1, <2>2, Least
  <2>4. m \in i..Len(p) /\ Off(m)
    BY <2>3
  <2>5. m # i
    BY <1>2, <2>4
  <2>6. m - 1 \in i..Len(p) /\ ~(m <= m - 1)
    BY <2>4, <2>5
  <2>7. ~Off(m - 1)
    BY <2>3, <2>6
  <2>8. m - 1 <= d /\ Prefix(p, m - 1) = Prefix(t, m - 1)
    BY <2>7
  <2> HIDE DEF Off, S
  <2>9. m - 1 \in 0..Len(p) - 1 /\ (m - 1) + 1 = m /\ m \in 0..Len(p) /\ m - 1 \in 0..Len(p)
    BY <1>1, <2>4, <2>6
  <2>10. p[m] \in Char /\ Append(Prefix(p, m - 1), p[m]) = Prefix(p, m)
    BY <1>1, <2>9, PrefixStep
  <2>11. Prefix(p, m) \in DOMAIN T /\ Prefix(p, m - 1) \in DOMAIN T
    BY <2>9, TrieNode
  <2>12. p[m] \in T[Prefix(t, m - 1)].sub
    BY <2>8, <2>10, <2>11, TrieNode
  <2>13. m - 1 \in i..d
    BY <2>4, <2>6, <2>8
  <2>14. m - 1 < d /\ p[m] = t[(m - 1) + 1]
    BY <2>12, <2>13 DEF Bare
  <2>15. m <= d /\ p[m] = t[m] /\ m - 1 \in 0..Len(t) - 1
    BY <2>9, <2>13, <2>14
  <2>16. Append(Prefix(t, m - 1), t[m]) = Prefix(t, m)
    BY <2>9, <2>15, PrefixStep
  <2>17. Prefix(p, m) = Prefix(t, m)
    BY <2>8, <2>10, <2>15, <2>16
  <2> QED
    BY <2>4, <2>15, <2>17 DEF Off
<1>4. Len(p) \in i..Len(p)
  BY <1>1, <1>2
<1>5. ~Off(Len(p))
  BY <1>3, <1>4
<1>6. Len(p) <= d /\ Prefix(p, Len(p)) = Prefix(t, Len(p))
  BY <1>5
<1> QED
  BY <1>1, <1>4, <1>6, PrefixAll

(* And nothing is lost with them. *)
LEMMA TakenAwayKeepsItems ==
  ASSUME NEW T, Trie(T), NEW t \in Seq(Char), NEW d \in 0..Len(t), NEW i \in 1..d,
         Bare(T, t, i, d),
         Prefix(t, i - 1) \in DOMAIN T, Prefix(t, i) \in DOMAIN T,
         Prefix(t, i - 1) \in LeftNodes(T, t, i),
         t[i] \in T[Prefix(t, i - 1)].sub,
         NEW U, TakenAway(U, T, t, i)
  PROVE  StoredIn(T) \subseteq StoredIn(U)
<1> DEFINE P == Prefix(t, i - 1)
           N == Prefix(t, i)
           up == T[N].value
           c == t[i]
<1>1. /\ DOMAIN U = LeftNodes(T, t, i)
      /\ \A q \in DOMAIN U : q # P => U[q] = T[q]
      /\ MovedUp(U[P], T[P], c, up)
  BY DEF TakenAway
<1>2. P \in DOMAIN U /\ P \in DOMAIN T /\ c \in T[P].sub
  BY <1>1
<1>3. ItemsEndAt(T[N], N) /\ NodeShape(T[P])
  BY TrieNode
<1>4. c \notin DOMAIN T[P].leaf
  BY <1>2, <1>3 DEF NodeShape
<1>5. \A x, y \in up : x = y
  BY <1>3 DEF ItemsEndAt
<1>6. ASSUME NEW q \in DOMAIN T, q \notin DOMAIN U PROVE ItemsOf(T[q]) \subseteq up
  <2>1. IsPrefix(N, q)
    BY <1>1, <1>6 DEF LeftNodes
  <2>2. Len(q) \in i..d /\ q = Prefix(t, Len(q))
    BY <2>1, BareIsPath
  <2>3. DOMAIN T[q].leaf = {} /\ (Len(q) > i => T[q].value = {})
    BY <2>2 DEF Bare
  <2>4. ItemsOf(T[q]) = T[q].value
    BY <2>3, NoLeaves
  <2>5. Len(q) = i => q = N
    BY <2>2
  <2> QED
    BY <2>2, <2>3, <2>4, <2>5
<1> HIDE DEF P, N, up, c
<1>7. ItemsOf(T[P]) \cup up \subseteq ItemsOf(U[P])
  <2>1. CASE up = {} /\ HasNothing(U[P], T[P], c)
    <3>1. U[P].value = T[P].value /\ U[P].leaf = Restrict(T[P].leaf, DOMAIN T[P].leaf \ {c})
      BY <2>1 DEF HasNothing
    <3>2. DOMAIN U[P].leaf = DOMAIN T[P].leaf /\ \A y \in DOMAIN T[P].leaf : U[P].leaf[y] = T[P].leaf[y]
      BY <1>4, <3>1 DEF Restrict
    <3> QED
      BY <2>1, <3>1, <3>2 DEF ItemsOf, Range
  <2>2. ASSUME NEW x \in up,
               /\ U[P].value = T[P].value
               /\ DOMAIN U[P].leaf = (DOMAIN T[P].leaf \ {c}) \cup {c}
               /\ U[P].leaf[c] = x
               /\ \A y \in DOMAIN T[P].leaf : y # c => U[P].leaf[y] = T[P].leaf[y]
        PROVE  ItemsOf(T[P]) \cup up \subseteq ItemsOf(U[P])
    <3>1. \A y \in DOMAIN T[P].leaf : y \in DOMAIN U[P].leaf /\ U[P].leaf[y] = T[P].leaf[y]
      BY <1>4, <2>2
    <3>2. ASSUME NEW z \in up PROVE z \in ItemsOf(U[P])
      <4>1. z = U[P].leaf[c] /\ c \in DOMAIN U[P].leaf
        BY <1>5, <2>2
      <4> QED
        BY <4>1 DEF ItemsOf, Range
    <3>3. ItemsOf(T[P]) \subseteq ItemsOf(U[P])
      BY <2>2, <3>1 DEF ItemsOf, Range
    <3> QED
      BY <3>2, <3>3
  <2> QED
    BY <1>1, <2>1, <2>2 DEF MovedUp
<1>8. SUFFICES ASSUME NEW x \in StoredIn(T) PROVE x \in StoredIn(U)
  OBVIOUS
<1>9. PICK q \in DOMAIN T : x \in ItemsOf(T[q])
  BY DEF StoredIn
<1>10. CASE q \notin DOMAIN U
  BY <1>2, <1>6, <1>7, <1>9, <1>10 DEF StoredIn
<1>11. CASE q = P
  BY <1>2, <1>7, <1>9, <1>11 DEF StoredIn
<1>12. CASE q \in DOMAIN U /\ q # P
  BY <1>1, <1>9, <1>12 DEF StoredIn
<1> QED
  BY <1>10, <1>11, <1>12
-------------------------------------------------------------------------------
(* Counting. *)
LEMMA SameCount ==
  ASSUME NEW A, NEW B, IsFiniteSet(A), NEW f \in [A -> B],
         \A x, y \in A : f[x] = f[y] => x = y,
         \A z \in B : \E x \in A : f[x] = z
  PROVE  IsFiniteSet(B) /\ Cardinality(B) = Cardinality(A)
<1>1. f \in Bijection(A, B)
  BY DEF Bijection, Injection, Surjection, IsInjective
<1>2. ExistsBijection(A, B)
  BY <1>1 DEF ExistsBijection
<1> QED
  BY <1>2, FS_Bijection

(* A path of k nodes has k paths.                                          *)
LEMMA NewPathsCount ==
  ASSUME NEW t \in Seq(Char), NEW d \in Nat, NEW k \in Nat, k = 0 \/ d + k <= Len(t)
  PROVE  IsFiniteSet(NewPaths(t, d, k)) /\ Cardinality(NewPaths(t, d, k)) = k
<1> DEFINE f == [j \in 1..k |-> Prefix(t, d + j)]
<1>1. IsFiniteSet(1..k) /\ Cardinality(1..k) = k
  <2>1. /\ IsFiniteSet(1..k)
        /\ Cardinality(1..k) = IF 1 > k THEN 0 ELSE k - 1 + 1
    BY FS_Interval
  <2> QED
    BY <2>1
<1>2. \A x \in 1..k : Len(Prefix(t, d + x)) = d + x
  <2>1. TAKE x \in 1..k
  <2>2. d + x \in 0..Len(t)
    OBVIOUS
  <2> QED
    BY <2>2, PrefixIs
<1>3. \A x, y \in 1..k : f[x] = f[y] => x = y
  BY <1>2
<1>4. f \in [1..k -> NewPaths(t, d, k)]
  BY DEF NewPaths
<1>5. \A z \in NewPaths(t, d, k) : \E x \in 1..k : f[x] = z
  BY DEF NewPaths
<1> HIDE DEF f
<1>6. IsFiniteSet(NewPaths(t, d, k)) /\ Cardinality(NewPaths(t, d, k)) = Cardinality(1..k)
  BY <1>1, <1>3, <1>4, <1>5, SameCount
<1> QED
  BY <1>1, <1>6

(* Uses of finite sets are numbers.                                        *)
LEMMA UsesType ==
  ASSUME NEW S, IsFiniteSet(S), NEW o
  PROVE  Uses(S, o) \in Nat
<1>1. {i \in S : i.key = o \/ i.value = o} \in SUBSET S
  OBVIOUS
<1>2. IsFiniteSet({i \in S : i.key = o \/ i.value = o})
  BY <1>1, FS_Subset
<1> QED
  BY <1>2, FS_CardinalityType DEF Uses

(* Fewer items hold no more references.                                    *)
LEMMA UsesLess ==
  ASSUME NEW S, IsFiniteSet(S), NEW R \in SUBSET S, NEW o
  PROVE  Uses(R, o) <= Uses(S, o)
<1>1. {i \in S : i.key = o \/ i.value = o} \in SUBSET S
  OBVIOUS
<1>2. IsFiniteSet({i \in S : i.key = o \/ i.value = o})
  BY <1>1, FS_Subset
<1>3. {i \in R : i.key = o \/ i.value = o} \in SUBSET {i \in S : i.key = o \/ i.value = o}
  OBVIOUS
<1> QED
  BY <1>2, <1>3, FS_Subset DEF Uses

(* Items that go, and one that comes. *)
LEMMA UsesGone ==
  ASSUME NEW S, IsFiniteSet(S), NEW R \in SUBSET S, NEW o
  PROVE  Uses(S \ R, o) = Uses(S, o) - Uses(R, o)
<1> DEFINE Of(X) == {i \in X : i.key = o \/ i.value = o}
<1>1. IsFiniteSet(Of(S))
  <2>1. Of(S) \in SUBSET S
    OBVIOUS
  <2> QED
    BY <2>1, FS_Subset
<1>2. Of(S \ R) = Of(S) \ Of(R) /\ Of(S) \cap Of(R) = Of(R)
  OBVIOUS
<1>3. Uses(S \ R, o) = Cardinality(Of(S \ R)) /\ Uses(S, o) = Cardinality(Of(S))
      /\ Uses(R, o) = Cardinality(Of(R))
  BY DEF Uses
<1> HIDE DEF Of
<1>4. Cardinality(Of(S) \ Of(R)) = Cardinality(Of(S)) - Cardinality(Of(S) \cap Of(R))
  BY <1>1, FS_Difference
<1> QED
  BY <1>2, <1>3, <1>4

(* An item that comes.                                                     *)
LEMMA UsesNew ==
  ASSUME NEW S, IsFiniteSet(S), NEW x, x \notin S, NEW o
  PROVE  Uses(S \cup {x}, o) = Uses(S, o) + Uses({x}, o)
<1>1. IsFiniteSet(S \cup {x}) /\ S \in SUBSET (S \cup {x})
  BY FS_AddElement
<1>2. Uses((S \cup {x}) \ S, o) = Uses(S \cup {x}, o) - Uses(S, o)
  BY <1>1, UsesGone
<1>3. (S \cup {x}) \ S = {x}
  OBVIOUS
<1>4. Uses(S, o) \in Nat /\ Uses(S \cup {x}, o) \in Nat
  BY <1>1, UsesType
<1>5. Uses({x}, o) = Uses(S \cup {x}, o) - Uses(S, o)
  BY <1>2, <1>3
<1> QED
  BY <1>4, <1>5

(* A set of items with one for each text: how many there are, and how many *)
(* the items for t are.                                                    *)
LEMMA WithCount ==
  ASSUME NEW T, Trie(T), IsFiniteSet(StoredIn(T)), NEW t
  PROVE  /\ IsFiniteSet(With(T, t))
         /\ With(T, t) \in SUBSET StoredIn(T)
         /\ Cardinality(With(T, t)) = IF With(T, t) = {} THEN 0 ELSE 1
<1>1. With(T, t) \in SUBSET StoredIn(T)
  BY DEF With
<1>2. IsFiniteSet(With(T, t))
  BY <1>1, FS_Subset
<1>3. CASE With(T, t) = {}
  BY <1>1, <1>2, <1>3, FS_EmptySet
<1>4. CASE With(T, t) # {}
  <2>1. PICK x : x \in With(T, t)
    BY <1>4
  <2>2. \A y \in With(T, t) : y = x
    BY <2>1, OneItem DEF With
  <2>3. With(T, t) = {x}
    BY <2>1, <2>2
  <2> QED
    BY <1>1, <1>2, <1>4, <2>3, FS_Singleton
<1> QED
  BY <1>3, <1>4
-------------------------------------------------------------------------------
(* What each operation does to the nodes and to the items stored.          *)
LEMMA TextsAreTexts ==
  /\ \A k \in KeyObjects : Text[k] \in Seq(Char)
  /\ \A t \in Texts : t \in Seq(Char)
  /\ \A k \in KeyObjects, v \in ValueObjects :
       Map!Item(k, v) \in Items /\ Map!Item(k, v).key = k /\ Map!Item(k, v).value = v
  BY DictionaryAssumption DEF Texts, Items, Map!Texts, Map!Items, Map!Item

(* The items stored, before and after a step.                              *)
LEMMA StoredIs == Stored = StoredIn(nodes) /\ Stored' = StoredIn(nodes')
  BY DEF Stored, StoredIn

(* What is stored for a text depends on what is stored.                    *)
LEMMA WithOfSame ==
  ASSUME NEW T, NEW U, StoredIn(U) = StoredIn(T), NEW t
  PROVE  With(U, t) = With(T, t)
  BY DEF With

(* Prepared adds as many nodes as node_count says.                         *)
LEMMA PreparedCount ==
  ASSUME NEW T, Trie(T), IsFiniteSet(DOMAIN T), NEW t \in Seq(Char),
         NEW n \in 0..NewNodes(T, t)
  PROVE  /\ NewNodes(T, t) \in Nat /\ NewRoots(T) \in Nat
         /\ IsFiniteSet(DOMAIN Prepared(T, t, n))
         /\ Cardinality(DOMAIN Prepared(T, t, n))
              = Cardinality(DOMAIN T) + NewRoots(T) + NewNodes(T, t) - n
<1> DEFINE d == Reached(T, t)
           k == NewNodes(T, t) - n
           A == DOMAIN T \cup {Root}
           B == NewPaths(t, d, k)
<1>1. DOMAIN Prepared(T, t, n) = A \cup B
  BY PreparedIs
<1>2. /\ d \in 0..Len(t) /\ Depth(Ranged(T, t), t) = d
      /\ Trie(Ranged(T, t)) /\ Ranged(T, t) # <<>>
      /\ DOMAIN Ranged(T, t) = A
      /\ NewNodes(T, t) = IF Len(t) - 1 > d THEN Len(t) - 1 - d ELSE 0
  BY PreparedSteps
<1>3. NewNodes(T, t) \in Nat /\ k \in Nat /\ d \in Nat /\ (k = 0 \/ d + k <= Len(t))
  BY <1>2
<1>4. NewRoots(T) = IF Root \in DOMAIN T THEN 0 ELSE 1
  BY DEF NewRoots, Trie
<1>5. IsFiniteSet(A) /\ Cardinality(A) = Cardinality(DOMAIN T) + NewRoots(T)
      /\ Cardinality(DOMAIN T) \in Nat /\ NewRoots(T) \in Nat
  <2>1. /\ IsFiniteSet(A)
        /\ Cardinality(A) = IF Root \in DOMAIN T THEN Cardinality(DOMAIN T)
                                                  ELSE Cardinality(DOMAIN T) + 1
    BY FS_AddElement
  <2>2. Cardinality(DOMAIN T) \in Nat
    BY FS_CardinalityType
  <2> QED
    BY <1>4, <2>1, <2>2
<1> HIDE DEF k, A
<1>6. IsFiniteSet(B) /\ Cardinality(B) = k
  BY <1>3, NewPathsCount
<1>7. A \cap B = {}
  <2>1. SUFFICES ASSUME NEW j \in 1..k, Prefix(t, d + j) \in A PROVE FALSE
    BY DEF NewPaths
  <2>2. d + j \in 0..Len(t) /\ ~(d + j <= d)
    BY <1>2, <1>3, <2>1
  <2> QED
    BY <1>2, <2>1, <2>2, DepthOf
<1> HIDE DEF B
<1>8. IsFiniteSet(A \cup B) /\ Cardinality(A \cup B) = Cardinality(A) + Cardinality(B) - Cardinality(A \cap B)
  BY <1>5, <1>6, FS_Union
<1>9. Cardinality(A \cap B) = 0
  BY <1>7, FS_EmptySet
<1>10. Cardinality(A \cup B) = Cardinality(DOMAIN T) + NewRoots(T) + k
  BY <1>3, <1>5, <1>6, <1>8, <1>9
<1> QED
  BY <1>1, <1>3, <1>5, <1>8, <1>10 DEF k

(* An insert stores the item in the place of the key's old one, and counts *)
(* the nodes it makes.                                                     *)
LEMMA InsertEffect ==
  ASSUME Trie(nodes), IsFiniteSet(DOMAIN nodes),
         NEW k \in KeyObjects, NEW v \in ValueObjects, Insert(k, v)
  PROVE  /\ Trie(nodes')
         /\ Stored' = (Stored \ With(nodes, Text[k])) \cup {Map!Item(k, v)}
         /\ IsFiniteSet(DOMAIN nodes')
         /\ NewNodes(nodes, Text[k]) \in Nat /\ NewRoots(nodes) \in Nat
         /\ Cardinality(DOMAIN nodes')
              = Cardinality(DOMAIN nodes) + NewRoots(nodes) + NewNodes(nodes, Text[k])
         /\ count' = count + Added(With(nodes, Text[k]))
         /\ refs' = Exchange(With(nodes, Text[k]), {Map!Item(k, v)})
<1> DEFINE t == Text[k]
           x == Map!Item(k, v)
           U == Prepared(nodes, t, 0)
<1>1. t \in Seq(Char) /\ x \in Items /\ Text[x.key] = t
  BY TextsAreTexts
<1>2. /\ nodes' = SetItem(U, t, x)
      /\ count' = count + Added(Find(U, t))
      /\ refs' = Exchange(Find(U, t), {x})
  BY DEF Insert
<1> HIDE DEF t, x
<1>3. 0 \in 0..NewNodes(nodes, t)
  <2>1. NewNodes(nodes, t) \in Nat
    BY <1>1, NewNodesType
  <2> QED
    BY <2>1
<1>4. /\ NewNodes(nodes, t) \in Nat /\ NewRoots(nodes) \in Nat
      /\ IsFiniteSet(DOMAIN U)
      /\ Cardinality(DOMAIN U)
              = Cardinality(DOMAIN nodes) + NewRoots(nodes) + NewNodes(nodes, t) - 0
  BY <1>1, <1>3, PreparedCount
<1>5. /\ Trie(U) /\ U # <<>>
      /\ StoredIn(U) = StoredIn(nodes)
      /\ Ready(U, t)
  <2>1. NewNodes(nodes, t) = NewNodes(nodes, t) - 0
    BY <1>4
  <2> QED
    BY <1>1, <1>3, <2>1, PreparedIs
<1> HIDE DEF U
<1>6. Find(U, t) = With(nodes, t)
  BY <1>1, <1>5, FindIs, WithOfSame
<1>7. With(U, t) = With(nodes, t)
  BY <1>5, WithOfSame
<1>8. Replaced(nodes', U, Prefix(t, Depth(U, t)), nodes'[Prefix(t, Depth(U, t))], With(U, t), {x})
  BY <1>1, <1>2, <1>5, SetItemIs
<1>9. /\ DOMAIN nodes' = DOMAIN U /\ Trie(nodes')
      /\ StoredIn(nodes') = (StoredIn(U) \ With(U, t)) \cup {x}
  BY <1>8 DEF Replaced
<1>10. Stored' = (Stored \ With(nodes, t)) \cup {x}
  BY <1>5, <1>7, <1>9, StoredIs
<1>11. count' = count + Added(With(nodes, t))
  BY <1>2, <1>6
<1> QED
  BY <1>2, <1>4, <1>6, <1>9, <1>10, <1>11 DEF t, x

(* A text leads as deep in a trie with the same paths.                     *)
LEMMA DepthSame ==
  ASSUME NEW T, Trie(T), T # <<>>, NEW U, Trie(U), U # <<>>, DOMAIN U = DOMAIN T,
         NEW t \in Seq(Char)
  PROVE  Depth(U, t) = Depth(T, t)
<1>1. /\ Depth(T, t) \in 0..Len(t)
      /\ \A i \in 0..Len(t) : Prefix(t, i) \in DOMAIN T <=> i <= Depth(T, t)
  BY DepthOf
<1>2. /\ Depth(U, t) \in 0..Len(t)
      /\ \A i \in 0..Len(t) : Prefix(t, i) \in DOMAIN U <=> i <= Depth(U, t)
  BY DepthOf
<1>3. Depth(U, t) <= Depth(T, t) /\ Depth(T, t) <= Depth(U, t)
  BY <1>1, <1>2
<1> QED
  BY <1>1, <1>2, <1>3

(* An erase that deletes j nodes deletes what hangs below them, but never  *)
(* less than the j.                                                        *)
LEMMA WithoutIs ==
  ASSUME NEW T, Trie(T), T # <<>>, IsFiniteSet(DOMAIN T), NEW t \in Seq(Char),
         NEW j \in 0..Depth(T, t)
  PROVE  /\ Trie(Without(T, t, j)) /\ Without(T, t, j) # <<>>
         /\ StoredIn(Without(T, t, j)) \subseteq StoredIn(T)
         /\ IsFiniteSet(DOMAIN Without(T, t, j))
         /\ Cardinality(DOMAIN Without(T, t, j)) + j <= Cardinality(DOMAIN T)
<1> DEFINE d == Depth(T, t)
           U == Without(T, t, j)
<1>1. /\ d \in 0..Len(t)
      /\ \A k \in 0..Len(t) : Prefix(t, k) \in DOMAIN T <=> k <= d
  BY DepthOf
<1>2. CASE j = 0
  <2>1. U = T
    BY <1>2 DEF Without
  <2>2. Cardinality(DOMAIN T) + 0 <= Cardinality(DOMAIN T)
    BY FS_CardinalityType
  <2> QED
    BY <1>2, <2>1, <2>2
<1>3. CASE j # 0
  <2> DEFINE i == d - j + 1
             B == NewPaths(t, d - j, j)
  <2>1. j \in 1..Depth(T, t) /\ i = Depth(T, t) - j + 1
    BY <1>1, <1>3
  <2>2. /\ i \in 1..Depth(T, t) /\ i \in 1..Len(t)
        /\ Prefix(t, i - 1) \in LeftNodes(T, t, i)
        /\ Prefix(t, i - 1) \in DOMAIN T /\ Prefix(t, i) \in DOMAIN T
        /\ t[i] \in Char /\ Append(Prefix(t, i - 1), t[i]) = Prefix(t, i)
        /\ TakenAway(U, T, t, i)
    <3> HIDE DEF i
    <3> QED
      BY <2>1, WithoutTakesAway
  <2> HIDE DEF U, d, i
  <2>3. Trie(U) /\ U # <<>> /\ StoredIn(U) \subseteq StoredIn(T)
    BY <2>2, TakenAwayIsTrie
  <2>4. DOMAIN U = LeftNodes(T, t, i)
    BY <2>2 DEF TakenAway
  <2>5. j \in Nat /\ d - j \in Nat /\ (d - j) + j <= Len(t)
    BY <1>1, <2>1 DEF d
  <2>6. IsFiniteSet(B) /\ Cardinality(B) = j
    BY <2>5, NewPathsCount
  <2>7. ASSUME NEW m \in 1..j
        PROVE  Prefix(t, d - j + m) \in DOMAIN T /\ Prefix(t, d - j + m) \notin LeftNodes(T, t, i)
    <3> DEFINE k == d - j + m
    <3>1. k \in 0..Len(t) /\ k <= d /\ i \in 0..k /\ i \in 0..Len(t)
      BY <1>1, <2>1, <2>5 DEF d, i
    <3> HIDE DEF k
    <3>2. Prefix(t, k) \in DOMAIN T
      BY <1>1, <3>1
    <3>3. Prefix(t, k) \in Seq(Char) /\ Len(Prefix(t, k)) = k
      BY <3>1, PrefixIs
    <3>4. Prefix(Prefix(t, k), i) = Prefix(t, i)
      BY <3>1, PrefixShorter
    <3>5. i <= Len(Prefix(t, k))
      BY <3>1, <3>3
    <3>6. IsPrefix(Prefix(t, i), Prefix(t, k))
      BY <3>1, <3>3, <3>4, <3>5, BelowIs
    <3> QED
      BY <3>2, <3>6 DEF LeftNodes, k
  <2>8. B \subseteq DOMAIN T /\ DOMAIN U \in SUBSET (DOMAIN T \ B)
    BY <2>4, <2>7 DEF NewPaths, LeftNodes
  <2> HIDE DEF B
  <2>9. /\ IsFiniteSet(DOMAIN T \ B)
        /\ Cardinality(DOMAIN T \ B) = Cardinality(DOMAIN T) - Cardinality(DOMAIN T \cap B)
    BY FS_Difference
  <2>10. DOMAIN T \cap B = B
    BY <2>8
  <2>11. IsFiniteSet(DOMAIN U) /\ Cardinality(DOMAIN U) <= Cardinality(DOMAIN T \ B)
    BY <2>8, <2>9, FS_Subset
  <2>12. Cardinality(DOMAIN U) \in Nat /\ Cardinality(DOMAIN T) \in Nat
    BY <2>11, FS_CardinalityType
  <2>13. Cardinality(DOMAIN T \ B) = Cardinality(DOMAIN T) - j
    BY <2>6, <2>9, <2>10
  <2>14. Cardinality(DOMAIN U) + j <= Cardinality(DOMAIN T)
    BY <2>5, <2>11, <2>12, <2>13
  <2> QED
    BY <2>3, <2>11, <2>14 DEF U
<1> QED
  BY <1>2, <1>3

(* When they are bare, these j are all that goes.                          *)
LEMMA WithoutBare ==
  ASSUME NEW T, Trie(T), T # <<>>, IsFiniteSet(DOMAIN T), NEW t \in Seq(Char),
         NEW j \in 0..Depth(T, t),
         j > 0 => Bare(T, t, Depth(T, t) - j + 1, Depth(T, t))
  PROVE  /\ StoredIn(Without(T, t, j)) = StoredIn(T)
         /\ Cardinality(DOMAIN Without(T, t, j)) + j = Cardinality(DOMAIN T)
<1> DEFINE d == Depth(T, t)
           U == Without(T, t, j)
<1>1. d \in 0..Len(t)
  BY DepthOf
<1>2. CASE j = 0
  <2>1. U = T
    BY <1>2 DEF Without
  <2>2. Cardinality(DOMAIN T) + 0 = Cardinality(DOMAIN T)
    BY FS_CardinalityType
  <2> QED
    BY <1>2, <2>1, <2>2
<1>3. CASE j # 0
  <2> DEFINE i == d - j + 1
             B == NewPaths(t, d - j, j)
  <2>1. j \in 1..Depth(T, t) /\ i = Depth(T, t) - j + 1 /\ Bare(T, t, i, d)
    BY <1>1, <1>3
  <2>2. /\ i \in 1..Depth(T, t) /\ i \in 1..Len(t)
        /\ Prefix(t, i - 1) \in LeftNodes(T, t, i)
        /\ Prefix(t, i - 1) \in DOMAIN T /\ Prefix(t, i) \in DOMAIN T
        /\ t[i] \in T[Prefix(t, i - 1)].sub
        /\ TakenAway(U, T, t, i)
    <3> HIDE DEF i
    <3> QED
      BY <2>1, WithoutTakesAway
  <2>3. StoredIn(U) \subseteq StoredIn(T) /\ IsFiniteSet(DOMAIN U)
        /\ Cardinality(DOMAIN U) + j <= Cardinality(DOMAIN T)
    BY WithoutIs
  <2> HIDE DEF U, i
  <2>4. i \in 1..d
    BY <2>2
  <2> HIDE DEF d
  <2>5. StoredIn(T) \subseteq StoredIn(U)
    BY <1>1, <2>1, <2>2, <2>4, TakenAwayKeepsItems
  <2>6. DOMAIN U = LeftNodes(T, t, i)
    BY <2>2 DEF TakenAway
  <2>7. DOMAIN T \ DOMAIN U \in SUBSET B
    <3>1. SUFFICES ASSUME NEW p \in DOMAIN T, p \notin DOMAIN U PROVE p \in B
      OBVIOUS
    <3>2. IsPrefix(Prefix(t, i), p)
      BY <2>6, <3>1 DEF LeftNodes
    <3>3. Len(p) \in i..d /\ p = Prefix(t, Len(p))
      BY <1>1, <2>1, <2>4, <3>2, BareIsPath
    <3>4. Len(p) - (d - j) \in 1..j /\ (d - j) + (Len(p) - (d - j)) = Len(p)
      BY <1>1, <2>1, <3>3 DEF d, i
    <3> QED
      BY <3>3, <3>4 DEF NewPaths
  <2>8. j \in Nat /\ d - j \in Nat /\ (d - j) + j <= Len(t)
    BY <1>1, <2>1 DEF d
  <2>9. IsFiniteSet(B) /\ Cardinality(B) = j
    BY <2>8, NewPathsCount
  <2> HIDE DEF B
  <2>10. Cardinality(DOMAIN T \ DOMAIN U) <= j
    BY <2>7, <2>9, FS_Subset
  <2>11. Cardinality(DOMAIN T \ DOMAIN U)
           = Cardinality(DOMAIN T) - Cardinality(DOMAIN T \cap DOMAIN U)
    BY FS_Difference
  <2>12. DOMAIN T \cap DOMAIN U = DOMAIN U
    BY <2>6 DEF LeftNodes
  <2>13. Cardinality(DOMAIN U) \in Nat /\ Cardinality(DOMAIN T) \in Nat
    BY <2>3, FS_CardinalityType
  <2>14. Cardinality(DOMAIN T) - Cardinality(DOMAIN U) <= j
    BY <2>10, <2>11, <2>12
  <2>15. Cardinality(DOMAIN U) + j = Cardinality(DOMAIN T)
    BY <2>3, <2>8, <2>13, <2>14
  <2> QED
    BY <2>3, <2>5, <2>15 DEF U
<1> QED
  BY <1>2, <1>3

(* A node with no more than four slots: HasChildren is right.              *)
LEMMA HasChildrenNarrow ==
  ASSUME NEW n, NodeShape(n), Narrow(n)
  PROVE  /\ FALSE \in HasChildren(n) => Occupied(n) = {}
         /\ TRUE \in HasChildren(n) => Occupied(n) # {}
<1> DEFINE fields == n.end - n.start + 1
           bytes == (fields + 3) \div 4
           Read == {x \in 0..fields - 1 : x % 4 = 0}
           Byte(x) == {c \in Occupied(n) : (c - n.start) \div 4 = x}
<1>1. n.start \in Nat /\ n.end \in Nat /\ n.start <= n.end + 1 /\ n.end - n.start < 4
      /\ Occupied(n) \subseteq n.start .. n.end
  BY DEF NodeShape, Narrow, Char
<1>2. fields \in 0..4
  BY <1>1
<1>3. HasChildren(n) = IF \E x \in Read : x < bytes /\ Byte(x) # {} THEN {TRUE}
                       ELSE IF \A x \in Read : x < bytes THEN {FALSE}
                       ELSE BOOLEAN
  BY DEF HasChildren
<1>4. CASE fields = 0
  <2>1. Read = {} /\ Occupied(n) = {}
    BY <1>1, <1>4
  <2>2. HasChildren(n) = {FALSE}
    BY <1>3, <2>1
  <2> QED
    BY <2>1, <2>2
<1>5. CASE fields # 0
  <2>1. Read = {0}
    <3>1. \A x \in 0..3 : x % 4 = 0 <=> x = 0
      OBVIOUS
    <3>2. 0..fields - 1 \subseteq 0..3 /\ 0 \in 0..fields - 1
      BY <1>2, <1>5
    <3> HIDE DEF fields
    <3> QED
      BY <3>1, <3>2
  <2>2. bytes = 1
    <3>1. fields + 3 \in 4..7
      BY <1>2, <1>5
    <3>2. \A y \in 4..7 : y \div 4 = 1
      OBVIOUS
    <3> HIDE DEF fields
    <3> QED
      BY <3>1, <3>2
  <2>3. Byte(0) = Occupied(n)
    <3>1. \A y \in 0..3 : y \div 4 = 0
      OBVIOUS
    <3>2. \A c \in Occupied(n) : c - n.start \in 0..3
      BY <1>1
    <3> QED
      BY <3>1, <3>2
  <2> HIDE DEF Read, bytes, Byte
  <2>4. HasChildren(n) = IF Occupied(n) # {} THEN {TRUE} ELSE {FALSE}
    BY <1>3, <2>1, <2>2, <2>3
  <2> QED
    BY <2>4
<1> QED
  BY <1>4, <1>5

(* A failed insert may leave new nodes behind, but stores nothing.         *)
LEMMA FailEffect ==
  ASSUME Trie(nodes), IsFiniteSet(DOMAIN nodes), nodeCount \in Nat,
         NEW k \in KeyObjects, NEW v \in ValueObjects, InsertFails(k, v)
  PROVE  /\ Trie(nodes')
         /\ Stored' = Stored
         /\ IsFiniteSet(DOMAIN nodes')
         /\ nodeCount' \in Nat
         /\ nodeCount' - Cardinality(DOMAIN nodes')
              \in {nodeCount - Cardinality(DOMAIN nodes),
                   nodeCount - Cardinality(DOMAIN nodes) + 1}
<1> DEFINE t == Text[k]
<1>1. t \in Seq(Char)
  BY TextsAreTexts
<1>2. NoRoot(t) \/ NoRange(t) \/ NoPath(t)
  BY DEF InsertFails
<1> HIDE DEF t
<1>3. Cardinality(DOMAIN nodes) \in Nat
  BY FS_CardinalityType
<1>4. CASE NoRoot(t)
  <2>1. nodes' = nodes /\ nodeCount' = nodeCount + 1
    BY <1>4 DEF NoRoot
  <2>2. Stored' = Stored
    BY <2>1, StoredIs
  <2> QED
    BY <1>3, <2>1, <2>2
<1>5. CASE NoRange(t)
  <2>1. nodes' = nodes /\ nodeCount' = nodeCount
    BY <1>5 DEF NoRange
  <2>2. Stored' = Stored
    BY <2>1, StoredIs
  <2> QED
    BY <1>3, <2>1, <2>2
<1>6. CASE NoPath(t)
  <2>1. NewNodes(nodes, t) \in Nat
    BY <1>1, NewNodesType
  <2>2. PICK n \in 1..NewNodes(nodes, t) :
          /\ nodes' = Prepared(nodes, t, n)
          /\ nodeCount' = nodeCount + NewRoots(nodes) + NewNodes(nodes, t) - n
    BY <1>6 DEF NoPath
  <2>3. n \in 0..NewNodes(nodes, t)
    BY <2>1
  <2> DEFINE U == Prepared(nodes, t, n)
  <2>4. /\ NewRoots(nodes) \in Nat /\ IsFiniteSet(DOMAIN U)
        /\ Cardinality(DOMAIN U)
              = Cardinality(DOMAIN nodes) + NewRoots(nodes) + NewNodes(nodes, t) - n
    BY <1>1, <2>3, PreparedCount
  <2>5. NewNodes(nodes, t) - n = NewNodes(nodes, t) - n
    OBVIOUS
  <2>6. Trie(U) /\ StoredIn(U) = StoredIn(nodes)
    BY <1>1, <2>3, <2>5, PreparedIs
  <2> HIDE DEF U
  <2>7. nodes' = U
    BY <2>2 DEF U
  <2>8. Stored' = Stored
    BY <2>6, <2>7, StoredIs
  <2>9. nodeCount' - Cardinality(DOMAIN nodes') = nodeCount - Cardinality(DOMAIN nodes)
        /\ nodeCount' \in Nat
    BY <1>3, <2>1, <2>2, <2>4, <2>7
  <2> QED
    BY <2>4, <2>6, <2>7, <2>8, <2>9
<1> QED
  BY <1>2, <1>4, <1>5, <1>6

(* What the trie is while an erase deletes nodes.                          *)
LEMMA EraseStarts ==
  ASSUME NEW T, Trie(T), NEW t \in Seq(Char), With(T, t) # {},
         NEW V, V = SetNoItem(T, t)
  PROVE  /\ T # <<>> /\ V # <<>>
         /\ Trie(V) /\ DOMAIN V = DOMAIN T
         /\ StoredIn(V) = StoredIn(T) \ With(T, t)
         /\ Depth(V, t) = Depth(T, t) /\ Depth(T, t) \in 0..Len(t)
<1>1. T # <<>>
  BY NoTrie DEF With
<1> DEFINE s == Prefix(t, Depth(T, t))
<1>2. s \in DOMAIN T /\ Replaced(V, T, s, V[s], With(T, t), {})
  BY <1>1, SetNoItemIs
<1> HIDE DEF s
<1>3. /\ DOMAIN V = DOMAIN T /\ Trie(V)
      /\ StoredIn(V) = StoredIn(T) \ With(T, t)
  BY <1>2 DEF Replaced
<1>4. V # <<>>
  BY <1>2, <1>3, TrieHasRoot
<1>5. Depth(V, t) = Depth(T, t) /\ Depth(T, t) \in 0..Len(t)
  BY <1>1, <1>3, <1>4, DepthSame, DepthOf
<1> QED
  BY <1>1, <1>3, <1>4, <1>5

(* An erase takes the key's item, and what hangs below the nodes it        *)
(* deletes.                                                                *)
LEMMA EraseEffect ==
  ASSUME Trie(nodes), IsFiniteSet(DOMAIN nodes), nodeCount \in Nat,
         Cardinality(DOMAIN nodes) <= nodeCount,
         NEW t \in Texts, Erase(t)
  PROVE  /\ With(nodes, t) # {}
         /\ Trie(nodes')
         /\ Stored' \subseteq Stored \ With(nodes, t)
         /\ IsFiniteSet(DOMAIN nodes')
         /\ nodeCount' \in Nat
         /\ Cardinality(DOMAIN nodes') <= nodeCount'
         /\ count' = count - 1
         /\ refs' = Exchange(With(nodes, t), {})
<1> DEFINE V == SetNoItem(nodes, t)
<1>1. t \in Seq(Char)
  BY TextsAreTexts
<1>2. Find(nodes, t) = With(nodes, t)
  BY <1>1, FindIs
<1>3. With(nodes, t) # {} /\ refs' = Exchange(With(nodes, t), {}) /\ count' = count - 1
  BY <1>2 DEF Erase
<1>4. PICK j \in 0..Depth(nodes, t) : DropRoot(V, t, j) \/ KeepRoot(V, t, j)
  BY DEF Erase
<1> HIDE DEF V
<1>5. /\ nodes # <<>> /\ V # <<>>
      /\ Trie(V) /\ DOMAIN V = DOMAIN nodes
      /\ StoredIn(V) = StoredIn(nodes) \ With(nodes, t)
      /\ Depth(V, t) = Depth(nodes, t) /\ Depth(nodes, t) \in 0..Len(t)
  BY <1>1, <1>3, EraseStarts DEF V
<1> DEFINE W == Without(V, t, j)
<1>6. /\ Trie(W) /\ W # <<>>
      /\ StoredIn(W) \subseteq StoredIn(V)
      /\ IsFiniteSet(DOMAIN W)
      /\ Cardinality(DOMAIN W) + j <= Cardinality(DOMAIN nodes)
  BY <1>1, <1>4, <1>5, WithoutIs
<1>7. (nodes' = <<>> /\ nodeCount' = nodeCount - j - 1) \/ (nodes' = W /\ nodeCount' = nodeCount - j)
  BY <1>4 DEF DropRoot, KeepRoot
<1> HIDE DEF W
<1>8. Cardinality(DOMAIN nodes) \in Nat /\ Cardinality(DOMAIN W) \in Nat /\ j \in Nat
  BY <1>4, <1>5, <1>6, FS_CardinalityType
<1>9. CASE nodes' = W /\ nodeCount' = nodeCount - j
  <2>1. Stored' \subseteq Stored \ With(nodes, t)
    BY <1>5, <1>6, <1>9, StoredIs
  <2>2. nodeCount' \in Nat /\ Cardinality(DOMAIN nodes') <= nodeCount'
    BY <1>6, <1>8, <1>9
  <2> QED
    BY <1>3, <1>6, <1>9, <2>1, <2>2
<1>10. CASE nodes' = <<>> /\ nodeCount' = nodeCount - j - 1
  <2>1. Stored' = {} /\ Trie(nodes') /\ DOMAIN nodes' = {}
    BY <1>10, StoredIs, NoTrie
  <2>2. DOMAIN W # {}
    BY <1>6 DEF Trie
  <2>3. Cardinality(DOMAIN W) # 0
    BY <1>6, <2>2, FS_EmptySet
  <2>4. IsFiniteSet(DOMAIN nodes') /\ Cardinality(DOMAIN nodes') = 0
    BY <2>1, FS_EmptySet
  <2>5. nodeCount' \in Nat /\ Cardinality(DOMAIN nodes') <= nodeCount'
    BY <1>6, <1>8, <1>10, <2>3, <2>4
  <2> QED
    BY <1>3, <2>1, <2>4, <2>5
<1> QED
  BY <1>7, <1>9, <1>10
-------------------------------------------------------------------------------
(* The invariant.                                                          *)
LEMMA UsesNone == \A o : Uses({}, o) = 0
<1>1. \A o : {i \in {} : i.key = o \/ i.value = o} = {}
  OBVIOUS
<1> QED
  BY <1>1, FS_EmptySet DEF Uses

(* The references when the items in R give way to those in N.              *)
LEMMA Exchanged ==
  ASSUME refs \in [Objects -> Nat], NEW S, IsFiniteSet(S), NEW R \in SUBSET S,
         NEW N, IsFiniteSet(N), NEW h \in [Objects -> Nat],
         \A o \in Objects : h[o] + Uses(S, o) <= refs[o]
  PROVE  /\ Exchange(R, N) \in [Objects -> Nat]
         /\ \A o \in Objects :
              h[o] + Uses(S \ R, o) + Uses(N, o) <= Exchange(R, N)[o]
<1>1. ASSUME NEW o \in Objects
      PROVE  /\ refs[o] - Uses(R, o) + Uses(N, o) \in Nat
             /\ h[o] + Uses(S \ R, o) + Uses(N, o) <= refs[o] - Uses(R, o) + Uses(N, o)
  <2>1. IsFiniteSet(R)
    BY FS_Subset
  <2>2. Uses(R, o) \in Nat /\ Uses(N, o) \in Nat /\ Uses(S, o) \in Nat
    BY <2>1, UsesType
  <2>3. Uses(R, o) <= Uses(S, o)
    BY UsesLess
  <2>4. Uses(S \ R, o) = Uses(S, o) - Uses(R, o)
    BY UsesGone
  <2>5. refs[o] \in Nat /\ h[o] \in Nat /\ h[o] + Uses(S, o) <= refs[o]
    OBVIOUS
  <2> QED
    BY <2>2, <2>3, <2>4, <2>5
<1>2. Exchange(R, N) = [o \in Objects |-> refs[o] - Uses(R, o) + Uses(N, o)]
  BY DEF Exchange
<1> QED
  BY <1>1, <1>2

(* The invariant holds of an empty dictionary.                             *)
LEMMA DictInvInit == Init => DictInv
<1> SUFFICES ASSUME Init PROVE DictInv
  OBVIOUS
<1>1. Trie(nodes) /\ DOMAIN nodes = {} /\ Stored = {}
  BY NoTrie, StoredIs DEF Init
<1>2. IsFiniteSet(DOMAIN nodes) /\ IsFiniteSet(Stored)
      /\ Cardinality(DOMAIN nodes) = 0 /\ Cardinality(Stored) = 0
  BY <1>1, FS_EmptySet
<1>3. \A o \in Objects : Uses(Stored, o) = 0
  BY <1>1, UsesNone
<1>4. /\ refs \in [Objects -> Nat] /\ held \in [Objects -> Nat]
      /\ \A o \in Objects : held[o] + 0 <= refs[o]
  BY DEF Init
<1>5. count \in Nat /\ nodeCount \in Nat /\ failures \in 0..MaxFailures
      /\ 0 <= count /\ 0 <= nodeCount
  BY DictionaryAssumption DEF Init
<1> QED
  BY <1>1, <1>2, <1>3, <1>4, <1>5 DEF DictInv, Counted

(* The counts of items when x comes in the place of those in "old".        *)
Counts(old, x) ==
  /\ IsFiniteSet(old) /\ old \in SUBSET Stored /\ IsFiniteSet(Stored')
  /\ Cardinality(old) \in Nat
  /\ Cardinality(Stored') = Cardinality(Stored) - Cardinality(old) + 1
  /\ \A o : Uses(Stored', o) = Uses(Stored \ old, o) + Uses({x}, o)

(* What an insert does to the counts of the items.                         *)
LEMMA InsertCounts ==
  ASSUME DictInv, NEW k \in KeyObjects, NEW v \in ValueObjects, Insert(k, v),
         NEW old, old = With(nodes, Text[k]), NEW x, x = Map!Item(k, v)
  PROVE  Counts(old, x)
<1>1. Trie(nodes) /\ IsFiniteSet(DOMAIN nodes) /\ IsFiniteSet(Stored)
  BY DEF DictInv, Counted
<1>2. Stored' = (Stored \ old) \cup {x}
  BY <1>1, InsertEffect
<1>3. Text[x.key] = Text[k]
  BY TextsAreTexts
<1>4. /\ IsFiniteSet(old) /\ old \in SUBSET Stored
      /\ Cardinality(old) = IF old = {} THEN 0 ELSE 1
  <2>1. IsFiniteSet(StoredIn(nodes))
    BY <1>1, StoredIs
  <2> QED
    BY <1>1, <2>1, WithCount, StoredIs
<1>5. x \notin Stored \ old
  BY <1>3, StoredIs DEF With
<1>6. /\ IsFiniteSet(Stored \ old)
      /\ Cardinality(Stored \ old) = Cardinality(Stored) - Cardinality(Stored \cap old)
  BY <1>1, FS_Difference
<1>7. Stored \cap old = old
  BY <1>4
<1>8. /\ IsFiniteSet(Stored')
      /\ Cardinality(Stored') = Cardinality(Stored \ old) + 1
  BY <1>2, <1>5, <1>6, FS_AddElement
<1>9. Cardinality(Stored) \in Nat /\ Cardinality(old) \in Nat
  BY <1>1, <1>4, FS_CardinalityType
<1>10. Cardinality(Stored') = Cardinality(Stored) - Cardinality(old) + 1
  BY <1>6, <1>7, <1>8
<1>11. ASSUME NEW o
       PROVE  Uses(Stored', o) = Uses(Stored \ old, o) + Uses({x}, o)
  <2> DEFINE S == Stored \ old
  <2>1. IsFiniteSet(S) /\ x \notin S /\ Stored' = S \cup {x}
    BY <1>2, <1>5, <1>6
  <2> HIDE DEF S
  <2>2. Uses(S \cup {x}, o) = Uses(S, o) + Uses({x}, o)
    BY <2>1, UsesNew
  <2> QED
    BY <2>1, <2>2 DEF S
<1> QED
  BY <1>4, <1>8, <1>9, <1>10, <1>11 DEF Counts

(* Each operation preserves the invariant: an insert,                      *)
LEMMA DictInvInsert ==
  ASSUME DictInv, NEW k \in KeyObjects, NEW v \in ValueObjects, Insert(k, v)
  PROVE  DictInv'
<1> DEFINE t == Text[k]
           x == Map!Item(k, v)
           old == With(nodes, t)
<1>1. /\ Trie(nodes) /\ IsFiniteSet(DOMAIN nodes) /\ IsFiniteSet(Stored)
      /\ count \in Nat /\ nodeCount \in Nat /\ failures \in 0..MaxFailures
      /\ Cardinality(Stored) <= count
      /\ Cardinality(DOMAIN nodes) <= nodeCount
      /\ refs \in [Objects -> Nat] /\ held \in [Objects -> Nat]
      /\ \A o \in Objects : held[o] + Uses(Stored, o) <= refs[o]
  BY DEF DictInv, Counted
<1>2. /\ Trie(nodes')
      /\ IsFiniteSet(DOMAIN nodes')
      /\ NewNodes(nodes, t) \in Nat /\ NewRoots(nodes) \in Nat
      /\ Cardinality(DOMAIN nodes')
              = Cardinality(DOMAIN nodes) + NewRoots(nodes) + NewNodes(nodes, t)
      /\ count' = count + Added(old)
      /\ refs' = Exchange(old, {x})
  BY <1>1, InsertEffect
<1>3. nodeCount' = nodeCount + NewRoots(nodes) + NewNodes(nodes, t)
      /\ held' = held /\ failures' = failures
  BY DEF Insert
<1>4. /\ IsFiniteSet(old) /\ old \in SUBSET Stored /\ IsFiniteSet(Stored')
      /\ Cardinality(old) \in Nat
      /\ Cardinality(Stored') = Cardinality(Stored) - Cardinality(old) + 1
      /\ \A o : Uses(Stored', o) = Uses(Stored \ old, o) + Uses({x}, o)
  <2>1. Counts(old, x)
    BY InsertCounts
  <2> QED
    BY <2>1 DEF Counts
<1> HIDE DEF t, x, old
<1>5. Cardinality(Stored) \in Nat /\ Cardinality(DOMAIN nodes) \in Nat
      /\ Cardinality(Stored') \in Nat
  BY <1>1, <1>4, FS_CardinalityType
<1>6. count' \in Nat /\ Cardinality(Stored') <= count'
  <2>1. count' = count + (1 - Cardinality(old))
    BY <1>2 DEF Added
  <2> QED
    BY <1>1, <1>4, <1>5, <2>1
<1>7. nodeCount' \in Nat /\ Cardinality(DOMAIN nodes') <= nodeCount'
  BY <1>1, <1>2, <1>3, <1>5
<1>8. IsFiniteSet({x}) /\ IsFiniteSet(Stored \ old)
  BY <1>1, FS_Singleton, FS_Difference
<1>9. /\ Exchange(old, {x}) \in [Objects -> Nat]
      /\ \A o \in Objects :
           held[o] + Uses(Stored \ old, o) + Uses({x}, o) <= Exchange(old, {x})[o]
  BY <1>1, <1>4, <1>8, Exchanged
<1>10. \A o \in Objects : held[o] \in Nat /\ Uses(Stored \ old, o) \in Nat /\ Uses({x}, o) \in Nat
  BY <1>1, <1>8, UsesType
<1>11. ASSUME NEW o \in Objects PROVE held'[o] + Uses(Stored', o) <= refs'[o]
  <2>1. /\ Uses(Stored', o) = Uses(Stored \ old, o) + Uses({x}, o)
        /\ held[o] \in Nat /\ Uses(Stored \ old, o) \in Nat /\ Uses({x}, o) \in Nat
    BY <1>4, <1>10
  <2>2. held[o] + Uses(Stored \ old, o) + Uses({x}, o) <= refs'[o]
    BY <1>2, <1>9
  <2>3. held[o] + Uses(Stored', o) <= refs'[o]
    BY <2>1, <2>2
  <2> QED
    BY <1>3, <2>3
<1>12. refs' \in [Objects -> Nat] /\ held' \in [Objects -> Nat] /\ failures' \in 0..MaxFailures
  BY <1>1, <1>2, <1>3, <1>9
<1> QED
  BY <1>2, <1>4, <1>6, <1>7, <1>11, <1>12 DEF DictInv, Counted

(* an insert that fails wherever it may,                                   *)
LEMMA DictInvInsertFails ==
  ASSUME DictInv, NEW k \in KeyObjects, NEW v \in ValueObjects, InsertFails(k, v)
  PROVE  DictInv'
<1>1. /\ Trie(nodes) /\ IsFiniteSet(DOMAIN nodes) /\ IsFiniteSet(Stored)
      /\ count \in Nat /\ nodeCount \in Nat /\ failures \in 0..MaxFailures
      /\ Cardinality(Stored) <= count
      /\ Cardinality(DOMAIN nodes) <= nodeCount
      /\ refs \in [Objects -> Nat] /\ held \in [Objects -> Nat]
      /\ \A o \in Objects : held[o] + Uses(Stored, o) <= refs[o]
  BY DEF DictInv, Counted
<1>2. /\ Trie(nodes')
      /\ Stored' = Stored
      /\ IsFiniteSet(DOMAIN nodes')
      /\ nodeCount' \in Nat
      /\ nodeCount' - Cardinality(DOMAIN nodes')
              \in {nodeCount - Cardinality(DOMAIN nodes),
                   nodeCount - Cardinality(DOMAIN nodes) + 1}
  BY <1>1, FailEffect
<1>3. /\ failures < MaxFailures /\ failures' = failures + 1
      /\ count' = count /\ refs' = refs /\ held' = held
  BY DEF InsertFails
<1>4. failures' \in 0..MaxFailures
  BY <1>1, <1>3, DictionaryAssumption
<1>5. Cardinality(DOMAIN nodes') \in Nat /\ Cardinality(DOMAIN nodes) \in Nat
  BY <1>1, <1>2, FS_CardinalityType
<1>6. Cardinality(DOMAIN nodes') <= nodeCount'
  BY <1>1, <1>2, <1>5
<1> QED
  BY <1>1, <1>2, <1>3, <1>4, <1>6 DEF DictInv, Counted

(* an erase, whatever has_children misses,                                 *)
LEMMA DictInvErase ==
  ASSUME DictInv, NEW t \in Texts, Erase(t)
  PROVE  DictInv'
<1> DEFINE old == With(nodes, t)
<1>1. /\ Trie(nodes) /\ IsFiniteSet(DOMAIN nodes) /\ IsFiniteSet(Stored)
      /\ count \in Nat /\ nodeCount \in Nat /\ failures \in 0..MaxFailures
      /\ Cardinality(Stored) <= count
      /\ Cardinality(DOMAIN nodes) <= nodeCount
      /\ refs \in [Objects -> Nat] /\ held \in [Objects -> Nat]
      /\ \A o \in Objects : held[o] + Uses(Stored, o) <= refs[o]
  BY DEF DictInv, Counted
<1>2. /\ old # {}
      /\ Trie(nodes')
      /\ Stored' \subseteq Stored \ old
      /\ IsFiniteSet(DOMAIN nodes')
      /\ nodeCount' \in Nat
      /\ Cardinality(DOMAIN nodes') <= nodeCount'
      /\ count' = count - 1
      /\ refs' = Exchange(old, {})
  BY <1>1, EraseEffect
<1>3. held' = held /\ failures' = failures
  BY DEF Erase
<1>4. /\ IsFiniteSet(old) /\ old \in SUBSET Stored
      /\ Cardinality(old) = IF old = {} THEN 0 ELSE 1
  <2>1. IsFiniteSet(StoredIn(nodes))
    BY <1>1, StoredIs
  <2> QED
    BY <1>1, <2>1, WithCount, StoredIs
<1> HIDE DEF old
<1>5. /\ IsFiniteSet(Stored \ old)
      /\ Cardinality(Stored \ old) = Cardinality(Stored) - Cardinality(Stored \cap old)
  BY <1>1, FS_Difference
<1>6. Stored \cap old = old
  BY <1>4
<1>7. IsFiniteSet(Stored') /\ Cardinality(Stored') <= Cardinality(Stored \ old)
  BY <1>2, <1>5, FS_Subset
<1>8. Cardinality(Stored) \in Nat /\ Cardinality(Stored') \in Nat
      /\ Cardinality(Stored \ old) \in Nat
  BY <1>1, <1>5, <1>7, FS_CardinalityType
<1>9. count' \in Nat /\ Cardinality(Stored') <= count'
  <2>1. Cardinality(Stored \ old) = Cardinality(Stored) - 1
    BY <1>2, <1>4, <1>5, <1>6
  <2> QED
    BY <1>1, <1>2, <1>7, <1>8, <2>1
<1>10. IsFiniteSet({})
  BY FS_EmptySet
<1>11. /\ Exchange(old, {}) \in [Objects -> Nat]
       /\ \A o \in Objects :
            held[o] + Uses(Stored \ old, o) + Uses({}, o) <= Exchange(old, {})[o]
  BY <1>1, <1>4, <1>10, Exchanged
<1>12. \A o \in Objects : Uses(Stored', o) <= Uses(Stored \ old, o)
  BY <1>2, <1>5, UsesLess
<1>13. \A o \in Objects : /\ held[o] \in Nat /\ Uses(Stored \ old, o) \in Nat
                          /\ Uses({}, o) = 0 /\ Uses(Stored', o) \in Nat
  BY <1>1, <1>5, <1>7, UsesType, UsesNone
<1>14. \A o \in Objects : held'[o] + Uses(Stored', o) <= refs'[o]
  <2>1. SUFFICES ASSUME NEW o \in Objects PROVE held'[o] + Uses(Stored', o) <= refs'[o]
    OBVIOUS
  <2>2. refs'[o] \in Nat
    BY <1>2, <1>11
  <2>3. held[o] + Uses(Stored \ old, o) + Uses({}, o) <= refs'[o]
    BY <1>2, <1>11
  <2>4. /\ Uses(Stored', o) <= Uses(Stored \ old, o)
        /\ held[o] \in Nat /\ Uses(Stored \ old, o) \in Nat
        /\ Uses({}, o) = 0 /\ Uses(Stored', o) \in Nat
    BY <1>12, <1>13
  <2>5. held[o] + Uses(Stored', o) <= refs'[o]
    BY <2>2, <2>3, <2>4
  <2> QED
    BY <1>3, <2>5
<1>15. refs' \in [Objects -> Nat] /\ held' \in [Objects -> Nat] /\ failures' \in 0..MaxFailures
  BY <1>1, <1>2, <1>3, <1>11
<1> QED
  BY <1>2, <1>7, <1>9, <1>14, <1>15 DEF DictInv, Counted

(* a clear,                                                                *)
LEMMA DictInvClear ==
  ASSUME DictInv, Clear
  PROVE  DictInv'
<1>1. /\ IsFiniteSet(Stored)
      /\ failures \in 0..MaxFailures
      /\ refs \in [Objects -> Nat] /\ held \in [Objects -> Nat]
      /\ \A o \in Objects : held[o] + Uses(Stored, o) <= refs[o]
  BY DEF DictInv, Counted
<1>2. /\ nodes' = <<>> /\ count' = 0 /\ nodeCount' = 0 /\ refs' = Exchange(Stored, {})
      /\ held' = held /\ failures' = failures
  BY DEF Clear
<1>3. Trie(nodes') /\ DOMAIN nodes' = {} /\ Stored' = {}
  BY <1>2, NoTrie, StoredIs
<1>4. IsFiniteSet(DOMAIN nodes') /\ IsFiniteSet(Stored')
      /\ Cardinality(DOMAIN nodes') = 0 /\ Cardinality(Stored') = 0 /\ IsFiniteSet({})
  BY <1>3, FS_EmptySet
<1>5. /\ Exchange(Stored, {}) \in [Objects -> Nat]
      /\ \A o \in Objects :
            held[o] + Uses(Stored \ Stored, o) + Uses({}, o) <= Exchange(Stored, {})[o]
  BY <1>1, <1>4, Exchanged
<1>6. \A o \in Objects : Uses(Stored \ Stored, o) = 0 /\ Uses({}, o) = 0 /\ Uses(Stored', o) = 0
  BY <1>3, UsesNone
<1>7. \A o \in Objects : held'[o] + Uses(Stored', o) <= refs'[o]
  <2>1. SUFFICES ASSUME NEW o \in Objects PROVE held'[o] + Uses(Stored', o) <= refs'[o]
    OBVIOUS
  <2>2. held[o] \in Nat
    BY <1>1
  <2>3. held[o] + Uses(Stored \ Stored, o) + Uses({}, o) <= refs'[o]
    BY <1>2, <1>5
  <2>4. held[o] + Uses(Stored', o) <= refs'[o]
    BY <1>6, <2>2, <2>3
  <2> QED
    BY <1>2, <2>4
<1>8. /\ refs' \in [Objects -> Nat] /\ held' \in [Objects -> Nat] /\ failures' \in 0..MaxFailures
      /\ count' \in Nat /\ nodeCount' \in Nat /\ 0 <= count' /\ 0 <= nodeCount'
  BY <1>1, <1>2, <1>5
<1> QED
  BY <1>3, <1>4, <1>7, <1>8 DEF DictInv, Counted

(* and a caller's reference that goes.                                     *)
LEMMA DictInvDrop ==
  ASSUME DictInv, NEW o \in Shared, Drop(o)
  PROVE  DictInv'
<1>1. /\ Trie(nodes) /\ IsFiniteSet(DOMAIN nodes) /\ IsFiniteSet(Stored)
      /\ count \in Nat /\ nodeCount \in Nat /\ failures \in 0..MaxFailures
      /\ Cardinality(Stored) <= count
      /\ Cardinality(DOMAIN nodes) <= nodeCount
      /\ refs \in [Objects -> Nat] /\ held \in [Objects -> Nat]
      /\ \A p \in Objects : held[p] + Uses(Stored, p) <= refs[p]
  BY DEF DictInv, Counted
<1>2. /\ held[o] > 0
      /\ held' = [held EXCEPT ![o] = held[o] - 1]
      /\ refs' = [refs EXCEPT ![o] = refs[o] - 1]
      /\ nodes' = nodes /\ count' = count /\ nodeCount' = nodeCount /\ failures' = failures
  BY DEF Drop
<1>3. o \in Objects
  BY DictionaryAssumption
<1>4. \A p \in Objects : Uses(Stored, p) \in Nat
  BY <1>1, UsesType
<1>5. Stored' = Stored
  BY <1>2, StoredIs
<1>6. ASSUME NEW p \in Objects
      PROVE  held'[p] \in Nat /\ refs'[p] \in Nat /\ held'[p] + Uses(Stored, p) <= refs'[p]
  <2>1. held[p] \in Nat /\ refs[p] \in Nat /\ held[p] + Uses(Stored, p) <= refs[p]
        /\ Uses(Stored, p) \in Nat
    BY <1>1, <1>4
  <2>2. CASE p = o
    <3>1. held'[p] = held[p] - 1 /\ refs'[p] = refs[p] - 1 /\ held[p] > 0
      BY <1>1, <1>2, <1>3, <2>2
    <3> QED
      BY <2>1, <3>1
  <2>3. CASE p # o
    <3>1. held'[p] = held[p] /\ refs'[p] = refs[p]
      BY <1>1, <1>2, <2>3
    <3> QED
      BY <2>1, <3>1
  <2> QED
    BY <2>2, <2>3
<1>7. refs' \in [Objects -> Nat] /\ held' \in [Objects -> Nat]
  BY <1>1, <1>2, <1>6
<1> QED
  BY <1>1, <1>2, <1>5, <1>6, <1>7 DEF DictInv, Counted

(* So every step does.                                                     *)
LEMMA DictInvNext == DictInv /\ [Next]_vars => DictInv'
<1> SUFFICES ASSUME DictInv, [Next]_vars PROVE DictInv'
  OBVIOUS
<1>1. CASE UNCHANGED vars
  <2>1. /\ nodes' = nodes /\ count' = count /\ nodeCount' = nodeCount
        /\ refs' = refs /\ held' = held /\ failures' = failures
    BY <1>1 DEF vars
  <2>2. Stored' = Stored
    BY <2>1, StoredIs
  <2> QED
    BY <2>1, <2>2 DEF DictInv, Counted
<1>2. CASE \E k \in KeyObjects, v \in ValueObjects : Insert(k, v)
  BY <1>2, DictInvInsert
<1>3. CASE \E k \in KeyObjects, v \in ValueObjects : InsertFails(k, v)
  BY <1>3, DictInvInsertFails
<1>4. CASE \E t \in Texts : Erase(t)
  BY <1>4, DictInvErase
<1>5. CASE Clear
  BY <1>5, DictInvClear
<1>6. CASE \E o \in Shared : Drop(o)
  BY <1>6, DictInvDrop
<1> QED
  BY <1>1, <1>2, <1>3, <1>4, <1>5, <1>6 DEF Next

(* In every reachable state the nodes form a trie and the counts cover     *)
(* what is there: no node, item or reference is used that is gone.         *)
THEOREM DictionaryInductive == Spec => []DictInv
<1> QED
  BY DictInvInit, DictInvNext, PTL DEF Spec
-------------------------------------------------------------------------------
(* What a reader of the trie sees.                                         *)
(* For all keys: every used slot is in range and a leaf or a node, and no  *)
(* count ever becomes negative.                                            *)
THEOREM DictionaryTyped == Spec => []TypeOK
<1>1. DictInv => TypeOK
  <2> SUFFICES ASSUME DictInv PROVE TypeOK
    OBVIOUS
  <2>1. ASSUME NEW p \in DOMAIN nodes
        PROVE  /\ p \in Seq(Char)
               /\ nodes[p].start \in Char /\ nodes[p].end \in Char
               /\ Occupied(nodes[p]) \subseteq nodes[p].start .. nodes[p].end
               /\ nodes[p].sub \cap DOMAIN nodes[p].leaf = {}
               /\ ItemsOf(nodes[p]) \subseteq Items
               /\ Cardinality(nodes[p].value) <= 1
    <3>1. p \in Seq(Char) /\ NodeShape(nodes[p]) /\ ItemsEndAt(nodes[p], p)
      BY TrieNode DEF DictInv
    <3>2. ItemsOf(nodes[p]) \subseteq Items
      BY <3>1 DEF ItemsEndAt, ItemsOf, Range
    <3>3. CASE nodes[p].value = {}
      BY <3>1, <3>2, <3>3, FS_EmptySet DEF NodeShape
    <3>4. CASE nodes[p].value # {}
      <4> DEFINE N == nodes[p].value
      <4>3. PICK x : x \in N
        BY <3>4
      <4>4. \A y, z \in N : y = z
        BY <3>1 DEF ItemsEndAt
      <4>1. N = {x}
        BY <4>3, <4>4
      <4>2. Cardinality(nodes[p].value) = 1
        BY <4>1, FS_Singleton
      <4> QED
        BY <3>1, <3>2, <4>2 DEF NodeShape
    <3> QED
      BY <3>3, <3>4
  <2>2. /\ count \in Nat /\ nodeCount \in Nat /\ failures \in 0..MaxFailures
        /\ refs \in [Objects -> Nat] /\ held \in [Objects -> Nat]
    BY DEF DictInv, Counted
  <2> QED
    BY <2>1, <2>2 DEF TypeOK
<1> QED
  BY <1>1, DictionaryInductive, PTL

(* A position is a text that has an item; nodes lead to it.                *)
LEMMA PositionIs ==
  ASSUME NEW T, Trie(T), NEW u \in Positions(T)
  PROVE  /\ u \in Seq(Char) /\ T # <<>>
         /\ With(T, u) = {ItemAt(T, u)}
         /\ \A i \in 0..Len(u) - 1 : Prefix(u, i) \in DOMAIN T
<1>1. \/ u \in DOMAIN T /\ T[u].value # {}
      \/ \E p \in DOMAIN T : \E c \in DOMAIN T[p].leaf : u = Append(p, c)
  BY DEF Positions
<1>2. CASE u \in DOMAIN T /\ T[u].value # {}
  <2>1. u \in Seq(Char) /\ \A i \in 0..Len(u) : Prefix(u, i) \in DOMAIN T
    BY <1>2, TrieNode
  <2>2. With(T, u) = T[u].value
    BY <1>2, ValueIsStored
  <2>3. ItemsEndAt(T[u], u)
    BY <1>2, TrieNode
  <2>4. ItemAt(T, u) = CHOOSE i \in T[u].value : TRUE
    BY <1>2 DEF ItemAt
  <2>5. (CHOOSE i \in T[u].value : TRUE) \in T[u].value
    BY <1>2
  <2>6. T[u].value = {ItemAt(T, u)}
    BY <2>3, <2>4, <2>5 DEF ItemsEndAt
  <2>7. \A i \in 0..Len(u) - 1 : i \in 0..Len(u)
    BY <2>1
  <2>8. T # <<>>
    BY <1>2, TrieHasRoot
  <2> QED
    BY <2>1, <2>2, <2>6, <2>7, <2>8
<1>3. CASE ~(u \in DOMAIN T /\ T[u].value # {})
  <2>0. PICK p \in DOMAIN T : \E c \in DOMAIN T[p].leaf : u = Append(p, c)
    BY <1>1, <1>3
  <2>1. PICK c \in DOMAIN T[p].leaf : u = Append(p, c)
    BY <2>0
  <2>2. /\ p \in Seq(Char) /\ c \in Char
        /\ \A i \in 0..Len(p) : Prefix(p, i) \in DOMAIN T
        /\ c \in T[p].sub <=> Append(p, c) \in DOMAIN T
        /\ NodeShape(T[p])
    BY TrieNode
  <2>3. Append(p, c) \notin DOMAIN T
    BY <2>2 DEF NodeShape
  <2>4. With(T, u) = LeafAt(T[p], c)
    BY <2>1, <2>2, <2>3, LeafIsStored
  <2>5. /\ u \in Seq(Char) /\ Len(u) = Len(p) + 1 /\ u[Len(p) + 1] = c
        /\ \A i \in 0..Len(p) : Prefix(u, i) = Prefix(p, i)
        /\ Prefix(u, Len(p)) = p
    BY <2>1, <2>2, AppendIs
  <2>6. Len(p) \in Nat /\ Len(u) - 1 = Len(p)
    BY <2>2, <2>5
  <2>7. Front(u) = p /\ Last(u) = c
    <3>1. Front(u) = SubSeq(u, 1, Len(u) - 1) /\ Last(u) = u[Len(u)]
      BY DEF Front, Last
    <3> QED
      BY <2>5, <2>6, <3>1 DEF Prefix
  <2>8. ItemAt(T, u) = T[p].leaf[c]
    BY <2>1, <2>3, <2>7 DEF ItemAt
  <2>9. LeafAt(T[p], c) = {T[p].leaf[c]}
    BY <2>1 DEF LeafAt
  <2>10. T # <<>>
    BY TrieHasRoot
  <2> QED
    BY <2>2, <2>4, <2>5, <2>6, <2>8, <2>9, <2>10
<1> QED
  BY <1>2, <1>3

(* No other text has one.                                                  *)
LEMMA NoPosition ==
  ASSUME NEW T, Trie(T), NEW t \in Seq(Char), t \notin Positions(T)
  PROVE  With(T, t) = {}
<1>1. SUFFICES ASSUME NEW x \in With(T, t) PROVE FALSE
  OBVIOUS
<1>2. x \in StoredIn(T) /\ Text[x.key] = t
  BY <1>1 DEF With
<1>3. \/ Text[x.key] \in DOMAIN T /\ x \in T[Text[x.key]].value
      \/ \E p \in DOMAIN T, c \in Char : c \in DOMAIN T[p].leaf /\ Text[x.key] = Append(p, c)
  BY <1>2, StoredWhere
<1>4. CASE Text[x.key] \in DOMAIN T /\ x \in T[Text[x.key]].value
  BY <1>2, <1>4 DEF Positions
<1>5. CASE \E p \in DOMAIN T, c \in Char : c \in DOMAIN T[p].leaf /\ Text[x.key] = Append(p, c)
  <2>1. PICK p \in DOMAIN T, c \in Char : c \in DOMAIN T[p].leaf /\ Text[x.key] = Append(p, c)
    BY <1>5
  <2>2. t \in {Append(p, b) : b \in DOMAIN T[p].leaf}
    BY <1>2, <2>1
  <2> QED
    BY <2>2 DEF Positions
<1> QED
  BY <1>3, <1>4, <1>5

(* For all keys: dictionary_at and dictionary_exists find the item of a    *)
(* key that is stored, and nothing else, also after has_children missed    *)
(* children.                                                               *)
THEOREM LookupsRight == Spec => []LookupsAgree
<1>1. DictInv => LookupsAgree
  <2> SUFFICES ASSUME DictInv, NEW t \in Texts PROVE Find(nodes, t) = Abstract!At(t)
    BY DEF LookupsAgree
  <2>1. t \in Seq(Char) /\ Trie(nodes)
    BY TextsAreTexts DEF DictInv
  <2>2. Find(nodes, t) = With(nodes, t)
    BY <2>1, FindIs
  <2>3. Abstract!At(t) = {ItemAt(nodes, u) : u \in {t} \cap Positions(nodes)}
    BY DEF Abstract!At, Contents
  <2>4. CASE t \in Positions(nodes)
    BY <2>1, <2>2, <2>3, <2>4, PositionIs
  <2>5. CASE t \notin Positions(nodes)
    BY <2>1, <2>2, <2>3, <2>5, NoPosition
  <2> QED
    BY <2>4, <2>5
<1> QED
  BY <1>1, DictionaryInductive, PTL

(* The slots that an iteration goes on to are those of the keys behind.    *)
LEMMA BehindIsAfter ==
  ASSUME NEW T, Trie(T), NEW t \in Seq(Char)
  PROVE  {u \in Positions(T) : \E j \in 0..Depth(T, t) : BehindSlot(t, j, u)}
           = {u \in Positions(T) : Map!Less(t, u)}
<1>1. SUFFICES ASSUME NEW u \in Positions(T)
               PROVE  (\E j \in 0..Depth(T, t) : BehindSlot(t, j, u)) <=> Map!Less(t, u)
  OBVIOUS
<1>2. /\ u \in Seq(Char) /\ T # <<>>
      /\ \A i \in 0..Len(u) - 1 : Prefix(u, i) \in DOMAIN T
  BY PositionIs
<1>3. /\ Depth(T, t) \in 0..Len(t)
      /\ \A i \in 0..Len(t) : Prefix(t, i) \in DOMAIN T <=> i <= Depth(T, t)
  BY <1>2, DepthOf
<1>4. ASSUME NEW j \in 0..Depth(T, t), BehindSlot(t, j, u) PROVE Map!Less(t, u)
  <2>1. /\ j \in 0..Len(t) /\ j < Len(u) /\ j \in 0..Len(u)
        /\ Prefix(u, j) = Prefix(t, j)
        /\ j = Len(t) \/ u[j + 1] > t[j + 1]
    BY <1>2, <1>3, <1>4 DEF BehindSlot
  <2>2. \A i \in 1..j : t[i] = u[i]
    BY <1>2, <2>1, PrefixIs
  <2>3. j = Len(t) \/ t[j + 1] < u[j + 1]
    <3>1. ASSUME j # Len(t) PROVE t[j + 1] \in Char /\ u[j + 1] \in Char
      <4>1. j + 1 \in 1..Len(t) /\ j + 1 \in 1..Len(u)
        BY <1>2, <2>1, <3>1
      <4> QED
        BY <1>2, <4>1
    <3> QED
      BY <2>1, <3>1 DEF Char
  <2> QED
    BY <2>1, <2>2, <2>3 DEF Map!Less
<1>5. ASSUME Map!Less(t, u) PROVE \E j \in 0..Depth(T, t) : BehindSlot(t, j, u)
  <2>1. PICK j \in 0..Len(t) : /\ j < Len(u)
                               /\ \A i \in 1..j : t[i] = u[i]
                               /\ j = Len(t) \/ t[j + 1] < u[j + 1]
    BY <1>5 DEF Map!Less
  <2>2. j \in 0..Len(u) /\ j \in 0..Len(u) - 1 /\ j \in Nat
    BY <1>2, <2>1
  <2>3. /\ Prefix(t, j) \in Seq(Char) /\ Len(Prefix(t, j)) = j
        /\ \A i \in 1..j : Prefix(t, j)[i] = t[i]
    BY <2>1, PrefixIs
  <2>4. /\ Prefix(u, j) \in Seq(Char) /\ Len(Prefix(u, j)) = j
        /\ \A i \in 1..j : Prefix(u, j)[i] = u[i]
    BY <1>2, <2>2, PrefixIs
  <2>5. Prefix(u, j) = Prefix(t, j)
    BY <2>1, <2>3, <2>4, SameText
  <2>6. j \in 0..Depth(T, t)
    BY <1>2, <1>3, <2>1, <2>2, <2>5
  <2>7. j = Len(t) \/ u[j + 1] > t[j + 1]
    <3>1. ASSUME j # Len(t) PROVE t[j + 1] \in Char /\ u[j + 1] \in Char
      <4>1. j + 1 \in 1..Len(t) /\ j + 1 \in 1..Len(u)
        BY <1>2, <2>1, <2>2, <3>1
      <4> QED
        BY <1>2, <4>1
    <3> QED
      BY <2>1, <3>1 DEF Char
  <2> QED
    BY <2>1, <2>5, <2>6, <2>7 DEF BehindSlot
<1> QED
  BY <1>4, <1>5

(* When the key with no characters is there, it comes first.               *)
LEMMA RootFirst ==
  ASSUME NEW S \in SUBSET Seq(Char), Root \in S
  PROVE  Map!First(S) = {Root}
<1>1. \A u \in S : u = Root \/ Map!Less(Root, u)
  <2>1. SUFFICES ASSUME NEW u \in S, u # Root PROVE Map!Less(Root, u)
    OBVIOUS
  <2>2. Len(u) \in Nat /\ Len(u) > 0
    BY <2>1 DEF Root
  <2>3. 0 \in 0..Len(Root) /\ 0 = Len(Root) /\ \A i \in 1..0 : Root[i] = u[i]
    BY EmptyText
  <2> QED
    BY <2>2, <2>3 DEF Map!Less
<1>2. \A u \in S : ~Map!Less(u, Root)
  <2>1. SUFFICES ASSUME NEW u \in S, Map!Less(u, Root) PROVE FALSE
    OBVIOUS
  <2>2. PICK n \in 0..Len(u) : n < Len(Root)
    BY <2>1 DEF Map!Less
  <2> QED
    BY <2>2, EmptyText
<1> QED
  BY <1>1, <1>2 DEF Map!First

(* Of no keys there is no first.                                           *)
LEMMA FirstOfNone == Map!First({}) = {}
  BY DEF Map!First

(* The map that the trie stands for; its order does not depend on it.      *)
LEMMA SameMap ==
  /\ DOMAIN Contents = Positions(nodes)
  /\ \A u \in Positions(nodes) : Contents[u] = ItemAt(nodes, u)
  /\ \A S : Abstract!First(S) = Map!First(S)
  /\ \A t, u : Abstract!Less(t, u) <=> Map!Less(t, u)
  BY DEF Contents, Abstract!First, Map!First, Abstract!Less, Map!Less

(* For all keys: dictionary_next_item goes on with the least key after the *)
(* current one, be that still stored or not.                               *)
THEOREM IterationRight == Spec => []IterationInOrder
<1>1. DictInv => IterationInOrder
  <2> SUFFICES ASSUME DictInv PROVE IterationInOrder
    OBVIOUS
  <2>1. Trie(nodes)
    BY DEF DictInv
  <2> DEFINE S == Positions(nodes)
  <2>2. S \subseteq Seq(Char)
    BY <2>1, PositionIs
  <2>3. ASSUME NEW R \in SUBSET S
        PROVE  {Contents[u] : u \in Abstract!First(R)} = {ItemAt(nodes, u) : u \in Map!First(R)}
    <3>1. Abstract!First(R) = Map!First(R) /\ Map!First(R) \subseteq R
      BY SameMap DEF Map!First
    <3>2. \A u \in Map!First(R) : Contents[u] = ItemAt(nodes, u)
      BY <3>1, SameMap
    <3> QED
      BY <3>1, <3>2
  <2>4. FirstItem(nodes) = {ItemAt(nodes, u) : u \in Map!First(S)}
    <3>1. CASE nodes = <<>>
      <4>1. S = {}
        BY <2>1, <3>1, PositionIs
      <4>2. FirstItem(nodes) = {}
        BY <3>1 DEF FirstItem
      <4> QED
        BY <4>1, <4>2, FirstOfNone
    <3>2. CASE nodes # <<>> /\ nodes[Root].value # {}
      <4>1. Root \in DOMAIN nodes
        BY <2>1, <3>2 DEF Trie
      <4>2. Root \in S
        BY <3>2, <4>1 DEF Positions
      <4>3. Map!First(S) = {Root}
        BY <2>2, <4>2, RootFirst
      <4>4. nodes[Root].value = {ItemAt(nodes, Root)}
        BY <2>1, <4>1, <4>2, ValueIsStored, PositionIs
      <4>5. FirstItem(nodes) = nodes[Root].value
        BY <3>2 DEF FirstItem
      <4> QED
        BY <4>3, <4>4, <4>5
    <3>3. CASE nodes # <<>> /\ nodes[Root].value = {}
      BY <3>3 DEF FirstItem
    <3> QED
      BY <3>1, <3>2, <3>3
  <2>5. ASSUME NEW t \in Texts
        PROVE  NextItem(nodes, t) = Abstract!After(t)
    <3>1. t \in Seq(Char)
      BY TextsAreTexts
    <3> DEFINE R == {u \in S : Map!Less(t, u)}
    <3>2. {u \in S : \E j \in 0..Depth(nodes, t) : BehindSlot(t, j, u)} = R
      BY <2>1, <3>1, BehindIsAfter
    <3>3. NextItem(nodes, t) = {ItemAt(nodes, u) : u \in Map!First(R)}
      BY <3>2 DEF NextItem
    <3>4. {u \in DOMAIN Contents : Abstract!Less(t, u)} = R
      BY SameMap
    <3>5. Abstract!After(t) = {Contents[u] : u \in Abstract!First(R)}
      BY <3>4 DEF Abstract!After
    <3>6. R \in SUBSET S
      OBVIOUS
    <3> HIDE DEF R
    <3> QED
      BY <2>3, <3>3, <3>5, <3>6
  <2>6. FirstItem(nodes) = {Contents[u] : u \in Abstract!First(DOMAIN Contents)}
    BY <2>3, <2>4, SameMap
  <2> QED
    BY <2>5, <2>6 DEF IterationInOrder
<1> QED
  BY <1>1, DictionaryInductive, PTL
-------------------------------------------------------------------------------
(* What holds as long as has_children sees all children.                   *)

(* No node of T is empty, but for a root with an item.                     *)
Full(T) ==
  \A p \in DOMAIN T : Occupied(T[p]) # {} \/ (p = Root /\ T[p].value # {})

(* A node is empty when no node and no item hangs from it.                 *)
LEMMA OccupiedIs ==
  ASSUME NEW T, Trie(T), NEW p \in DOMAIN T
  PROVE  Occupied(T[p]) # {} <=>
           \E c \in Char : Append(p, c) \in DOMAIN T \/ With(T, Append(p, c)) # {}
<1>1. /\ \A c \in Char : c \in T[p].sub <=> Append(p, c) \in DOMAIN T
      /\ T[p].sub \subseteq Char /\ DOMAIN T[p].leaf \subseteq Char
  BY TrieNode
<1>2. \A c \in Char : Append(p, c) \notin DOMAIN T =>
        (c \in DOMAIN T[p].leaf <=> With(T, Append(p, c)) # {})
  <2>1. SUFFICES ASSUME NEW c \in Char, Append(p, c) \notin DOMAIN T
                 PROVE  c \in DOMAIN T[p].leaf <=> With(T, Append(p, c)) # {}
    OBVIOUS
  <2>2. LeafAt(T[p], c) = With(T, Append(p, c))
    BY <2>1, LeafIsStored
  <2>3. LeafAt(T[p], c) # {} <=> c \in DOMAIN T[p].leaf
    BY DEF LeafAt
  <2> QED
    BY <2>2, <2>3
<1> QED
  BY <1>1, <1>2 DEF Occupied

(* The paths that Prepared adds are all on the way to t.                   *)
LEMMA PreparedPaths ==
  ASSUME NEW T, Trie(T), NEW t \in Seq(Char), NEW U, U = Prepared(T, t, 0)
  PROVE  /\ DOMAIN T \subseteq DOMAIN U
         /\ t # Root => Prefix(t, Len(t) - 1) \in DOMAIN U
         /\ \A q \in DOMAIN U :
              q \in DOMAIN T \/ q = Root \/ \E m \in 0..Len(t) - 1 : q = Prefix(t, m)
<1> DEFINE d == Reached(T, t)
           k == NewNodes(T, t)
<1>1. k \in Nat /\ 0 \in 0..k /\ k = k - 0
  BY NewNodesType
<1>2. /\ d \in 0..Len(t)
      /\ k = IF Len(t) - 1 > d THEN Len(t) - 1 - d ELSE 0
  BY <1>1, PreparedSteps
<1>3. /\ Trie(U)
      /\ DOMAIN U = DOMAIN T \cup {Root} \cup NewPaths(t, d, k)
      /\ Ready(U, t)
  <2>1. NewNodes(T, t) = NewNodes(T, t) - 0
    BY <1>1
  <2>2. ASSUME NEW n, n = 0, NEW b, b = NewNodes(T, t)
        PROVE  /\ Trie(Prepared(T, t, n))
               /\ DOMAIN Prepared(T, t, n) = DOMAIN T \cup {Root} \cup NewPaths(t, Reached(T, t), b)
               /\ Ready(Prepared(T, t, n), t)
    <3>1. n \in 0..NewNodes(T, t) /\ b = NewNodes(T, t) - n
      BY <1>1, <2>1, <2>2
    <3>2. Trie(Prepared(T, t, n)) /\ Ready(Prepared(T, t, n), t)
      BY <2>2, <3>1, PreparedIs
    <3>3. DOMAIN Prepared(T, t, n) = DOMAIN T \cup {Root} \cup NewPaths(t, Reached(T, t), b)
      BY <3>1, PreparedIs
    <3> QED
      BY <3>2, <3>3
  <2> QED
    BY <2>2
<1> HIDE DEF d, k
<1>4. ASSUME t # Root PROVE Prefix(t, Len(t) - 1) \in DOMAIN U
  <2>1. CASE t \in DOMAIN U
    <3>1. Len(t) - 1 \in 0..Len(t)
      BY <1>4, TextSplits
    <3> QED
      BY <1>3, <2>1, <3>1, TrieNode
  <2>2. CASE t \notin DOMAIN U
    BY <1>3, <2>2 DEF Ready
  <2> QED
    BY <2>1, <2>2
<1>5. ASSUME NEW q \in NewPaths(t, d, k) PROVE \E m \in 0..Len(t) - 1 : q = Prefix(t, m)
  <2>1. PICK i \in 1..k : q = Prefix(t, d + i)
    BY DEF NewPaths
  <2>2. d + i \in 0..Len(t) - 1
    BY <1>1, <1>2
  <2> QED
    BY <2>1, <2>2
<1> QED
  BY <1>3, <1>4, <1>5

(* An insert leaves no node empty.                                         *)
LEMMA InsertFull ==
  ASSUME Trie(nodes), IsFiniteSet(DOMAIN nodes), Full(nodes),
         NEW k \in KeyObjects, NEW v \in ValueObjects, Insert(k, v)
  PROVE  Full(nodes')
<1> DEFINE t == Text[k]
           x == Map!Item(k, v)
           U == Prepared(nodes, t, 0)
<1>1. t \in Seq(Char) /\ x \in Items /\ Text[x.key] = t
  BY TextsAreTexts
<1>2. /\ Trie(nodes')
      /\ StoredIn(nodes') = (StoredIn(nodes) \ With(nodes, t)) \cup {x}
  BY InsertEffect, StoredIs
<1>3. nodes' = SetItem(U, t, x)
  BY DEF Insert
<1> HIDE DEF x, t
<1>4. DOMAIN nodes' = DOMAIN U
  <2>1. DOMAIN SetItem(U, t, x) = DOMAIN U
    BY DEF SetItem
  <2> QED
    BY <1>3, <2>1
<1>5. /\ DOMAIN nodes \subseteq DOMAIN nodes'
      /\ t # Root => Prefix(t, Len(t) - 1) \in DOMAIN nodes'
      /\ \A q \in DOMAIN nodes' :
           q \in DOMAIN nodes \/ q = Root \/ \E m \in 0..Len(t) - 1 : q = Prefix(t, m)
  BY <1>1, <1>4, PreparedPaths
<1> HIDE DEF U
<1>6. With(nodes', t) # {}
  BY <1>1, <1>2 DEF With
<1>7. \A u : With(nodes, u) # {} => With(nodes', u) # {}
  <2>1. SUFFICES ASSUME NEW u, NEW y \in With(nodes, u), u # t PROVE y \in With(nodes', u)
    BY <1>6
  <2>2. y \in StoredIn(nodes) /\ Text[y.key] = u /\ y \notin With(nodes, t)
    BY <2>1 DEF With
  <2> QED
    BY <1>2, <2>2 DEF With
<1>8. ASSUME NEW q \in DOMAIN nodes', NEW m \in 0..Len(t) - 1, q = Prefix(t, m)
      PROVE  Occupied(nodes'[q]) # {}
  <2>1. t[m + 1] \in Char /\ Append(q, t[m + 1]) = Prefix(t, m + 1)
    BY <1>1, <1>8, PrefixStep
  <2>2. CASE m + 1 = Len(t)
    <3>1. Append(q, t[m + 1]) = t
      BY <1>1, <2>1, <2>2, PrefixAll
    <3> QED
      BY <1>2, <1>6, <2>1, <3>1, OccupiedIs
  <2>3. CASE m + 1 # Len(t)
    <3>1. Len(t) - 1 \in 0..Len(t) /\ m + 1 \in 0..Len(t) - 1 /\ t # Root
      BY <1>1, <2>3, EmptyText
    <3>2. Prefix(t, Len(t) - 1) \in DOMAIN nodes'
      BY <1>5, <3>1
    <3>3. Len(Prefix(t, Len(t) - 1)) = Len(t) - 1
      BY <1>1, <3>1, PrefixIs
    <3>4. Prefix(Prefix(t, Len(t) - 1), m + 1) = Prefix(t, m + 1)
      BY <1>1, <3>1, PrefixShorter
    <3>5. Prefix(Prefix(t, Len(t) - 1), m + 1) \in DOMAIN nodes'
      BY <1>2, <3>1, <3>2, <3>3, TrieNode
    <3>6. Append(q, t[m + 1]) \in DOMAIN nodes'
      BY <2>1, <3>4, <3>5
    <3> QED
      BY <1>2, <2>1, <3>6, OccupiedIs
  <2> QED
    BY <2>2, <2>3
<1>9. ASSUME NEW q \in DOMAIN nodes', q = Root, With(nodes', Root) # {}
      PROVE  nodes'[q].value # {}
  BY <1>2, <1>9, ValueIsStored
<1>10. ASSUME NEW q \in DOMAIN nodes', q \in DOMAIN nodes
       PROVE  Occupied(nodes'[q]) # {} \/ (q = Root /\ nodes'[q].value # {})
  <2>1. CASE Occupied(nodes[q]) # {}
    <3>1. PICK c \in Char : Append(q, c) \in DOMAIN nodes \/ With(nodes, Append(q, c)) # {}
      BY <1>10, <2>1, OccupiedIs
    <3>2. Append(q, c) \in DOMAIN nodes' \/ With(nodes', Append(q, c)) # {}
      BY <1>5, <1>7, <3>1
    <3> QED
      BY <1>2, <1>10, <3>2, OccupiedIs
  <2>2. CASE q = Root /\ nodes[q].value # {}
    <3>1. With(nodes, Root) # {}
      BY <1>10, <2>2, ValueIsStored
    <3> QED
      BY <1>7, <1>9, <1>10, <2>2, <3>1
  <2> QED
    BY <1>10, <2>1, <2>2 DEF Full
<1>11. ASSUME NEW q \in DOMAIN nodes', q = Root
       PROVE  Occupied(nodes'[q]) # {} \/ (q = Root /\ nodes'[q].value # {})
  <2>1. CASE t = Root
    BY <1>6, <1>9, <1>11, <2>1
  <2>2. CASE t # Root
    <3>1. 0 \in 0..Len(t) - 1
      BY <1>1, <2>2, TextSplits
    <3>2. q = Prefix(t, 0)
      BY <1>1, <1>11, PrefixAll
    <3> QED
      BY <1>8, <1>11, <3>1, <3>2
  <2> QED
    BY <2>1, <2>2
<1> QED
  BY <1>5, <1>8, <1>10, <1>11 DEF Full

(* W is T with nodes taken away from way's end up to the one at "up", that *)
(* hung in slot c of node Q; an item of it has moved up into that slot.    *)
Kept(W, T, Q, c, up, end, j) ==
  /\ DOMAIN W \subseteq DOMAIN T
  /\ \A q \in DOMAIN W : q # Q => W[q] = T[q]
  /\ Q \in DOMAIN W
  /\ W[Q].start = T[Q].start /\ W[Q].end = T[Q].end
  /\ j = 0 => W = T
  /\ j > 0 => /\ Occupied(T[Q]) \ {c} \subseteq Occupied(W[Q])
              /\ T[up].value # {} => c \in Occupied(W[Q])
              /\ end \notin DOMAIN W

(* What Without leaves has the ranges it had; the node from which the      *)
(* topmost deleted one hung keeps its other slots, and gets an item for    *)
(* that one if there is one to move up. No other node changes.             *)
LEMMA WithoutKeeps ==
  ASSUME NEW T, Trie(T), T # <<>>, NEW t \in Seq(Char), NEW j \in 0..Depth(T, t),
         NEW W, W = Without(T, t, j),
         NEW Q, Q = Prefix(t, Depth(T, t) - j),
         NEW up, up = Prefix(t, Depth(T, t) - j + 1), NEW c, c = t[Depth(T, t) - j + 1]
  PROVE  Kept(W, T, Q, c, up, Prefix(t, Depth(T, t)), j)
<1> DEFINE d == Depth(T, t)
<1>1. /\ d \in 0..Len(t)
      /\ \A k \in 0..Len(t) : Prefix(t, k) \in DOMAIN T <=> k <= d
  BY DepthOf
<1>2. CASE j = 0
  <2>1. W = T
    BY <1>2 DEF Without
  <2>2. Q = Prefix(t, d)
    BY <1>1, <1>2
  <2>3. Q \in DOMAIN T
    BY <1>1, <2>2
  <2> QED
    BY <1>2, <2>1, <2>3 DEF Kept
<1>3. CASE j # 0
  <2>1. ASSUME NEW i, i = Depth(T, t) - j + 1
        PROVE  /\ DOMAIN W = LeftNodes(T, t, i)
               /\ \A q \in DOMAIN W : q # Q => W[q] = T[q]
               /\ Q \in DOMAIN W
               /\ MovedUp(W[Q], T[Q], c, T[up].value)
               /\ Prefix(t, d) \notin DOMAIN W
    <3>1. j \in 1..Depth(T, t) /\ i - 1 = d - j
      BY <1>1, <1>3, <2>1
    <3>2. i \in 1..Depth(T, t) /\ Prefix(t, i - 1) \in LeftNodes(T, t, i)
      BY <2>1, <3>1, WithoutTakesAway
    <3>3. TakenAway(Without(T, t, j), T, t, i)
      BY <2>1, <3>1, WithoutTakesAway
    <3>4. Q = Prefix(t, i - 1) /\ up = Prefix(t, i) /\ c = t[i]
      BY <2>1, <3>1
    <3>5. TakenAway(W, T, t, i)
      BY <3>3
    <3> HIDE DEF d
    <3>6. /\ DOMAIN W = LeftNodes(T, t, i)
          /\ \A q \in DOMAIN W : q # Q => W[q] = T[q]
          /\ MovedUp(W[Q], T[Q], c, T[up].value)
      BY <3>4, <3>5 DEF TakenAway
    <3>7. Prefix(t, d) \notin LeftNodes(T, t, i)
      <4>1. d \in 0..Len(t) /\ i \in 0..Len(t) /\ i \in 0..d
        BY <1>1, <3>2 DEF d
      <4>2. Prefix(t, d) \in Seq(Char) /\ Len(Prefix(t, d)) = d
        BY <4>1, PrefixIs
      <4>3. Prefix(Prefix(t, d), i) = Prefix(t, i)
        BY <4>1, PrefixShorter
      <4>4. IsPrefix(Prefix(t, i), Prefix(t, d))
        BY <4>1, <4>2, <4>3, BelowIs
      <4> QED
        BY <4>4 DEF LeftNodes
    <3> QED
      BY <3>2, <3>4, <3>6, <3>7
  <2> HIDE DEF d
  <2>2. /\ DOMAIN W \subseteq DOMAIN T
        /\ \A q \in DOMAIN W : q # Q => W[q] = T[q]
        /\ Q \in DOMAIN W
        /\ MovedUp(W[Q], T[Q], c, T[up].value)
        /\ Prefix(t, d) \notin DOMAIN W
    BY <2>1 DEF LeftNodes
  <2>3. W[Q].start = T[Q].start /\ W[Q].end = T[Q].end
    BY <2>2 DEF MovedUp, HasNothing, SameRange
  <2>4. /\ Occupied(T[Q]) \ {c} \subseteq Occupied(W[Q])
        /\ T[up].value # {} => c \in Occupied(W[Q])
    <3>1. CASE T[up].value = {} /\ HasNothing(W[Q], T[Q], c)
      BY <3>1 DEF HasNothing, Occupied, Restrict
    <3>2. CASE /\ W[Q].sub = T[Q].sub \ {c}
               /\ DOMAIN W[Q].leaf = (DOMAIN T[Q].leaf \ {c}) \cup {c}
      BY <3>2 DEF Occupied
    <3> QED
      BY <2>2, <3>1, <3>2 DEF MovedUp
  <2> QED
    BY <1>3, <2>2, <2>3, <2>4 DEF d, Kept
<1> QED
  BY <1>2, <1>3

(* Where dictionary_erase may stop: at the root, or at a node that is not  *)
(* empty, or is not after an item has moved up.                            *)
Stops(T, t, d, j) ==
  \/ j = d
  \/ j > 0 /\ T[Prefix(t, d - j + 1)].value # {}
  \/ j = 0 /\ Occupied(T[Prefix(t, d)]) # {}
  \/ j > 0 /\ Occupied(T[Prefix(t, d - j)]) \ {t[d - j + 1]} # {}

(* The nodes that dictionary_erase deletes are bare, and the one at which  *)
(* it stops is not empty, unless that is the root.                         *)
LEMMA EmptiesIs ==
  ASSUME NEW T, Trie(T), T # <<>>, NEW t \in Seq(Char), NEW d, d = Depth(T, t),
         NEW j \in 0..d, \A p \in DOMAIN T : Narrow(T[p]), Empties(T, t, j)
  PROVE  /\ j > 0 => Bare(T, t, d - j + 1, d)
         /\ Stops(T, t, d, j)
<1> DEFINE On(i) == T[Prefix(t, i)]
           Lowest(i) == IF i = d THEN On(i) ELSE SetEmpty(On(i), t[i + 1])
<1>1. /\ \A i \in d - j + 1 .. d : FALSE \in HasChildren(Lowest(i))
      /\ \A i \in d - j + 2 .. d : On(i).value = {}
      /\ \/ j = d
         \/ j > 0 /\ On(d - j + 1).value # {}
         \/ TRUE \in HasChildren(Lowest(d - j))
  BY DEF Empties
<1>2. /\ d \in 0..Len(t)
      /\ \A k \in 0..Len(t) : Prefix(t, k) \in DOMAIN T <=> k <= d
  BY DepthOf
<1>3. ASSUME NEW i \in 0..d
      PROVE  /\ Prefix(t, i) \in DOMAIN T
             /\ NodeShape(On(i)) /\ Narrow(On(i))
             /\ i < d => t[i + 1] \in On(i).sub
  <2>1. i \in 0..Len(t) /\ Prefix(t, i) \in DOMAIN T
    BY <1>2
  <2>2. NodeShape(On(i)) /\ Narrow(On(i))
    BY <2>1, TrieNode
  <2>3. ASSUME i < d PROVE t[i + 1] \in On(i).sub
    <3>1. i \in 0..Len(t) - 1 /\ i + 1 \in 0..Len(t) /\ i + 1 <= d
      BY <1>2, <2>3
    <3>2. t[i + 1] \in Char /\ Append(Prefix(t, i), t[i + 1]) = Prefix(t, i + 1)
      BY <3>1, PrefixStep
    <3>3. Append(Prefix(t, i), t[i + 1]) \in DOMAIN T
      BY <1>2, <3>1, <3>2
    <3> QED
      BY <2>1, <3>2, <3>3, TrieNode
  <2> QED
    BY <2>1, <2>2, <2>3
<1>4. ASSUME NEW i \in 0..d
      PROVE  /\ FALSE \in HasChildren(Lowest(i)) => Occupied(Lowest(i)) = {}
             /\ TRUE \in HasChildren(Lowest(i)) => Occupied(Lowest(i)) # {}
             /\ Occupied(Lowest(i)) = IF i = d THEN Occupied(On(i)) ELSE Occupied(On(i)) \ {t[i + 1]}
  <2>1. NodeShape(On(i)) /\ Narrow(On(i))
    BY <1>3
  <2> HIDE DEF On
  <2>2. CASE i = d
    BY <2>1, <2>2, HasChildrenNarrow
  <2>3. CASE i # d
    <3> DEFINE L == SetEmpty(On(i), t[i + 1])
    <3>1. HasNothing(L, On(i), t[i + 1])
      BY <2>1, SetEmptyFields
    <3>2. Lowest(i) = L
      BY <2>3
    <3> HIDE DEF L, Lowest
    <3>3. NodeShape(L) /\ Narrow(L)
      BY <2>1, <3>1 DEF HasNothing, SameRange, Narrow
    <3>4. Occupied(L) = Occupied(On(i)) \ {t[i + 1]}
      BY <3>1 DEF HasNothing, Occupied, Restrict
    <3> QED
      BY <2>3, <3>2, <3>3, <3>4, HasChildrenNarrow
  <2> QED
    BY <2>2, <2>3
<1>5. ASSUME j > 0, NEW i \in d - j + 1 .. d
      PROVE  /\ DOMAIN On(i).leaf = {}
             /\ \A c \in On(i).sub : i < d /\ c = t[i + 1]
             /\ i > d - j + 1 => On(i).value = {}
  <2>1. i \in 0..d /\ (i > d - j + 1 => i \in d - j + 2 .. d)
    BY <1>2
  <2>2. Occupied(Lowest(i)) = {}
    BY <1>1, <1>4, <2>1
  <2>3. IF i = d THEN Occupied(On(i)) = {} ELSE Occupied(On(i)) \ {t[i + 1]} = {}
    BY <1>4, <2>1, <2>2
  <2>4. i # d => i < d /\ t[i + 1] \in On(i).sub
    <3>1. i # d => i < d
      BY <1>2, <2>1
    <3> QED
      BY <1>3, <2>1, <3>1
  <2>5. NodeShape(On(i))
    BY <1>3, <2>1
  <2>6. i > d - j + 1 => On(i).value = {}
    BY <1>1, <2>1
  <2> HIDE DEF On, Lowest
  <2> QED
    BY <2>3, <2>4, <2>5, <2>6 DEF NodeShape, Occupied
<1>6. j > 0 => Bare(T, t, d - j + 1, d)
  BY <1>5 DEF Bare
<1>7. d - j \in 0..d /\ (j = 0 <=> d - j = d) /\ (j # 0 => j > 0)
  BY <1>2
<1>8. TRUE \in HasChildren(Lowest(d - j)) =>
        \/ j = 0 /\ Occupied(On(d - j)) # {}
        \/ j > 0 /\ Occupied(On(d - j)) \ {t[d - j + 1]} # {}
  BY <1>4, <1>7
<1>9. j = 0 => d - j = d
  BY <1>7
<1>10. Stops(T, t, d, j)
  BY <1>1, <1>8, <1>9 DEF Stops
<1> QED
  BY <1>6, <1>10

(* A trie whose root is empty and has no item stores nothing and is that   *)
(* root.                                                                   *)
LEMMA BareRoot ==
  ASSUME NEW T, Trie(T), T # <<>>, Occupied(T[Root]) = {}, T[Root].value = {}
  PROVE  DOMAIN T = {Root} /\ StoredIn(T) = {}
<1>1. Root \in DOMAIN T
  BY DEF Trie
<1>2. ASSUME NEW p \in DOMAIN T, p # Root PROVE FALSE
  <2>1. p \in Seq(Char) /\ \A i \in 0..Len(p) : Prefix(p, i) \in DOMAIN T
    BY TrieNode
  <2>2. 0 \in 0..Len(p) - 1 /\ 1 \in 0..Len(p) /\ 0 + 1 = 1
    BY <1>2, <2>1, TextSplits
  <2>3. p[1] \in Char /\ Append(Prefix(p, 0), p[1]) = Prefix(p, 1)
    BY <2>1, <2>2, PrefixStep
  <2>4. Append(Root, p[1]) \in DOMAIN T
    BY <2>1, <2>2, <2>3, PrefixAll
  <2>5. p[1] \in T[Root].sub
    BY <1>1, <2>3, <2>4, TrieNode
  <2> QED
    BY <2>5 DEF Occupied
<1>3. DOMAIN T = {Root}
  BY <1>1, <1>2
<1>4. ItemsOf(T[Root]) = {}
  BY DEF ItemsOf, Occupied, Range
<1> QED
  BY <1>3, <1>4 DEF StoredIn

(* An erase that sees all children deletes the key's item and no other,    *)
(* counts the nodes it deletes, and leaves no node empty.                  *)
LEMMA EraseExact ==
  ASSUME Trie(nodes), IsFiniteSet(DOMAIN nodes), nodeCount \in Nat,
         Cardinality(DOMAIN nodes) <= nodeCount, NarrowNodes,
         NEW t \in Texts, Erase(t)
  PROVE  /\ Stored' = Stored \ With(nodes, t)
         /\ nodeCount' - Cardinality(DOMAIN nodes') = nodeCount - Cardinality(DOMAIN nodes)
         /\ Full(nodes) => Full(nodes')
<1> DEFINE V == SetNoItem(nodes, t)
           d == Depth(nodes, t)
<1>1. t \in Seq(Char)
  BY TextsAreTexts
<1>2. With(nodes, t) # {}
  BY EraseEffect
<1>3. PICK j \in 0..d : Empties(V, t, j) /\ (DropRoot(V, t, j) \/ KeepRoot(V, t, j))
  BY DEF Erase
<1>4. /\ nodes # <<>> /\ V # <<>>
      /\ Trie(V) /\ DOMAIN V = DOMAIN nodes
      /\ StoredIn(V) = StoredIn(nodes) \ With(nodes, t)
      /\ Depth(V, t) = d /\ d \in 0..Len(t)
  BY <1>1, <1>2, EraseStarts
<1>5. /\ \A q \in DOMAIN nodes : q # Prefix(t, d) => V[q] = nodes[q]
      /\ \A q \in DOMAIN nodes : Narrow(V[q])
  <2>1. ASSUME NEW s, s = Prefix(t, d), NEW m, m = V[s]
        PROVE  /\ Replaced(V, nodes, s, m, With(nodes, t), {})
               /\ SameRange(m, nodes[s])
    <3>1. /\ Replaced(V, nodes, s, m, With(nodes, t), {})
          /\ IF t \in DOMAIN nodes THEN HasValue(m, nodes[s], {})
                                   ELSE HasNothing(m, nodes[s], t[Len(t)])
      BY <1>1, <1>2, <1>4, <2>1, SetNoItemIs
    <3> QED
      BY <3>1 DEF HasValue, HasNothing
  <2> HIDE DEF V, d
  <2>2. \A q \in DOMAIN nodes : q # Prefix(t, d) => V[q] = nodes[q]
    BY <2>1 DEF Replaced
  <2>3. Narrow(nodes[Prefix(t, d)]) => Narrow(V[Prefix(t, d)])
    BY <2>1 DEF SameRange, Narrow
  <2> QED
    BY <2>2, <2>3 DEF NarrowNodes
<1> DEFINE W == Without(V, t, j)
           Q == Prefix(t, d - j)
           c == t[d - j + 1]
           up == Prefix(t, d - j + 1)
<1>6. /\ DropRoot(V, t, j) =>
           /\ RootIsReached(V, t, j) /\ W[Root].value = {} /\ FALSE \in HasChildren(W[Root])
           /\ nodes' = <<>> /\ nodeCount' = nodeCount - j - 1
      /\ KeepRoot(V, t, j) =>
           /\ RootIsReached(V, t, j) => W[Root].value # {} \/ TRUE \in HasChildren(W[Root])
           /\ nodes' = W /\ nodeCount' = nodeCount - j
      /\ RootIsReached(V, t, j) <=> j = d /\ (d > 0 => V[Prefix(t, 1)].value = {})
  BY <1>4 DEF DropRoot, KeepRoot, RootIsReached
<1> HIDE DEF V, d
<1>7. /\ j > 0 => Bare(V, t, d - j + 1, d)
      /\ \/ j = d
         \/ j > 0 /\ V[up].value # {}
         \/ j = 0 /\ Occupied(V[Prefix(t, d)]) # {}
         \/ j > 0 /\ Occupied(V[Q]) \ {c} # {}
  <2>1. \A p \in DOMAIN V : Narrow(V[p])
    BY <1>4, <1>5
  <2>2. d = Depth(V, t) /\ j \in 0..d /\ Empties(V, t, j)
    BY <1>3, <1>4
  <2>3. j > 0 => Bare(V, t, d - j + 1, d)
    BY <1>1, <1>4, <2>1, <2>2, EmptiesIs
  <2>4. Stops(V, t, d, j)
    BY <1>1, <1>4, <2>1, <2>2, EmptiesIs
  <2> QED
    BY <2>3, <2>4 DEF Stops
<1>8. /\ DOMAIN W \subseteq DOMAIN V
      /\ \A q \in DOMAIN W : q # Q => W[q] = V[q]
      /\ Q \in DOMAIN W
      /\ W[Q].start = V[Q].start /\ W[Q].end = V[Q].end
      /\ j = 0 => W = V
      /\ j > 0 => /\ Occupied(V[Q]) \ {c} \subseteq Occupied(W[Q])
                  /\ V[up].value # {} => c \in Occupied(W[Q])
                  /\ Prefix(t, d) \notin DOMAIN W
  <2>1. ASSUME NEW W1, W1 = W, NEW Q1, Q1 = Q, NEW up1, up1 = up, NEW c1, c1 = c
        PROVE  Kept(W1, V, Q1, c1, up1, Prefix(t, d), j)
    <3>1. /\ W1 = Without(V, t, j)
          /\ Q1 = Prefix(t, Depth(V, t) - j)
          /\ up1 = Prefix(t, Depth(V, t) - j + 1) /\ c1 = t[Depth(V, t) - j + 1]
          /\ j \in 0..Depth(V, t)
      BY <1>3, <1>4, <2>1
    <3> HIDE DEF W, Q, c, up
    <3>2. Kept(W1, V, Q1, c1, up1, Prefix(t, Depth(V, t)), j)
      BY <1>1, <1>4, <3>1, WithoutKeeps
    <3> QED
      BY <1>4, <3>2
  <2>2. Kept(W, V, Q, c, up, Prefix(t, d), j)
    BY <2>1
  <2> QED
    BY <2>2 DEF Kept
<1>9. /\ Trie(W) /\ W # <<>> /\ IsFiniteSet(DOMAIN W)
      /\ StoredIn(W) = StoredIn(V)
      /\ Cardinality(DOMAIN W) + j = Cardinality(DOMAIN nodes)
  <2>1. j \in 0..Depth(V, t) /\ (j > 0 => Bare(V, t, Depth(V, t) - j + 1, Depth(V, t)))
    BY <1>3, <1>4, <1>7
  <2>2. IsFiniteSet(DOMAIN V)
    BY <1>4
  <2>3. Trie(W) /\ W # <<>> /\ IsFiniteSet(DOMAIN W)
    BY <1>1, <1>4, <2>1, <2>2, WithoutIs
  <2>4. StoredIn(W) = StoredIn(V) /\ Cardinality(DOMAIN W) + j = Cardinality(DOMAIN V)
    BY <1>1, <1>4, <2>1, <2>2, WithoutBare
  <2> QED
    BY <1>4, <2>3, <2>4
<1>10. Root \in DOMAIN W /\ NodeShape(W[Root]) /\ Narrow(W[Root])
  <2>1. Root \in DOMAIN W
    BY <1>9 DEF Trie
  <2>2. NodeShape(W[Root])
    BY <1>9, <2>1, TrieNode
  <2>3. W[Root].start = V[Root].start /\ W[Root].end = V[Root].end
    BY <1>8, <2>1
  <2>4. Narrow(V[Root])
    BY <1>4, <1>5, <1>8, <2>1
  <2> QED
    BY <2>1, <2>2, <2>3, <2>4 DEF Narrow
<1> HIDE DEF W
<1>11. Cardinality(DOMAIN W) \in Nat /\ Cardinality(DOMAIN nodes) \in Nat /\ j \in Nat
  BY <1>3, <1>4, <1>9, FS_CardinalityType
<1>12. CASE DropRoot(V, t, j)
  <2>1. Occupied(W[Root]) = {} /\ W[Root].value = {}
    BY <1>6, <1>10, <1>12, HasChildrenNarrow
  <2>2. DOMAIN W = {Root} /\ StoredIn(W) = {}
    BY <1>9, <2>1, BareRoot
  <2>3. Cardinality(DOMAIN W) = 1
    BY <2>2, FS_Singleton
  <2>4. nodes' = <<>> /\ nodeCount' = nodeCount - j - 1
    BY <1>6, <1>12
  <2>5. DOMAIN nodes' = {} /\ Stored' = {}
    BY <2>4, NoTrie, StoredIs
  <2>6. Cardinality(DOMAIN nodes') = 0
    BY <2>5, FS_EmptySet
  <2>7. Stored' = Stored \ With(nodes, t)
    BY <1>4, <1>9, <2>2, <2>5, StoredIs
  <2>8. nodeCount' - Cardinality(DOMAIN nodes') = nodeCount - Cardinality(DOMAIN nodes)
    BY <1>9, <1>11, <2>3, <2>4, <2>6
  <2> QED
    BY <2>5, <2>7, <2>8 DEF Full
<1>13. CASE KeepRoot(V, t, j)
  <2>1. nodes' = W /\ nodeCount' = nodeCount - j
    BY <1>6, <1>13
  <2>2. Stored' = Stored \ With(nodes, t)
    BY <1>4, <1>9, <2>1, StoredIs
  <2>3. nodeCount' - Cardinality(DOMAIN nodes') = nodeCount - Cardinality(DOMAIN nodes)
    BY <1>9, <1>11, <2>1
  <2>4. Occupied(W[Q]) # {} \/ (Q = Root /\ W[Q].value # {})
    <3>1. CASE RootIsReached(V, t, j)
      <4>1. j = d /\ d - j = 0
        BY <1>4, <1>6, <3>1
      <4>2. Q = Root
        BY <1>1, <4>1, PrefixAll
      <4>3. W[Root].value # {} \/ Occupied(W[Root]) # {}
        BY <1>6, <1>10, <1>13, <3>1, HasChildrenNarrow
      <4> QED
        BY <4>2, <4>3
    <3>2. CASE ~RootIsReached(V, t, j)
      <4>1. CASE j = d
        <5>1. d > 0 /\ V[Prefix(t, 1)].value # {}
          BY <1>6, <3>2, <4>1
        <5>2. d - j + 1 = 1 /\ j > 0
          BY <1>4, <4>1, <5>1
        <5> QED
          BY <1>8, <5>1, <5>2
      <4>2. CASE j > 0 /\ V[up].value # {}
        BY <1>8, <4>2
      <4>3. CASE j = 0 /\ Occupied(V[Prefix(t, d)]) # {}
        <5>1. d - j = d
          BY <1>4, <4>3
        <5> QED
          BY <1>8, <4>3, <5>1
      <4>4. CASE j > 0 /\ Occupied(V[Q]) \ {c} # {}
        BY <1>8, <4>4
      <4> QED
        BY <1>7, <4>1, <4>2, <4>3, <4>4
    <3> QED
      BY <3>1, <3>2
  <2>5. ASSUME NEW q \in DOMAIN W, q # Q PROVE W[q] = nodes[q] /\ q \in DOMAIN nodes
    <3>1. W[q] = V[q] /\ q \in DOMAIN nodes
      BY <1>4, <1>8, <2>5
    <3>2. q # Prefix(t, d)
      <4>1. CASE j = 0
        <5>1. d - j = d
          BY <1>4, <4>1
        <5> QED
          BY <2>5, <5>1
      <4>2. CASE j # 0
        BY <1>8, <1>11, <4>2
      <4> QED
        BY <4>1, <4>2
    <3> QED
      BY <1>5, <3>1, <3>2
  <2>6. Full(nodes) => Full(nodes')
    BY <2>1, <2>4, <2>5 DEF Full
  <2> QED
    BY <2>2, <2>3, <2>6
<1> QED
  BY <1>3, <1>12, <1>13

(* The exact invariant is that of an empty dictionary.                     *)
LEMMA ExactInit == Init => ExactInv
<1> SUFFICES ASSUME Init PROVE ExactInv
  OBVIOUS
<1>1. DictInv
  BY DictInvInit
<1>2. DOMAIN nodes = {} /\ Stored = {}
  BY NoTrie, StoredIs DEF Init
<1>3. Cardinality(DOMAIN nodes) = 0 /\ Cardinality(Stored) = 0
  BY <1>2, FS_EmptySet
<1>4. count = Cardinality(Stored) /\ nodeCount - Cardinality(DOMAIN nodes) \in 0..failures
  BY <1>3 DEF Init
<1>5. RefsExact
  BY <1>2, UsesNone DEF Init, RefsExact
<1>6. NoEmptyNodes
  BY <1>2 DEF NoEmptyNodes
<1> QED
  BY <1>1, <1>4, <1>5, <1>6 DEF ExactInv

(* What the exact invariant says, taken apart.                             *)
LEMMA ExactSays ==
  ASSUME ExactInv
  PROVE  /\ DictInv /\ Trie(nodes) /\ IsFiniteSet(DOMAIN nodes) /\ IsFiniteSet(Stored)
         /\ count \in Nat /\ nodeCount \in Nat /\ failures \in Nat
         /\ Cardinality(DOMAIN nodes) \in Nat /\ Cardinality(Stored) \in Nat
         /\ Cardinality(DOMAIN nodes) <= nodeCount
         /\ refs \in [Objects -> Nat] /\ held \in [Objects -> Nat]
         /\ \A o \in Objects : held[o] + Uses(Stored, o) <= refs[o]
         /\ \A o \in Objects : refs[o] = held[o] + Uses(Stored, o)
         /\ \A o \in Objects : Uses(Stored, o) \in Nat
         /\ count = Cardinality(Stored)
         /\ nodeCount - Cardinality(DOMAIN nodes) \in 0..failures
         /\ failures = 0 => Full(nodes)
<1>1. /\ DictInv /\ Trie(nodes) /\ IsFiniteSet(DOMAIN nodes) /\ IsFiniteSet(Stored)
      /\ count \in Nat /\ nodeCount \in Nat /\ failures \in 0..MaxFailures
      /\ Cardinality(DOMAIN nodes) <= nodeCount
      /\ refs \in [Objects -> Nat] /\ held \in [Objects -> Nat]
      /\ \A o \in Objects : held[o] + Uses(Stored, o) <= refs[o]
      /\ count = Cardinality(Stored)
      /\ nodeCount - Cardinality(DOMAIN nodes) \in 0..failures
  BY DEF ExactInv, DictInv, Counted
<1>2. \A o \in Objects : Uses(Stored, o) \in Nat
  BY <1>1, UsesType
<1>3. \A o \in Objects : refs[o] = held[o] + Uses(Stored, o)
  BY DEF ExactInv, RefsExact
<1>4. failures = 0 => Full(nodes)
  BY DEF ExactInv, NoEmptyNodes, Full
<1>5. Cardinality(DOMAIN nodes) \in Nat /\ Cardinality(Stored) \in Nat /\ failures \in Nat
  BY <1>1, FS_CardinalityType
<1> QED
  BY <1>1, <1>2, <1>3, <1>4, <1>5

(* Each operation preserves it: an insert,                                 *)
LEMMA ExactInsert ==
  ASSUME ExactInv, NEW k \in KeyObjects, NEW v \in ValueObjects, Insert(k, v)
  PROVE  ExactInv'
<1> DEFINE t == Text[k]
           x == Map!Item(k, v)
           old == With(nodes, t)
<1>1. /\ DictInv /\ Trie(nodes) /\ IsFiniteSet(DOMAIN nodes) /\ IsFiniteSet(Stored)
      /\ count \in Nat /\ nodeCount \in Nat /\ failures \in Nat
      /\ Cardinality(DOMAIN nodes) \in Nat /\ Cardinality(Stored) \in Nat
      /\ refs \in [Objects -> Nat] /\ held \in [Objects -> Nat]
  BY ExactSays
<1>2. /\ \A o \in Objects : held[o] + Uses(Stored, o) <= refs[o]
      /\ \A o \in Objects : refs[o] = held[o] + Uses(Stored, o)
      /\ \A o \in Objects : Uses(Stored, o) \in Nat
      /\ count = Cardinality(Stored)
      /\ nodeCount - Cardinality(DOMAIN nodes) \in 0..failures
      /\ failures = 0 => Full(nodes)
  BY ExactSays
<1>3. DictInv'
  BY <1>1, DictInvInsert
<1>4. /\ NewNodes(nodes, t) \in Nat /\ NewRoots(nodes) \in Nat
      /\ Cardinality(DOMAIN nodes')
              = Cardinality(DOMAIN nodes) + NewRoots(nodes) + NewNodes(nodes, t)
      /\ count' = count + Added(old)
      /\ refs' = Exchange(old, {x})
  BY <1>1, InsertEffect
<1>5. nodeCount' = nodeCount + NewRoots(nodes) + NewNodes(nodes, t)
      /\ held' = held /\ failures' = failures
  BY DEF Insert
<1>6. Counts(old, x)
  BY <1>1, InsertCounts
<1>7. failures = 0 => Full(nodes')
  BY <1>1, <1>2, InsertFull
<1> HIDE DEF t, x, old
<1>8. /\ IsFiniteSet(old) /\ old \in SUBSET Stored
      /\ Cardinality(old) \in Nat
      /\ Cardinality(Stored') = Cardinality(Stored) - Cardinality(old) + 1
      /\ \A o : Uses(Stored', o) = Uses(Stored \ old, o) + Uses({x}, o)
  BY <1>6 DEF Counts
<1>9. count' = Cardinality(Stored')
  <2>1. count' = count + (1 - Cardinality(old))
    BY <1>4 DEF Added
  <2> QED
    BY <1>1, <1>2, <1>8, <2>1
<1>10. nodeCount' - Cardinality(DOMAIN nodes') \in 0..failures'
  BY <1>1, <1>2, <1>4, <1>5
<1>11. IsFiniteSet({x})
  BY FS_Singleton
<1>12. \A o \in Objects : Exchange(old, {x})[o] = refs[o] - Uses(old, o) + Uses({x}, o)
  BY DEF Exchange
<1>13. ASSUME NEW o \in Objects PROVE refs'[o] = held'[o] + Uses(Stored', o)
  <2>1. Uses(Stored \ old, o) = Uses(Stored, o) - Uses(old, o)
    BY <1>1, <1>8, UsesGone
  <2>2. Uses(Stored', o) = Uses(Stored \ old, o) + Uses({x}, o)
    BY <1>8
  <2>3. refs'[o] = refs[o] - Uses(old, o) + Uses({x}, o)
    BY <1>4, <1>12
  <2>4. refs[o] = held[o] + Uses(Stored, o) /\ held[o] \in Nat
        /\ Uses(Stored, o) \in Nat /\ Uses(old, o) \in Nat /\ Uses({x}, o) \in Nat
    BY <1>1, <1>2, <1>8, <1>11, UsesType
  <2>5. refs'[o] = held[o] + Uses(Stored', o)
    BY <2>1, <2>2, <2>3, <2>4
  <2> QED
    BY <1>5, <2>5
<1>14. NoEmptyNodes'
  BY <1>5, <1>7 DEF NoEmptyNodes, Full
<1> QED
  BY <1>3, <1>9, <1>10, <1>13, <1>14 DEF ExactInv, RefsExact

(* an insert that fails, which may count a root that it never got,         *)
LEMMA ExactInsertFails ==
  ASSUME ExactInv, NEW k \in KeyObjects, NEW v \in ValueObjects, InsertFails(k, v)
  PROVE  ExactInv'
<1>1. /\ DictInv /\ Trie(nodes) /\ IsFiniteSet(DOMAIN nodes)
      /\ nodeCount \in Nat /\ failures \in Nat
      /\ Cardinality(DOMAIN nodes) \in Nat
  BY ExactSays
<1>2. /\ \A o \in Objects : refs[o] = held[o] + Uses(Stored, o)
      /\ count = Cardinality(Stored)
      /\ nodeCount - Cardinality(DOMAIN nodes) \in 0..failures
  BY ExactSays
<1>3. DictInv'
  BY <1>1, DictInvInsertFails
<1>4. /\ Stored' = Stored
      /\ nodeCount' - Cardinality(DOMAIN nodes')
              \in {nodeCount - Cardinality(DOMAIN nodes),
                   nodeCount - Cardinality(DOMAIN nodes) + 1}
  BY <1>1, FailEffect
<1>5. /\ failures' = failures + 1
      /\ count' = count /\ refs' = refs /\ held' = held
  BY DEF InsertFails
<1>6. nodeCount' - Cardinality(DOMAIN nodes') \in 0..failures'
  BY <1>1, <1>2, <1>4, <1>5
<1>7. \A o \in Objects : refs'[o] = held'[o] + Uses(Stored', o)
  BY <1>2, <1>4, <1>5
<1>8. failures' # 0
  BY <1>1, <1>5
<1>9. NoEmptyNodes'
  BY <1>8 DEF NoEmptyNodes
<1>10. count' = Cardinality(Stored')
  BY <1>2, <1>4, <1>5
<1> QED
  BY <1>3, <1>6, <1>7, <1>9, <1>10 DEF ExactInv, RefsExact

(* an erase,                                                               *)
LEMMA ExactErase ==
  ASSUME ExactInv, NarrowNodes, NEW t \in Texts, Erase(t)
  PROVE  ExactInv'
<1> DEFINE old == With(nodes, t)
<1>1. /\ DictInv /\ Trie(nodes) /\ IsFiniteSet(DOMAIN nodes) /\ IsFiniteSet(Stored)
      /\ count \in Nat /\ nodeCount \in Nat /\ failures \in Nat
      /\ Cardinality(DOMAIN nodes) \in Nat /\ Cardinality(Stored) \in Nat
      /\ Cardinality(DOMAIN nodes) <= nodeCount
      /\ refs \in [Objects -> Nat] /\ held \in [Objects -> Nat]
  BY ExactSays
<1>2. /\ \A o \in Objects : held[o] + Uses(Stored, o) <= refs[o]
      /\ \A o \in Objects : refs[o] = held[o] + Uses(Stored, o)
      /\ \A o \in Objects : Uses(Stored, o) \in Nat
      /\ count = Cardinality(Stored)
      /\ nodeCount - Cardinality(DOMAIN nodes) \in 0..failures
      /\ failures = 0 => Full(nodes)
  BY ExactSays
<1>3. DictInv'
  BY <1>1, DictInvErase
<1>4. old # {} /\ count' = count - 1 /\ refs' = Exchange(old, {})
  BY <1>1, EraseEffect
<1>5. /\ Stored' = Stored \ old
      /\ nodeCount' - Cardinality(DOMAIN nodes') = nodeCount - Cardinality(DOMAIN nodes)
      /\ Full(nodes) => Full(nodes')
  BY <1>1, EraseExact
<1>6. held' = held /\ failures' = failures
  BY DEF Erase
<1>7. /\ IsFiniteSet(old) /\ old \in SUBSET Stored
      /\ Cardinality(old) = IF old = {} THEN 0 ELSE 1
  <2>1. IsFiniteSet(StoredIn(nodes))
    BY <1>1, StoredIs
  <2> QED
    BY <1>1, <2>1, WithCount, StoredIs
<1> HIDE DEF old
<1>8. Cardinality(Stored \ old) = Cardinality(Stored) - Cardinality(Stored \cap old)
  BY <1>1, FS_Difference
<1>9. Stored \cap old = old
  BY <1>7
<1>10. count' = Cardinality(Stored')
  BY <1>1, <1>2, <1>4, <1>5, <1>7, <1>8, <1>9
<1>11. nodeCount' - Cardinality(DOMAIN nodes') \in 0..failures'
  BY <1>2, <1>5, <1>6
<1>12. IsFiniteSet({}) /\ \A o : Uses({}, o) = 0
  BY FS_EmptySet, UsesNone
<1>13. \A o \in Objects : Exchange(old, {})[o] = refs[o] - Uses(old, o) + Uses({}, o)
  BY DEF Exchange
<1>14. ASSUME NEW o \in Objects PROVE refs'[o] = held'[o] + Uses(Stored', o)
  <2>1. Uses(Stored', o) = Uses(Stored, o) - Uses(old, o)
    BY <1>1, <1>5, <1>7, UsesGone
  <2>2. refs'[o] = refs[o] - Uses(old, o) + 0
    BY <1>4, <1>12, <1>13
  <2>3. refs[o] = held[o] + Uses(Stored, o) /\ held[o] \in Nat
        /\ Uses(Stored, o) \in Nat /\ Uses(old, o) \in Nat
    BY <1>1, <1>2, <1>7, UsesType
  <2>4. refs'[o] = held[o] + Uses(Stored', o)
    BY <2>1, <2>2, <2>3
  <2> QED
    BY <1>6, <2>4
<1>15. NoEmptyNodes'
  BY <1>2, <1>5, <1>6 DEF NoEmptyNodes, Full
<1> QED
  BY <1>3, <1>10, <1>11, <1>14, <1>15 DEF ExactInv, RefsExact

(* a clear,                                                                *)
LEMMA ExactClear ==
  ASSUME ExactInv, Clear
  PROVE  ExactInv'
<1>1. /\ DictInv /\ IsFiniteSet(Stored) /\ failures \in Nat
      /\ refs \in [Objects -> Nat] /\ held \in [Objects -> Nat]
      /\ \A o \in Objects : held[o] + Uses(Stored, o) <= refs[o]
      /\ \A o \in Objects : refs[o] = held[o] + Uses(Stored, o)
      /\ \A o \in Objects : Uses(Stored, o) \in Nat
  BY ExactSays
<1>2. DictInv'
  BY <1>1, DictInvClear
<1>3. /\ nodes' = <<>> /\ count' = 0 /\ nodeCount' = 0 /\ refs' = Exchange(Stored, {})
      /\ held' = held /\ failures' = failures
  BY DEF Clear
<1>4. DOMAIN nodes' = {} /\ Stored' = {}
  BY <1>3, NoTrie, StoredIs
<1>5. Cardinality(DOMAIN nodes') = 0 /\ Cardinality(Stored') = 0 /\ IsFiniteSet({})
  BY <1>4, FS_EmptySet
<1>6. \A o : Uses({}, o) = 0
  BY UsesNone
<1>7. \A o \in Objects : Exchange(Stored, {})[o] = refs[o] - Uses(Stored, o) + Uses({}, o)
  BY DEF Exchange
<1>8. ASSUME NEW o \in Objects PROVE refs'[o] = held'[o] + Uses(Stored', o)
  <2>1. held[o] \in Nat /\ Uses(Stored, o) \in Nat /\ refs[o] = held[o] + Uses(Stored, o)
    BY <1>1
  <2>2. refs'[o] = refs[o] - Uses(Stored, o) + 0 /\ Uses(Stored', o) = 0
    BY <1>3, <1>4, <1>6, <1>7
  <2>3. refs'[o] = held[o] + Uses(Stored', o)
    BY <2>1, <2>2
  <2> QED
    BY <1>3, <2>3
<1>9. count' = Cardinality(Stored') /\ nodeCount' - Cardinality(DOMAIN nodes') \in 0..failures'
  BY <1>1, <1>3, <1>5
<1>10. NoEmptyNodes'
  BY <1>4 DEF NoEmptyNodes
<1> QED
  BY <1>2, <1>8, <1>9, <1>10 DEF ExactInv, RefsExact

(* and a caller's reference that goes.                                     *)
LEMMA ExactDrop ==
  ASSUME ExactInv, NEW o \in Shared, Drop(o)
  PROVE  ExactInv'
<1>1. /\ DictInv
      /\ refs \in [Objects -> Nat] /\ held \in [Objects -> Nat]
      /\ \A p \in Objects : refs[p] = held[p] + Uses(Stored, p)
      /\ \A p \in Objects : Uses(Stored, p) \in Nat
  BY ExactSays
<1>2. /\ held' = [held EXCEPT ![o] = held[o] - 1]
      /\ refs' = [refs EXCEPT ![o] = refs[o] - 1]
      /\ nodes' = nodes /\ count' = count /\ nodeCount' = nodeCount /\ failures' = failures
  BY DEF Drop
<1>3. o \in Objects
  BY DictionaryAssumption
<1>4. Stored' = Stored
  BY <1>2, StoredIs
<1>5. DictInv'
  BY <1>1, DictInvDrop
<1>6. ASSUME NEW p \in Objects PROVE refs'[p] = held'[p] + Uses(Stored, p)
  <2>1. held[p] \in Nat /\ refs[p] = held[p] + Uses(Stored, p) /\ Uses(Stored, p) \in Nat
    BY <1>1
  <2>2. CASE p = o
    <3>1. held'[p] = held[p] - 1 /\ refs'[p] = refs[p] - 1
      BY <1>1, <1>2, <1>3, <2>2
    <3> QED
      BY <2>1, <3>1
  <2>3. CASE p # o
    BY <1>1, <1>2, <2>1, <2>3
  <2> QED
    BY <2>2, <2>3
<1>7. NoEmptyNodes'
  BY <1>2 DEF ExactInv, NoEmptyNodes
<1>8. count' = Cardinality(Stored') /\ nodeCount' - Cardinality(DOMAIN nodes') \in 0..failures'
  BY <1>2, <1>4 DEF ExactInv
<1> QED
  BY <1>4, <1>5, <1>6, <1>7, <1>8 DEF ExactInv, RefsExact

(* So every step does that starts with narrow nodes.                       *)
LEMMA ExactNext == ExactInv /\ NarrowNodes /\ [Next]_vars => ExactInv'
<1> SUFFICES ASSUME ExactInv, NarrowNodes, [Next]_vars PROVE ExactInv'
  OBVIOUS
<1>1. CASE UNCHANGED vars
  <2>1. /\ nodes' = nodes /\ count' = count /\ nodeCount' = nodeCount
        /\ refs' = refs /\ held' = held /\ failures' = failures
    BY <1>1 DEF vars
  <2>2. Stored' = Stored
    BY <2>1, StoredIs
  <2>3. DictInv'
    BY DictInvNext DEF ExactInv
  <2> QED
    BY <2>1, <2>2, <2>3 DEF ExactInv, RefsExact, NoEmptyNodes
<1>2. CASE \E k \in KeyObjects, v \in ValueObjects : Insert(k, v)
  BY <1>2, ExactInsert
<1>3. CASE \E k \in KeyObjects, v \in ValueObjects : InsertFails(k, v)
  BY <1>3, ExactInsertFails
<1>4. CASE \E t \in Texts : Erase(t)
  BY <1>4, ExactErase
<1>5. CASE Clear
  BY <1>5, ExactClear
<1>6. CASE \E o \in Shared : Drop(o)
  BY <1>6, ExactDrop
<1> QED
  BY <1>1, <1>2, <1>3, <1>4, <1>5, <1>6 DEF Next

(* As long as no node has more than four slots, count and node_count are   *)
(* exact, no node is empty and every reference is accounted for.           *)
THEOREM ExactInductive == Spec /\ []NarrowNodes => []ExactInv
<1> QED
  BY ExactInit, ExactNext, PTL DEF Spec
-------------------------------------------------------------------------------
(* Nodes stay narrow when the characters of all keys are close.            *)
Within(T, a) == \A p \in DOMAIN T : a <= T[p].start /\ T[p].end <= a + 3

(* Text t is close to character a.                                         *)
Close(t, a) ==
  /\ t \in Seq(Char)
  /\ \A i \in 1..Len(t) : t[i] \in a .. a + 3
  /\ t = Root => 1 \in a .. a + 3

(* A root that is made is in the range of the text it is made for.         *)
LEMMA WithRootWithin ==
  ASSUME NEW a \in Char, NEW T, Trie(T), Within(T, a), NEW t, Close(t, a),
         NEW U, U = WithRoot(T, t)
  PROVE  Within(U, a)
<1>1. t \in Seq(Char) /\ a \in Nat
  BY CharNumber DEF Close
<1>2. /\ DOMAIN U = DOMAIN T \cup {Root}
      /\ T # <<>> => U = T
      /\ T = <<>> => /\ Root \notin DOMAIN T
                     /\ t = Root => U[Root] = Node(1, 0, {})
                     /\ t # Root => U[Root] = Node(t[1], t[1], {})
  BY <1>1, WithRootIs
<1>3. CASE T # <<>>
  BY <1>2, <1>3
<1>4. CASE T = <<>>
  <2>1. DOMAIN U = {Root}
    BY <1>2, <1>4, NoTrie
  <2>2. CASE t = Root
    <3>1. U[Root].start = 1 /\ U[Root].end = 0
      BY <1>2, <1>4, <2>2 DEF Node
    <3>2. 1 \in a .. a + 3
      BY <2>2 DEF Close
    <3> QED
      BY <1>1, <2>1, <3>1, <3>2 DEF Within
  <2>3. CASE t # Root
    <3>1. U[Root].start = t[1] /\ U[Root].end = t[1]
      BY <1>2, <1>4, <2>3 DEF Node
    <3>2. 1 \in 1..Len(t)
      BY <1>1, <2>3, TextSplits
    <3>3. t[1] \in a .. a + 3
      BY <3>2 DEF Close
    <3> QED
      BY <1>1, <2>1, <3>1, <3>3 DEF Within
  <2> QED
    BY <2>2, <2>3
<1> QED
  BY <1>3, <1>4

(* A range that is extended stays within.                                  *)
LEMMA WithRangeWithin ==
  ASSUME NEW a \in Char, NEW T, Trie(T), T # <<>>, Within(T, a), NEW t, Close(t, a),
         NEW U, U = WithRange(T, t)
  PROVE  Within(U, a)
<1> DEFINE d == Depth(T, t)
<1>1. t \in Seq(Char) /\ a \in Nat
  BY CharNumber DEF Close
<1>2. /\ DOMAIN U = DOMAIN T
      /\ \A q \in DOMAIN T :
           \/ U[q] = T[q]
           \/ /\ q = Prefix(t, d) /\ d < Len(t)
              /\ t[d + 1] \in Char /\ ~InRange(T[q], t[d + 1])
              /\ U[q] = Extended(T[q], t[d + 1])
  BY <1>1, WithRangeIs
<1>3. d \in 0..Len(t)
  BY <1>1, DepthOf
<1> HIDE DEF d
<1>4. ASSUME NEW q \in DOMAIN T PROVE a <= U[q].start /\ U[q].end <= a + 3
  <2>1. a <= T[q].start /\ T[q].end <= a + 3
    BY DEF Within
  <2>2. CASE U[q] = T[q]
    BY <2>1, <2>2
  <2>3. CASE /\ d < Len(t)
             /\ t[d + 1] \in Char /\ ~InRange(T[q], t[d + 1])
             /\ U[q] = Extended(T[q], t[d + 1])
    <3>1. NodeShape(T[q])
      BY TrieNode
    <3>2. \/ U[q].start = t[d + 1] /\ U[q].end = T[q].end
          \/ U[q].start = T[q].start /\ U[q].end = t[d + 1]
      BY <2>3, <3>1, ExtendedFields
    <3>3. d + 1 \in 1..Len(t)
      BY <1>1, <1>3, <2>3
    <3>4. t[d + 1] \in a .. a + 3
      BY <3>3 DEF Close
    <3> QED
      BY <1>1, <2>1, <3>2, <3>4
  <2> QED
    BY <1>2, <2>2, <2>3
<1> QED
  BY <1>2, <1>4 DEF Within

(* New nodes have the range of one character of the text.                  *)
LEMMA PreparedWithin ==
  ASSUME NEW a \in Char, NEW T, Trie(T), Within(T, a), NEW t, Close(t, a),
         NEW n \in 0..NewNodes(T, t), NEW U, U = Prepared(T, t, n)
  PROVE  Within(U, a)
<1> DEFINE R == Ranged(T, t)
           d == Reached(T, t)
           k == NewNodes(T, t) - n
<1>1. t \in Seq(Char) /\ a \in Nat
  BY CharNumber DEF Close
<1>2. /\ d \in 0..Len(t)
      /\ Depth(R, t) = d
      /\ Trie(R) /\ R # <<>>
      /\ NewNodes(T, t) = IF Len(t) - 1 > d THEN Len(t) - 1 - d ELSE 0
      /\ U = WithPath(R, t, k)
      /\ d < Len(t) => InRange(R[Prefix(t, d)], t[d + 1])
  BY <1>1, PreparedSteps
<1>3. Within(R, a)
  <2>1. ASSUME NEW W, W = WithRoot(T, t) PROVE Within(WithRange(W, t), a)
    <3>1. Trie(W) /\ W # <<>>
      BY <1>1, <2>1, WithRootIs
    <3>2. Within(W, a)
      BY <2>1, WithRootWithin
    <3> QED
      BY <3>1, <3>2, WithRangeWithin
  <2> QED
    BY <2>1 DEF Ranged
<1>4. k \in Nat
  BY <1>1, <1>2
<1> HIDE DEF R, d
<1>5. CASE k = 0
  <2>1. DOMAIN U = DOMAIN R /\ \A q \in DOMAIN R : U[q] = R[q]
    BY <1>2, <1>5, WithPathNone
  <2> QED
    BY <1>3, <2>1 DEF Within
<1>6. CASE k # 0
  <2>1. d \in Nat /\ k > 0 /\ d + k <= Len(t) - 1
    BY <1>1, <1>2, <1>4, <1>6
  <2> HIDE DEF k
  <2>2. PathReady(R, t, d, k)
    <3>1. d < Len(t)
      BY <1>1, <1>2, <1>4, <2>1
    <3>2. InRange(R[Prefix(t, d)], t[d + 1])
      BY <1>2, <3>1
    <3> QED
      BY <1>2, <2>1, <3>2 DEF PathReady
  <2>3. PathAdded(U, R, t, d, k)
    BY <1>1, <1>2, <1>4, <2>1, <2>2, WithPathNodes
  <2>4. ASSUME NEW q \in DOMAIN R PROVE a <= U[q].start /\ U[q].end <= a + 3
    <3>1. a <= R[q].start /\ R[q].end <= a + 3
      BY <1>3 DEF Within
    <3>2. U[q] = R[q] \/ SameRange(U[q], R[q])
      BY <2>3 DEF PathAdded, HasNode
    <3> QED
      BY <3>1, <3>2 DEF SameRange
  <2>5. ASSUME NEW j \in 1..k
        PROVE  a <= U[Prefix(t, d + j)].start /\ U[Prefix(t, d + j)].end <= a + 3
    <3>1. U[Prefix(t, d + j)].start = t[d + j + 1] /\ U[Prefix(t, d + j)].end = t[d + j + 1]
      BY <2>3 DEF PathAdded, OnPath
    <3>2. d + j + 1 \in 1..Len(t)
      BY <1>1, <1>4, <2>1
    <3>3. t[d + j + 1] \in a .. a + 3
      BY <3>2 DEF Close
    <3> QED
      BY <1>1, <3>1, <3>3
  <2>6. DOMAIN U = DOMAIN R \cup NewPaths(t, d, k)
    BY <2>3 DEF PathAdded
  <2> QED
    BY <2>4, <2>5, <2>6 DEF NewPaths, Within
<1> QED
  BY <1>5, <1>6

(* A node that is replaced by one with the same range.                     *)
LEMMA ReplacedWithin ==
  ASSUME NEW a, NEW T, Within(T, a), NEW U, NEW s \in DOMAIN T, NEW m, NEW gone, NEW new,
         Replaced(U, T, s, m, gone, new), SameRange(m, T[s])
  PROVE  Within(U, a)
<1>1. /\ DOMAIN U = DOMAIN T /\ U[s] = m
      /\ \A q \in DOMAIN T : q # s => U[q] = T[q]
  BY DEF Replaced
<1>2. U[s].start = T[s].start /\ U[s].end = T[s].end
  BY <1>1 DEF SameRange
<1> QED
  BY <1>1, <1>2 DEF Within

(* Every step keeps the nodes within the range of all keys.                *)
LEMMA WithinInsert ==
  ASSUME NEW a \in Char, Trie(nodes), Within(nodes, a),
         NEW k \in KeyObjects, NEW v \in ValueObjects, Close(Text[k], a), Insert(k, v)
  PROVE  Within(nodes', a)
<1>1. ASSUME NEW t, t = Text[k], NEW x, x = Map!Item(k, v), NEW U, U = Prepared(nodes, t, 0),
             NEW s, s = Prefix(t, Depth(U, t))
      PROVE  Within(nodes', a)
  <2>1. t \in Seq(Char) /\ x \in Items /\ Text[x.key] = t /\ Close(t, a)
    BY <1>1, TextsAreTexts
  <2>2. nodes' = SetItem(U, t, x)
    BY <1>1 DEF Insert
  <2>3. NewNodes(nodes, t) \in Nat /\ 0 \in 0..NewNodes(nodes, t)
        /\ NewNodes(nodes, t) = NewNodes(nodes, t) - 0
    <3>1. NewNodes(nodes, t) \in Nat
      BY <2>1, NewNodesType
    <3> QED
      BY <3>1
  <2>4. Within(U, a)
    BY <1>1, <2>1, <2>3, PreparedWithin
  <2>5. Trie(U) /\ U # <<>> /\ Ready(U, t)
    <3>1. Trie(Prepared(nodes, t, 0)) /\ Prepared(nodes, t, 0) # <<>>
          /\ Ready(Prepared(nodes, t, 0), t)
      BY <2>1, <2>3, PreparedIs
    <3> QED
      BY <1>1, <3>1
  <2>6. ASSUME NEW m, m = nodes'[s] PROVE Within(nodes', a)
    <3>1. s \in DOMAIN U
      BY <1>1, <2>1, <2>2, <2>5, <2>6, SetItemIs
    <3>2. Replaced(nodes', U, s, m, With(U, t), {x})
      BY <1>1, <2>1, <2>2, <2>5, <2>6, SetItemIs
    <3>3. IF t \in DOMAIN U THEN HasValue(m, U[s], {x}) ELSE HasLeaf(m, U[s], t[Len(t)], x)
      BY <1>1, <2>1, <2>2, <2>5, <2>6, SetItemIs
    <3>4. SameRange(m, U[s])
      BY <3>3 DEF HasValue, HasLeaf
    <3> QED
      BY <2>4, <3>1, <3>2, <3>4, ReplacedWithin
  <2> QED
    BY <2>6
<1> QED
  BY <1>1

(* What an erase leaves has the ranges it had.                             *)
LEMMA WithinErase ==
  ASSUME NEW a \in Char, Trie(nodes), IsFiniteSet(DOMAIN nodes), nodeCount \in Nat,
         Cardinality(DOMAIN nodes) <= nodeCount, Within(nodes, a),
         NEW t \in Texts, Erase(t)
  PROVE  Within(nodes', a)
<1>1. t \in Seq(Char) /\ With(nodes, t) # {}
  BY TextsAreTexts, EraseEffect
<1>2. ASSUME NEW V, V = SetNoItem(nodes, t), NEW s, s = Prefix(t, Depth(nodes, t)),
             NEW m, m = V[s]
      PROVE  Within(V, a)
  <2>1. nodes # <<>>
    BY <1>1, <1>2, EraseStarts
  <2>2. /\ s \in DOMAIN nodes
        /\ Replaced(V, nodes, s, m, With(nodes, t), {})
        /\ IF t \in DOMAIN nodes THEN HasValue(m, nodes[s], {})
                                 ELSE HasNothing(m, nodes[s], t[Len(t)])
    BY <1>1, <1>2, <2>1, SetNoItemIs
  <2>3. SameRange(m, nodes[s])
    BY <2>2 DEF HasValue, HasNothing
  <2> QED
    BY <2>2, <2>3, ReplacedWithin
<1>3. ASSUME NEW V, V = SetNoItem(nodes, t)
      PROVE  Within(nodes', a)
  <2>1. Within(V, a)
    BY <1>2, <1>3
  <2>2. PICK j \in 0..Depth(nodes, t) : DropRoot(V, t, j) \/ KeepRoot(V, t, j)
    BY <1>3 DEF Erase
  <2>3. V # <<>> /\ Trie(V) /\ Depth(V, t) = Depth(nodes, t)
    BY <1>1, <1>3, EraseStarts
  <2>4. nodes' = <<>> \/ nodes' = Without(V, t, j)
    BY <2>2 DEF DropRoot, KeepRoot
  <2>5. ASSUME NEW W, W = Without(V, t, j), NEW Q, Q = Prefix(t, Depth(V, t) - j),
               NEW up, up = Prefix(t, Depth(V, t) - j + 1), NEW c, c = t[Depth(V, t) - j + 1]
        PROVE  Within(W, a)
    <3>1. Kept(W, V, Q, c, up, Prefix(t, Depth(V, t)), j)
      BY <1>1, <2>2, <2>3, <2>5, WithoutKeeps
    <3> QED
      BY <2>1, <3>1 DEF Kept, Within
  <2>6. Within(Without(V, t, j), a)
    BY <2>5
  <2>7. Within(<<>>, a)
    BY NoTrie DEF Within
  <2> QED
    BY <2>4, <2>6, <2>7
<1> QED
  BY <1>3

(* So the nodes stay within, if all texts are close to one character.      *)
LEMMA WithinNext ==
  ASSUME NEW a \in Char, \A t \in Texts : Close(t, a),
         DictInv, Within(nodes, a), [Next]_vars
  PROVE  Within(nodes', a)
<1>1. /\ Trie(nodes) /\ IsFiniteSet(DOMAIN nodes)
      /\ nodeCount \in Nat /\ Cardinality(DOMAIN nodes) <= nodeCount
  BY DEF DictInv, Counted
<1>2. \A k \in KeyObjects : Close(Text[k], a)
  BY DEF Texts, Map!Texts
<1>3. CASE nodes' = nodes
  BY <1>3
<1>4. CASE nodes' = <<>>
  BY <1>4, NoTrie DEF Within
<1>5. ASSUME NEW k \in KeyObjects, NEW v \in ValueObjects, Insert(k, v)
      PROVE  Within(nodes', a)
  BY <1>1, <1>2, <1>5, WithinInsert
<1>6. ASSUME NEW k \in KeyObjects, NEW v \in ValueObjects, InsertFails(k, v)
      PROVE  Within(nodes', a)
  <2>1. ASSUME NEW t, t = Text[k] PROVE Within(nodes', a)
    <3>1. NoRoot(t) \/ NoRange(t) \/ NoPath(t)
      BY <1>6, <2>1 DEF InsertFails
    <3>2. t \in Seq(Char) /\ Close(t, a)
      BY <1>2, <2>1, TextsAreTexts
    <3>3. CASE NoRoot(t)
      BY <1>3, <3>3 DEF NoRoot
    <3>4. CASE NoRange(t)
      BY <1>3, <3>4 DEF NoRange
    <3>5. CASE NoPath(t)
      <4>1. PICK n \in 1..NewNodes(nodes, t) : nodes' = Prepared(nodes, t, n)
        BY <3>5 DEF NoPath
      <4>2. NewNodes(nodes, t) \in Nat
        BY <3>2, NewNodesType
      <4>3. n \in 0..NewNodes(nodes, t)
        BY <4>1, <4>2
      <4> QED
        BY <1>1, <3>2, <4>1, <4>3, PreparedWithin
    <3> QED
      BY <3>1, <3>3, <3>4, <3>5
  <2> QED
    BY <2>1
<1>7. ASSUME NEW t \in Texts, Erase(t) PROVE Within(nodes', a)
  BY <1>1, <1>7, WithinErase
<1>8. CASE Clear
  BY <1>4, <1>8 DEF Clear
<1>9. ASSUME NEW o \in Shared, Drop(o) PROVE Within(nodes', a)
  BY <1>3, <1>9 DEF Drop
<1>10. CASE UNCHANGED vars
  BY <1>3, <1>10 DEF vars
<1> QED
  BY <1>5, <1>6, <1>7, <1>8, <1>9, <1>10 DEF Next

(* When the characters of all keys are within four of each other, no node  *)
(* ever has more than four slots.                                          *)
THEOREM NarrowWhenClose == CloseTexts => (Spec => []NarrowNodes)
<1> SUFFICES ASSUME CloseTexts PROVE Spec => []NarrowNodes
  OBVIOUS
<1>1. PICK a \in Char : /\ \A k \in KeyObjects : Text[k] \in Seq(a .. a + 3)
                        /\ Root \in Texts => 1 \in a .. a + 3
  BY DEF CloseTexts
<1>2. \A t \in Texts : Close(t, a)
  <2>1. SUFFICES ASSUME NEW k \in KeyObjects, NEW t, t = Text[k], t \in Texts PROVE Close(t, a)
    BY DEF Texts, Map!Texts
  <2>2. t \in Seq(Char) /\ t \in Seq(a .. a + 3)
    BY <1>1, <2>1, TextsAreTexts
  <2>3. \A i \in 1..Len(t) : t[i] \in a .. a + 3
    <3> DEFINE S == a .. a + 3
    <3>1. t \in Seq(S)
      BY <2>2
    <3> HIDE DEF S
    <3>2. \A i \in 1..Len(t) : t[i] \in S
      BY <3>1
    <3> QED
      BY <3>2 DEF S
  <2>4. t = Root => 1 \in a .. a + 3
    BY <1>1, <2>1
  <2> QED
    BY <2>2, <2>3, <2>4 DEF Close
<1>3. Init => Within(nodes, a)
  BY NoTrie DEF Init, Within
<1>4. DictInv /\ Within(nodes, a) /\ [Next]_vars => Within(nodes, a)'
  BY <1>2, WithinNext
<1>5. DictInv /\ Within(nodes, a) => NarrowNodes
  <2> SUFFICES ASSUME DictInv, Within(nodes, a), NEW p \in DOMAIN nodes PROVE Narrow(nodes[p])
    BY DEF NarrowNodes
  <2>1. NodeShape(nodes[p])
    BY TrieNode DEF DictInv
  <2>2. nodes[p].start \in Nat /\ nodes[p].end \in Nat /\ a \in Nat
    BY <2>1, CharNumber DEF NodeShape
  <2>3. a <= nodes[p].start /\ nodes[p].end <= a + 3
    BY DEF Within
  <2> QED
    BY <2>2, <2>3 DEF Narrow
<1> QED
  BY <1>3, <1>4, <1>5, DictInvInit, DictInvNext, PTL DEF Spec

(* While nodes are narrow, dictionary_size returns the number of keys      *)
(* stored, and node_count is the number of nodes but for failed roots.     *)
THEOREM CountRight == Spec /\ []NarrowNodes => []CountExact
<1>1. ExactInv => CountExact
  <2> SUFFICES ASSUME ExactInv PROVE CountExact
    OBVIOUS
  <2>1. /\ Trie(nodes) /\ IsFiniteSet(Stored)
        /\ count = Cardinality(Stored)
        /\ nodeCount - Cardinality(DOMAIN nodes) \in 0..failures
    BY ExactSays
  <2> DEFINE P == Positions(nodes)
             f == [x \in Stored |-> Text[x.key]]
  <2>2. Stored = StoredIn(nodes)
    BY StoredIs
  <2>3. ASSUME NEW x \in Stored PROVE Text[x.key] \in P
    <3>1. Text[x.key] \in Seq(Char)
      BY <2>1, <2>2, StoredWhere
    <3>2. x \in With(nodes, Text[x.key])
      BY <2>2 DEF With
    <3> QED
      BY <2>1, <3>1, <3>2, NoPosition
  <2>4. f \in [Stored -> P]
    BY <2>3
  <2>5. \A x, y \in Stored : f[x] = f[y] => x = y
    BY <2>1, <2>2, OneItem
  <2>6. \A u \in P : \E x \in Stored : f[x] = u
    <3>1. SUFFICES ASSUME NEW u \in P PROVE \E x \in Stored : Text[x.key] = u
      OBVIOUS
    <3>2. ItemAt(nodes, u) \in With(nodes, u)
      BY <2>1, PositionIs
    <3> QED
      BY <2>2, <3>2 DEF With
  <2> HIDE DEF P, f
  <2>7. Cardinality(P) = Cardinality(Stored)
    BY <2>1, <2>4, <2>5, <2>6, SameCount
  <2> QED
    BY <2>1, <2>7 DEF CountExact, P
<1> QED
  BY <1>1, ExactInductive, PTL

(* While nodes are narrow and no allocation fails, every node leads to an  *)
(* item.                                                                   *)
THEOREM NoneEmpty == Spec /\ []NarrowNodes => []NoEmptyNodes
<1>1. ExactInv => NoEmptyNodes
  BY DEF ExactInv
<1> QED
  BY <1>1, ExactInductive, PTL

(* While nodes are narrow, the dictionary has one reference to the key and *)
(* the value of each item it stores, and to nothing else.                  *)
THEOREM ReferencesRight == Spec /\ []NarrowNodes => []RefsExact
<1>1. ExactInv => RefsExact
  BY DEF ExactInv
<1> QED
  BY <1>1, ExactInductive, PTL
-------------------------------------------------------------------------------
(* The trie implements a map.                                              *)

(* Tries that store the same for u have the same at u.                     *)
LEMMA SameItem ==
  ASSUME NEW T, Trie(T), NEW U, Trie(U), NEW u \in Seq(Char), With(U, u) = With(T, u)
  PROVE  /\ u \in Positions(U) <=> u \in Positions(T)
         /\ u \in Positions(T) => ItemAt(U, u) = ItemAt(T, u)
<1>1. u \in Positions(U) => With(U, u) = {ItemAt(U, u)}
  BY PositionIs
<1>2. u \in Positions(T) => With(T, u) = {ItemAt(T, u)}
  BY PositionIs
<1>3. u \notin Positions(U) => With(U, u) = {}
  BY NoPosition
<1>4. u \notin Positions(T) => With(T, u) = {}
  BY NoPosition
<1> QED
  BY <1>1, <1>2, <1>3, <1>4

(* The map that a trie stands for.                                         *)
LEMMA ContentsAre ==
  /\ Contents = [u \in Positions(nodes) |-> ItemAt(nodes, u)]
  /\ Contents' = [u \in Positions(nodes') |-> ItemAt(nodes', u)]
<1>1. Positions(nodes)' = Positions(nodes')
  BY DEF Positions
<1>2. \A u : ItemAt(nodes, u)' = ItemAt(nodes', u)
  BY DEF ItemAt
<1> QED
  BY <1>1, <1>2 DEF Contents

(* Whatever stores the same is the same map.                               *)
LEMMA SameContents ==
  ASSUME Trie(nodes), Trie(nodes'), StoredIn(nodes') = StoredIn(nodes)
  PROVE  Contents' = Contents
<1>1. \A u : With(nodes', u) = With(nodes, u)
  BY WithOfSame
<1>2. /\ \A u \in Positions(nodes) : u \in Seq(Char)
      /\ \A u \in Positions(nodes') : u \in Seq(Char)
  BY PositionIs
<1>3. ASSUME NEW u \in Seq(Char)
      PROVE  /\ u \in Positions(nodes') <=> u \in Positions(nodes)
             /\ u \in Positions(nodes) => ItemAt(nodes', u) = ItemAt(nodes, u)
  <2>1. With(nodes', u) = With(nodes, u)
    BY <1>1
  <2> QED
    BY <2>1, SameItem
<1>4. Positions(nodes') = Positions(nodes)
  BY <1>2, <1>3
<1>5. \A u \in Positions(nodes) : ItemAt(nodes', u) = ItemAt(nodes, u)
  BY <1>2, <1>3
<1> QED
  BY <1>4, <1>5, ContentsAre

(* An insert is an insert into the map,                                    *)
LEMMA InsertMaps ==
  ASSUME Trie(nodes), IsFiniteSet(DOMAIN nodes),
         NEW k \in KeyObjects, NEW v \in ValueObjects, Insert(k, v)
  PROVE  Abstract!Insert(k, v)
<1> DEFINE t == Text[k]
           x == Map!Item(k, v)
<1>1. t \in Seq(Char) /\ Text[x.key] = t
  BY TextsAreTexts
<1>2. /\ Trie(nodes')
      /\ StoredIn(nodes') = (StoredIn(nodes) \ With(nodes, t)) \cup {x}
  BY InsertEffect, StoredIs
<1>3. Abstract!Item(k, v) = x
  BY DEF Abstract!Item, Map!Item
<1>4. Abstract!Insert(k, v)
        <=> Contents' = [u \in DOMAIN Contents \cup {t} |->
                          IF u = t THEN x ELSE Contents[u]]
  BY <1>3 DEF Abstract!Insert
<1> HIDE DEF t, x
<1>5. With(nodes', t) = {x}
  BY <1>1, <1>2 DEF With
<1>6. \A u : u # t => With(nodes', u) = With(nodes, u)
  BY <1>1, <1>2 DEF With
<1>7. t \in Positions(nodes') /\ ItemAt(nodes', t) = x
  <2>1. t \in Positions(nodes')
    BY <1>1, <1>2, <1>5, NoPosition
  <2>2. With(nodes', t) = {ItemAt(nodes', t)}
    BY <1>2, <2>1, PositionIs
  <2> QED
    BY <1>5, <2>1, <2>2
<1>8. /\ \A u \in Positions(nodes) : u \in Seq(Char)
      /\ \A u \in Positions(nodes') : u \in Seq(Char)
  BY <1>2, PositionIs
<1>9. ASSUME NEW u \in Seq(Char), u # t
      PROVE  /\ u \in Positions(nodes') <=> u \in Positions(nodes)
             /\ u \in Positions(nodes) => ItemAt(nodes', u) = ItemAt(nodes, u)
  BY <1>2, <1>6, <1>9, SameItem
<1>10. Positions(nodes') = Positions(nodes) \cup {t}
  BY <1>7, <1>8, <1>9
<1>11. \A u \in Positions(nodes') :
         ItemAt(nodes', u) = IF u = t THEN x ELSE ItemAt(nodes, u)
  BY <1>7, <1>8, <1>9
<1>12. DOMAIN Contents = Positions(nodes)
       /\ \A u \in Positions(nodes) : Contents[u] = ItemAt(nodes, u)
  BY ContentsAre
<1>13. Contents' = [u \in Positions(nodes') |-> ItemAt(nodes', u)]
  BY ContentsAre
<1>14. \A u \in Positions(nodes') : ItemAt(nodes', u) = IF u = t THEN x ELSE Contents[u]
  BY <1>10, <1>11, <1>12
<1>15. Contents' = [u \in DOMAIN Contents \cup {t} |-> IF u = t THEN x ELSE Contents[u]]
  BY <1>10, <1>12, <1>13, <1>14
<1> QED
  BY <1>4, <1>15

(* an erase is an erase from it,                                           *)
LEMMA EraseMaps ==
  ASSUME ExactInv, NarrowNodes, NEW t \in Texts, Erase(t)
  PROVE  Abstract!Erase(t)
<1>1. /\ Trie(nodes) /\ IsFiniteSet(DOMAIN nodes) /\ nodeCount \in Nat
      /\ Cardinality(DOMAIN nodes) <= nodeCount
  BY ExactSays
<1>2. t \in Seq(Char)
  BY TextsAreTexts
<1>3. With(nodes, t) # {} /\ Trie(nodes')
  BY <1>1, EraseEffect
<1>4. StoredIn(nodes') = StoredIn(nodes) \ With(nodes, t)
  BY <1>1, EraseExact, StoredIs
<1>5. With(nodes', t) = {}
  BY <1>4 DEF With
<1>6. \A u : u # t => With(nodes', u) = With(nodes, u)
  BY <1>4 DEF With
<1>7. t \in Positions(nodes) /\ t \notin Positions(nodes')
  <2>1. t \in Positions(nodes)
    BY <1>1, <1>2, <1>3, NoPosition
  <2>2. t \in Positions(nodes') => With(nodes', t) = {ItemAt(nodes', t)}
    BY <1>3, PositionIs
  <2> QED
    BY <1>5, <2>1, <2>2
<1>8. /\ \A u \in Positions(nodes) : u \in Seq(Char)
      /\ \A u \in Positions(nodes') : u \in Seq(Char)
  BY <1>1, <1>3, PositionIs
<1>9. ASSUME NEW u \in Seq(Char), u # t
      PROVE  /\ u \in Positions(nodes') <=> u \in Positions(nodes)
             /\ u \in Positions(nodes) => ItemAt(nodes', u) = ItemAt(nodes, u)
  BY <1>1, <1>3, <1>6, <1>9, SameItem
<1>10. Positions(nodes') = Positions(nodes) \ {t}
  BY <1>7, <1>8, <1>9
<1>11. DOMAIN Contents = Positions(nodes)
       /\ \A u \in Positions(nodes) : Contents[u] = ItemAt(nodes, u)
  BY ContentsAre
<1>12. Contents' = [u \in Positions(nodes') |-> ItemAt(nodes', u)]
  BY ContentsAre
<1>13. \A u \in Positions(nodes') : ItemAt(nodes', u) = Contents[u]
  <2>1. SUFFICES ASSUME NEW u \in Positions(nodes') PROVE ItemAt(nodes', u) = Contents[u]
    OBVIOUS
  <2>2. u \in Positions(nodes) /\ u # t /\ u \in Seq(Char)
    BY <1>8, <1>10
  <2> QED
    BY <1>9, <1>11, <2>2
<1>14. Contents' = [u \in DOMAIN Contents \ {t} |-> Contents[u]]
  BY <1>10, <1>11, <1>12, <1>13
<1>15. t \in DOMAIN Contents
  BY <1>7, <1>11
<1> QED
  BY <1>14, <1>15 DEF Abstract!Erase, Abstract!Restrict, Restrict

(* a clear is a clear, and all else changes nothing.                       *)
LEMMA ImplementsNext ==
  ExactInv /\ NarrowNodes /\ [Next]_vars => [Abstract!Next]_Contents
<1> SUFFICES ASSUME ExactInv, NarrowNodes, [Next]_vars
             PROVE  Abstract!Next \/ Contents' = Contents
  OBVIOUS
<1>1. DictInv /\ Trie(nodes) /\ IsFiniteSet(DOMAIN nodes) /\ nodeCount \in Nat
  BY ExactSays
<1>2. Trie(nodes')
  BY <1>1, DictInvNext DEF DictInv
<1>3. ASSUME nodes' = nodes PROVE Contents' = Contents
  BY <1>1, <1>2, <1>3, SameContents
<1>4. ASSUME NEW k \in KeyObjects, NEW v \in ValueObjects, Insert(k, v)
      PROVE  Abstract!Next
  BY <1>1, <1>4, InsertMaps DEF Abstract!Next
<1>5. ASSUME NEW k \in KeyObjects, NEW v \in ValueObjects, InsertFails(k, v)
      PROVE  Contents' = Contents
  <2>1. StoredIn(nodes') = StoredIn(nodes)
    BY <1>1, <1>5, FailEffect, StoredIs
  <2> QED
    BY <1>1, <1>2, <2>1, SameContents
<1>6. ASSUME NEW t \in Texts, Erase(t) PROVE Abstract!Next
  <2>1. Abstract!Erase(t)
    BY <1>6, EraseMaps
  <2>2. t \in Abstract!Texts
    BY DEF Texts, Map!Texts, Abstract!Texts
  <2> QED
    BY <2>1, <2>2 DEF Abstract!Next
<1>7. CASE Clear
  <2>1. nodes' = <<>>
    BY <1>7 DEF Clear
  <2>2. Positions(nodes') = {}
    <3>1. \A u \in Positions(<<>>) : FALSE
      BY NoTrie, PositionIs
    <3> QED
      BY <2>1, <3>1
  <2>3. Contents' = <<>>
    BY <2>2, ContentsAre
  <2> QED
    BY <2>3 DEF Abstract!Next, Abstract!Clear
<1>8. ASSUME NEW o \in Shared, Drop(o) PROVE Contents' = Contents
  BY <1>3, <1>8 DEF Drop
<1>9. CASE UNCHANGED vars
  BY <1>3, <1>9 DEF vars
<1> QED
  BY <1>4, <1>5, <1>6, <1>7, <1>8, <1>9 DEF Next

(* While nodes are narrow, the trie is a map for any keys: inserting,      *)
(* erasing and clearing do what AssociativeArray says, and nothing else    *)
(* changes what is stored.                                                 *)
THEOREM DictionaryIsMap == Spec /\ []NarrowNodes => ImplementsMap
<1>1. Init => Abstract!Init
  <2> SUFFICES ASSUME Init PROVE Abstract!Init
    OBVIOUS
  <2>1. \A u \in Positions(<<>>) : FALSE
    BY NoTrie, PositionIs
  <2>2. Positions(nodes) = {}
    BY <2>1 DEF Init
  <2>3. Contents = <<>>
    BY <2>2, ContentsAre
  <2> QED
    BY <2>3 DEF Abstract!Init
<1>2. ExactInv /\ NarrowNodes /\ [Next]_vars => [Abstract!Next]_Contents
  BY ImplementsNext
<1> QED
  BY <1>1, <1>2, ExactInductive, PTL DEF Spec, ImplementsMap, Abstract!Spec
===============================================================================
