----------------------------- MODULE MCDictionary -----------------------------
(* Instances of Dictionary: small sets of keys whose texts are prefixes of *)
(* each other, share prefixes, or start apart.                             *)
EXTENDS DictionaryInvariant

CONSTANTS k0, k1, k2, k3, k4, k5, k6, v0, v1

(* Prefixes of each other, a fork, the ends of a range of four, and two    *)
(* keys that are the same to the dictionary.                               *)
MCText ==
  (k0 :> <<>>) @@ (k1 :> <<1>>) @@ (k2 :> <<1, 2>>) @@ (k3 :> <<1, 0>>)
    @@ (k4 :> <<3>>) @@ (k5 :> <<1, 2, 1>>) @@ (k6 :> <<1>>)

(* The theorems about counts and references hold of this instance.         *)
ASSUME MCCloseTexts == CloseTexts

===============================================================================
