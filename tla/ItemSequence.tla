----------------------------- MODULE ItemSequence -----------------------------
(* What a list promises (List.hh): a sequence of objects. Positions count  *)
(* from 0, or, below 0, from the end.                                      *)
EXTENDS Integers, Sequences, SequencesExt

CONSTANT Objects

VARIABLE seq

(* The index of a position in a sequence, which counts from 1. *)
Index(i) == IF i < 0 THEN Len(seq) + i + 1 ELSE i + 1

Clear        == seq' = <<>>
Insert(i, o) == Index(i) \in 1..Len(seq) + 1 /\ seq' = InsertAt(seq, Index(i), o)
Set(i, o)    == Index(i) \in DOMAIN seq /\ seq' = ReplaceAt(seq, Index(i), o)
Pop(i)       == Index(i) \in DOMAIN seq /\ seq' = RemoveAt(seq, Index(i))
===============================================================================
