-------------------------------- MODULE Format --------------------------------
(***************************************************************************)
(* What the compiler checks of a format and its arguments before a % of a  *)
(* string is compiled: src/source/Types/Format.cc.  The characters of the  *)
(* format are codes; an argument is a value, of type t.                    *)
(***************************************************************************)
EXTENDS Integers, Sequences, SequencesExt

Flags      == {43, 32, 48, 45, 35}                   \* + space 0 - #
Percent    == 37
Star       == 42
SizePrefix == {104, 108, 76}                         \* h l L
IntCodes   == {100, 105, 117, 99, 111, 120, 88}      \* d i u c o x X
FloatCodes == {101, 69, 102, 70, 103, 71}            \* e E f F g G
TextCode   == 115                                    \* s
FormatCodes == IntCodes \cup FloatCodes \cup {TextCode, Percent}

(***************************************************************************)
(* extract_formats reads the format one character at a time.  A full stop  *)
(* leads to the state Precision, which takes it for a format code: no      *)
(* specifier has a precision.                                              *)
(***************************************************************************)
Reading(state, specs, star) == [state |-> state, specs |-> specs, star |-> star]
Failed(r) == [r EXCEPT !.state = "failed"]
Code(r, c) ==
  CASE c \in FormatCodes -> Reading("text", Append(r.specs, [code |-> c, star |-> r.star]), FALSE)
    [] c \in SizePrefix  -> [r EXCEPT !.state = "code"]
    [] OTHER             -> Failed(r)
NextCharacter(r, c) ==
  CASE r.state = "text" /\ c = Percent -> [r EXCEPT !.state = "flags"]
    [] r.state = "text" /\ c # Percent -> r
    [] r.state = "flags" /\ c \in Flags -> r
    [] r.state \in {"flags", "width"} /\ c = Star -> [r EXCEPT !.state = "width", !.star = TRUE]
    [] r.state \in {"flags", "width"} /\ c \in 48 .. 57 /\ ~(r.state = "flags" /\ c = 48) -> [r EXCEPT !.state = "width"]
    [] r.state = "failed" -> r
    [] OTHER -> Code(r, c)
ExtractFormats(chars) == FoldLeft(NextCharacter, Reading("text", <<>>, FALSE), chars)

\* typecheck_format: the types that each argument may have, and that there are as many.
Wanted(spec) ==
  (IF spec.star THEN <<{"Int"}>> ELSE <<>>) \o
  CASE spec.code = Percent -> <<>>
    [] spec.code = TextCode -> <<{"Unicode"}>>
    [] spec.code \in FloatCodes -> <<{"Float"}>>
    [] spec.code \in IntCodes -> <<{"Int", "Bool"}>>
TypecheckFormat(chars, types) ==
  LET read   == ExtractFormats(chars)
      wanted == FlattenSeq([i \in DOMAIN read.specs |-> Wanted(read.specs[i])])
  IN  read.state = "text" /\ Len(wanted) = Len(types) /\ \A i \in DOMAIN types : types[i].t \in wanted[i]
=============================================================================
