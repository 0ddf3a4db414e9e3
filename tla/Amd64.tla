------------------------------- MODULE Amd64 -------------------------------
(***************************************************************************)
(* What the compiler of src/source/Compiler/CompilationVisitor.cc writes   *)
(* its code in: operands, instructions and the arithmetic of the           *)
(* processor.  The processor itself is not part of the repository; this    *)
(* module gives the instructions the meaning CompilationVisitor relies on. *)
(*                                                                         *)
(* A word is WordBits bits wide instead of 64.  The stack, the frame and   *)
(* the exception blocks are counted in words: the offset 8k of the source  *)
(* is k here.  A stack address is the negated depth of the word, so that   *)
(* pushing lowers the address; heap addresses are positive.                *)
(***************************************************************************)
EXTENDS Integers, Sequences, Bitwise

WordBits == 20
Half     == 2 ^ (WordBits - 1)

\* Two's complement: the signed value of the lower WordBits bits of x.
Wrap(x)     == ((x + Half) % (2 * Half)) - Half
Unsigned(x) == x % (2 * Half)

(***************************************************************************)
(* Operands and instructions                                               *)
(***************************************************************************)
R(r)        == [k |-> "reg",   r |-> r,  x |-> "", n |-> 0]
M(r, n)     == [k |-> "mem",   r |-> r,  x |-> "", n |-> n]
MX(r, x, n) == [k |-> "mem",   r |-> r,  x |-> x,  n |-> n]
K(n)        == [k |-> "const", r |-> "", x |-> "", n |-> n]
Label(n)    == [k |-> "label", r |-> "", x |-> "", n |-> n]
Code(f)     == [k |-> "code",  r |-> f,  x |-> "", n |-> 0]
Nothing     == K(0)

\* at is the depth of the stack that the compiler assumes before it.
Instr(op, a, b) == [op |-> op, a |-> a, b |-> b, at |-> 0]
Instr1(op, a)   == Instr(op, a, Nothing)

(***************************************************************************)
(* Integers                                                                *)
(***************************************************************************)
AndW(a, b) == Wrap(Unsigned(a) & Unsigned(b))
OrW(a, b)  == Wrap(Unsigned(a) | Unsigned(b))
XorW(a, b) == Wrap(Unsigned(a) ^^ Unsigned(b))
NotW(a)    == -1 - a
\* The processor takes a shift count modulo the width.
Shl(a, n)  == Wrap(a * 2 ^ (n % WordBits))
Sar(a, n)  == a \div (2 ^ (n % WordBits))
Rol1(a)    == Wrap(((Unsigned(a) * 2) % (2 * Half)) + (Unsigned(a) \div Half))
Ror1(a)    == Wrap((Unsigned(a) \div 2) + ((Unsigned(a) % 2) * Half))

Quotient(a, b)  == LET q == (IF a < 0 THEN -a ELSE a) \div (IF b < 0 THEN -b ELSE b)
                   IN  IF (a < 0) = (b < 0) THEN q ELSE -q
Remainder(a, b) == a - b * Quotient(a, b)

(***************************************************************************)
(* Floating-point numbers, with one decimal place: the number n / 10 is    *)
(* kept as a sign bit and a magnitude, as the processor does.              *)
(***************************************************************************)
Bits(n)       == IF n >= 0 THEN n ELSE -Half - n
FromBits(b)   == IF b >= 0 THEN b ELSE -(b + Half)
AddF(a, b)    == Bits(FromBits(a) + FromBits(b))
SubF(a, b)    == Bits(FromBits(a) - FromBits(b))
MulF(a, b)    == Bits(Quotient(FromBits(a) * FromBits(b), 10))
DivF(a, b)    == IF FromBits(b) = 0 THEN Bits(Half - 1)
                 ELSE Bits(Quotient(FromBits(a) * 10, FromBits(b)))
TruncateF(a)  == Bits(10 * Quotient(FromBits(a), 10))
FromInt(n)    == Bits(10 * n)
CompareF(op, a, b) ==
  LET m == FromBits(a)
      n == FromBits(b)
  IN  CASE op = "cmpltsd"  -> m < n
        [] op = "cmplesd"  -> m <= n
        [] op = "cmpeqsd"  -> m = n
        [] op = "cmpneqsd" -> m # n
        [] op = "cmpnltsd" -> ~(m < n)
        [] op = "cmpnlesd" -> ~(m <= n)

\* The condition codes, after an instruction whose result (or, for cmp, whose
\* difference) was d.
Holds(cc, d) == CASE cc = "z"  -> d = 0
                  [] cc = "nz" -> d # 0
                  [] cc = "l"  -> d < 0
                  [] cc = "le" -> d <= 0
                  [] cc = "g"  -> d > 0
                  [] cc = "ge" -> d >= 0
                  [] cc = "always" -> TRUE
=============================================================================
