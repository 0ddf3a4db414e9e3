--------------------------- MODULE PythonASTVisitor ---------------------------
(***************************************************************************)
(* The order in which RecursiveASTVisitor, src/source/AST/PythonASTVisitor *)
(* .cc, visits the children of a node.                                     *)
(*                                                                         *)
(* A child is a pair <<step, node>>: a node of a tree is named by the path *)
(* of steps from the root to it.  A statement list is one of the parts of  *)
(* its node, and a statement in it a step Nth(part, i).                    *)
(***************************************************************************)
EXTENDS PythonASTNodes, Integers, Sequences, SequencesExt

Nth(part, i) == 100 * part + i
List(part, xs) == [i \in DOMAIN xs |-> <<Nth(part, i), xs[i]>>]
Each(xs) == List(1, xs)
One(step, x) == << <<step, x>> >>
\* A pointer that may be null.
Maybe(step, x) == IF x = <<>> THEN <<>> ELSE One(step, x[1])
MaybeSuite(part, suite) == IF suite = <<>> THEN <<>> ELSE List(part, suite[1])

\* A default expression is the step of its argument.
Defaults(args) ==
  FlattenSeq([i \in DOMAIN args.args |-> Maybe(Nth(1, i), args.args[i].default)])
Sliced(a) == One(1, a.x) \o Maybe(2, a.from) \o Maybe(3, a.to) \o Maybe(4, a.step)
DictItems(a) == FlattenSeq([i \in DOMAIN a.pairs |-> <<<<Nth(1, i), a.pairs[i][1]>>, <<Nth(2, i), a.pairs[i][2]>>>>])
Comprehended(a) == One(2, a.item) \o One(3, a.var) \o One(4, a.source) \o Maybe(5, a.pred)
\* The keyword arguments of a call are not visited.
Called(a) == One(1, a.f) \o List(2, a.args)

ExpressionChildren(a) ==
  CASE a.e = "lname"  -> Maybe(1, a.base)
    [] a.e \in {"lindex", "index"} -> One(1, a.x) \o One(2, a.i)
    [] a.e \in {"lslice", "slice"} -> Sliced(a)
    [] a.e \in {"ltuple", "list", "set", "tuple"} -> Each(a.items)
    [] a.e \in {"unary", "attr"} -> One(1, a.x)
    [] a.e = "binary"  -> One(1, a.l) \o One(2, a.r)
    [] a.e = "ternary" -> One(1, a.x) \o One(2, a.c) \o One(3, a.y)
    [] a.e = "dict"    -> DictItems(a)
    [] a.e = "dictcomp" -> One(1, a.key) \o Comprehended(a)
    [] a.e \in {"listcomp", "setcomp"} -> Comprehended(a)
    [] a.e = "lambda"  -> Defaults(a.args) \o One(2, a.x)
    [] a.e = "call"    -> Called(a)
    [] a.e \in {"int", "float", "bytes", "str", "bool", "none", "var"} -> <<>>

SimpleChildren(a) ==
  CASE a.s = "expr" -> One(1, a.x)
    [] a.s \in {"assign", "augment"} -> One(1, a.target) \o One(2, a.x)
    [] a.s \in {"del", "pass", "break", "continue", "import", "global"} -> <<>>
    [] a.s \in {"exec", "assert", "raise"} -> Each(a.items)
    [] a.s \in {"return", "yield"} -> Maybe(1, a.x)

CompoundChildren(a) ==
  CASE a.s = "if"    -> One(1, a.check) \o List(2, a.body) \o List(3, a.elifs) \o MaybeSuite(4, a.orelse)
    [] a.s = "elif"  -> One(1, a.check) \o List(2, a.body)
    [] a.s = "while" -> One(1, a.check) \o List(2, a.body) \o MaybeSuite(4, a.orelse)
    [] a.s = "for"   -> One(5, a.var) \o One(1, a.x) \o List(2, a.body) \o MaybeSuite(4, a.orelse)
    [] a.s = "except" -> Maybe(1, a.types) \o List(2, a.body)
    [] a.s = "try"   -> List(2, a.body) \o List(3, a.excepts) \o MaybeSuite(4, a.orelse) \o MaybeSuite(5, a.finally)
    [] a.s = "with"  -> [i \in DOMAIN a.items |-> <<Nth(1, i), a.items[i][1]>>] \o List(2, a.body)
    [] a.s = "def"   -> List(3, a.decorators) \o Defaults(a.args) \o List(2, a.body)
    [] a.s = "class" -> List(3, a.decorators) \o List(1, a.parents) \o List(2, a.body)

Compound == {"if", "elif", "while", "for", "except", "try", "with", "def", "class"}
IsExpression(a) == "e" \in DOMAIN a
Children(a) == IF IsExpression(a) THEN ExpressionChildren(a)
               ELSE IF a.s \in Compound THEN CompoundChildren(a) ELSE SimpleChildren(a)
\* ReturnStatement visits its expression without asking whether there is one.
NullVisited(a) == ~IsExpression(a) /\ a.s = "return" /\ a.x = <<>>
=============================================================================
