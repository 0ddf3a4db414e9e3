---------------------------- MODULE PythonASTNodes ----------------------------
(***************************************************************************)
(* The nodes of the syntax tree, src/source/AST/PythonASTNodes.cc: one     *)
(* operator per constructor.  A pointer that may be null is a sequence of  *)
(* at most one node.  The tag, e of an expression and s of a statement, is *)
(* what accept() chooses the visitor's function by.  str() and print(),    *)
(* which only show a tree, are left out, and so is what the other phases   *)
(* write into a node: they keep it by the node's path.                     *)
(***************************************************************************)
TypeAnnotation(name, args) == [name |-> name, args |-> args]

(***************************************************************************)
(* Expressions                                                             *)
(***************************************************************************)
AttributeLValueReference(base, name, type) == [e |-> "lname", base |-> base, name |-> name, type |-> type]
ArrayIndexLValueReference(x, i)            == [e |-> "lindex", x |-> x, i |-> i]
ArraySliceLValueReference(x, a, b, c)      == [e |-> "lslice", x |-> x, from |-> a, to |-> b, step |-> c]
TupleLValueReference(items)                == [e |-> "ltuple", items |-> items]
UnaryOperation(op, x)                      == [e |-> "unary", op |-> op, x |-> x]
BinaryOperation(op, l, r)                  == [e |-> "binary", op |-> op, l |-> l, r |-> r]
TernaryOperation(x, c, y)                  == [e |-> "ternary", x |-> x, c |-> c, y |-> y]
ListConstructor(items)                     == [e |-> "list", items |-> items]
SetConstructor(items)                      == [e |-> "set", items |-> items]
DictConstructor(items)                     == [e |-> "dict", pairs |-> items]
TupleConstructor(items)                    == [e |-> "tuple", items |-> items]
ListComprehension(x, var, source, pred)    == [e |-> "listcomp", item |-> x, var |-> var, source |-> source, pred |-> pred]
SetComprehension(x, var, source, pred)     == [e |-> "setcomp", item |-> x, var |-> var, source |-> source, pred |-> pred]
DictComprehension(k, x, var, source, pred) ==
  [e |-> "dictcomp", key |-> k, item |-> x, var |-> var, source |-> source, pred |-> pred]
Argument(name, type, default)              == [name |-> name, type |-> type, default |-> default]
FunctionArguments(args, varargs, varkwargs) == [args |-> args, varargs |-> varargs, varkwargs |-> varkwargs]
LambdaDefinition(args, x)                  == [e |-> "lambda", args |-> args, x |-> x]
\* kwargs is a set of pairs of a name and an expression.
FunctionCall(f, args, kwargs, varargs, varkwargs) ==
  [e |-> "call", f |-> f, args |-> args, kwargs |-> kwargs, varargs |-> varargs, varkwargs |-> varkwargs]
ArrayIndex(x, i)                           == [e |-> "index", x |-> x, i |-> i]
ArraySlice(x, a, b, c)                     == [e |-> "slice", x |-> x, from |-> a, to |-> b, step |-> c]
IntegerConstant(n)                         == [e |-> "int", n |-> n]
FloatConstant(n)                           == [e |-> "float", m |-> n]
BytesConstant(codes)                       == [e |-> "bytes", v |-> codes]
UnicodeConstant(codes)                     == [e |-> "str", v |-> codes]
BoolConstant(p)                            == [e |-> "bool", p |-> p]
NoneConstant                               == [e |-> "none"]
VariableLookup(name)                       == [e |-> "var", name |-> name]
AttributeLookup(x, name)                   == [e |-> "attr", x |-> x, name |-> name]

(***************************************************************************)
(* Statements                                                              *)
(***************************************************************************)
ExpressionStatement(x)                  == [s |-> "expr", x |-> x]
AssignmentStatement(target, x)          == [s |-> "assign", target |-> target, x |-> x]
AugmentStatement(op, target, x)         == [s |-> "augment", op |-> op, target |-> target, x |-> x]
DeleteStatement(target)                 == [s |-> "del", target |-> target]
\* pass, break and continue
BareStatement(word)                     == [s |-> word]
\* modules and names are sets of pairs of a name and the name it gets.
ImportStatement(modules, names, star)   == [s |-> "import", modules |-> modules, names |-> names, star |-> star]
GlobalStatement(names)                  == [s |-> "global", names |-> names]
\* exec, assert and raise, with their expressions
ListStatement(word, items)              == [s |-> word, items |-> items]
ReturnStatement(x)                      == [s |-> "return", x |-> x]
YieldStatement(x, from)                 == [s |-> "yield", x |-> x, from |-> from]
ElifStatement(check, body)              == [s |-> "elif", check |-> check, body |-> body]
IfStatement(check, body, elifs, orelse) == [s |-> "if", check |-> check, body |-> body, elifs |-> elifs, orelse |-> orelse]
\* The constructor ignores its else part: the parser gives it one afterwards.
ForStatement(var, x, body)              == [s |-> "for", var |-> var, x |-> x, body |-> body, orelse |-> <<>>]
WhileStatement(check, body, orelse)     == [s |-> "while", check |-> check, body |-> body, orelse |-> orelse]
ExceptStatement(types, name, body)      == [s |-> "except", types |-> types, name |-> name, body |-> body]
TryStatement(body, excepts, orelse, finally) ==
  [s |-> "try", body |-> body, excepts |-> excepts, orelse |-> orelse, finally |-> finally]
WithStatement(items, body)              == [s |-> "with", items |-> items, body |-> body]
FunctionDefinition(decorators, name, args, type, body) ==
  [s |-> "def", decorators |-> decorators, name |-> name, args |-> args, type |-> type, body |-> body]
ClassDefinition(decorators, name, parents, body) ==
  [s |-> "class", decorators |-> decorators, name |-> name, parents |-> parents, body |-> body]
=============================================================================
