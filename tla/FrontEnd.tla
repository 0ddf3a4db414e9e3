------------------------------- MODULE FrontEnd -------------------------------
(***************************************************************************)
(* The phases of a module up to its analysis, in the order of              *)
(* advance_module_phase, src/source/Compiler/Compile.cc: from its text to  *)
(* its syntax tree, to its scopes, to what is known of its values.         *)
(*                                                                         *)
(* The module is one of Programs, written in one of its layouts.           *)
(***************************************************************************)
EXTENDS AnalysisVisitor

CONSTANTS Programs,    \* the bodies of the modules, by name
          LayoutsOf,   \* the layouts each is written in
          Valid,       \* those that the tests of the repository run
          Answers,     \* what the built-in functions return, by identity
          Chances,     \* the orders of a hash table
          MaxSteps     \* of a run of a program

VARIABLES program, layout, phase, tree, context
vars == <<program, layout, phase, tree, context>>

Source  == INSTANCE PythonGrammar
Syntax  == INSTANCE PythonParser
Python  == INSTANCE PythonRun WITH BuiltinNames <- Builtins

Body == Programs[program]
Trees == UNION {Syntax!Parse(tokens) : tokens \in UNION {Syntax!Lex(text) : text \in Source!Written(layout, Body)}}

Init == /\ program \in DOMAIN Programs
        /\ layout \in LayoutsOf[program]
        /\ phase = "Initial"
        /\ tree = <<>>
        /\ context = NewContext

ParsedAs(trees) == \/ \E body \in trees : tree' = body /\ phase' = "Parsed"
                   \/ trees = {} /\ phase' = "Failed" /\ UNCHANGED tree
ParseModule ==
  /\ phase = "Initial"
  /\ ParsedAs(Trees)
  /\ UNCHANGED <<program, layout, context>>

AnnotatePhase ==
  /\ phase = "Parsed"
  /\ context' = AnnotateModule(tree)
  /\ phase' = IF context'.error THEN "Failed" ELSE "Annotated"
  /\ UNCHANGED <<program, layout, tree>>

\* What may be left where the identity of a class is read: nothing's, or some class's.
Strays == {0} \cup DOMAIN context.classes
AnalyzePhase ==
  /\ phase = "Annotated"
  /\ \E chance \in Chances, stray \in Strays : context' = AnalyzeModule(context, tree, chance, stray)
  /\ phase' = IF context'.error THEN "Failed" ELSE "Analyzed"
  /\ UNCHANGED <<program, layout, tree>>

Next == ParseModule \/ AnnotatePhase \/ AnalyzePhase
Spec == Init /\ [][Next]_vars
-----------------------------------------------------------------------------
(***************************************************************************)
(* The nodes of the tree                                                   *)
(***************************************************************************)
RECURSIVE Tree(_, _)
NodesOf(kids, path) == UNION {Tree(kids[i][2], Append(path, kids[i][1])) : i \in DOMAIN kids}
\* The default values of arguments are not annotated.
Within2(a) == IF Kind(a) \in {"def", "lambda"} THEN SelectSeq(Children(a), LAMBDA kid : kid[1] \div 100 # 1) ELSE Children(a)
Tree(a, path) == {<<path, a>>} \cup NodesOf(Within2(a), path)
Nodes == NodesOf(List(2, tree), <<>>)
OfKind(kinds) == {node \in Nodes : Kind(node[2]) \in kinds}
\* The innermost of some nodes that a path is in.
Around(path, nodes) == {node \in nodes : IsStrictPrefix(node[1], path)}
Innermost(nodes) == {node \in nodes : \A other \in nodes : Len(other[1]) <= Len(node[1])}

(***************************************************************************)
(* What this language reads as Python does: not a conditional expression   *)
(* in the else part of another, not a sign in the right operand of + or -, *)
(* not ** to the right of **, not the operator in at the top of a          *)
(* comprehension's source, not a call with * or **, and a statement that is*)
(* an expression only when it begins with a name, a string or a bracket    *)
(* ( and is more than a string.                                            *)
(***************************************************************************)
RECURSIVE Signed(_)
Signed(a) == CASE a.e = "unary"   -> a.op \in {"-", "+"} \/ Signed(a.x)
               [] a.e = "binary"  -> Signed(a.l) \/ Signed(a.r)
               [] OTHER -> FALSE
RECURSIVE Has(_, _)
Has(a, op) == CASE a.e = "unary"  -> Has(a.x, op)
                [] a.e = "binary" -> a.op = op \/ Has(a.l, op) \/ Has(a.r, op)
                [] OTHER -> FALSE
ReadsAlone(a) ==
  CASE a.e = "ternary" -> a.y.e # "ternary"
    [] a.e = "binary"  -> (a.op \in {"+", "-"} => ~Signed(a.r)) /\ (a.op = "**" => ~Has(a.r, "**"))
    [] a.e \in {"setcomp", "dictcomp"} -> ~Has(a.source, "in") /\ (a.pred # <<>> => ~Has(a.pred[1], "in"))
    [] a.e = "call"    -> a.varargs = <<>> /\ a.varkwargs = <<>>
    [] a.e = "slice"   -> a.step # <<>> => a.from # <<>> /\ a.to # <<>>
    [] OTHER -> TRUE
RECURSIVE First(_)
First(a) == CASE a.e = "binary"  -> First(a.l)
              [] a.e = "ternary" -> First(a.x)
              [] a.e = "call"    -> First(a.f)
              [] a.e \in {"index", "slice", "attr"} -> First(a.x)
              [] OTHER -> a
BeginsStatement(a) == First(a).e \in {"var", "tuple"} \/ (First(a).e \in {"str", "bytes"} /\ First(a) # a)
RECURSIVE Reads(_)
Reads(a) == (IsExpression(a) => ReadsAlone(a)) /\ (Kind(a) = "expr" => BeginsStatement(a.x))
            /\ \A i \in DOMAIN Children(a) : Reads(Children(a)[i][2])

\* A module whose text is of this language's expressions is read as Python's grammar
\* reads it, however its lines are laid out.
ParsesAsWritten == (phase # "Initial" /\ \A i \in DOMAIN Body : Reads(Body[i])) => tree = Body

(***************************************************************************)
(* Scopes and identities                                                   *)
(***************************************************************************)
Annotated == phase \in {"Annotated", "Analyzed"}
Functions == OfKind({"def", "lambda"})
Classes   == OfKind({"class"})
FunctionAt(path) == context.functions[context.ids[path]]
ClassAt(path)    == context.classes[context.ids[path]]

\* The nodes of a block, without those of the functions and classes defined in it.
OwnNodes(path) == {node \in Nodes : path \in {n[1] : n \in Innermost(Around(node[1], Functions \cup Classes))}}
RootNodes      == {node \in Nodes : Around(node[1], Functions \cup Classes) = {}}
\* Where the compiler departs from Python: a comprehension's variable belongs to the
\* block around it, the name of a with statement's object to none.
Leaked(nodes)  == UNION {Python!Targets(node[2].var) : node \in {n \in nodes : Kind(n[2]) \in {"listcomp", "setcomp", "dictcomp"}}}
Omitted(nodes) == UNION {{node[2].items[i][2] : i \in DOMAIN node[2].items} : node \in {n \in nodes : Kind(n[2]) = "with"}}
Expected(names, nodes) == (names \ Omitted(nodes)) \cup Leaked(nodes)
SelfAttributes(path) ==
  {node[2].name : node \in {n \in OfKind({"lname"}) : n[2].base = <<VariableLookup("self")>>
     /\ \E f \in Innermost(Around(n[1], Functions)) :
          Kind(f[2]) = "def" /\ f[2].name = "__init__" /\ path \in {k[1] : k \in Innermost(Around(f[1], Functions \cup Classes))}}}

\* A function's names are those Python makes local to it, a module's those it binds,
\* and a class has the attributes it binds and those its constructor gives to self.
ScopesAsInPython ==
  Annotated =>
    /\ \A f \in Functions :
         DOMAIN FunctionAt(f[1]).locals = Expected(Python!LocalNames(f[2]), OwnNodes(f[1]))
    /\ DOMAIN context.globals \ ModuleNames = Expected(Python!BoundIn(tree), RootNodes)
    /\ phase = "Annotated" => \A k \in Classes :
         {ClassAt(k[1]).attributes[i].name : i \in DOMAIN ClassAt(k[1]).attributes}
           = Expected(Python!BoundIn(k[2].body), OwnNodes(k[1])) \cup SelfAttributes(k[1])

\* No two calls of a function, or of the module, resume at the same place, and
\* each of the places is counted.
SplitsDistinct ==
  Annotated =>
    LET calls == OfKind({"call"})
        Owner(path) == {f[1] : f \in Innermost(Around(path, Functions))}
        SplitsOf(path) == IF Owner(path) = {} THEN context.splits ELSE FunctionAt(CHOOSE p \in Owner(path) : TRUE).splits
    IN  \A a, b \in calls :
          /\ a[1] \in DOMAIN context.split /\ context.split[a[1]] < SplitsOf(a[1])
          /\ a # b /\ Owner(a[1]) = Owner(b[1]) => context.split[a[1]] # context.split[b[1]]

\* Two definitions have the same identity only when one is the other's constructor.
IdsUnique ==
  Annotated =>
    \A a, b \in Functions \cup Classes :
      /\ a[1] \in DOMAIN context.ids
      /\ a # b /\ context.ids[a[1]] = context.ids[b[1]] =>
           \E k, f \in {a, b} : /\ Kind(k[2]) = "class" /\ Kind(f[2]) = "def" /\ f[2].name = "__init__"
                                /\ IsStrictPrefix(k[1], f[1])

(***************************************************************************)
(* What the analysis claims, against what Python sees                      *)
(***************************************************************************)
IdOf(v) == IF v.n < 0 THEN v.n ELSE context.ids[v.chars]
RECURSIVE Describes(_, _)
Describes(a, v) ==
  LET All(type, s) == \A i \in DOMAIN s : Describes(type, s[i])
      Each2(types, s) == Len(types) = Len(s) /\ \A i \in DOMAIN s : Describes(types[i], s[i])
      Contents ==
        CASE a.ext = <<>> -> TRUE
          [] a.t \in {"List", "Set"} -> All(a.ext[1], v.items)
          [] a.t = "Tuple" -> Each2(a.ext, v.items)
          [] a.t = "Dict"  -> All(a.ext[1], v.keys) /\ All(a.ext[2], v.items)
          [] OTHER -> TRUE
      Content ==
        CASE a.t \in {"Bool", "Int", "Float"} -> Python!Same(a, v)
          [] a.t \in {"Bytes", "Unicode"} -> a.chars = v.chars
          [] a.t \in {"Function", "Class"} -> a.n = IdOf(v)
          [] a.t \in {"List", "Tuple"} -> Each2(a.items, v.items)
          [] a.t = "Set"  -> Len(a.items) = Len(v.items) /\ \A i \in DOMAIN v.items : \E j \in DOMAIN a.items : Describes(a.items[j], v.items[i])
          [] a.t = "Dict" -> Len(a.keys) = Len(v.keys) /\ \A i \in DOMAIN v.keys : \E j \in DOMAIN a.keys :
                               Describes(a.keys[j], v.keys[i]) /\ Describes(a.items[j], v.items[i])
          [] OTHER -> TRUE
  IN  \/ a.t = "Indeterminate"
      \/ /\ a.t = v.t
         /\ a.t = "Instance" /\ a.n # 0 => a.n = IdOf(v)
         /\ a.known => Content
         /\ Contents

Claimed(at, path) == path \in DOMAIN at
AttributeClaim(path, name) == LET i == IndexOf(ClassAt(path), name) IN IF i = 0 THEN Indeterminate ELSE ClassAt(path).attributes[i].value
NameClaim(path, name) ==
  IF path = <<>> THEN context.globals[name]
  ELSE IF context.ids[path] \in DOMAIN context.classes /\ path \in {k[1] : k \in Classes} THEN AttributeClaim(path, name)
  ELSE FunctionAt(path).locals[name]
Holds(o) == CASE o.kind = "branch" -> Claimed(context.always, o.path) => context.always[o.path] = (o.v.n = 1)
              [] o.kind = "index"  -> Claimed(context.index, o.path) => context.index[o.path] = o.v.n
              [] o.kind = "call"   -> Claimed(context.callee, o.path) => context.callee[o.path] = IdOf(o.v)
              [] o.kind = "items"  -> Claimed(context.itemtypes, o.path) =>
                                        Describes([Unknown(o.v.t) EXCEPT !.ext = context.itemtypes[o.path]], o.v)
              [] o.kind = "name"   -> Describes(NameClaim(o.path, o.name), o.v)
              [] o.kind = "return" -> Describes(ReturnedBy(FunctionAt(o.path)), o.v)
              [] o.kind = "attribute" -> Describes(AttributeClaim(o.path, o.name), o.v)

(***************************************************************************)
(* The programs of which the analysis, which runs each statement once and  *)
(* in the order of the text, can know what they do: a name or an attribute *)
(* is assigned at one place, unless each statement is run once at most; a  *)
(* function ends with a return or has none, and is defined before what     *)
(* calls it.                                                               *)
(***************************************************************************)
Owners(path) == {n[1] : n \in Innermost(Around(path, Functions \cup Classes))}
ScopeOf(path, name) ==
  {owner \in Owners(path) : \A f \in OfKind({"def"}) : f[1] = owner => name \notin Python!GlobalIn(Range(f[2].body))}
\* An attribute's scope is no node.
Bindings ==
  {[scope |-> ScopeOf(n[1], n[2].name), name |-> n[2].name, at |-> n[1]] :
     n \in {n \in OfKind({"lname", "def", "class"}) : Kind(n[2]) # "lname" \/ n[2].base = <<>>}}
  \cup {[scope |-> {<<0>>}, name |-> n[2].name, at |-> n[1]] : n \in {n \in OfKind({"lname"}) : n[2].base # <<>>}}
  \cup UNION {{[scope |-> {f[1]}, name |-> name, at |-> f[1]] : name \in Python!ParameterNames(f[2].args)} : f \in Functions}
AssignedOnce == \A a, b \in Bindings : a.scope = b.scope /\ a.name = b.name => a = b
StraightLine == OfKind({"while", "for", "def", "lambda"}) = {}
EndsWithReturn ==
  \A f \in OfKind({"def"}) : Last(f[2].body).s = "return" \/ \A n \in OwnNodes(f[1]) : Kind(n[2]) # "return"
Earlier(p, q) == ~IsPrefix(p, q) /\ \E i \in DOMAIN p \cap DOMAIN q : p[i] < q[i] /\ SubSeq(p, 1, i - 1) = SubSeq(q, 1, i - 1)
DefinedBefore == \A p \in DOMAIN context.callee, f \in Functions \cup Classes :
                   context.ids[f[1]] = context.callee[p] => Earlier(f[1], p)

Observed == Python!Seen(tree, MaxSteps)
\* What the analysis knows of a value, of a branch, of a callee is so whenever Python
\* gets there.
AnalysisSound ==
  (phase = "Analyzed" /\ (AssignedOnce \/ StraightLine) /\ EndsWithReturn /\ DefinedBefore) => \A o \in Observed : Holds(o)
\* A branch that the analysis takes for always or never taken is.
BranchesDecided == phase = "Analyzed" => \A o \in {o \in Observed : o.kind = "branch"} : Holds(o)
\* The programs that the tests run have no error.
TestsCompile == phase = "Failed" => program \notin Valid
=============================================================================
