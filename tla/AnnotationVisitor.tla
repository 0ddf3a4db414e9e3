-------------------------- MODULE AnnotationVisitor --------------------------
(***************************************************************************)
(* The second phase of the compiler, src/source/Compiler/AnnotationVisitor *)
(* .cc: functions and classes get their identities, names their scopes,    *)
(* calls the numbers of the places where the compilation can stop.         *)
(*                                                                         *)
(* A context c is what the visitor reads and writes: the module, the       *)
(* functions and classes of GlobalContext, the annotations of the nodes,   *)
(* by path, and the visitor's own state.  error says that it has thrown, or *)
(* followed a null pointer.  The visitor also gives a split to the operator *)
(* yield, which the parser never makes.                                    *)
(***************************************************************************)
EXTENDS PythonASTVisitor, Value

CONSTANTS Builtins,          \* the globals of the built-in module, by name
          BuiltinFunctions,  \* the contexts of its functions and of those of Modules, by identity
          BuiltinClasses,    \* and of their classes
          Modules,           \* the globals of the modules that can be imported, by module and name
          ModuleTexts        \* the names of these modules and of this one, "main", and of their files

\* What the constructor of a module creates.
ModuleNames == {"__name__", "__file__"}
ImportedNames(module) == ModuleNames \cup DOMAIN Modules[module]

FunctionContext(class, name) ==
  [class |-> class, name |-> name, args |-> <<>>, splits |-> 0, globals |-> {}, locals |-> <<>>, returns |-> {},
   annotated |-> Indeterminate]
ClassContext(name) == [name |-> name, attributes |-> <<>>]
NewContext == [error |-> FALSE, next |-> 1, functions |-> BuiltinFunctions, classes |-> BuiltinClasses,
               globals |-> [name \in ModuleNames |-> Text("Unicode", ModuleTexts["main"][name])], splits |-> 0,
               ids |-> <<>>, split |-> <<>>, fn |-> 0, cls |-> 0, init |-> FALSE]

\* The visitor of a phase that has failed changes nothing more.
Fail(c) == [c EXCEPT !.error = TRUE]
FailIf(c, p) == [c EXCEPT !.error = @ \/ p]
Emplace(f, name, v) == IF name \in DOMAIN f THEN f ELSE f @@ (name :> v)
\* Names of files and modules are written with dots.
Dotted(name) == FoldLeft(LAMBDA s, token : s \o token, "", name)

(***************************************************************************)
(* record_write, record_class_attribute_write                              *)
(***************************************************************************)
Attribute(name) == [name |-> name, value |-> Indeterminate]
HasAttribute(class, name) == \E i \in DOMAIN class.attributes : class.attributes[i].name = name
RecordClassAttributeWrite(c, name) ==
  IF c.cls = 0 THEN Fail(c)
  ELSE IF HasAttribute(c.classes[c.cls], name) THEN c
  ELSE [c EXCEPT !.classes[c.cls].attributes = Append(@, Attribute(name))]

\* Without looking at the names that are declared global.
RecordWriteHere(c, name) ==
  IF c.fn # 0 THEN [c EXCEPT !.functions[c.fn].locals = Emplace(@, name, Indeterminate)]
  ELSE [c EXCEPT !.globals = Emplace(@, name, Indeterminate)]
RecordWrite(c, name) ==
  IF name \in DOMAIN Builtins THEN Fail(c)
  ELSE IF c.fn # 0
  THEN IF name \in c.functions[c.fn].globals THEN c
       ELSE [c EXCEPT !.functions[c.fn].locals = Emplace(@, name, Indeterminate)]
  ELSE IF c.cls # 0
  THEN IF HasAttribute(c.classes[c.cls], name) THEN Fail(c)
       ELSE [c EXCEPT !.classes[c.cls].attributes = Append(@, Attribute(name))]
  ELSE [c EXCEPT !.globals = Emplace(@, name, Indeterminate)]
RecordWrites(c, names) == FoldLeft(RecordWrite, c, names)

ArgumentNames(args) == [i \in DOMAIN args.args |-> args.args[i].name] \o
                       SelectSeq(<<args.varargs, args.varkwargs>>, LAMBDA name : name # "")

(***************************************************************************)
(* Imports: a name that exists already is not overwritten, but an error    *)
(***************************************************************************)
ImportName(c, name, v) ==
  IF c.fn # 0
  THEN FailIf([c EXCEPT !.functions[c.fn].locals = Emplace(@, name, v)], name \in DOMAIN c.functions[c.fn].locals)
  ELSE FailIf([c EXCEPT !.globals = Emplace(@, name, v)], name \in DOMAIN c.globals)
ImportNames(c, names) == FoldLeft(LAMBDA d, name : ImportName(d, name, Indeterminate), c, SetToSeq(names))
ImportModules(c, modules) ==
  FoldLeft(LAMBDA d, m : ImportName(d, Dotted(m[2]), Text("Module", Dotted(m[1]))), c, SetToSeq(modules))
VisitImport(c, a) ==
  LET module == Dotted((CHOOSE m \in a.modules : TRUE)[1])
      Names  == {Dotted(n[1]) : n \in a.names}
  IN  IF \E m \in a.modules : Dotted(m[1]) \notin DOMAIN Modules THEN Fail(c)
      ELSE IF a.star THEN ImportNames(c, ImportedNames(module))
      ELSE IF a.names = {} THEN ImportModules(c, a.modules)
      ELSE FailIf(ImportNames(c, {Dotted(n[2]) : n \in a.names}), ~(Names \subseteq ImportedNames(module)))

VisitGlobal(c, a) ==
  IF c.fn = 0 THEN Fail(c)
  ELSE FailIf([c EXCEPT !.functions[c.fn].globals = @ \cup Range(a.names)],
              Range(a.names) \cap DOMAIN c.functions[c.fn].locals # {})

(***************************************************************************)
(* The traversal                                                           *)
(***************************************************************************)
RECURSIVE Annotate(_, _, _)
AnnotateAll(c, path, kids) == FoldLeft(LAMBDA d, kid : Annotate(d, Append(path, kid[1]), kid[2]), c, kids)
AnnotateChildren(c, path, a) == IF NullVisited(a) THEN Fail(c) ELSE AnnotateAll(c, path, Children(a))

\* The context of a function that begins, and of what is around it when it ends.
Enter(c, path, id, class, name) ==
  [c EXCEPT !.ids = (path :> id) @@ @, !.functions = Emplace(@, id, FunctionContext(class, name)), !.fn = id]
Leave(c, outer) == [c EXCEPT !.fn = outer.fn, !.cls = outer.cls, !.init = outer.init]
SameId(c) == c
NewId(c) == [c EXCEPT !.next = @ + 1]

\* The constructor has the identity of its class.
AnnotateDefinition(c, path, a) ==
  LET d     == AnnotateAll(c, path, List(3, a.decorators))
      init  == d.cls # 0 /\ d.fn = 0 /\ a.name = "__init__"
      id    == IF init THEN d.cls ELSE d.next
      begun == [Enter(IF init THEN d ELSE NewId(d), path, id, d.cls, a.name) EXCEPT !.init = init]
      legal == init => a.args.args # <<>> /\ a.args.args[1].name = "self"
      named == RecordWrites(FailIf(begun, ~legal), ArgumentNames(a.args))
      body  == AnnotateAll(named, path, List(2, a.body))
  IN  RecordWrite(Leave(body, d), a.name)

\* Neither a lambda's nor a function's default values are visited.
AnnotateLambda(c, path, a) ==
  LET begun == Enter(NewId(c), path, c.next, 0, "lambda")
      named == RecordWrites(begun, ArgumentNames(a.args))
  IN  Leave(Annotate(named, Append(path, 2), a.x), c)

AnnotateClass(c, path, a) ==
  LET id    == c.next
      begun == [NewId(c) EXCEPT !.ids = (path :> id) @@ @, !.classes = @ @@ (id :> ClassContext(a.name)), !.cls = id]
  IN  IF c.fn # 0 THEN Fail(c)
      ELSE RecordWrite(Leave(AnnotateChildren(begun, path, a), c), a.name)

\* In a constructor the base of an attribute is visited once more.
AnnotateLValue(c, path, a) ==
  LET base == Annotate(c, Append(path, 1), a.base[1])
      self == a.base[1].e = "var" /\ a.base[1].name = "self"
  IN  IF a.base = <<>> THEN RecordWrite(c, a.name)
      ELSE AnnotateChildren(IF ~c.init THEN c ELSE IF self THEN RecordClassAttributeWrite(base, a.name) ELSE base, path, a)

\* The split is taken before the calls in the arguments are visited.
SplitBefore(c, path, a) ==
  LET d == AnnotateChildren(c, path, a)
  IN  IF d.fn = 0 THEN [d EXCEPT !.split = (path :> c.splits) @@ @, !.splits = @ + 1]
      ELSE [d EXCEPT !.split = (path :> c.functions[c.fn].splits) @@ @, !.functions[d.fn].splits = @ + 1]
\* Every call gets a split, the next of its function.
AnnotateCall(c, path, a) ==
  LET d == AnnotateChildren(c, path, a)
  IN  IF d.fn = 0
      THEN [d EXCEPT !.split = (path :> d.splits) @@ @, !.splits = @ + 1]
      ELSE [d EXCEPT !.split = (path :> d.functions[d.fn].splits) @@ @, !.functions[d.fn].splits = @ + 1]

Kind(a) == IF IsExpression(a) THEN a.e ELSE a.s
Annotate(c, path, a) ==
  IF c.error THEN c ELSE
  CASE Kind(a) = "import" -> VisitImport(c, a)
    [] Kind(a) = "global" -> VisitGlobal(c, a)
    [] Kind(a) = "lname"  -> AnnotateLValue(c, path, a)
    [] Kind(a) = "except" -> AnnotateChildren(IF a.name = "" THEN c ELSE RecordWrite(c, a.name), path, a)
    [] Kind(a) = "def"    -> AnnotateDefinition(c, path, a)
    [] Kind(a) = "lambda" -> AnnotateLambda(c, path, a)
    [] Kind(a) = "class"  -> AnnotateClass(c, path, a)
    [] Kind(a) = "yield"  -> AnnotateChildren(FailIf(c, c.fn = 0), path, a)
    [] Kind(a) = "call"   -> AnnotateCall(c, path, a)
    [] OTHER -> AnnotateChildren(c, path, a)

\* A module: its body is part 2 of nothing.
AnnotateModule(body) == AnnotateAll(NewContext, <<>>, List(2, body))
=============================================================================
