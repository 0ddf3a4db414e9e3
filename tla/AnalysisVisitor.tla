--------------------------- MODULE AnalysisVisitor ---------------------------
(***************************************************************************)
(* The third phase of the compiler, src/source/Compiler/AnalysisVisitor.cc:*)
(* types and values are inferred.                                          *)
(*                                                                         *)
(* A module is run once from its first statement to its last, each branch, *)
(* each loop and each function once where it stands; value is the value of *)
(* the expression visited last, and what is known of a variable is what    *)
(* all the assignments visited so far have in common.                      *)
(***************************************************************************)
EXTENDS AnnotationVisitor

CONSTANT TypeClasses  \* the identities of the classes of bytes, strings and collections, by type

\* chance decides what only the order of a hash table decides, and stray is what is
\* found where no class's identity was written.
AnalysisContext(c, chance, stray) ==
  [value |-> Indeterminate, chance |-> chance, stray |-> stray, always |-> <<>>, index |-> <<>>, callee |-> <<>>,
   constructions |-> {}, methods |-> {}, catches |-> <<>>, itemtypes |-> <<>>, classbase |-> FALSE,
   unpacked |-> <<>>] @@ c

\* A copy of a class that is not known does not have its identity, but what was there.
Copied(c, v)   == IF v.t = "Class" /\ ~v.known THEN [v EXCEPT !.n = c.stray] ELSE v
Put(c, v)      == [c EXCEPT !.value = Copied(c, v)]
Moved(c)       == Put(c, Indeterminate)
\* What follows, unless the visitor has thrown.
Then(c, Next(_)) == IF c.error THEN c ELSE Next(c)
OneOf(c, results) == SetToSeq(results)[1 + (c.chance % Cardinality(results))]
Result(c, results) == IF results = {} THEN Fail(c) ELSE Put(c, OneOf(c, results))
\* The elements of a hash table, in its order.
InOrder(c, set) == OneOf(c, SetToSeqs(set))

(***************************************************************************)
(* record_assignment                                                       *)
(***************************************************************************)
\* What is known is kept whatever is assigned.
MergeKept(c, var, v) == IF var.t = "Indeterminate" THEN {Copied(c, v)} ELSE IF TypesEqual(var, v) THEN {var} ELSE {}
\* The variable after one more assignment; none if it changes its type.
Merge(c, var, v) == IF var.t = "Indeterminate" THEN {Copied(c, v)}
                    ELSE IF TypesEqual(var, v) THEN {IF SameValue(var, v) THEN var ELSE TypeOnly(var)} ELSE {}
MergeAt(c, vars, name, v) == IF name \in DOMAIN vars THEN Merge(c, vars[name], v) ELSE {}
RecordLocal(c, id, name, merged) ==
  IF merged = {} THEN Fail(c) ELSE [c EXCEPT !.functions[id].locals[name] = CHOOSE x \in merged : TRUE]
RecordGlobal(c, name, merged) ==
  IF merged = {} THEN Fail(c) ELSE [c EXCEPT !.globals[name] = CHOOSE x \in merged : TRUE]
IndexOf(class, name) == SelectInSeq(class.attributes, LAMBDA attribute : attribute.name = name)
RecordAttributeAt(c, id, i, v) ==
  IF i = 0 \/ Merge(c, c.classes[id].attributes[i].value, v) = {} THEN Fail(c)
  ELSE [c EXCEPT !.classes[id].attributes[i].value = CHOOSE x \in Merge(c, @, v) : TRUE]
RecordAttribute(c, id, name, v) == RecordAttributeAt(c, id, IndexOf(c.classes[id], name), v)
RecordAssignment(c, name, v) ==
  IF c.fn # 0 /\ name \notin c.functions[c.fn].globals
  THEN RecordLocal(c, c.fn, name, MergeAt(c, c.functions[c.fn].locals, name, v))
  ELSE IF c.fn = 0 /\ c.cls # 0 THEN RecordAttribute(c, c.cls, name, v)
  ELSE RecordGlobal(c, name, MergeAt(c, c.globals, name, v))

\* return_types is a set, by operator==.
AddReturn(c, v) ==
  IF ~Hashable(v) THEN Fail(c)
  ELSE [Moved(c) EXCEPT !.functions[c.fn].returns = IF \E w \in @ : SameValue(v, w) THEN @ ELSE @ \cup {v}]

(***************************************************************************)
(* type_for_annotation, match_value_to_type                                *)
(***************************************************************************)
BuiltinTypes == [None |-> "None", bool |-> "Bool", int |-> "Int", float |-> "Float", bytes |-> "Bytes", str |-> "Unicode",
                 list |-> "List", List |-> "List", tuple |-> "Tuple", Tuple |-> "Tuple",
                 set |-> "Set", Set |-> "Set", dict |-> "Dict", Dict |-> "Dict"]
RECURSIVE TypeForAnnotation(_, _)
TypeOf(c, type, args) ==
  IF type.name \in DOMAIN c.globals
  THEN IF c.globals[type.name].t = "Class" /\ c.globals[type.name].known THEN {Instance(c.globals[type.name].n)} ELSE {}
  ELSE IF type.name \notin DOMAIN BuiltinTypes \/ {} \in Range(args) THEN {}
  ELSE {[Unknown(BuiltinTypes[type.name]) EXCEPT !.ext = [i \in DOMAIN args |-> CHOOSE t \in args[i] : TRUE]]}
TypeForAnnotation(c, type) == TypeOf(c, type, [i \in DOMAIN type.args |-> TypeForAnnotation(c, type.args[i])])

\* A value of indeterminate type throws; the parent of a class is recorded nowhere.
RECURSIVE Matches(_, _)
Matches(expected, v) ==
  /\ v.t # "Indeterminate"
  /\ expected.t # "Indeterminate" =>
       /\ expected.t = v.t
       /\ IF v.t = "Instance" THEN expected.n = v.n
          ELSE Len(expected.ext) = Len(v.ext) /\ \A i \in DOMAIN v.ext : Matches(expected.ext[i], v.ext[i])

(***************************************************************************)
(* Expressions                                                             *)
(***************************************************************************)
RECURSIVE Analyze(_, _, _)
AnalyzeAll(c, path, kids) == FoldLeft(LAMBDA d, kid : Analyze(d, Append(path, kid[1]), kid[2]), c, kids)
\* The values of several expressions.
Evaluate(c, path, kids) ==
  LET Next(r, kid) == LET d == Analyze(r.c, Append(path, kid[1]), kid[2]) IN [c |-> d, values |-> Append(r.values, d.value)]
  IN  FoldLeft(Next, [c |-> c, values |-> <<>>], kids)

Operated(a, r) ==
  Then(r.c, LAMBDA d :
    Result(d, CASE a.e = "unary"   -> ExecuteUnary(a.op, r.values[1])
                [] a.e = "binary"  -> ExecuteBinary(a.op, r.values[1], r.values[2])
                [] a.e = "ternary" -> ExecuteTernary(r.values[1], r.values[2], r.values[3])))

Half(s, k) == [i \in 1 .. Len(s) \div 2 |-> s[2 * i - k]]
Shared(path, s) == [i \in DOMAIN s |-> [s[i] EXCEPT !.cell = Append(path, i)]]
Hashed(a, s) == CASE a.e = "set" -> s [] a.e = "dict" -> Half(s, 1) [] OTHER -> <<>>
CollectionOf(path, a, s) ==
  CASE a.e \in {"list", "tuple"} -> Collection(IF a.e = "list" THEN "List" ELSE "Tuple", Shared(path, s))
    [] a.e = "set"   -> SetOf(s)
    [] a.e = "dict"  -> DictOf(Half(s, 1), Shared(path, Half(s, 0)))
WithItemTypes(c, path, v) == [Put(c, v) EXCEPT !.itemtypes = (path :> v.ext) @@ @]
Collected(path, a, r) ==
  Then(r.c, LAMBDA d :
    IF \A v \in Range(Hashed(a, r.values)) : Hashable(v) THEN WithItemTypes(d, path, CollectionOf(path, a, r.values)) ELSE Fail(d))
ComprehensionType(a) == CASE a.e = "listcomp" -> "List" [] a.e = "setcomp" -> "Set" [] a.e = "dictcomp" -> "Dict"

\* The arguments of a definition: their default values must be known.
DefaultValue(d) == FailIf(d, d.value.t = "Indeterminate" \/ ~d.value.known)
Default(c, path, i, arg) == DefaultValue(Analyze(c, Append(path, Nth(1, i)), arg.default[1]))
AddArgument(c, name, v) == [c EXCEPT !.functions[c.fn].args = Append(@, [name |-> name, default |-> v])]
AddDefault(d, name) == AddArgument(Moved(d), name, d.value)

\* A lambda the annotation did not visit has no identity.
LambdaArgument(d, path, i, arg) ==
  IF arg.default = <<>> THEN AddArgument(d, arg.name, Indeterminate) ELSE AddDefault(Default(d, path, i, arg), arg.name)
LambdaArguments(c, path, args) ==
  FoldLeft(LAMBDA d, i : LambdaArgument(d, path, i, args[i]), [c EXCEPT !.fn = c.ids[path]], [i \in DOMAIN args |-> i])
AnalyzeLambda(c, path, a) ==
  IF path \notin DOMAIN c.ids THEN Fail(c)
  ELSE [Then(Analyze(LambdaArguments(c, path, a.args.args), Append(path, 2), a.x), LAMBDA d : AddReturn(d, d.value))
        EXCEPT !.fn = c.fn, !.value = Number("Function", c.ids[path])]

\* A known callee that returns one thing returns that one; one of which nothing
\* is recorded, None.
ReturnedBy(function) == CASE function.returns = {} -> Unknown("None")
                          [] Cardinality(function.returns) = 1 -> CHOOSE v \in function.returns : TRUE
                          [] OTHER -> Indeterminate
Keywords(c, a) == LET pairs == InOrder(c, a.kwargs) IN List(6, [i \in DOMAIN pairs |-> pairs[i][2]])
MarkCall(f, path) ==
  [Moved(f) EXCEPT !.constructions = IF f.value.t = "Class" THEN @ \cup {path} ELSE @,
                   !.methods = IF f.value.t = "Function" /\ f.classbase THEN @ \cup {path} ELSE @]
Answered(d, path, v) ==
  IF ~v.known THEN d
  ELSE IF v.n \notin DOMAIN d.functions THEN Fail(d)
  ELSE [Put(d, ReturnedBy(d.functions[v.n])) EXCEPT !.callee = (path :> v.n) @@ @]
CallResult(f, path, a) ==
  IF f.error \/ f.value.t \notin {"Function", "Class"} THEN Fail(f)
  ELSE Answered(Moved(AnalyzeAll(MarkCall(f, path), path, List(2, a.args) \o Keywords(f, a))), path, f.value)
AnalyzeCall(c, path, a) == CallResult(Analyze([c EXCEPT !.classbase = FALSE], Append(path, 1), a.f), path, a)

(***************************************************************************)
(* An item of a collection.  The index of an unknown thing is not visited. *)
(***************************************************************************)
\* The type all items have, if they have one.
OneType(s) == IF \A i \in DOMAIN s : s[i].t = s[1].t THEN Unknown(s[1].t) ELSE Indeterminate
Item(v, i) ==
  LET s  == IF v.t \in {"Bytes", "Unicode"} THEN v.chars ELSE v.items
      at == IF i < 0 THEN i + Len(s) ELSE i
  IN  IF at \notin 0 .. Len(s) - 1 THEN Indeterminate
      ELSE IF v.t \in {"Bytes", "Unicode"} THEN Text(v.t, <<s[at + 1]>>) ELSE [s[at + 1] EXCEPT !.cell = <<>>]
ValueFor(v, key) == LET i == SelectInSeq(v.keys, LAMBDA k : SameValue(k, key))
                    IN  IF i = 0 THEN Indeterminate ELSE [v.items[i] EXCEPT !.cell = <<>>]
\* An unknown index of a collection; of an empty one the first item is read.
Unindexed(d, v) == IF v.items = <<>> THEN Fail(d) ELSE Put(d, OneType(v.items))
ItemAt(d, path, v, i) ==
  CASE i.t \notin {"Bool", "Int", "Indeterminate"} -> Fail(d)
    [] i.t \in {"Bool", "Int"} /\ i.known ->
         Put([d EXCEPT !.index = (path :> i.n) @@ @], IF v.known THEN Item(v, i.n) ELSE Indeterminate)
    [] i.t \in {"Bool", "Int", "Indeterminate"} /\ ~i.known ->
         IF ~v.known THEN Moved(d) ELSE IF v.t \in {"Bytes", "Unicode"} THEN Put(d, Unknown(v.t)) ELSE Unindexed(d, v)
ItemFor(d, v, key) ==
  IF ~v.known THEN Moved(d)
  ELSE IF ~key.known THEN Unindexed(d, v)
  ELSE IF Hashable(key) THEN Put(d, ValueFor(v, key)) ELSE Fail(d)
Indexed(d, path, v) ==
  Then(d, LAMBDA e : CASE v.t \in {"Bytes", "Unicode", "List", "Tuple"} -> ItemAt(e, path, v, e.value)
                       [] v.t = "Dict" -> ItemFor(e, v, e.value)
                       [] OTHER -> Fail(e))
AnalyzeIndex(c, path, a) ==
  Then(Analyze(c, Append(path, 1), a.x), LAMBDA base :
    IF base.value.t = "Indeterminate" THEN base ELSE Indexed(Analyze(Moved(base), Append(path, 2), a.i), path, base.value))

(***************************************************************************)
(* Names and attributes                                                    *)
(***************************************************************************)
Lookup(c, name) ==
  IF name \in DOMAIN Builtins THEN {Builtins[name]}
  ELSE IF c.fn # 0 /\ name \in DOMAIN c.functions[c.fn].locals THEN {c.functions[c.fn].locals[name]}
  ELSE IF name \in DOMAIN c.globals THEN {c.globals[name]} ELSE {}

ModuleValue(module, name) == IF name \in DOMAIN Modules[module] THEN Modules[module][name] ELSE Text("Unicode", ModuleTexts[module][name])
\* An attribute that is no function may have been changed.
Attributed(c, v) == IF v.t = "Function" THEN v ELSE TypeOnly(Copied(c, v))
AttributeOf(c, id, name) ==
  IF id \notin DOMAIN c.classes THEN {}
  ELSE {Attributed(c, attribute.value) : attribute \in {x \in Range(c.classes[id].attributes) : x.name = name}}
PutAttribute(d, values) == IF values = {} THEN Fail(d) ELSE [d EXCEPT !.value = CHOOSE v \in values : TRUE]
AttributeFrom(d, v, name) ==
  CASE v.t \in DOMAIN TypeClasses -> PutAttribute(d, AttributeOf(d, TypeClasses[v.t], name))
    [] v.t \in {"Class", "Instance"} -> PutAttribute(d, AttributeOf(d, v.n, name))
    [] v.t = "Module" /\ v.known -> IF name \in ImportedNames(v.chars) THEN Put(d, ModuleValue(v.chars, name)) ELSE Fail(d)
    [] OTHER -> Fail(d)
AnalyzeAttribute(c, path, a) ==
  Then(Analyze(c, Append(path, 1), a.x), LAMBDA d : AttributeFrom([d EXCEPT !.classbase = d.value.t = "Class"], d.value, a.name))

\* Targets: the value v of c is assigned.
RecordName(c, name) == IF name \in DOMAIN Builtins THEN Fail(c) ELSE RecordAssignment(c, name, c.value)
RecordMember(d, base, name, v) ==
  CASE base.t = "Instance" /\ base.n \in DOMAIN d.classes -> RecordAttribute(d, base.n, name, v)
    [] base.t = "Module" /\ base.known ->
         FailIf(d, ~(name \in ImportedNames(base.chars) /\ TypesEqual(ModuleValue(base.chars, name), v)))
    [] OTHER -> Fail(d)
AnalyzeLName(c, path, a) ==
  IF a.base = <<>> THEN RecordName(c, a.name)
  ELSE Then(Analyze(Moved(c), Append(path, 1), a.base[1]), LAMBDA d : RecordMember(d, d.value, a.name, c.value))

\* One after another the items are moved out of the list, and so out of every copy
\* of it, those that are being unpacked around this one included.
RECURSIVE Without(_, _)
Without(v, cell) ==
  LET Left(s) == [i \in DOMAIN s |-> IF s[i].cell = cell THEN [Indeterminate EXCEPT !.cell = cell] ELSE Without(s[i], cell)]
  IN  [v EXCEPT !.items = Left(@), !.keys = Left(@)]
MoveOut(c, cell) ==
  LET All(vars)    == [name \in DOMAIN vars |-> Without(vars[name], cell)]
      Arguments(s) == [i \in DOMAIN s |-> [s[i] EXCEPT !.default = Without(@, cell)]]
      Function(f)  == [f EXCEPT !.locals = All(@), !.args = Arguments(@), !.returns = {Without(v, cell) : v \in @}]
      Class(k)     == [k EXCEPT !.attributes = [i \in DOMAIN @ |-> [@[i] EXCEPT !.value = Without(@, cell)]]]
  IN  [c EXCEPT !.globals = All(@), !.functions = [id \in DOMAIN @ |-> Function(@[id])],
                !.classes = [id \in DOMAIN @ |-> Class(@[id])], !.unpacked = All(@)]
UnpackItem(d, path, i, target) ==
  LET item == Last(d.unpacked).items[i]
  IN  Analyze(Put(MoveOut(d, item.cell), [item EXCEPT !.cell = <<>>]), Append(path, Nth(1, i)), target)
Unpack(c, path, a) ==
  [FoldLeft(LAMBDA d, i : Then(d, LAMBDA e : UnpackItem(e, path, i, a.items[i])),
            [Moved(c) EXCEPT !.unpacked = Append(@, c.value)], [i \in DOMAIN a.items |-> i]) EXCEPT !.unpacked = c.unpacked]
AnalyzeLTuple(c, path, a) ==
  IF c.value.t \in {"List", "Tuple"} /\ c.value.known /\ Len(c.value.items) = Len(a.items) THEN Unpack(c, path, a) ELSE Fail(c)

AnalyzeExpression(c, path, a) ==
  CASE a.e = "int"     -> Put(c, Number("Int", a.n))
    [] a.e = "float"   -> Put(c, IF a.m[2] < 0 THEN Float(a.m[1], 10 ^ (-a.m[2])) ELSE Float(a.m[1] * 10 ^ a.m[2], 1))
    [] a.e = "bytes"   -> Put(c, Text("Bytes", a.v))
    [] a.e = "str"     -> Put(c, Text("Unicode", a.v))
    [] a.e = "bool"    -> Put(c, Bool(a.p))
    [] a.e = "none"    -> Put(c, Unknown("None"))
    [] a.e = "var"     -> Result(c, Lookup(c, a.name))
    [] a.e = "attr"    -> AnalyzeAttribute(c, path, a)
    [] a.e = "call"    -> AnalyzeCall(c, path, a)
    [] a.e = "index"   -> AnalyzeIndex(c, path, a)
    [] a.e = "lambda"  -> AnalyzeLambda(c, path, a)
    [] a.e \in {"unary", "binary", "ternary"} -> Operated(a, Evaluate(c, path, Children(a)))
    [] a.e \in {"list", "tuple", "set", "dict"} -> Collected(path, a, Evaluate(c, path, Children(a)))
    [] a.e \in {"listcomp", "setcomp", "dictcomp"} -> Put(c, Unknown(ComprehensionType(a)))
    [] a.e = "slice"   -> Fail(c)
    [] a.e = "lname"   -> AnalyzeLName(c, path, a)
    [] a.e = "ltuple"  -> AnalyzeLTuple(c, path, a)
    [] a.e \in {"lindex", "lslice"} -> c

(***************************************************************************)
(* Statements                                                              *)
(***************************************************************************)
True(v)  == v.known /\ TruthValue(v)
False(v) == v.known /\ ~TruthValue(v)
Mark(c, path, v) == IF v.known THEN [c EXCEPT !.always = (path :> TruthValue(v)) @@ @] ELSE c

\* The branch that is never taken is visited too.
BothBranches(d, path, a, v) ==
  AnalyzeAll(Moved(Mark(d, path, v)), path, List(2, a.body) \o (IF True(v) THEN <<>> ELSE List(3, a.elifs) \o MaybeSuite(4, a.orelse)))
Branches(d, path, a, v) ==
  AnalyzeAll(Moved(Mark(d, path, v)), path,
             (IF False(v) THEN <<>> ELSE List(2, a.body)) \o (IF True(v) THEN <<>> ELSE List(3, a.elifs) \o MaybeSuite(4, a.orelse)))
AnalyzeIf(c, path, a) == Then(Analyze(c, Append(path, 1), a.check), LAMBDA d : Branches(d, path, a, d.value))
AnalyzeElif(c, path, a) ==
  Then(Analyze(c, Append(path, 1), a.check), LAMBDA d :
    AnalyzeAll(Mark(d, path, d.value), path, IF False(d.value) THEN <<>> ELSE List(2, a.body)))

\* The message of an assertion that is known to hold is not looked at.
Message(d, path, a) ==
  IF True(d.value) \/ Len(a.items) < 2 THEN d
  ELSE Then(Analyze(d, Append(path, Nth(1, 2)), a.items[2]), LAMBDA e : FailIf(e, e.value.t # "Unicode"))
AnalyzeAssert(c, path, a) == Then(Analyze(c, Append(path, Nth(1, 1)), a.items[1]), LAMBDA d : Message(d, path, a))

\* What a loop variable is: the type all items of a known collection have.
Iterated(v) ==
  CASE v.t \in {"Bytes", "Unicode"} -> {Unknown(v.t)}
    [] v.t \in {"List", "Tuple", "Set"} -> {IF v.known /\ v.items # <<>> THEN OneType(v.items) ELSE Indeterminate}
    [] v.t = "Dict" -> {IF v.known /\ v.keys # <<>> THEN OneType(v.keys) ELSE Indeterminate}
    [] v.t = "Indeterminate" -> {Indeterminate}
    [] OTHER -> {}
AnalyzeFor(c, path, a) ==
  Then(Analyze(c, Append(path, 1), a.x), LAMBDA d :
    AnalyzeAll(Analyze(Result(d, Iterated(d.value)), Append(path, 5), a.var), path, List(2, a.body) \o MaybeSuite(4, a.orelse)))
AnalyzeWhile(c, path, a) ==
  AnalyzeAll(Analyze(c, Append(path, 1), a.check), path, List(2, a.body) \o MaybeSuite(4, a.orelse))

\* An except clause that names no type takes the value left over for its type.
Caught(v) ==
  CASE v.t = "Class" -> {v.n}
    [] v.t = "Tuple" /\ v.known -> IF \A i \in DOMAIN v.items : v.items[i].t = "Class" THEN {v.items[i].n : i \in DOMAIN v.items} ELSE {}
    [] OTHER -> {}
Handler(d, path, a, classes) ==
  IF Cardinality(classes) # 1 THEN Fail(d)
  ELSE AnalyzeAll(IF a.name = "" THEN d ELSE RecordAssignment(d, a.name, Instance(CHOOSE n \in classes : TRUE)), path, List(2, a.body))
AnalyzeExcept(c, path, a) ==
  Then(AnalyzeAll(c, path, Maybe(1, a.types)), LAMBDA d :
    Handler([d EXCEPT !.catches = (path :> Caught(d.value)) @@ @], path, a, Caught(d.value)))

WithItem(d, name) == IF name = "" THEN d ELSE RecordAssignment(d, name, d.value)
AnalyzeWith(c, path, a) ==
  AnalyzeAll(FoldLeft(LAMBDA d, i : Then(Analyze(d, Append(path, Nth(1, i)), a.items[i][1]), LAMBDA e : WithItem(e, a.items[i][2])),
                      c, [i \in DOMAIN a.items |-> i]), path, List(2, a.body))

\* The name has to be there already, and in the module it comes from.
ImportInto(c, name, v) ==
  IF c.fn # 0
  THEN IF name \in DOMAIN c.functions[c.fn].locals THEN [c EXCEPT !.functions[c.fn].locals[name] = v] ELSE Fail(c)
  ELSE IF name \in DOMAIN c.globals THEN [c EXCEPT !.globals[name] = v] ELSE Fail(c)
ImportFrom(c, module, names) ==
  FoldLeft(LAMBDA d, n : IF Dotted(n[1]) \in ImportedNames(module)
                         THEN ImportInto(d, Dotted(n[2]), ModuleValue(module, Dotted(n[1]))) ELSE Fail(d), c, names)
AnalyzeImport(c, a) ==
  IF a.star THEN Fail(c)
  ELSE IF a.names = {} THEN c ELSE ImportFrom(c, Dotted((CHOOSE m \in a.modules : TRUE)[1]), InOrder(c, a.names))

AnalyzeReturn(c, path, a) ==
  IF c.fn = 0 THEN Fail(c)
  ELSE IF a.x = <<>> THEN [AddReturn(c, Unknown("None")) EXCEPT !.value = c.value]
  ELSE IF c.functions[c.fn].class = c.fn THEN Fail(c)
  ELSE Then(Analyze(c, Append(path, 1), a.x[1]), LAMBDA d : AddReturn(d, d.value))

(***************************************************************************)
(* Definitions                                                             *)
(***************************************************************************)
\* The name of a function is assigned before its body is visited, so that it can
\* call itself.  A method that a class inherits is replaced.
ReplaceMethod(c, id, i) ==
  IF c.classes[c.cls].attributes[i].value.t = "Function" /\ c.classes[c.cls].attributes[i].value.known
  THEN [c EXCEPT !.classes[c.cls].attributes[i].value.n = id] ELSE Fail(c)
NameFunction(c, id, name) ==
  IF c.cls # 0 /\ c.fn = 0 /\ \E x \in Range(c.classes[c.cls].attributes) : x.name = name /\ x.value.t # "Indeterminate"
  THEN ReplaceMethod(c, id, IndexOf(c.classes[c.cls], name))
  ELSE RecordAssignment(c, name, Number("Function", id))

\* The type of an argument: that of self, of its default value, of its annotation.
PutType(c, name, v) ==
  IF name \in DOMAIN c.functions[c.fn].locals THEN [c EXCEPT !.functions[c.fn].locals[name] = v] ELSE Fail(c)
DefaultArgument(d, arg) ==
  IF arg.type # <<>> /\ ~\E t \in TypeForAnnotation(d, arg.type[1]) : TypesEqual(t, d.value) THEN Fail(d)
  ELSE PutType(AddDefault(d, arg.name), arg.name, TypeOnly(d.value))
AnnotatedArgument(c, arg, types) ==
  IF types = {} THEN Fail(c) ELSE PutType(AddArgument(c, arg.name, Indeterminate), arg.name, CHOOSE t \in types : TRUE)
SelfArgument(c, arg) ==
  IF arg.default # <<>> \/ arg.type # <<>> \/ arg.name # "self" THEN Fail(c)
  ELSE PutType(AddArgument(c, arg.name, Indeterminate), arg.name, Instance(c.cls))
DefinitionArgument(c, path, i, arg) ==
  CASE i = 1 /\ c.cls # 0 -> SelfArgument(c, arg)
    [] ~(i = 1 /\ c.cls # 0) /\ arg.default # <<>> -> Then(Default(c, path, i, arg), LAMBDA d : DefaultArgument(d, arg))
    [] ~(i = 1 /\ c.cls # 0) /\ arg.default = <<>> ->
         IF arg.type # <<>> THEN AnnotatedArgument(c, arg, TypeForAnnotation(c, arg.type[1])) ELSE AddArgument(c, arg.name, Indeterminate)

\* At its end a constructor returns its instance, and a function that returns
\* None and nothing else, nothing.
Agrees(c, type, returns) ==
  type = <<>> \/ \E t \in TypeForAnnotation(c, type[1]) : \A v \in returns : v.t = "Indeterminate" \/ Matches(t, v)
OnlyNone(returns) == Cardinality(returns) = 1 /\ \A v \in returns : v.t = "None"
EndConstructor(c) == FailIf([c EXCEPT !.functions[c.fn].returns = {Instance(c.fn)}], c.functions[c.fn].returns # {})
Annotation(c, type) == IF type = <<>> \/ TypeForAnnotation(c, type[1]) = {} THEN Indeterminate ELSE CHOOSE t \in TypeForAnnotation(c, type[1]) : TRUE
EndFunction(c, a) ==
  FailIf([c EXCEPT !.functions[c.fn].returns = IF OnlyNone(@) THEN {} ELSE @, !.functions[c.fn].annotated = Annotation(c, a.type)],
         ~Agrees(c, a.type, c.functions[c.fn].returns))
EndDefinition(c, a) == IF c.functions[c.fn].class = c.fn THEN EndConstructor(c) ELSE EndFunction(c, a)

BeginDefinition(c, path, a) == [FailIf(NameFunction(c, c.ids[path], a.name), a.decorators # <<>>) EXCEPT !.fn = c.ids[path]]
DefinitionArguments(c, path, args) ==
  FoldLeft(LAMBDA d, i : Then(d, LAMBDA e : DefinitionArgument(e, path, i, args[i])), c, [i \in DOMAIN args |-> i])
AnalyzeDefinition(c, path, a) ==
  [Then(AnalyzeAll(DefinitionArguments(BeginDefinition(c, path, a), path, a.args.args), path, List(2, a.body)),
        LAMBDA d : EndDefinition(d, a)) EXCEPT !.fn = c.fn]

\* The attributes of the parent come first.
Inherit(c, id, above) ==
  [c EXCEPT !.classes[id].attributes = above.attributes \o SelectSeq(@, LAMBDA x : ~HasAttribute(above, x.name))]
Parent(d, id) == IF d.value.t = "Class" /\ d.value.n \in DOMAIN d.classes THEN Inherit(d, id, d.classes[d.value.n]) ELSE Fail(d)
BeginClass(c, path, a) ==
  CASE a.decorators # <<>> \/ Len(a.parents) > 1 -> Fail(c)
    [] a.decorators = <<>> /\ a.parents = <<>> -> c
    [] a.decorators = <<>> /\ Len(a.parents) = 1 ->
         Then(Analyze(c, Append(path, Nth(1, 1)), a.parents[1]), LAMBDA d : Parent(d, c.ids[path]))
AnalyzeClass(c, path, a) ==
  Then([AnalyzeAll([BeginClass(c, path, a) EXCEPT !.cls = c.ids[path]], path, List(2, a.body)) EXCEPT !.cls = c.cls],
       LAMBDA d : RecordAssignment(d, a.name, Number("Class", c.ids[path])))

AnalyzeStatement(c, path, a) ==
  CASE a.s = "expr"   -> Analyze(c, Append(path, 1), a.x)
    [] a.s = "assign" -> Analyze(Analyze(c, Append(path, 2), a.x), Append(path, 1), a.target)
    [] a.s \in {"augment", "del", "exec"} -> Fail(c)
    [] a.s \in {"pass", "break", "continue", "global"} -> c
    [] a.s = "import" -> AnalyzeImport(c, a)
    [] a.s = "assert" -> AnalyzeAssert(c, path, a)
    [] a.s = "raise"  -> AnalyzeAll(c, path, Children(a))
    [] a.s = "return" -> AnalyzeReturn(c, path, a)
    [] a.s = "yield"  -> IF a.x = <<>> THEN Fail(c) ELSE Analyze(c, Append(path, 1), a.x[1])
    [] a.s = "if"     -> AnalyzeIf(c, path, a)
    [] a.s = "elif"   -> AnalyzeElif(c, path, a)
    [] a.s = "for"    -> AnalyzeFor(c, path, a)
    [] a.s = "while"  -> AnalyzeWhile(c, path, a)
    [] a.s = "try"    -> AnalyzeAll(c, path, Children(a))
    [] a.s = "except" -> AnalyzeExcept(c, path, a)
    [] a.s = "with"   -> AnalyzeWith(c, path, a)
    [] a.s = "def"    -> AnalyzeDefinition(c, path, a)
    [] a.s = "class"  -> AnalyzeClass(c, path, a)

Analyze(c, path, a) ==
  IF c.error THEN c ELSE IF IsExpression(a) THEN AnalyzeExpression(c, path, a) ELSE AnalyzeStatement(c, path, a)

\* The choices end with the visitor.
AnalyzeModule(c, body, chance, stray) ==
  [AnalyzeAll(AnalysisContext(c, chance, stray), <<>>, List(2, body)) EXCEPT !.chance = 0, !.stray = 0]
=============================================================================
