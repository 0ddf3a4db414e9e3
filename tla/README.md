# A verification project for nemesys / pyjit

The repository is a just-in-time compiler for Python, written in C++ for amd64
(`src/source`, with the assembler `src/libs/libamd64`). This directory holds TLA+
models of the parts of it that are hard to get right and hard to test, TLC
configurations that check them on small instances, and proofs that TLAPS checks
for every instance.

Everything runs on one thread. What is hard here is not parallelism but
*re-entrancy*: the compiler calls itself (a module's compilation meets an import,
a function's compilation meets a call), compiled code calls the compiler, and the
compiler rewrites the code that is waiting for it. State read before such a call
is used after it, and an exception may leave any of the nested calls half-way.

## Inventory

| Component | State it keeps | Operations | Interacts with | Hard behaviour | Correct when |
|---|---|---|---|---|---|
| Module loader (`Compile.cc`, `Main.cc`) | `ModuleContext::phase`, `scopes_in_progress`, global spaces | `advance_module_phase` | called by all three visitors, `main()` and, through them, by running code | re-entrance, cycles, failures half-way | a module is never further than its imports allow; nothing is imported twice; failures have a cause |
| JIT compiler driver (`Compile.cc`, `Compile-Assembly.s`, `Contexts.cc`) | fragments, `unresolved_callsites`, code buffer | `compile_fragment`, `jit_compile_scope`, `_resolve_function_call` | CompilationVisitor, running code | code is replaced while it waits; nested failures | execution goes on exactly where it was; every call reaches code of the right types |
| CompilationVisitor | register masks, stack depth, splits, return types, target register | one `visit` per node type | loader, driver, assembler | splits cut suites off, registers and references on every path | emitted code means what the program means |
| Exceptions (`Exception.cc`, `Exception-Assembly.s`) | r14 chain of blocks, r15 | raise, unwind, finally | all compiled code | jumps out of `try`, nested raises | each block entered once, no reference lost |
| AnnotationVisitor, AnalysisVisitor | names, ids, splits, inferred types and values | one `visit` per node type | loader, Value | order of phases of mutual imports; knowledge that a later assignment takes back | a name is what Python makes it; what is said of a value is so |
| Contexts | functions, classes, modules, constants | lookups, static initialization | everything | type matching | the right fragment is found |
| Dictionary | trie nodes, counts | insert, erase, at, next, clear | keys' callbacks, references | ranges of nodes, failure of allocation | it is a map |
| List, Tuple and Instance | items, capacity, reference map | new, get, set, insert, pop, clear | references | capacity boundaries, ownership | no reference lost or used twice |
| Reference counting | `refcount` | add, delete | destructors | re-entrant destructors | freed exactly once |
| Strings, Format, Value, Operators | none | pure functions | | tables of cases | agree with Python |
| Lexer, parser, AST | indentation stack, token stream | lex, parse, visit | AnnotationVisitor | layout of lines; operators found by searching | the tree of the text, as Python's grammar has it |
| Built-in modules | tables | wrappers of system calls | | | |
| Assembler, code buffer | labels, blocks, free space | append, assemble | driver | jump sizes, block limits | code is where it is said to be |
| Main, Debug | flags, search paths | parse options | loader | | |

`PROJECT.json` lists each with its status, and under `hazards` every place known
to be exposed, with the property that watches it or the reason why none does.

## Modules

| Module | What it is |
|---|---|
| `ImportGraph` | programs as the loader sees them (modules, references, defects), phases, which phase each visitor asks of what it refers to |
| `ImportOrder` | the abstract promise: a module climbs one phase at a time, and only when its imports are ready |
| `ModuleLoader` | `advance_module_phase` with all its re-entrant calls |
| `LoaderInvariant` | the inductive invariant of `ModuleLoader` |
| `MCModuleLoader` | instances: all programs of a given size |
| `ImportOrderProofs`, `ModuleLoaderProofs`, `LoaderInvariantProofs` | the theorems |
| `JitProgram` | programs as the compiler driver sees them: functions and the calls in them |
| `CallSemantics` | the abstract promise: what running such a program means, with no compiler |
| `JitCompiler` | `compile_fragment`, `jit_compile_scope`, fragments, splits, call sites, and the code that runs |
| `JitInvariant`, `JitSound` | the inductive invariants of `JitCompiler`: of every program, and of programs nothing of which is refused |
| `MCJitCompiler` | instances: all programs of a given shape |
| `JitProofs`, `JitInvariantProofs`, `JitSoundProofs` | the lemmas about its operators, and the theorems |
| `Amd64` | operands and instructions, and the arithmetic of a processor with narrow words |
| `Emitter` | the state of `CompilationVisitor` and its helpers: registers, stack, references, exception blocks, frames, variables |
| `CompilationVisitor` | the code that its `visit` methods write |
| `CompiledCode` | that code at work: the processor, the run-time library, the unwinder, the call of the compiler from a stub |
| `PythonSemantics` | reference: what the programs of `CompiledCode` mean in Python |
| `CodeMeaning` | the properties of compiled code |
| `MCCompiledCode` | instances: programs for every operator and every construct |
| `PythonLexer`, `Escapes` | text to tokens; literals and their escape sequences |
| `PythonASTNodes`, `PythonASTVisitor` | the nodes of the tree; the order in which a visitor walks them |
| `PythonParser` | tokens to tree |
| `PythonGrammar` | reference: the text of a tree, by Python's grammar |
| `Format` | the check of formats and their arguments |
| `Value` | what is known of a value, and the operators on that |
| `AnnotationVisitor`, `AnalysisVisitor` | the second and third phase of the compiler |
| `PythonOperators`, `PythonRun` | reference: Python's operators, scopes and runs |
| `FrontEnd` | the three phases in order, and the properties of what they give |
| `MCFrontEnd` | instances: programs made of what the repository's tests contain, and one or more for every other construct |
| `AssociativeArray` | the abstract promise of a dictionary: a map, and its order of iteration |
| `Dictionary` | the trie of `Dictionary.cc` and the references it holds |
| `DictionaryInvariant` | what holds of the trie in every state, and when keys are close |
| `MCDictionary` | instances: small sets of keys |
| `DictionaryProofs` | the lemmas about its operators, and the theorems |
| `ItemSequence` | the abstract promise of a list: a sequence |
| `List` | the array, capacity and references of `List.cc` |
| `ListProofs` | the theorems about `List` |

The compiler is modelled from both ends and in the middle. `FrontEnd` takes a module
from its text to what is known of its values. `CompilationVisitor` and `CompiledCode` take
a typed tree to machine code and run it. Between and around them stand the two drivers,
which abstract from what is in a function but follow the calls of the compiler by itself:
`ModuleLoader` and `JitCompiler`. These meet in two places. A running root scope may call
the run-time compiler, which advances modules: in `ModuleLoader` this is a
reference of place "func" that is met while the root scope runs
(`Split`, `RunRoot`, `Enter`). A call may be refused: in `JitCompiler` this is a
function whose code does not compile, and in `ModuleLoader` an error that comes
back from a reference. Each module abstracts the other to that.

### ModuleLoader and the code

- `phase[m]` is `ModuleContext::phase`; `scopes` holds the modules whose
  `"<name>+ADVANCE"` is in `GlobalContext::scopes_in_progress`; `globals` counts the
  calls of `initialize_global_space_for_module`, `rootRuns` those of a compiled root
  scope; `stack` is the C++ stack, cut down to the activations of
  `advance_module_phase`; `error` is the C++ exception in flight.
- A program is a set of references `[src, dst, kind, place]` and a defect per
  module. Kind "name" is `from x import y`; kind "attr" an attribute of a module.
  Three visitors ask for the module referred to, each one phase ahead of what it
  makes: AnnotationVisitor (names only, Annotated), AnalysisVisitor (Analyzed) and
  CompilationVisitor (Imported): `Requests` and `Needed`. The compiler asks for
  Imported because it "has no way of specifying import dependencies"
  (`CompilationVisitor.cc` 2622).
- `Start` is the call in `main()`. `AlreadyThere`, `Enter` and `RefuseCycle` are the
  three outcomes of the first lines of `advance_module_phase`. `FinishStage` ends
  lexing and parsing, annotation, or analysis with the initialization of the global
  space; `RunRoot` and `FinishRoot` are the last stage. `Split` puts a reference off
  to the run-time compiler. `Fail` is an exception of the module's own code in any
  stage, `Unwind` its way out through an activation. `SwallowEager` is the `catch` in
  `visit(FunctionCall)`, which takes a `compile_error` but not a `parse_error`;
  `HandleInPython` is an `except` clause of the running code that handles the
  `PyJitCompilerError` which `jit_compile_scope` made of the error; `Exit` the end
  of `main()`.
- The order in which a visitor comes to references is left open (`\E e`): it is
  source order, and every order is the source order of some program.
- `caught`, `failed` and `retries` are history variables; `MaxRetries` bounds how
  often running code repeats a call that failed.
- The call at `Compile.cc` 704 asks for Analyzed of a callee's module. The compiler
  reached the callee through an attribute or a name of that module and so had
  advanced it to Imported, or is running its root scope: the call returns at once,
  and it has no step of its own.

### JitCompiler and the code

- `fragments[f]` is `FunctionContext::fragments`, `compiled = 0` the null pointer and
  `splits` the entries of `call_split_offsets` that are not -1. `code` is the code
  buffer: what each call of a body became (`Stub`, `Direct`, `Absent`).
  `callsites` is `unresolved_callsites`, the token being the index. `compiling` is the
  C++ stack cut down to activations of `compile_fragment`, `resolving` the token that
  `jit_compile_scope` works on, `frames` the stack of compiled code, `raising` r15.
- A program gives each function its calls, in order, with the type of the argument
  (or "result": the result of the call before it) and the nested suite the call is
  in, its return type, its annotation, and the argument types for which its code is
  refused. Function 0 is the root scope.
- `VisitDirectCall`, `VisitEagerCall` and `VisitLazyCall` are the three ways in which
  `visit(FunctionCall)` compiles a call; `AfterStub` is what `terminated_by_split`
  does: the innermost suite ends, the statement after it is compiled again, and a
  split in the function's own suite ends the function. `FinishFragment` and
  `FailFragment` are the two ends of `compile_fragment`, for each of its four
  callers. `Resolve` is a stub that is executed, up to the first
  `compile_fragment` of `jit_compile_scope`; `RecompileCaller` the second.
- `CallFragment`, `SkipSuite`, `ReturnFromFragment`, `HandleException` and `LeaveFrame`
  are compiled code at work. A frame carries the types that its values really have,
  whatever they were compiled for.
- `outcome` "null call" and "bad jump" are the two ways in which a step has no
  meaning in C++: a call of address 0, and a jump to `compiled - 1`.

### CompilationVisitor, CompiledCode and the code

- The visitor of `Emitter` is a record that every helper takes and gives back: the masks of
  available registers, `stack` (`stack_bytes_used`, in words), the target registers, the
  type of the last expression and whether the code holds a reference to it, the labels of
  loops, the splits, the return types, and the code written so far. A C++ exception is its
  field `thrown` ("split" is `terminated_by_split`); a helper does nothing while one is in
  flight, and only what the source has in a `catch` looks at it.
- One operator of `CompilationVisitor` stands for one `visit` method; the large
  `visit(BinaryOperation)` is one operator per family of operators. An expression whose
  compiled code looks at types only is given its types by the program, as the analysis
  annotates them.
- The state of `CompiledCode` is a machine: `regs`, `flags`, `stack`, `heap`, `pc`, and the
  `segments` of code, one per compilation of a fragment. An action is a kind of instruction.
  An object is a list of words as the header of its type lays them out (reference count,
  destructor, then count, items or attributes), so `[rdi + 16]` of the source is word 2 of
  the object in the model. Addresses are numbers that carry segment or object and place.
- `Malloc`, `ListNew`, `TupleNew`, `StringFunction`, `FormatTuple`, `GetItem`, `Pow`, `CountUp`,
  `CountDown` and `RaiseFromLibrary` are the C functions that compiled code calls. A call may
  clobber registers, and does (`Clobbered`). `UnwindException` is
  `_unwind_exception_internal`.
- `ResolveCall`, `RefuseScope`, `CompileScope` and `Resume` are what the stub of a call
  without fragment does: the compiler compiles the callee, then the caller again (whose code
  now calls it), and execution goes on behind the split in the new code, with the stack as
  it was.
- Each operation that reads memory checks that the word is there and that the object
  lives; `status` "fault" says that it is not.

### FrontEnd and the code

- `ParseModule`, `AnnotatePhase` and `AnalyzePhase` are the first three phases of
  `advance_module_phase`. A function of the source that may throw gives a set with its
  result, or the empty set when it throws.
- A text is a sequence of characters in which the characters of a name are one element.
  The lexer's loop is a fold over the text with the indentation stack in its state; tokens
  are found in the order in which the source tries them. Reading behind the end of the
  text, which the source does in a comment on the last line with no line end, and behind
  the end of the tokens are outcomes without a result.
- The parser's functions take the place they start from and the place they must end at,
  as `parse_expression(end_offset)` does, and search operators from the lowest precedence
  to the highest, each with the same exceptions as in the source.
- Contexts: `functions` and `classes` are the maps of `GlobalContext` by identity, `ids`,
  `split`, `always`, `callee`, `index` and `itemtypes` the annotations that the visitors
  write into the nodes, named by the path of a node in the tree.
- A value of `Value` has a type and, when known, its content, as `Value.hh` has. Items of
  lists and tuples are shared between copies through `shared_ptr`; `cell` names them.
- Sets and dictionaries of the source are hash tables: `Chances` are orders in which their
  elements may come, those of keyword arguments and of imported names included.
- Copying or moving a class that is not known leaves its identity behind
  (`Value::operator=`), so what the copy has for one was in memory before: `Strays` are
  the identities that it may then be. In the instance a name that stands for two classes
  is read only for an attribute that has one type in both.

### Dictionary and the code

- A trie is a function from paths to nodes; the path of a node is what the
  `parent_slot`s on the way to it spell. `sub` are the slots that hold a node,
  `leaf` those that hold an item, `value` the node's own item, `start` and `end` its
  range. `count` and `nodeCount` are the fields of `DictionaryObject`.
- `Insert` is `dictionary_insert` with the creating `traverse`: `WithRoot`, `WithRange`
  (the node that must be replaced by a longer one) and `WithPath` (the nodes that are
  missing, the first of which takes over the leaf in its way) are its three parts.
  `InsertFails` is the same call when `malloc` fails in one of them. `Erase` is
  `dictionary_erase`: `Empties` is the loop that prunes, `Without` what it leaves,
  `DropRoot` and `KeepRoot` its end. `HasChildren` gives the *set* of answers that
  `has_children` may give, as it reads flags that are not there.
- `Find` is `dictionary_at` and `dictionary_exists`, `NextItem` and `FirstItem`
  `dictionary_next_item`. They change nothing, so they are operators, compared in each
  state with what the promise says of that state.
- `held[o]` are the references that callers own.
- `Text` says which characters a key object has, as `key_length` and `key_char` give
  them; two objects may have the same.

### List and the code

- `items` has as many slots as are allocated, `capacity` is the field, which is not
  always the same. `New` is a list literal, `Insert` is `list_insert` and
  `list_append`, `PopShrinking` and `PopInPlace` are the two branches of `list_pop`,
  `Clear` is `list_clear`, `Delete` the last reference to the list.
- A write outside of the array sets `corrupt`; what the program does after that, or
  after an object was destroyed that is still used, means nothing: `Defined` ends the
  behaviour there. `doubled` is a history variable: how often `pop` returned a
  reference to an item that it left in the list.

## Runs

| Run | Question | Instance |
|---|---|---|
| `loader_eager` | Is the loader safe, and does it keep the order of imports? | 3 source modules, all programs with up to 3 references and up to 1 defective module, 1 retry, eager compilation: 1.5 million states |
| `loader_lazy` | The same with `-XNoEagerCompilation`: is the inductive invariant one? Does every import come to an end, and a sound program to its proper end? | 2 source modules and a built-in one, up to 3 references, up to 1 defective module |
| `loader_cyclic` | Does the message "cyclic import dependency" mean a cycle? **Violated** | 3 modules, up to 2 references |
| `jit_calls` | Do calls go to code that exists, of the types the caller was compiled for? Does every stub lead home, is resumption right, does the program do what it means, to its end, and do failures of nested compilations leave nothing behind? | 3 functions, root with up to 2 calls, eager and lazy, annotated and not (lazily only where a function is compiled to its end); or one function refused for some or all types |
| `jit_recursion` | Does a fragment that exists have code? **Violated** | a function that calls itself; two calls of a function that does not compile |
| `code_sound` | Does compiled code do what Python says, with the stack where the visitor thinks it is, exception blocks linked as they should be, no freed object used and no reference lost? | 55 programs: every operator on every pair of types it takes; truth of every type; lists, tuples, strings, formats, loops, instances, methods, calls with more arguments than registers, floats, defaults, keyword arguments, exceptions and a function that does not compile, most with and without fragments at the start, and with reference counting inline and called |
| `code_raise_in_loop` | Is a loop whose inner loop an exception left still right? **Violated** | two nested loops |
| `code_not_taken` | Is an exception that no clause takes raised again? **Violated** | one `try` |
| `front_end` | Is a text read as Python's grammar reads it? Are scopes Python's, identities and splits unique? Is what the analysis claims of values, branches and callees so when Python runs the program? | 10 modules made of what the tests contain, each in every layout; every construct of the language; every operator on values known and on types only |
| `front_stale_branch` | Is a branch that is decided at compile time decided right? **Violated** | a loop that changes its own condition |
| `dict_trie` | Is the trie a map, and iterated in order, when nodes are extended, split, merged and pruned, and allocations fail? Does it own exactly one reference per item? | 7 key objects (the empty one, prefixes of each other, a fork, the ends of a range of four, two equal ones), 2 values, 1 failure |
| `list_any` | Does a list do what a sequence does, with its references in balance? | 2 objects, literals and positions up to 3, each held at most twice |

Why the bounds are enough. Every rule of the loader speaks of one activation, the
one below it, and a module that both refer to: three modules give chains, diamonds,
cycles of length one, two and three, and a cycle beside the path from `__main__`;
three references are enough for a failure that is excused and a second way to
the failed module. Larger programs are what the theorems are for. In the compiler
driver three functions give a caller, its callee and a callee of that, which is what
nested eager compilation and a failure in the middle of it need; two calls of the root
scope give a split before and behind another, in the same suite or not. What the visitor
writes for a node depends on the node, on types and on which registers are reserved
around it: the programs of `code_sound` have every node, all types it tells apart, and
nesting deep enough for registers to run out into pushed words (an operator in an argument
of a call in an operator). The numbers in them are small, so that no operation of the
narrow words overflows that would not overflow in 64 bits. In `front_end` precedence is a
relation between two neighbouring operators and layout one between two lines, so
programs that have each pair in each layout are enough; `MaxSteps` bounds how far a
program is run, beyond the longest of those that end. In the trie
seven keys are enough for each node to be a root, an inner node with and without an
item, and a node that is merged into its parent, and for ranges that grow at both
ends; `has_children` reads all there is up to four characters (one byte of flags) and
goes wrong at five. A list of three has a first, a last and a middle item, can be full,
half full and less, and is proved about for all lengths.

The five violations are disagreements between the code and what its comments or its
design notes say; each is explained under `findings` in `PROJECT.json`. The passing runs
leave out what those runs show, and what is listed below:

- `jit_calls`: recursion and repeated failing calls, by the shape of the programs (a
  function calls higher-numbered ones only; with a refused function each is called from
  one place), and, when compilation is lazy, unannotated functions that a split ends before
  they return; those that are compiled to their end (`ReachesReturn`) are in. With the ones left
  out TLC finds `ResumesAtSplit` violated.
- `CyclicIsExplained` says what does hold of the "cyclic" message.
- `code_sound`: exceptions that leave a loop which is in a loop, exceptions that no clause
  of a `try` without `finally` takes, and jumps out of a `try`. `ReferencesExact` asks for
  equality only while nothing was raised: what an exception leaves behind is lost, never
  the other way round. An item of a list of floats is used only as the second argument in an
  integer register, where it is right (`FloatItemProgram`). An operator on a string held as a
  temporary and one that is not is in the programs; one on two temporaries of different kinds
  is not (see the cleanup below).
- `ParsesAsWritten` speaks of programs that `Reads`: it names each construct that this
  parser does not read as Python does.
- `ScopesAsInPython` counts a comprehension's variable with the block around it, and the
  name of a `with` statement to none, as this compiler does.
- `AnalysisSound` speaks of programs in which a variable is assigned at one place
  (`AssignedOnce`) or that have no loop and no function (`StraightLine`), whose functions
  end with a `return` or have none (`EndsWithReturn`) and stand before their calls
  (`DefinedBefore`). Outside of these what the analysis claims need not hold, as
  `front_stale_branch` shows for the first.
- `SplitsDistinct` and `IdsUnique` speak of the nodes that the annotation visits: it visits
  neither keyword arguments nor default values.
- `dict_trie` keeps to nodes of at most four characters and to callers that own what they
  delete; an iteration's key object stays alive between two steps.
- `list_any` states what the two branches of `list_pop` and the missing growth of
  `list_insert` leave true, up to the first undefined step of a behaviour, that step
  included.

### Other disagreements

Noticed while modelling, with no run of their own.

*Driver.* A run-time compilation that fails leaves its fragment in the table with no code,
so a second call of the same function goes to address 0 (`Compile.cc` 735): these programs
(`RepeatedPrograms`) are among those of `jit_recursion`, and alone violate `NoNullCall` as well. The
recompiled caller need not have the split that is looked for, and the check for that
compares an unsigned number with -1 (`Compile.cc` 770). `Compile-Assembly.s` 65 says that a
failing `jit_compile_scope` releases the argument references, `Compile.cc` 595 that it
does not. A call in a keyword argument gets no split, as the annotation does not visit it.
The comment "allow subclasses to match with their parent classes" (`Contexts.cc` 677) stands
over a test that goes the other way.

*Compiled code.* The cleanup of a binary operator (`CompilationVisitor.cc` 1418 to 1450) deletes
the left operand at the place of the right one and the other way round. A pushed `rax` or
`rdx` around a division shifts the operands that are read relative to `rsp`, and so do
registers that a call of a C function saves. A division by a negative number runs with
`rdx` zero. A shift whose target is `rcx` loses its value. A comparison of floats gives -1
where a Bool is 1; an Int and a Bool give a Bool. `raise` goes on with a reference it gave
away, an index keeps its collection (a TODO), a condition of type string or list keeps its
reference on the false path. While a list is indexed the visitor's `target_register` is `rsi`; the
item goes to the register that was asked for, but a float is moved on from `rsi` (2432, 2466,
2498): `x = l[0]` of a list of floats gets whatever the library left there, unless `rsi` was
asked for. With such a program TLC finds `MeansWhatPythonMeans` violated. List and tuple literals and calls that end in a split leave registers
reserved, so a compile error follows where code was to be resumed. A split in the `else` of a
`try` ends the statement without its handlers. `break`, `continue` and `return` leave a `try`
with its block linked; `return` in a `for` leaves two words on the stack; an exception in
an `except` clause skips `finally`. Compiled code takes the result of `dictionary_at` for a
reference of its own (2488), which it is not. `Strings.hh` declares `bytes_contains` and
`unicode_contains` with the needle first.

*Front end.* Statements that begin with a number, a sign, `[`, `{`, `not` or `lambda` are
refused; a string alone is skipped wherever it stands. `a + -b` is an error and `2**3**2`
groups to the left, as does a conditional expression in the `else` of another; a parenthesized
expression is a tuple; `x[::]` and `*args` in a call are errors; in `if x: a; b` the second
statement is outside of the suite; lines with a comment only count for the indentation; a
comment that ends with a backslash goes on in the next line. `global x` does not make `x` a
variable of the module; a class attribute declared twice is an error; `from m import *` at
module level always fails; `return` with no value in a function and `yield` with none follow a null
pointer. The design notes say that the set of a class's attributes is final after the
annotation; the analysis adds those of the parent. A call of a function that is analyzed later, or that
calls itself, is taken to give None. A function may fall off its end without that being
counted. Integer division and remainder are those of C++, and a division by zero of known
integers ends the compiler. `None == None` throws; `x in s` for a set of unknown content is
taken for false; values that are lists or tuples are compared by the pointers to their items
(`Value.cc` 759), so `(1,) in {(1,)}` is false and a variable that is given the same tuple twice is not known; the intersection of known sets steps over elements, and beyond the end.
`for a, b in ...` is always refused, `%.2f` too. Unpacking a known list moves its items out of
all copies. A clause `except:` takes whatever was evaluated last for its type.

*Containers.* `has_children` sees one of four flag bytes (`Dictionary.cc` 445), so with nodes for
five characters a node that has children is freed. `list_pop` of a list at most half
full gives away the reference to an item that it leaves in the list (`List.cc` 175).
`list_insert` writes an item behind the array of a full list, as `count <= capacity`
(`List.cc` 118) is always true (`NeverGrows` says so, and `Insert` sets `corrupt`), and through a
null pointer after `list_clear`, which keeps `capacity`. `tuple_set_item` adds a reference to a
value that it says it was lent.

### Fairness

The two specifications with liveness properties (`ModuleLoader`, `JitCompiler`) assume `WF_vars` of the whole step relation and nothing more: one
thread runs the compiler and the compiled code and never stops between two steps. No
fairness is assumed of a choice. Running code always moves forward in its body
(loops are `SkipSuite` and do not go back), so the liveness properties say that the
*compiler* ends, not that Python programs do.

### Mutants

Each property is shown to bite: next to the operator that it watches stands a
plausible wrong version of it (`LeaveNameBehind`, `InProgressUntilAnalyzed`,
`FurtherThanNeeded`, `NoPromotion`; `OldCode`, `AfterCallNoSplit`, `StartAgainIn`;
`PopUncounted`, `RemoveUnlinked`, `DeleteNothing`, `AddNothing`, `RemoveLeft`; `SameId`,
`SplitBefore`, `RecordWriteHere`, `BothBranches`, `MergeKept`; `ItemLost`, `FindOnTheWay`;
`ReleasedOnce`, ...), used by no definition, with which the same run finds the property
violated.

## Proofs

The theorems about the loader hold for every set of modules, every set of programs,
both values of `Eager` and every bound on retries, from `ModulesAssumption` (`__main__`
is a source module and programs are well-formed) and `LoaderAssumption`; those about
the compiler driver for all functions, types and programs, compiled eagerly or not, from
`ProgramsAssumption` (programs are well-formed) and `NoRecursion`, and some of them from
`Sound` besides; those about lists for all objects and all bounds, from `ListAssumption`; those
about dictionaries for all keys, texts and failures of allocation, from `DictionaryAssumption`, and
the last four of them while nodes are narrow.

1. `ImportOrderProofs`: `OrderTypeCorrect` and `OrderImportsReady`, about the abstract
   specification. `ImportsReady` is inductive there together with the types: a module
   climbs to a phase only when what it refers to is one phase "ahead" for the visitor,
   and phases never go down.
2. `ModuleLoaderProofs`: `TypeCorrect` (the type invariant, inductive as it stands) and
   `ScopesCorrect`. The second rests on four descriptions of what a step does to the
   stack: it replaces the top by an activation for the same module (`Stays`), pushes
   one for a module not in `scopes` (`Pushes`), pops and erases the name (`Returns`), or
   pops and leaves it (`Throws`); `StepShape` shows that every action is one of them.
3. `LoaderInvariantProofs`: `LoaderInv` (module `LoaderInvariant`) is inductive. What
   the safety properties lack by themselves is: that an activation's pending
   references are real (`ReferencesAreReal`), that "running" and "deferred" occur in
   the last stage only (`StagesFit`), that each reference of the present stage is
   still pending or ready (`NothingForgotten`), and that the counters agree with phase
   and stack (`RunsCounted`). The heart is that a nested activation only moves
   *other* modules, by `ScopesAreActivations`, and only upwards, so that what was ready
   stays ready and what was left to do is still left to do. Its second half (`CauseInv`) says
   that the stack is a path of references from `__main__` (`PathOfReferences`), that what an
   activation has before it are references of its own module (`PendingFits`), and that nothing
   fails without a cause (`FailuresHaveCause`): a reference to a module that is being advanced then
   closes a circle, because `Reachable`, the least set closed under references, has all that is
   above it on the stack. From this follow `CyclicIsExplainedHolds` and `CrashHasACauseHolds`, from
   the first half
   `WorkCorrect`, `RootScopeCorrect` and `LoaderImplementsOrder`: the end of a stage is a
   `Climb`, a handled failure an `Excuse`, all else a stutter. `LoaderImportsReady` is
   then the theorem of `ImportOrderProofs` read through the refinement.
4. `JitInvariantProofs`: `JitInv` (module `JitInvariant`) is inductive (`TablesFit`). From it
   follow the type invariant (`TypesCorrect`) and `NothingLeftInProgressHolds`: when no
   compilation runs, no scope is marked as in progress, and while some run, as many are
   as there are activations. Neither is inductive alone. A failed eager compilation removes
   the *last* fragment of its callee: that this is the fragment which failed needs that the
   activations on the C++ stack are of different functions (`StackFits`), each called by the
   one below it; that the removal leaves no stub whose call site names a fragment that is gone
   needs that such stubs are only in the code that was being compiled (`CodeFits`,
   `FragmentsFit`); and that a stub, when it is executed, finds its fragment and the
   position it goes on from needs that frames run code of their function (`FramesFit`).
   `InProgressFits` is the property itself. `NoRecursion`, that functions can be numbered so
   that each calls higher-numbered ones, is what makes the activations different: a function
   that calls itself meets its own fragment, in the table and without code, which is what
   `jit_recursion` shows. Functions whose code is refused, failures at any depth and
   programs compiled lazily are not excluded. `JitProofs` holds the lemmas: what each operator
   (`AfterStub`, `AfterCall`, `PutFragment`, `DropFragment`, ...) leaves as it was.
   The invariant was checked by TLC on the programs of `jit_calls` before.
5. `JitSoundProofs` is about programs of which the compiler has nothing to refuse (`Sound`): no
   function is refused for any types, what functions return has the types they are annotated
   with, which only with eager compilation may be missing, and nested suites are contiguous. `MCJitCompiler`
   assumes, and TLC evaluates, that the sound programs of `jit_calls` are such ones (those
   compiled lazily with functions that need no annotation are model-checked only). For them
   `SoundInv` (module `JitSound`) is inductive (`SoundProgramsFit`). Its parts say: what a visitor
   has made of each call of a body, namely a direct call of the right type, a stub for the call
   itself, or nothing, and the last only behind a stub that cuts it off (`CodeSound`,
   `StackSound`); that whatever cuts off the split of a call site has been compiled by the time
   the site exists (`CallsitesSound`), so that the visitor that is sent for the split *comes to it*
   and puts it into the new code; that fragments have their function's type (`FragmentsSound`); and
   that frames stand at calls that were compiled, the innermost one at the split being resolved
   (`FramesSound`). From it follow `NoNullCallHolds`, `ResumesAtSplitHolds` and
   `TypesHonestHolds`, and, step by step, `ImplementsCallsHolds`: `CallFragment`, `SkipSuite` and
   `ReturnFromFragment` are `Enter`, `SkipSuite` and `Return` of `CallSemantics`, the end of the root
   scope's first compilation is its `Begin`, all else is a stutter, as `CallsOf` does not see in
   which code a frame runs. The parts of `SoundInv` were checked by TLC on those programs before.
6. `ListProofs`: `ListTypeCorrect` and `ListNeverGrows` are inductive together with the
   fact that the array never has more slots than `capacity` says
   (`ArrayWithinCapacity`): so a write that stays in the array leaves `count` at most
   `capacity`, and the branch that doubles it is dead code. `ListRefsBalance` says that
   each object's count is what callers and the list own, but for what `pop` doubled. It
   rests on three lemmas about how often an object occurs in a sequence in which an item
   is replaced, inserted (with a bijection between the places) or in none.
   `ListIsSequence` is the action property `SequenceUnlessSparse` for all lists: the loops of
   `list_insert` and `list_pop` that move slots one by one are `InsertAt` and `RemoveAt` of the
   promised sequence (`InsertedIs`, `RemovedIs`, `ReplacedIs`).
7. `DictionaryProofs` has two invariants (module `DictionaryInvariant`). `DictInv` holds always
   (`DictionaryInductive`). Its first half, `Trie`, is the shape: a path has a node exactly when
   its parent's slot says so, the nodes on the way to a node exist, slots are in their node's
   range, and an item is where its text says (`ItemsEndAt`). Insert keeps it because the node that
   takes over a leaf gets the leaf's text as its path; erase because `Without` takes away a node
   with all that is below it, overlooked or not (`TakenAway`, `MovesUp`), and what is left still
   hangs together (`LeftClosed`).
   Its second half, `Counted`, is a set of inequalities: what is lost that way stays counted, so
   `count`, `nodeCount` and the references are *at least* what there is. From it follow
   `DictionaryTyped`, and `LookupsRight` and `IterationRight`, which need the shape only: `Find`
   goes from slot to slot and meets the one item with that text; the least position behind a key
   is the first one below it or beside it. These hold whatever the keys are, also of a trie that
   has lost items: what is there is found, and comes in order.
   `ExactInv` turns the inequalities into equations and is inductive while `NarrowNodes` holds,
   that is, while the slots of each node fit into the byte that `has_children` reads
   (`HasChildrenNarrow`: it tells the truth then). `CountRight`, `NoneEmpty`, `ReferencesRight`
   and, step by step, `DictionaryIsMap` follow under that hypothesis, and only under it: an
   instance with wide nodes violates `RefsExact`. `NarrowWhenClose` says what guarantees it,
   whatever is inserted and erased: that the characters of all keys are within four of each other
   (`CloseTexts`; a root made for the empty key starts at 1). That is an assumption on the
   keys, which programs need not meet; the theorems say no more than that the overlooked flags
   are the *only* reason why a dictionary may fail to be a map. `MCDictionary` assumes `CloseTexts`, and TLC
   evaluates it, so that the run and the theorems are about the same case. Both invariants were
   checked by TLC before, `ExactInv` on the keys of `dict_trie`, `DictInv` on keys that make
   nodes wide as well.

Only model-checked: liveness (`Termination`, `SoundProgramsRun`, `Ends`) and everything
that speaks of ENABLED, which the prover does not do; what
`JitCompiler` does with programs some of whose functions are refused, but for
`NothingLeftInProgress` and the invariant behind it, which are proved of those too. Compiled code and the
front end work on trees: their operators are recursive, which puts them out of the prover's
reach altogether: the invariants of `CodeMeaning` and of `FrontEnd` are TLC's.

## Not modelled

- In `ModuleLoader` a reference of place "func" belongs to the module whose root scope
  calls the function; after a `parse_error` in a run-time recompilation the name of the
  root scope stays in `scopes_in_progress`, which no module follows. Fragments live in
  vectors that may move while a recursive function is compiled; `JitCompiler` names them
  by position.
- In `CompilationVisitor`: dictionaries (their literals are not compiled, so they occur as
  values of built-in modules only), attributes of modules, imports, `__del__`, and
  classes with a parent. Bytes are compiled as Unicode strings are. Words are narrower than
  64 bits; floats are exact,
  and here and in `FrontEnd` never infinite or not a number.
- In `FrontEnd`: positions of tokens and nodes and the text of messages; single
  precision of float literals; digits above nine of hexadecimal numbers are upper case. Imports
  of other source modules are in `ModuleLoader`, so a module in `FrontEnd` imports finished
  ones. The printing of the tree (`str()` and `print()` of `PythonASTNodes.cc`) is
  used for debugging output only, and of the two functions
  `escape` only the one for bytes is modelled.
- In `Dictionary` and `List` the layout of memory is not modelled, only which accesses leave
  an array. In `CompiledCode` it is, as far as compiled code sees it.
- How instructions become bytes and which jumps are short (`AMD64Assembler.cc`): it repeats the
  processor's manual. Built-in modules: wrappers of system calls without state. phosg: a
  vendored library. Tables of built-in functions and common objects, and the options of the
  command line.

## Plan

Modelled in this order, the most important behaviour first.

1. Module loader, its promise, its proofs. *Done.*
2. JIT compiler driver and its promise. *Done*, with the proofs of its inductive
   invariants and, for programs of which nothing is refused, of the refinement; open are the
   same for programs with refused functions, and the composition with the loader for
   exceptions that are not `compile_error`.
3. Containers: `List` against a sequence and `Dictionary` against an abstract map, with their
   proofs. *Done*; open are failing allocations in `List`.
4. Compiled code: registers, stack, references, exceptions. *Done*; open are dictionaries,
   inheritance and `__del__`, and `match_value_to_type` against a reference definition.
5. Lexer, parser, annotation and analysis against Python's grammar, scopes and
   operators. *Done*; open is what holds of recursive functions and of loops that assign.
6. Label and jump sizing of the assembler, and the blocks of the code buffer.
