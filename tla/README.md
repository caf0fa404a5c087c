# TLA+ models of the Starlark interpreter in Go

This directory holds TLA+ specifications of parts of this repository, the
configurations that check them with TLC, and proofs checked by TLAPS.
`PROJECT.json` is the index: which definition models which lines of source
(`map`), the runs, the mutants that each property is tested against, the
hazards the properties are for, and the theorems.

To check: `tlc -config X.cfg M` for each run below, `tlapm M.tla` for the proofs
(`HashTableProofs`, `BulkOpsProofs`, `InterpProofs`, `FreezeProofs`, `ClassesProofs`,
`LoadCacheProofs`, `ArithmeticProofs`, `AskedProofs`).

## 1. The system

A Starlark program is scanned and parsed (`syntax`), its identifiers are bound
(`resolve`), it is compiled to byte code (`internal/compile`, which also
serializes programs), and executed by the interpreter in `starlark`. A host Go
program creates a `Thread`, calls `ExecFile` or `Call`, supplies built-ins and a
`Load` function, may cancel the thread from other goroutines, and shares the
frozen globals of a module with other threads.

| component | state | operations | hard because of |
|---|---|---|---|
| hash table (`starlark/hashtable.go`) | buckets in chains, doubly-linked list of entries in insertion order, `itercount`, `frozen` | insert (with grow), delete, lookup, clear, freeze, iterate/Next/Done, entries | two views of the same entries (chains, list) under long sequences of calls; grow reenters insert and ignores its result; updates against iterators |
| bulk operations on dicts and sets (`value.go`, `library.go`, `interp.go`) | a table under construction, an iterator over the other operand | union, update, set algebra, subset tests | insertion and deletion can fail half-way; several callers discard the error |
| threads and interpreter (`eval.go`, `interp.go`) | `Thread.stack`, `Steps`, `maxSteps`, `cancelReason`; per frame: pc, operand stack, `iterstack` | Call, CallInternal, Cancel, Uncancel, SetMaxExecutionSteps, one case per opcode | errors, panics and cancellations unwind through interleaved Starlark and Go frames and must release iterators; other goroutines write `cancelReason` |
| freezing (`Freeze` methods) | a flag in lists, dicts, sets, structs, classes, instances; none in tuples, functions, cells, bound methods | `StringDict.Freeze` on the globals after a file is executed | cyclic graphs; what is published to other threads but not visited |
| classes (`class.go`, `classbuiltins.go`, `syntax/classes.go`) | classes, method resolution order, instances, the thread-local super context | make_class, call, attribute lookup, bind, super | dynamic scoping of the super context, linearization of multiple inheritance |
| argument binding (`eval.go` setArgs, `unpack.go`) | locals of a frame | bind positional, keyword, default, `*args`, `**kwargs` | many combinations |
| values (`value.go`, `eval.go`, `int*.go`) | immutable, lists | compare, hash, index, slice, binary operations | index arithmetic at boundaries, comparison depth |
| built-in methods (`library.go`) | the receiver | list, dict, set, string methods | mutation while iterating, index clamping |
| load caches (`repl/repl.go`, the example in `starlark/example_test.go`) | module table, waits-for graph | Load | load cycles, several goroutines waiting for one another |
| profiler (`profile.go`) | channel of events, per-thread accumulated time | Start, Stop, begin/end of a span | calls from all threads while it starts and stops |
| scanner and parser (`syntax`) | position, indentation stack, nesting depth | nextToken, parse | indentation against bracket depth |
| resolver (`resolve`) | scopes, uses, free variables | bind, use, function, ... | cells shared by nested functions, uses before bindings |
| compiler (`internal/compile`) | blocks, instructions, line table | compile statements and expressions, linearize, encode, decode | jump sizes, saturating delta encoding |
| JSON, time, math, proto, struct libraries (`lib`, `starlarkstruct`) | none or a value | conversions | nesting, cycles |
| REPL and command (`repl`, `cmd/starlark`) | the globals | read, evaluate, print | interrupts |

Interaction: the compiler's output drives `CallInternal`; `CallInternal` calls
Go callables through `Call`, which may call back into Starlark; lists and tables
are shared by all frames of a thread and, once frozen, by all threads; iterators
connect the interpreter's iterator stack with the `itercount` of collections.

What makes each part correct is stated by the properties below.

## 2. The modules

There are state machines of one component each (`HashTable`, `Interp`, `Freeze`,
`Classes`, `LoadCache`); the operations on data that programs reach, composed by
`Library`; and the way of a program from its source to its result, in which every
stage is a module and `Toolchain` composes them.

| module | models | uses |
|---|---|---|
| `StarlarkKeys` | hashing and equality of keys (`Value.Hash`, `Equal`, the comparison depth limit) | |
| `OrderedMap` | the abstract specification of a dict or set | StarlarkKeys |
| `HashTable` | `starlark/hashtable.go` | StarlarkKeys, instance of OrderedMap |
| `HashTableProofs` | theorems about HashTable, and that it implements OrderedMap | HashTable, TLAPS |
| `BulkOps` | operations that build a dict or set from others | StarlarkKeys |
| `BulkOpsProofs` | theorems about BulkOps | BulkOps, TLAPS |
| `Slicing` | `range`, slices, indices, the methods of lists | |
| `Ordering` | comparison of values, `sorted`, `min`, `max` | Asked |
| `Numbers` | the two representations of integers and their arithmetic | Asked |
| `Asked` | the variable that holds what is asked of a function | |
| `Unpacking` | `UnpackArgs`, `UnpackPositionalArgs` | Asked |
| `ArithmeticProofs` | theorems about Slicing and Numbers | Slicing, Numbers, TLAPS |
| `AskedProofs` | theorems about Unpacking and Ordering | Unpacking, Ordering, TLAPS |
| `Json` | `json.encode`, `json.decode` | Ordering |
| `Library` | the six above as operations a program reaches | all six |
| `Interp` | threads, call stack, instruction loop, iterator stack, profiling spans | |
| `InterpProofs` | theorems about Interp | Interp, TLAPS |
| `Freeze` | the object graph and the Freeze methods | |
| `FreezeProofs` | theorems about Freeze | Freeze, TLAPS |
| `Classes` | creation of classes, method resolution, binding, `super` | |
| `ClassesProofs` | theorems about Classes | Classes, TLAPS |
| `LoadCache` | the concurrent module cache of `starlark/example_test.go` and the sequential one of `repl/repl.go` | |
| `LoadCacheProofs` | theorems about LoadCache | LoadCache, TLAPS |
| `Syntax` | tokens, syntax trees, `Walk` | Folding |
| `Scanner`, `Parser`, `Desugar` | `syntax/scan.go`, `parse.go`, `classes.go` | Syntax |
| `Resolver` | `resolve/resolve.go`, `binding.go` | Syntax |
| `CodeGen`, `LineTable` | `internal/compile/compile.go` | Syntax, Folding |
| `Serial` | `internal/compile/serial.go` | Folding |
| `Machine` | the instructions (`starlark/interp.go`) for compiled programs | LineTable, Values |
| `Values`, `Arguments` | values as far as control tells them apart; `setArgs` | Folding |
| `Source`, `Rules`, `Meaning` | the references: how programs are written, which are legal, what they do | Syntax, Values |
| `Toolchain` | `ExecFileOptions`: all stages in turn | the instances of all of these |
| `Folding` | folds of long sequences | |
| `MCHashTable`, `MCLibrary`, `MCSlicing`, `MCInterp`, `MCToolchain` | constants, and the corpus of programs, for TLC | |

### HashTable

Entries are addressed `<<bucket chain, slot>>`. `ent` maps the slots in use to
`[key, val, next, prev]`: a zeroed entry is simply not in the domain. A chain of
buckets is its number of slots, `cap`. `prev` is the address of the previous
entry, standing for the pointer to its `next` field, and `HeadLink` stands for
`&ht.head`. `init`, `insert`, `delete`, `lookup`, `clear`, `freeze`, `iterate`,
`Next`, `Done` and the range-over-func `entries` are one action each;
`insert` is split by its outcome. `grow` is a loop, so it is a sequence of
`GrowStep`s during which no other operation is enabled (`Idle`), started by
`GrowBegin` and ended by `GrowEnd`, the retried insertion. Growth of the table
(`bucket0` as inline storage of the first bucket) and the string hash functions
are representation only and are left out; `dump` is debugging code.
`order` is a history variable.

The abstract specification `OrderedMap` is a sequence of items with a set of
active iterations. The refinement mapping takes the list order for the items;
during `grow` it is the entries moved so far followed by those still in the old
list, so growing is invisible. An iteration's remaining keys are those of the
list from its entry on. `ImplementsOrderedMap` says every operation has exactly
the effect and result of the map's.

### BulkOps

One behaviour is one operation on two operands; a step is one iteration of its
loop. Tables are item sequences (justified by `ImplementsOrderedMap`) plus the
flag `alloc`, because `delete` of a table never allocated answers without
hashing the key. `InsertErr`, `DeleteErr`, `LookupErr` give what those
operations return, and `lost` records that the code discarded an error.

### Library: Slicing, Ordering, Numbers, Unpacking, Json

`Slicing` is a state machine: a program replaces a sequence (a list, a tuple or a
range) by slices of itself, in any way up to `Calls` times, and updates a list
through its methods. Go's `int` has `IntBits` bits and wraps; what the language
calls an index is half as wide, as `int32` is. Ranges are `[start, stop, step,
len]` computed as the code does, by products and sums without a test.

The other four are functions, and what they are asked is one initial state each
(`Asked.question`). `Ordering` gives `CompareDepth` with its depth limit and its
two kinds of failure, as one function for each depth (`comparison[depth]`), which the
loops over elements (`SliceCompare`, `DictsEqual`) are given for the level below. The keys
of dicts and the elements of sets are scalars there (`NaN` is the rank of the float that
`floatCmp` puts after all other numbers), of which an integer and the float
equal to it are the same key (`AsKey`); equality of deeper keys, and the lookups that fail
on them, are in `StarlarkKeys` and `BulkOps`. `sorted` is the insertion sort that `sort.Stable` is for short
slices, with the comparison that fails counted as "no" and remembered. `Numbers`
computes in machine words of `2 * SmallBits` bits whenever the code does, and takes
`big.Int` to be exact; powers of two and the bit operations are built from binary digits
(`Numeral`). `Unpacking` takes the arguments one by one (`Take`), the positional
ones and then the named ones, for parameters with the marks `?` and `??`. `Json` encodes graphs of objects, in which pointers matter: the slice
`t[:n]` of a tuple has the pointer of `t`.

### Interp

The state of a thread: the stack of frames with their iterator stacks, the mode
of the top frame (where it is in `CallInternal`), the step counter, limit and
cancel reason; and for each collection its iteration count, frozen flag and
contents. The head of the instruction loop is two steps (`Tick`, and `Exec` or
`Cancelled`) because `Cancel` and `Uncancel` come from other goroutines between
the counter's comparison and the load of `cancelReason`. The instruction that is
executed is a free choice: the module over-approximates all compiled programs,
except that `ITERPOP` finds an iterator. A Go callable may iterate, update,
freeze, call back, return, fail or panic, and releases its iterators with a
deferred `Done` as library functions do. Unwinding (`Leave`) is the deferred
functions of `CallInternal` and `Call` in one step: nothing else of the thread
can run between them and other goroutines touch only `cancelReason`. A frame's
`span` is whether the profiler counts time for it: `Call` ends the caller's span
and begins the callee's, as do the returns.

### Freeze

The execution of a file builds any object graph (`Make...`, `Mutate`,
`SetCell`), then `ExecFileOptions` freezes the globals: a depth-first recursion
whose Go call stack is explicit, `elem` being what a Freeze method visits and
`link` what an object refers to without visiting it. Then other threads may
update what they can get hold of, if it is not frozen (`Share`). `list` stands
for every type with a flag and elements, `tuple` for those with elements only.

### Classes

`MakeClass` is `makeClass` with `linearize` and `c3merge` (one `MergeStep` per
iteration). A class has at most one member, `__init__`, which may be a function,
a static or class method or a value that cannot be called; a program may call it
by construction, on an instance, on a class and through either form of `super`,
so it stands for any method. A call pushes the frames that `Call` pushes: a bound
method's and its function's. `boundMethod.CallInternal` pushes a context for the
former and pops it with a deferred call, in `PopCall`, whether the function
returns, fails or panics (`Unwind`). Programs are compiled without the recursion
option: the call of a function that is active is an error. Fields that hide a
member and `isinstance` (a search of the same list) are left out.

### LoadCache

Each thread is one top-level `Load` with its `cycleChecker`; its stack holds the
calls of `get`, each at the point it has reached. A step is the code between two
accesses to what threads share: the critical section on the map, each atomic load
or store of `owner` and `waitsFor`, the close of and the receive from `ready`.
The receive and `setWaitsFor(nil)` are one step: by then the entry has no owner,
and never gets one again, so an edge to it ends a cycle check as no edge does.
The program, `deps`, is any load graph within the bounds: the load statements that the
execution of each module reaches. After the last of them a module ends, or fails by
itself: its file is missing, does not parse or resolve, lacks a name that it loads, or
a statement fails. `fault`, which is `entry.err`, is what the failure of a load began with:
`Cycle`, or the module that failed by itself. In the mode `sequential` the cache is that of the REPL: one client at a time, and an entry that is `nil`
while its module loads.

### Toolchain

A behaviour takes one program of a corpus. Its syntax tree, as somebody means it,
is written as tokens with the parentheses that the grammar asks for (`Source`),
laid out (comments, blank lines, brackets over several lines, suites on one
line), scanned, parsed, lowered, resolved, compiled, saved, loaded, and executed.
The modules of the stages are functions, translations of the recursive code, with
one action of `Toolchain` for each; execution is `Machine`, one action per group
of instructions. A stage's result is part of the state, so each property compares
what two stages say:

* the tree that the parser reads with the one that was written;
* the errors of the resolver (which go through blocks, bindings and uses as the
  code does) with the rules of `doc/spec.md` stated over whole trees (`Rules`), less
  those that `Unenforced` names, which the resolver does not apply;
* the run of the compiled program with an evaluator of syntax trees that knows
  only lexical scope (`Meaning`): the outcome, the calls, loads and stores in their
  order, the global variables, and the line and column that an error is blamed on
  in every active function, the body of a class being a function of its own.

Lowering keeps the positions of what was written. The nodes that it adds stand where
their class, or decorated `def`, stands (`Origin`), so `toolchain` observes the
tracebacks of class bodies, methods and decorated functions. In the name that a load
asks for, a blank stands for whatever an identifier does not have.

What lies outside a program is left open. A value from outside, or the result of
an operation on values, is a term; whether it is true, what iterating over it
gives and whether an operation on it fails are *facts*, chosen when the machine
first asks for them. `Meaning` is evaluated under the same facts: if it asked for
others, or in another order that matters, its events would differ. So each program
is run against every environment within `MaxElems` and `MaxTrue`.

`Scanner` is about layout: indentation, brackets, comments, blank lines, line
continuations. A lexeme is one rune of its input, with the kind and value of its
token. `Serial` keeps strings apart as the code does, and knows them by their
lengths. `LineTable` has the encoder and the decoder of the line table word by word,
and the sizes of operands.

## 3. The runs

| run | shows | bounds |
|---|---|---|
| `table` | the list is in insertion order and agrees with the chains, lookups find every key and only it, insertions during grow cannot fail, an insertion returns, `itercount` is exact whatever iterations, freezes and updates interleave, no iterator points to a dead entry, and the table implements the map | two uses, chosen at the start: five keys of one chain, one of them deep (two slots per bucket: two growths, at 2 and 4 entries, and overflow buckets happen); or two iterations at a time over keys of which two are equal (1 and 1.0) and one is unhashable |
| `library` | unions have the right keys, order and values; set algebra is that of `doc/spec.md`, except that `symmetric_difference` toggles elements which the iterable repeats; errors called impossible are lost in two cases only; slices and list methods agree with `doc/spec.md`; comparison is that of `doc/spec.md`, except for NaN and None, and sorting is stable in both directions; integers are exact and have one representation; built-ins bind the arguments that fit; JSON is read back as it was written | operands of up to three elements; keys shallow, equal, deep, unhashable; sequences of up to three elements, one call each; values nested as deep as the limit; up to four keys to sort; integers of 3 small bits, in and out of range; up to two parameters, three positional and two named arguments; three JSON objects, five tokens |
| `range_step` (violation) | see below | 8-bit `int`s, three slices |
| `interp` | iterator accounting, the step limit, no recursion through any mixture of callables, the stack limit, spans, no update of a collection that is iterated over; a cancelled thread stops | two set-ups: two functions and built-ins without recursion; one recursive function, stack limit 2, a Go callable that calls another, an `OnMaxSteps` callback. Step counter saturating above the limit |
| `interp_leak` (violation) | see below | one collection |
| `freeze` | freezing marks only what the globals lead to; none of that can be changed by another thread; only a cycle of types without flags recurses for ever | all graphs of four objects of eight kinds that one or two globals lead to in some way, one element per object (bound methods have two); a Go stack just deep enough for any path that meets no flag twice |
| `freeze_self_reference` (violation) | see below | two objects |
| `load_cache` | one goroutine executes each module; a successful load is closed under what the module needs and outside every cycle; a client alone, and any client of the REPL's cache, is told of a cycle if it met one, of the module that failed by itself if it met that, and of nothing else; an acyclic load returns | two clients; any module may fail by itself; the modules, load statements and their total as in `LoadCache.cfg` allow diamonds and cycles of every length the modules have |
| `classes` | linearizations are right and refused only when none exists; the context stack matches the call stack after every return, error and panic; cooperating methods reach the next class of the receiver | all hierarchies of four classes with two bases (four are needed for a diamond), one instance, three functions active, one member that is not a function; programs of four classes call only if they are all related |
| `classes_super` (violation) | see below | two classes |
| `toolchain` | what is parsed is what was written; exactly the programs that break a rule that the resolver applies are rejected; operand stacks stay within the computed size; the program does what the source means; an error is blamed on the position it was written at; saving and loading changes nothing | the corpus of `MCToolchain`, by themes: every operator under every other, every expression in every place, branches and loops and what leaves them, assignments, code whose jumps take two bytes, closures, calls, sums, classes and decorators (that succeed and that fail, close together and spread out), calls at and over the limit of arguments, loads of every kind of name, and the rules, under three sets of options. Iterables of up to two elements, conditions true up to three times |
| `toolchain_decorators` (violation) | see below | two programs |

The bounds of the tables scale the bucket size (8) and load factor (6.5) down to
2 and 1.625: the ratio is kept, so when growth happens relative to chain length
is kept. `TableAssumption` states what the code's numbers satisfy and is all the
proofs use.

`Numbers` and `Slicing` scale the widths of integers in the same way and keep
their ratio (a small integer or an index is half a machine word). `toolchain` scales
the limits of 255 positional and 255 named arguments of a call to 3 (`ArgLimit`). In its
corpus, a program is as long as its theme asks for: a jump over 128 bytes
and line differences that saturate happen in `Long` and `Spread`.

Fairness: in `table`, once `insert` has called `grow` its steps run to the end,
being sequential code. In `interp` the goroutine of the thread is scheduled (weak
fairness of its steps) and built-ins return (weak fairness of `GoLeave`); nothing
is assumed of the goroutines that cancel. A built-in that never returns is not
stopped by `Cancel` in the code either. In `load_cache` every goroutine that can
take a step is scheduled, as the Go runtime does; no fairness is assumed of
clients that have not called `Load` yet. `library`, `freeze`, `classes` and
`toolchain` state safety only: their programs may end anywhere.

### Findings

* `interp_leak`: `UNPACK` with too many values leaves its iterator undone
  (`starlark/interp.go:516`): the iterator is a local variable, not on
  `iterstack`. A list unpacked into too few variables stays un-updatable for a
  host that keeps it after the error.
* `freeze_self_reference`: a nested function that refers to itself makes
  `Function.Freeze` and `cell.Freeze` call each other without end, where
  `value.go` asks implementations to be defensive against cycles.
* `classes_super`: contexts are pushed by bound methods only. `A.f(self)` called
  in `B.f` runs with the context of `B.f`, so `super()` in `A.f` finds `A.f` again,
  where `class.go:242` says the context is the executing method's.
* `toolchain_decorators`: a decorated `def` at the top level becomes a `def` and an
  assignment to the same name, which the resolver rejects unless `GlobalReassign`
  is set, where `syntax/options.go` and `PATCHES.md` ask for `Classes` alone.
* `range_step`: `range(10)[::-2147483648]`, sliced so twice more, has a step that is
  zero modulo 2^64 (`library.go:893`), and `rangeLen` panics, whose comment says that
  the caller ensures the step is not zero.

Also met while modelling, and reflected in how the properties above are stated:

* `DiscardedOnlyIf`: `Dict.Union` and `|=` ignore a failed insertion ("can't fail"),
  which happens when both dicts hold an equal key nested deeper than
  `CompareLimit`; the rest of the right operand is dropped silently.
  `SymmetricDifference` ignores the failed insertion of an unhashable element
  into a set never allocated.
* `AlgebraExact`: `symmetric_difference` with an iterable that repeats an element
  toggles it at each occurrence, so `set([4]).symmetric_difference([4, 4])` is
  `set([4])` and `set().symmetric_difference([4, 4])` is empty, against
  `doc/spec.md:3757`. `SymmetricExact` is the document's statement, for iterables without
  repetitions; `RepeatsToggle` says what the code does with them.
* `AcyclicReturns` is for acyclic load graphs. If `a` loads `b` and `b` loads `a`,
  and two clients load one each, both can find no cycle before either has set
  `waitsFor`, and then wait for each other for ever: `cycleCheck` and
  `setWaitsFor` (`starlark/example_test.go:243-247`) are not one atomic step.
* `AloneExact` is for one client, or the REPL's cache. `cycleCheck` reads the waits-for graph an edge
  at a time. Let `c` load `a` and then `b`, and `b` load `a`. A client loading `b`
  finds that the thread of `c` owns `a`; by the time it reads what that thread
  waits for, `a` is done and the thread waits for `b`. The client takes this for
  a cycle, and fails, though the load graph has none. No property covers what several
  clients are told.
* The computation is stopped when `Steps` reaches the limit
  (`starlark/interp.go:110`), the comment at `starlark/eval.go:77` says exceeds.
* `PublishedImmutable` covers what is reached through elements, fields, closures:
  an instance's class, and a class's bases, are not visited by `Freeze`. A class
  that is not itself a global stays unfrozen behind a published instance, with
  the mutable members it has; with `Reachable` in place of `Visited` TLC finds
  that state.
* `JsonExact`: `json.encode` reports a cycle where there is none if a tuple contains
  a prefix of itself: with `L = []`, `t = (1, L)` and `L.append(t[:1])`, the slice has
  the pointer of `t`, which is on the path (`lib/json/json.go:121`).
* `OrderExact`: a NaN is equal to itself and greater than every other number, and a list
  that holds one is equal to itself, against `doc/spec.md:466-471` and `1853-1856` and the comment
  at `starlark/value.go:1027`; and None is not ordered, against `doc/spec.md:1844`.
  `ComparedAsSpecified` is the document's statement, for values without a NaN;
  `ComparedOtherwise` says what the code does with the rest.
* `OrderExact` has keys of dicts and elements of sets that are scalars: `setsEqual` and
  `dictsEqual` ignore lookup errors, so a set with a key nested deeper than the limit
  differs from itself. Equality is symmetric only where it says yes. `dictsEqual` goes in the
  order of the left operand and stops at the first value that decides, so of
  `{1: [[1]], 2: "a"}` and `{2: 2, 1: [[1]]}`, with values as deep as the limit, one is unequal to
  the other, while the other way round the comparison fails. Sets are ordered by
  inclusion, so `<=` is not total on what contains them.
* `RejectsExactly` excepts three rules (`Unenforced`). A load may bind the name of
  an earlier global, as in `x = 1; load("m", "x")`, against `doc/spec.md:1149`: `resolve.go:595`
  looks in the file block alone. `x += y` at top level, where nothing else binds `x`, is
  taken for a binding without `GlobalReassign`, against `doc/spec.md:1254`. The name that a
  load asks for need not be an identifier, against `doc/spec.md:2861`. The limit on
  the arguments of a call is the resolver's own.
* `CompiledMeansSource` leaves out programs in which a load binds the name of a global:
  by `doc/spec.md` they are none.
* `DecoratorsAccepted` is about files. The REPL's entry, `ParseCompoundStmt`
  (`syntax/parse.go:82`), does not lower classes at all: a `class` statement in a
  `def` typed there reaches the resolver's `log.Panicf`. And where its comment says
  that it does not consume any following input, `if c: pass` followed by a line that
  is not blank loses that line.

Differences between documents and code that no run shows:

* A slice sets its position before its operands are compiled
  (`internal/compile/compile.go:1341`), which may set others, where the comment at
  998 says to call `setPos` prior to any operation that can fail. (The programs of
  `toolchain` whose positions are spread out have no slices.)
* `serial.go` documents the magic as `sky!` and writes `!sky`; the layout of a
  function in its comment has no doc string.
* `x in range` truncates floats (`2.5 in range(4)` is `True`) and denies members
  beyond `int32`, against `doc/spec.md:3253`; the length of
  `range(-2**63, 2**63 - 1)` overflows.
* `doc/spec.md:1945` multiplies a range and 2317 assigns to an element of one.
* `UnpackArgs` collects its suggestions for a misspelt name from half of the
  parameters (`unpack.go:157`).
* Go callables that call back (`sorted` with a key, classes) do not end their span,
  so the callee's time counts for both, and during a panic the deferred
  `endProfSpan` of each caller ends a span again, where `profile.go:14` says that a
  function's spans are the intervals in which it is the top of the stack.
  `SpansExact` is stated for Starlark functions.

## 4. The proofs

Every theorem is about `Spec` with any values of the constants that the named
assumptions allow (`KeyAssumption`, `TableAssumption`, `BulkAssumption`,
`InterpAssumption`, `FreezeAssumption`, `ClassesAssumption`, `CacheAssumption`,
`SlicingAssumption`, `UnpackingAssumption`, `OrderingAssumption`, `NumbersAssumption`); no other assumption is made, except in
`SlicesAreExact`. Each module of proofs has an inductive invariant (`IInv` in most), proved
from `Init => IInv` and one lemma per action, and its theorems follow from it. In
`AskedProofs` and for `Numbers`, where a behaviour is one question, the invariants are of
the functions' loops.

The library's theorems on induction and on recursive functions have operators as
parameters, which none of the provers can instantiate. Where a proof needs induction
it is by the least element of a set of numbers (`FirstIsLeast`, `SetInduction`), from the
well-foundedness of `<`; a recursive function is shown to exist and to be unique in the
same way, from which its equation follows.

**HashTableProofs**: `TypeCorrect`, `ListCorrect`, `LookupCorrect`,
`GrowNeverFails`, `IterCountCorrect`, `IterPointersCorrect`, for every set of keys,
hash function, bucket size, load factor and number of iterators.
`LookupFinds` is not inductive: during `grow` one has to know that the entries still
in the old table have keys distinct from those already moved, that the old list is
intact although its table was dropped, and that as many entries are moved as the
list had; and that the new table cannot be overloaded, which is where
`2 * LoadNum > BucketSize * LoadDen` and the count enter. Lemmas about placing and
unlinking an entry in a list (`Chain`) and about cardinalities of the sets of
iterators carry the arithmetic.

In its second half, `TableIsOrderedMap`, that is `Spec => ImplementsOrderedMap`: every
step of the table, seen through `AbsItems` and `AbsLeft`, is an operation of
`OrderedMap` or leaves it alone. From `IInv` come the facts that tie a scan to the map:
it stops exactly where the map has the key, and nowhere else; an update means that
no iteration is left. The rest is about sequences: how the items of a list change
when an entry is placed, changed or unlinked, that the step of `grow` moves the first
of the old items to the end of the new ones, and that a cursor's next entry leaves
the tail of the keys.

**BulkOpsProofs**: `UnionIsExact`, `AlgebraIsExact`, `DiscardsAreHarmless`, for operands of
any length over any keys, equal, deep or unhashable. The invariant says of every
operation what the table under construction is after a prefix of the right operand:
a part of the left operand while that is copied (`Copied`), then the operation's result
for the items so far (`Reached`), which for `symmetric_difference` is a parity: how often
each key was toggled. Where no key is repeated (`OccursOnce`) the parity is membership,
which gives the document's statement. `issubset` stops early when as many positions of the left operand
have been found as it has, which decides it because its keys differ: positions and
classes of equal keys are in bijection. `LostOnlyIf` is inductive with the type
invariant, which says that tables never allocated are empty and others hold no key twice.

**InterpProofs**: `TypeCorrect`, `IterationsCounted`, `IterationForbidsUpdates`,
`StepsLimited`, `FunctionsDoNotReenter`, `StackStaysBounded`, `SpansFollowTheTop`, for
any collections, limits, and bounds on iterators, calls and depth. What has to be
added is `Control` (the mode agrees with the top frame, and every frame below it
has begun) and `Depths` (how high a Go callable or a function that has begun may
stand, from which `StackBounded` follows). A step changes the top frame only, or one
frame comes or goes, so there is one lemma for each of these effects on the control
properties, and one on `Active`, the set of iterators over a collection:
`IteratorAdded`, `IteratorRemoved`, `IteratorsPopped` count it. An update that succeeds
saw a count of zero, so by `IterAccounting` nothing iterates.

**FreezeProofs**: `FreezesOnlyReachable`, `FreezePublishesImmutable`,
`FreezeEndsUnlessFlagless`, for object graphs of any size and shape and visits in any
order. `PublishedImmutable` is about what was visited, so the invariant has to say what
is: let D be the objects whose `Freeze` has begun. Those of D that have a flag are frozen, and what an object of D visits is in D
itself, or waits in some call on the Go stack. When the stack is empty D is closed and
holds the globals, so it contains everything they lead to; `Share` updates objects
that have a flag which is not set, and those are not in D. The third theorem is about the
Go stack: what is on it is a path of the graph, and a value with a flag is on it only
once, for its flag was set when its elements were visited. A stack with no room left
(`StackSuffices`, `DeepMeansFlagless`) therefore holds some value twice, with none that has
a flag from the one to the other (a pigeonhole argument, `LongPath`): a cycle of values
without flags.

**ClassesProofs**: `MergeFindsTheOrder`, `ContextsAreLive`, `SuperGoesOn`, for hierarchies of
any size and any members. The merge of linearizations is described by what each
sequence still holds (`Rest`): what was not output yet, in its old order. What it returns
therefore keeps the order of every sequence; and if it gives up although an order
exists, the first class of that order not output yet is in no tail, which contradicts
that no candidate was found (`HeadInNoTail`). `Hierarchy` keeps for every class that its
linearization is what the merge gave. For `ContextsMatchStack` the invariant has the
list of contexts for every stack of frames as the concatenation of what each frame
pushed (`ContextsConcat`); `Stacked` and `Continued` say of each frame where its receiver,
its class and its `super` came from, so that the class that `super` finds is the
next one of the receiver's linearization.

**LoadCacheProofs**: `LoadsComplete`, `OneLoaderEach`, `AloneIsExact`, for any modules, any number of
threads and any load statements, of the concurrent and the sequential cache. The
calls on a thread's stack form a chain, each in the load that the one before it
makes; an entry that is not ready is owned by the thread with the one call that
executes it; and what a call has loaded so far remains loaded. So when the call ends
without error all that its module loads is loaded and ready, and none of it leads
back to the module, which was not ready. The depth of a stack is bounded because
its calls are for different modules (a pigeonhole argument). `AloneIsExact`
needs to know why a module failed (`Errors`): because it failed by itself, or a module
that it leads to did, or there is a cycle. In the REPL's cache this is one that the module leads to, by what
`SpineNeeds` says of a module that is wanted while it is loading; a client alone has
met it, and then its innermost call is giving up, so nothing else can fail. The
converse is `LoadsComplete`: a load that ended without error is outside every cycle.

**ArithmeticProofs**: `ListsAreExact`, for lists of any length, and `SlicesAreExact`, for
sequences of any length and any operands, sliced any number of times. What a slice selects
is given by its start, its stride and `Strides`, the number of strides that lead to the end:
the loop of `List.Slice` takes that many (`EveryIs`), and the quotient that `rangeLen`
computes is that number (`RangeLenIs`); `BoundsAre` relates the bounds that `slice` passes on
to those of `doc/spec.md`, which differ where nothing is selected. The elements of a slice
of a range are then those of the range itself, because strides between the multiples of a
step are those between the factors (`StridesScaled`). All this is false of ranges
whose numbers wrap, so `SlicesAreExact` has the hypothesis `NothingOverflows`: there are a
bound on the elements of the ranges and one on their steps after each number of slices
that leave room within `int` (`Fits`). `MCLibrary` states that its constants satisfy `Fits`
(`LibraryFits`), which TLC evaluates in the run `library`; `range_step` is about what does
not. The invariant `Exactly` says that ranges are within those bounds (`RangeOk`).

`IntsAreExact`, for small integers of any width and any integers. It needs four facts:

* the word in which two small numbers are added, subtracted or multiplied has room for the
  result (`Widths`: a small number has half as many bits), so `Word` changes nothing and
  the code need not test for overflow;
* the bit count of `isSmall`, with its exception, tells the same numbers apart as the
  bounds of `MakeInt64` (`BitLenIs`), so every result has the one representation
  (`OneRepresentation`);
* the quotient that is rounded towards zero and then corrected is the one rounded down
  (`Divides`), which shifts to the right are too;
* the bit operations, digit by digit from the top (`Runs`): the invariant is that the sum
  of `a & b` and `a | b` so far is that of the leading digits of `a` and `b`
  (`RunsTogether`). How many leading digits are taken does not matter as long as both
  numbers are within them, so the operations on small numbers, which are not tested, stay
  small.

The provers know nothing of `^`, so `Pow2` is a recursive function and what is needed of it
is proved.

**AskedProofs**: `BindsAreExact`, for any number of parameters with any names, marks and
types, and any arguments. `BindsExact` says when a call should succeed without
mentioning an order, while the code stops at the first error of two loops and
remembers in `defined` what was given. The invariant of the loops (`Taken`) is that no
error was met just if each argument so far is `Bindable`, for a parameter that fits it and that no
earlier argument is for, and that then `defined` and the variables are as those arguments
leave them (`Filled`): a skipped `None` counts as given, but leaves the variable unset. That
an argument is for one parameter at most rests on their names being different: of two
parameters of one name the code gives it to the first.
`TwiceIs`, `AllBindable` and `MissingIs` translate this to `BoundAsCalled`.

`OrderIsExact`, for any values, nested to any depth, any limit on the depth of comparison,
and up to twenty keys, which is where `sort.Stable` ceases to be an insertion sort. Comparison is
recursive, so its laws are proved for all depths at once: `comparison[depth]` is
`Deepened(comparison[depth - 1])`, and `comparison[0]` refuses every answer (`Refused`). `EqualHere`
and `LessHere` say, for each kind of values, when `Deepened(c)` answers yes, in terms of what `c`
says of elements and without the loops that stop at the first difference. The laws then
pass from `c` to `Deepened(c)` (`LawsDeepen`). More of them are needed than `OrderExact` states,
because each kind of value needs others of its elements:

* lists are ordered transitively if the elements are, and if equal elements may replace one
  another on either side of `<` (`Chained`, `RightCongruent`, `LeftCongruent`), no value being both
  equal to and less than another (`Sharp`);
* equality may fail in one direction only, which must not make `<` fail in one
  direction only: values of which that is true have no order either (`Missed`). That is so
  because it comes from dicts, which have none;
* `<=` is `<` or `==` (`LessOrEqual`), it fails where `<` does (`Together`), and `>` is `<` turned round
  (`Mirrored`); equal values fail together (`Settled`), without which `<=` would not be transitive.

A NaN obeys the same laws, being equal to itself; `OtherwiseIs` is what else
`ComparedOtherwise` says of it and of None. What is lexicographic is stated with the comparison at the same depth, where the code uses
that one level below: an answer stays what it is one level deeper (`Extends`).
Without sets `<` with `==` is total (`Connected`). Sorting and the extremes rest on these laws
alone: after `j` elements have sunk they are in order among themselves, or two keys have no
order and that is remembered (`SortedUpTo`), for an error in one comparison is never undone by a
later one; after `j` elements `min` and `max` hold the first that none of them is ahead of
(`ExtremeUpTo`).

Only model-checked:

* liveness (`InsertReturns`, `CancelStops`, `AcyclicReturns`): fairness is out of the
  prover's reach;
* `JsonExact` of `Library`, and all stages of `Toolchain` (`ReadsBackWritten`, `RejectsExactly`,
  `StackAsComputed`, `CompiledMeansSource`). They are recursive operators over trees and
  sequences, as the code is, and TLAPS has no SMT backend in a module that reaches one.

## 5. Not modelled, and the plan

Left out, and why:

* The characters of names, numbers and strings: scanning and quoting of literals,
  conversion between numbers and text, string methods, formatting, JSON's escapes
  and number syntax, `Disassemble`, messages. They are data, and so large a part of
  their code that a model of them would be a copy.
* `big.Int`, floats and the mapping of small integers to addresses: taken to be
  exact.
* Operations that wrap one operation of a table (`dict.get`, `pop`, `setdefault`,
  `set.add` and the like): `HashTable` has the operation.
* Fields that hide a member, `isinstance` and `dir` of classes; fields of structs and
  modules: searches of sorted lists.
* Profiles: aggregation and encoding. Starting and stopping a profile while programs
  execute, which its contract forbids.
* Terminal input and output of the REPL and its interrupt handler, which cancels the
  thread as in `Interp`.
* The time, math and proto libraries, wrappers of Go's; the test support.

What could come next: the composition of `Classes` with the calls of `Interp`; the REPL as a
mode of `Toolchain`, with globals that are there before each chunk.
