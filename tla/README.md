# A TLA+ model of mslang

mslang is a scripting language in C17: a lexer, a Pratt parser, a one-pass
compiler to bytecode, a stack VM, built-in types and a mark-sweep garbage
collector, driven by a small command line. This directory holds the
specification of its core: TLA+ modules translated from the source, TLC
configurations that check them on small instances, and TLAPS proofs of what
matters most for every value of the constants.

Much of `docs/language/` describes a system that does not exist yet
(generational collection, goroutines, exceptions, modules, the standard
library). The models follow the C code; where a doc promises something the
present code does not do, either the difference is a finding, or the feature is
simply not there and is listed as not modelled.

## 1. The system

One operating-system thread runs everything. What makes the program hard is
therefore not concurrency but *interleaving inside one call*: any allocation may
run a full garbage collection in the middle of an instruction, a C stack of
"what must still be true later" is threaded through shared mutable structures
(the operand stack that is also the local variables that are also the roots; the
frame pool; a closure's view of a slot that is about to be popped), and errors
leave all of these half way.

| Component | Source | State it keeps | Operations |
|---|---|---|---|
| Garbage collector | `gc/ms_gc.c`, `core/ms_alloc.c` | `gGC`: all objects, extra roots, byte and object counters, threshold | `msGCAlloc` (may collect), `msGCCollect`, root push/pop, shutdown |
| Upvalues | `runtime/ms_upvalue.c` | `t->openUpvalues`, sorted list of upvalues that point into the stack | capture, close, traverse |
| Calls and frames | `runtime/ms_func.c`, `vm/ms_vm.c` | frame pool and free list, the frame chain, stack pointer, the caller flags of a frame | call (positional, `*args`, keywords), constructor, bound method, dunder dispatch, return |
| Evaluation loop | `vm/ms_vm.c` | ip, operand stack, globals, last error | one case per opcode |
| Classes | `runtime/ms_class.c` | MRO, method table, attributes | class creation, method lookup, `super`, attribute access |
| Map, Set, Frozenset | `runtime/ms_map.c`, `ms_set.c`, `ms_frozenset.c` | open-addressing table with tombstones | get, set, delete, iterate, update, resize, set algebra |
| List, Tuple | `runtime/ms_list.c`, `ms_tuple.c` | growing vector; fixed vector | get, set, insert, pop, slice, compare, iterate |
| Range, Slice | `runtime/ms_range.c`, `ms_slice.c` | three 64-bit integers | length, contains, iterate; index resolution |
| Str, Bytes | `runtime/ms_str.c`, `ms_bytes.c` | immutable bytes, the intern table | intern, concat, index, slice, iterate |
| Numbers, equality | `runtime/ms_int.c`, `ms_float.c`, `ms_bool.c`, `ms_value.c` | none | arithmetic, hashing, `==`, `is`, `<` |
| Lexer | `lexer/ms_lexer.c` and the unescaper and printer | position, one-token lookahead, last token kind, f-string state | next, peek |
| Parser | `parser/ms_parser.c`, `ms_parse_expr.c` | current and previous token, panic flag, arena | declarations, statements, expressions, error recovery |
| Arena | `parser/ms_arena.c` | blocks, allocation offset | allocate, reset, free |
| Scope, Compiler | `compiler/ms_scope.c`, `ms_compiler.c` | locals, upvalues, scope depth, loops, the chunk | one function per AST node |
| Chunk, Disassembler | `compiler/ms_chunk.c`, `ms_disasm.c` | code, line and constant vectors | append; print |
| Command line | `core/ms_cli.c` | options | parse arguments, run, tokens, ast, disassemble |

How they interact. The CLI reads a file and calls the parser, which pulls tokens
from the lexer and builds an AST in the arena; the compiler turns the AST into a
chunk (allocating constants through the collector); `msVMRun` wraps the chunk in
a closure, pushes it as the first frame and interprets. Built-in types are tables
of callbacks (`MsType`): the VM calls `tpIter`, `tpHash`, `traverse` and the
others through them, a user class overrides them with dunder methods that are run
by pushing another frame. Every heap object is registered in `gGC.allObjects`;
the collector calls back into `traverse` and `destroy`, and reads the VM's stack,
globals and open upvalues as roots.

What makes each component correct:

- **collector**: frees exactly what cannot be reached, never touches freed
  memory, counts bytes exactly, ends on any graph, frees everything at shutdown;
- **upvalues**: one upvalue per captured slot, closures of the same variable
  share it before and after it is closed, nothing points at a popped slot;
- **frames**: a returned or failed call leaves the caller's stack exactly as the
  calling convention says, a frame is never handed out twice, frames are given back;
- **evaluation loop**: everything still needed is a root whenever an allocation
  can happen; errors unwind; the stack pointer stays within its bounds;
- **tables**: a map behaves as a finite function in every history of insertions,
  deletions and resizes, a probe always ends, iteration meets each entry once;
- **range, slice, int**: results agree with mathematical integers as long as
  these are representable, and no step overflows on the way;
- **lexer and parser**: always make progress, recover after an error and report
  the error of every later statement, nest f-strings and braces correctly;
- **compiler**: the stack depth it assumes is the depth the VM has, every jump
  lands where it was meant to, captured loop variables are closed.
## 2. Modules

Most important behaviour first; each component's part of the state is its own
module, parameterised by CONSTANTS with a named assumption, one action per
operation, invariants as conjunctions of named parts, no RECURSIVE operator in a
module that has or may get theorems.

| # | Modules | Abstract specification | State |
|---|---|---|---|
| 1 | `MsHeap`, `MsGC`, `MsGCProofs` | `MsHeap`: a heap from which only unreachable objects disappear | checked, proved |
| 2 | `MsVariables`, `MsUpvalue`, `MsUpvalueProofs` | `MsVariables`: variables as cells | checked, proved |
| 3 | `MsDict`, `MsMap`, `MsMapProofs` | `MsDict`: a function from keys to values | checked, proved |
| 4 | `MsSets`, `MsSet`, `MsSetProofs` | `MsSets`: sets | checked, proved |
| 5 | `MsSeqs`, `MsList`, `MsListProofs` | `MsSeqs`: sequences | checked, proved |
| 6 | `MsSlice` | the definition of a slice, mathematical integers (operators) | checked |
| 7 | `MsCallables`, `MsActivations`, `MsCall`, `MsCallProofs` | `MsActivations`: every activation has operands of its own | checked, proved |
| 8 | `MsScanner`, `MsLexer`, `MsLexerProofs` | `MsScanner`: the lexer without lookahead | checked, proved |
| 9 | `MsGrammar`, `MsParser` | none: properties of what is accepted and reported | checked |
| 10 | `MsScope`, `MsCompiler`, `MsEval` | none: the compiled code is run, and each variable carries the meaning the source gave it | checked |

`MsNumbers` and `MsPowers` are shared by the proofs and the models: least elements, induction
over sets of numbers, division, powers of two.

Left of the plan, in this order: theorems about `MsSlice` (its ranges and slices are recursive
functions of no state, so that a bound on the recursion has to be found first); classes (method resolution and `super`); a composition of `MsGC` with the instructions
that pop a value and then allocate; the weak intern table of strings.

Runs stay under five minutes with two workers. A run asks one question, and
separates the structure that needs many objects from the values that need few.
The containers share one run and the MC module `MCMsContainers`, whose behaviours are
each about one of them. Theorems come after TLC has found no counterexample to
the inductive invariant.

| Run | Configuration | Question |
|---|---|---|
| `gc_safety`, `gc_liveness` | `MCMsGC.cfg`, `MCMsGCLive.cfg` | is exactly the garbage freed; does every collection end |
| `upvalue_list`, `upvalue_cells`, `upvalue_retry` | `MCMsUpvalue*.cfg` | is the open list right; are captured variables cells; is the list right after a failed run |
| `upvalue_for_in` | `MCMsUpvalueForIn.cfg` | expected to fail: a captured loop variable is popped |
| `containers` | `MCMsContainers.cfg` | do tables, arrays, slices and ranges behave as maps, sets, lists and positions |
| `lexer_tokens` | `MCMsLexer.cfg` | are line ends and f-strings scanned right, also when peeking |
| `parser` | `MCMsParser.cfg` | does the parser accept what it should, and recover |
| `compiler` | `MCMsCompiler.cfg` | do the stack and the variables of compiled code agree with the source |
| `compiler_continue` | `MCMsCompilerContinue.cfg` | expected to fail: `continue` leaves locals on the stack |
| `calls` | `MCMsCall.cfg` | do calls of all kinds behave as activations with operands of their own |


## 3. Garbage collector: `MsHeap`, `MsGC`, `MsGCProofs`

`MsGC` is `ms_gc.c`, one object per step: `markObject` pops one grey object of
the C recursion, `sweep` runs its two passes (sizes and destructors first, then
freeing), `msGCAlloc` collects when the threshold is passed, `msGCShutdown`
destroys and frees in list order. Between collections the mutator does what VM
instructions do to the object graph: push and pop values, store references, make
objects whose *type is itself a heap object* (a user class), open and close
upvalues, push and pop extra roots. `gGC.allObjects` is a sequence, because its
order matters: a class must be swept after its instances have been measured.

`MsHeap` is what the program relies on: objects are allocated, linked and
dropped, and what is collected is unreachable. The refinement maps the heap to the
objects that are neither freed nor condemned.

- `Inv` is the inductive invariant of the proofs: what the list holds is what is
  allocated, counts and colours agree with the phase, and during marking some set
  that holds all roots is closed under references once the grey objects are done.
- `ReachableIsAllocated`, `NoDanglingAccess`: nothing reachable is freed, and no
  step of marking, of either sweep pass, or of shutdown reads a freed object. The
  second is the reason for the two passes: a dead instance is measured through its
  class, which may be dead too.
- `CollectionExact`: a finished collection has left exactly what was reachable.
- `ClassBeforeInstance`: the order of the list is what shutdown relies on: a class is still
  there when its instances are destroyed. While the second pass of `sweep` moves the list down, it is
  said of what is left of it, the entries moved so far and those still to come (`Positions`).
- `Accounting`: `bytesAlloc` and `numObjects` equal what is allocated. During a sweep, what it has
  tallied is the size of the dead that it has come to (`Condemned`), and what will be subtracted leaves
  exactly the survivors. Sizes are counted as sets of bytes (`Bytes`), so that no sum over a set is
  needed.
- `CollectionEnds`: every collection ends, under weak fairness of the collector's
  own steps: C code that has been entered runs on.

Runs: `MCMsGC.cfg` (1.3 million states) and `MCMsGCLive.cfg` (liveness and, with
objects of two sizes, accounting; 1.5 million). Three objects, among them a class, suffice: the
hazards are an instance and its class in one sweep, and a cycle with an entry.
`CHECK_DEADLOCK FALSE`, because after shutdown the system stops.

`MsGCProofs` proves, for any set of objects and any bounds, `Inv`,
`ReachableIsAllocated`, `NoDanglingAccess`, `CollectionExact` and that `Spec`
implements `MsHeap`, from `GCAssumption`. The heart is marking: reachability is
defined by the closed sets (an object is reachable if every set with the roots in it
and closed under references has it), which needs no induction over paths; the
invariant says that the black and grey objects together hold the roots, and that a
reference from a black object leads to a black or grey one. When no grey object is
left, the black set is closed, so it holds what is reachable; that it holds nothing
else is the other half, that every marked object is reachable. `ClassBeforeInstance` is inductive
with `Inv`: a new object comes last in the list, also one at an address that is used again, and the
second pass keeps the order. `Accounting` is, too, once the counters are related to the progress of
each pass; its heart is that a step of the first pass moves one object, with its size, from those still
to come to the condemned. `CollectionEnds` is liveness and stays with TLC.

## 4. Closure variables: `MsVariables`, `MsUpvalue`, `MsUpvalueProofs`

`MsVariables` is the promise of `syntax.md`: a closure captures a *reference* to
a variable, which lives as long as somebody can refer to it. `MsUpvalue` is how the
VM does it: an operand stack of reused slots, a sorted list of open upvalues, and
copying into the upvalue when the slot goes. Actions are the instructions
`OP_GET/SET_LOCAL`, `OP_GET/SET_UPVALUE`, `OP_MAKE_FUNC` with its capture loop (one
descriptor per step), `OP_POP`, `OP_CLOSE_UPVALUE`, calls with and without a receiver
in the callee's slot, both returns, the end of a run, a failed run followed by the next
`msVMRun`, and the collection of closures and upvalues nobody refers to.

The bytecode is not modelled, but constrained to what the compiler emits when its slot
numbers are right: a slot whose variable is captured is closed, any other one is popped.
Where the compiler breaks this (`for`-in) the model has a constant to allow it.

`cell` and `ucell` are auxiliary: they give a slot and an upvalue the name of the
variable they stand for, and are what `MsVariables` is instantiated with.

- `Inv`: list order, the list holds every open upvalue, a variable has one slot and one
  upvalue at most, which its closures share, and they point at each other; frames do not
  overlap.
- `NoDangling`: no closure's upvalue points at a slot that is not in use or was taken over.
- `ImplementsVariables`: every read through a slot or an upvalue sees the last write
  to that variable, whoever wrote, before or after closing.

Runs: `MCMsUpvalue.cfg` (two upvalues, two closures, four slots, two frames; one value,
as the shape of the list does not depend on values) and `MCMsUpvalueCells.cfg` (two
values, one upvalue, three ways to refer to one variable). `MCMsUpvalueRetry.cfg` lets runs
fail and checks `NoStaleEntries`: what a failed run left open is off the list before its slots
are reused, which is what `msVMRun`'s reset is for. Deadlock is checked.

Finding: `MCMsUpvalueForIn.cfg` allows the captured variable of a for-in loop and finds
`NoDangling` violated: the loop drops it with `OP_POP`, its upvalue stays open and shows
whatever is in the slot next. `ImplementsVariables` is checked without failing runs: the
run after a failed one forgets the open upvalues instead of closing them, so that a closure
which a global still holds reads the new run's temporaries (set `Errors` in
`MCMsUpvalueCells.cfg` to see it).

`MsUpvalueProofs` proves the four properties for any stack, depth of calls and numbers of closures and
upvalues. `Inv` is inductive as it stands: `OpenInv` (the list is in the order of the slots, each upvalue
on it points at a captured slot in use, and every open one of this run is on it), `CellInv` (slots and
upvalues of one variable find each other, and only over the list), `FrameInv` (frames lie above each
other, and what is between one's first slot and the slot its caller goes on with is the callee) and
`HeldInv` (closures hold what is allocated). Each was needed to prove another: that a return closes
exactly the captured slots it drops needs the order of the list, and that an assignment through an
upvalue reaches the slot needs that one variable has one of each. The operations on the list are lemmas of
their own (a capture inserts in order, a close takes the front off), and so is each instruction.
Assumed are `~ForIn` everywhere, since the finding above refutes `Inv`, and `~Errors` for `NoDangling` and
`ImplementsVariables`, for the reason just given; `NoStaleEntries` and `Inv` hold through failed runs.

## 5. Containers: `MsMap`, `MsSet`, `MsList`, `MsSlice`, `MsMapProofs`, `MsSetProofs`, `MsListProofs`

### Maps

`MsMap` is the table of `ms_map.c`: probing, tombstones, the load test (entries
*and* tombstones), the rebuild in a table of twice the size, entry by entry, deletion,
`clear`, `copy`, `setdefault`, the update of a map from itself, which walks a table that
may be replaced under the loop, and the iterator, which is a slot number. A key stands
for all values that compare equal; hashes are given by the constant `HashOf`.

- `Inv`: counters are exact, at most three quarters of the table are used, a key is in one
  slot and no never-used slot lies before it on its probe sequence, also in the half-built
  table; every probe that can start reaches its key or a never-used slot (`ProbesEnd`):
  `findSlot` has no other way to stop.
- `IterationExact`: a loop over the keys whose body only deletes meets no key twice, and each key
  that stays, up to the key nil.
- `ImplementsDict`: in every history the table is a function from keys to values, the abstract
  `MsDict`; a resize and every step of a self-update is a stutter.
- `OperationsEnd`: every operation ends, under weak fairness of the C loops. The self-update
  ends because growth stops once everything fits, although the loop's bound is read anew.

Nil ends a loop: `mapIterNext` returns the next key or nil, and `OP_FOR_ITER` (`ms_vm.c:1128-1131`) takes
every nil for the end, although nil may be a key (and `ms_map.c:250-252` speaks of a nil-valued key that is
"still returned"). The keys in the slots behind it are not met. `docs/language/impl/P4-T065-vm-iteration-protocol.md:59`
calls this a known limitation of the first version; it is in the model, where one of the keys is `Nil`
and `LoopOver` cannot tell the two cases apart, and the property says that the loop is exact up to there.

With `Overwrites = TRUE` loop bodies also assign to keys that are there, and TLC refutes
`IterationExact`: `mapSetHashed` (`ms_map.c:142`) resizes before it knows whether the key is
new, and the iterator goes on at its slot number in another table, though
`docs/language/impl/P4-T065-vm-iteration-protocol.md:202` says that a loop over a map gives all
its keys.

`MsMapProofs` proves the three safety properties for any keys and hashes, however they collide, and for
tables of any size. `Inv` is inductive with these parts: capacities are powers of two, so that a
copy, which asks `msNewMap` for the capacity of the original, gets a table of that size; the counters are the numbers of the slots that they count, which with the load
test leaves a slot never used (the pigeonhole that every search ends by); each key is where a probe finds
it; during a resize the new table holds exactly the entries moved so far (`ResizeInv`); and of a loop that
only deletes, what it has returned, never nil, and what it has passed (`IterInv`). `IterationExact` assumes
`~Overwrites`, because TLC refutes it otherwise, as said above; `Inv` and `ImplementsDict` do not.
`roundUpPow2` is written as the least power of two that is large enough instead of as the loop it is;
`RoundUpFacts` shows that there is one.

### Sets and frozensets

`MsSet` has the same kind of table without values, with whole operations as steps, because no
other code runs during one. `heap` maps the program's variables to tables; `frozen` says which
are frozensets. What is of interest is what two tables do to each other: the operators make a
third one; the methods that change a set in place (`Walk`) read the table again at each turn of
the loop, and the other set may be the same object. A frozenset's operations walk over the same
tables in the same order, so that the two types share the definitions.

- `TablesSound`: exact counters, a quarter of every table never used, every item where a probe
  finds it.
- `AlgebraExact`: operators, in-place methods and comparisons agree with set
  theory for any two tables that any history has made, and for a set with itself.
- `EqualHashEqual`: frozensets that are equal have one hash. The hash is the exclusive or of the
  items' hashes, modelled as the set of those that occur an odd number of times.
- `ImplementsSets`: a method changes the set it is called on, as set theory says, and no other.

`MsSetProofs` proves all four for any items and hashes, any number of sets and tables of any size.
`TablesSound` is inductive as it stands: that the capacity is a power of two belongs to it, because
`msSetCopy` writes the slots of one table into a new one and relies on `msNewSet` to choose the same size. The
argument is about one predicate, `Holds(t, X)`: the table is sound and its items are `X`. Each method has a
lemma that says of which set the table afterwards `Holds`. A loop over a table is a function from the
number of turns to what it has made (`Turns`), and what it has made after `s` turns is
shown by induction on `s` (`Upto`), which gives the operators and `msSetResize`. The methods that change a
set in place read its table at each turn. Those that discard empty one more slot of the table that they walk
over, or probe, at the most; the same argument (`Erasing`) covers a set with itself, also in
`symmetric_difference_update`. Those that add walk over another table, which does not change under them
(`Walks`), or, in `s.update(s)`, over their own, which a resize may replace between two turns but which
holds the same items (`UpdateSelf`). The model gives these loops `2 * cap` turns (`Walk`); `WalksAlwaysEnd` proves
that the loop of the code has ended by then, because a table that has doubled once and has no tombstones
has room for every item it can meet.
The hash is the set of those hashes that an odd number of items have (`Odd`), which a set determines
whatever the order of its slots. As for lists, the theorems state the properties of `MsSet` itself under
`SetAssumption`, and the run checks them as `MCMsContainers` instantiates them. `roundUpPow2` is written as
in `MsMap`, and the comparisons, which return at the first item that decides them, as quantifiers.

### Lists

`MsList` is the array of `ms_list.c`, with spare slots, `realloc` and `memmove`; a slot that is not
in use is `Junk`, so that reading one shows. `msListSort` gives any sorted order of the elements, as
`qsort` may. `due` is what the running loop has still to return; its body may append and assign
(bodies that remove elements shift the others under the index, in this language as in Python). One
element, `Nil`, stands for nil, which ends a loop over a list as it ends one over a map. Lists with a nil
are not sorted in the model: `listCompare` is not symmetric in nil, so that what `qsort` does with it is not
determined.

- `LoopsInOrder`: the loop returns each element once and in order, appended ones included, up to the
  first nil.
- `ImplementsSeqs`: every method does to the list what it does to a sequence, `l.extend(l)` too;
  `Junk` in a slot that is in use would show here.

`MsListProofs` proves both for any elements, lists of any length and any number of lists. The invariant
`ListInv` says of each list that its array is as long as its capacity and its first `len` slots hold
elements (`ArraysInv`), and of the loop that what is due is the rest of the list from its index on
(`LoopInv`); `LoopsReturnUpToNil` follows, without an assumption that no element is nil. Each method has one lemma, which says what the array holds afterwards: `insert` and `remove`
shift a part of it, `extend` copies from an array that may be its own, a growth copies what is in use. The
assumption is `ListAssumption`, which `MCMsContainers` assumes of its instance. The theorems state the
properties of `MsList` itself; the run checks them as `MCMsContainers` instantiates them.

### Slices and ranges

`MsSlice` has the arithmetic of `ms_slice.c` and `ms_range.c` over integers of `Width` bits, with
sums that wrap around. Signed overflow is undefined in C; wrapping is what the usual builds do.

- `SlicesExact`: the positions that the loop reads are those of the definition, in the order of the
  step, and `msSliceCount`, by which the caller sizes the new list, counts them exactly.
- `RangesExact`: `len`, items from both ends, `in`, `==` and the loop agree, and the loop stops after
  `len` items.

`Extremes = FALSE` leaves out arguments whose sums leave the width. With `TRUE`, TLC refutes
`SlicesExact` (the count of `[1, 2, 3][::9223372036854775807]` is negative, and the list is made with
4294967295 elements) and `RangesExact` (a range that ends less than a step before the largest integer
goes on from the smallest). Components of a slice that are not integers are not modelled.

### The run

`MCMsContainers.cfg`: four keys, nil among them, whose hashes collide and wrap around, two values, maps made for 0 and
for 5 pairs, tables of 4, 8 and 16 slots (8 and up in the code); two sets with three such items; two
lists of up to three elements, three together (`MaxPair`), each nil or one of two others, with a first capacity of 2
(4 in the code), so that they grow; all
slices of sequences of up to four elements and all ranges over 4-bit integers. The lists are
interchangeable but for the loop, which therefore runs over one of them. `MaxCap` bounds growth by
tombstone churn; deadlock is checked, so no operation that the model starts is cut off by the bound.


## 6. Lexer: `MsScanner`, `MsLexer`, `MsLexerProofs`

`MsScanner` is `lexScan` of `ms_lexer.c`, one step per token, for a caller who never looks ahead.
`MsLexer` adds `msLexerPeek` and its one-token cache, at any moment between two calls of
`msLexerNext`. The state that `lexScan` changes is one record, `lexer`, of which `MsLexer` can keep two.
A character of a source stands for a class of bytes, written as a word: `"word"`, `"operator"`, `"blank"`, or
itself where the lexer looks at it (`"newline"`, `"open"`, `"close"`, `"dollar"`, `"quote"`, `"backslash"`). Numbers, names and keywords that may end a statement are one token, `IDENT`; operators
and keywords that may not, another. `Regular` says that no error was met.

- `LinesEndStatements`: a `NEWLINE` token follows only a token that can end a statement, so there
  are never two in a row, whether the scanner ran ahead or not.
- `Inv`: the state is well formed, and (`FStringsNest`) fragments and expressions of an f-string alternate; its expression ends at the
  brace that matches its first one, whatever maps it contains; no source ends inside.
- `ImplementsScanner`: peeking changes no token. The interest is in `prevKind`, which `lexScan`
  sets for line ends, possibly ahead of time, and `msLexerNext` for all other tokens.
- `EndsUnlessBroken`: under weak fairness of `msLexerNext` (its callers ask until EOF), the end of
  the source is reached, past any error outside f-strings.

Runs: `MCMsLexer.cfg` takes every source of up to four characters over all nine classes and every
source that begins with `$"{` and goes on for up to four more of six: a nested map, a second
fragment and the end of the f-string fit. Deadlock is not checked: scanning stops at the end.

An error in an f-string is returned for ever (`ms_lexer.c:600`): with the property `Ends`, which lacks
the exception of `EndsUnlessBroken`, TLC refutes the same configuration. A limitation that
`FStringsNest` leaves out by the variable
`rescanned`: a line end inside an f-string's expression that ends no statement is passed over by
the loop for ordinary code, which goes on without counting braces.

`MsLexerProofs` proves the three safety properties for every set of sources, of any length, from
`ScannerAssumption` alone. `Inv` needs that the lexer's state is sound (`Sound`: a position in the source,
counters of the range they have), what the cached token is to the state before it (`PeekInv`), and, for
the nesting, where in an f-string the scanner is (`NestInv`): the `Place` that the tokens returned so far lead
to is the one that the counter of braces says. `LinesEndStatements` follows from what `prevKind` is to the
last token (`LineInv`). A string's end is found by a recursive function over positions (`TextEnd`); that
there is such a function for every source is shown by induction over the positions from the end. What
`EndsUnlessBroken` says is liveness and stays with TLC.

## 7. Parser: `MsGrammar`, `MsParser`

Every parse function of `ms_parser.c` and `ms_parse_expr.c` is a definition of `MsGrammar` with its
name: the sequence of helper calls it makes (expect a token, advance if it is there, parse an
expression of some precedence, a list), with its branches on the current and the next token.
`MsParser` runs them: `todo` is the C stack, what the functions that are running have left to do, and
one step is one helper. The state is that of `MsParser` in the code: the current token, `hadError`,
`panicMode`; beside it, where errors were reported (`errs`) and which statements are linked into the
tree (`linked`). A parse function that fails returns null; a caller that reads a field of it all the
same (`ms_parse_expr.c:367`, `379`) ends the run with `crashed`. The tree itself is left out, but for what
later branches ask of it: whether an expression is a name.

- `ErrorNotEarly`: no error is reported before the token that makes the program wrong. For a correct
  program it says that there is none: no lookahead takes a wrong turn.
- `Inv`: errors and panic go together, and (`AcceptsBalanced`) what is accepted has its brackets
  balanced.
- `StatementsKept`: statements in front of an error stay in the tree.
- `ParsingEnds`: the parser ends on any source whose tokens end in `EOF`, correct or not, unless it reads a
  null node on the way, under weak fairness of its steps: it is a C function that nobody interrupts.
  Loops and recovery either take a token or stop, at the end of the source too.

Run: `MCMsParser.cfg`: twenty-seven statements that between them use every parse function, each between two others,
correct and with any one token replaced by, or preceded by, one of eleven others, or dropped, and cut off at
any token by an `ERROR` that the lexer then repeats for ever, as it does in an f-string that does not end
(`ms_lexer.c:600`). Deadlock is not checked: parsing stops.

Both exceptions of `ParsingEnds` are the code's. Without the first, TLC refutes it with the source
`IDENT ; ERROR ERROR ...`: recovery looks for `EOF` and is given errors. Without the second, it does with sources
that crash: the run is over, but not at the end of the source.

What the model shows of the code but is no finding: after the first error the end of every statement
skips to the next synchronisation point, so that each second statement is lost
(`ms_parser.c:201`), although
`docs/language/impl/P2-T018-parser-pratt-framework.md:173` wants the statements after a recovery parsed; two statements on one line
need nothing between them.

## 8. Compiler: `MsScope`, `MsCompiler`, `MsEval`

`MsScope` is the compiler's bookkeeping: locals with their depths, upvalue descriptors, jumps that are
patched later. `MsCompiler` has one operator for each compile function, from a syntax tree to
instructions; all of them are functions of the compiler's state, and compiling has no interleaving.
Right or wrong shows when the result is run, which `MsEval` does: one action for each kind of instruction
of `eval`, conditions and iterators deciding either way. The compiler sees names only; the tree says
which variable is meant, by the level of its block, and every value on the stack remembers the variable
it is the value of. `LINE` marks in the code record how many locals the compiler counts there.

- `StatementsBalanced`: where a statement starts, by whatever jump it is reached, the stack has as many
  values as the compiler counts.
- `FindsItsVariable`: an instruction that reads, writes or captures a variable does so with the one that
  the source means, through shadowing, blocks, loops and functions.
- `CapturedAreClosed`: a captured variable leaves the stack by `OP_CLOSE_UPVALUE` or with its frame.
- `JumpsArePatched`: no jump is left without a target.
- `RejectsTheIllegal`: the compiler reports an error exactly for the programs that are illegal or too large.

Run: `MCMsCompiler.cfg`: functions with compound statements nested two deep (blocks, three loops, `switch`, in
which a local may be declared at each level, shadowed, assigned to, captured, and which `break` may leave, also after a capture or between the
declaration and a capture), and every other form of statement and expression in a function, a loop, and the module. Deadlock is checked: the end of the chunk is a step.

What is legal is what `docs/language` says, not what the compiler does: the grammar of `syntax.md` §2, `type-system.md`
for `super()` and classes; that `break`, `continue` and `return` need a loop or a function is in
`impl/P3-T042-compiler-control-flow.md:183,195` and `impl/P3-T043-compiler-functions.md:133`, that a parameter's name
is declared once in `impl/P3-T038-compiler-scope-symbols.md:192`. `TooLarge` are programs one above a limit of the
compiler. The documents and the compiler disagree about these forms (`Divergent`, `Accepted`), which the run
leaves out; with `Divergences = TRUE` TLC refutes `RejectsTheIllegal` by every one of them:

| form | documents | `ms_compiler.c` |
|---|---|---|
| `a.b += c`, `a.b++` | any `LValue`: `syntax.md:176-178`, 218 | names only: 963; `++` not compiled: 871 |
| `del x` of a local or captured variable | `syntax.md:193` | rejected: 982 |
| `a if c else b`, `make(chan)`, `<-ch` outside `select` | `syntax.md:241`, 285, 252 and 286 | not compiled: 871 |
| a keyword argument with `*s`, or with `**m`, in one call | `syntax.md:257` | rejected: 712 |
| a second `:=` of a name in one scope | an assignment: `syntax.md:302` (but see `P3-T038`) | rejected: 888 |
| `fallthrough` in a case | `syntax.md:195` | not compiled: 1585 |
| `for k, v in m` | `syntax.md:185`, 315 | rejected: 1198 |
| defaults of a method's parameters | `syntax.md:142-145` | rejected: 454 |
| attributes in a class body | `type-system.md:404` | rejected: 624 |
| `import` in a function | not in the grammar: `syntax.md:132`, 217 | accepted |

`await` is no expression of the parser, so that no program has one.

Finding: `MCMsCompilerContinue.cfg` adds `continue` in a block that has declared a variable:
`compileContinue` (`ms_compiler.c:1120`) jumps without taking it from the stack, as `compileBreak` does.

The run leaves out programs for which the properties are known to fail, each listed as a hazard in
PROJECT.json: a named function or class declared inside a function (its slot lies above the stack's
top, `ms_compiler.c:394`); `and`/`or` where the value is not returned at once (the left operand stays on
the stack, line 199); `f(a, *s)` (line 721); more upvalues or case values than the limits of 256; methods
that capture variables. Also as in the code: the first and last clause of a three-part `for` are not compiled,
and `import` stores a global in functions too. Exceptions, `with`, `go` and `select` are compiled, but `eval`
has no such instructions, so that a chunk stops there (`Unknown`).

## 9. Calls: `MsCallables`, `MsActivations`, `MsCall`, `MsCallProofs`

`MsCallables` has the values and the parameter lists. `MsActivations` is the promise: every
activation has operands of its own, which begin with its parameters and which nothing it calls
can touch; a return does with the result what the caller waits for (push it, drop it, or go on
with a loop). `MsCall` is the implementation: one stack, of which a frame knows only where its
slots begin; frames from a pool that is itself a stack, and from `msAlloc` when it is used up;
flags in frames that tell a return how to proceed, because `eval` never calls itself.

Actions are the instructions: `OP_CALL`, `OP_CALL_EX`, `OP_CALL_KW` with `dispatchCall` for
closures, classes and bound methods; the dunder methods of unary and binary operators, of item
assignment, deletion and loops; `OP_RETURN`, `OP_RETURN_NIL`; `OP_MAKE_FUNC`, which evaluates
defaults; and those that only work on the innermost operands. The program is one function with any
parameter list of `Signatures`, one class and one instance. Its bytecode is any that leaves the
parameters where they are. A run may fail at any instruction: its frames stay taken, and the next
run begins with what is left of the pool. The frame that a run fails in is where C code returns
`MS_ERROR_VALUE`, so `Fail` needs no condition.

- `PoolIsStack`: `msFreeFrame` lowers the top of the pool whatever frame it is given. The frames in
  use lie in the pool in the order of the calls, the innermost at the top, and `malloc`'d ones are
  always younger; so no frame has two activations.
- `FlagsWhileWaiting`: a caller waits in one way at a time and only while it has called a dunder
  method; no flag survives into another activation of the frame.
- `ImplementsActivations`: every step maps to a step of `MsActivations` or to none. An activation's
  operands are the part of the stack between its slots and the next frame's base.

Run: `MCMsCall.cfg`: six parameter lists (plain with one to three parameters, two defaults, `...args`,
a default with `**kwargs`); a pool of two frames and one from `msAlloc`, so that calls nest beyond the
pool and after failures have used it up; four values on the stack, enough for three nested method calls
or for one call with two arguments. `ArgcLimit` stands for 256. Local slot padding is left out, being
a no-op as the comment at `ms_func.c:219` says. Deadlock is checked.

Proved, in `MsCallProofs`, for any pool size, any number of frames from `msAlloc`, any stack and any
parameter lists: `Spec => []PoolIsStack` (`PoolSafety`) and `Spec => []FlagsWhileWaiting`
(`FlagsSafety`). The lemma `Kinds` reduces the twenty instructions to five things that can happen to
the frames (nothing, a run starts, a run stops, a frame is entered, the innermost one is left), and
one lemma for each shows that the invariant is kept. `PoolIsStack` is inductive once `chain` is known
to be a sequence of frames and `malloced` a set of them; the flags need it as well, because setting a
flag in one frame must not set it in another activation's. The one assumption is that the bounds are
numbers.

Its second part proves `Spec => ImplementsActivations` (`CallsAreActivations`). The invariant `CallInv`
is `FlagsInv` with the types of the program (`ProgramInv`) and the layout of the one stack (`StackInv`): the
slots of the n-th frame begin behind what its caller keeps, there are at least its parameters and the
operands that it waits with (`FrameInv`, `Floor`), its callee's base is where its operands end (`Top`), and
the first slot of a constructor is the instance. The twenty instructions come down to three ways to change
the stack, and for each it is shown once that the invariant stays and what becomes of the activations:
`Works` (operands above the parameters of the innermost frame change), `EntersAt` (a frame begins at a base,
what is below stays), and `FramesLeft` with `LeftAt` (the innermost frame goes and its caller goes on). Each
instruction then has a lemma of its own: its arguments split the operands (`SplitFacts`), are bound to
the parameters as `MsActivations` says (`PositionalFacts`, `ByNameFacts`, which is where defaults,
`...args`, `**kwargs` and keywords are), and the return value goes where the caller's flags say
(`LeaveStack`). Two assumptions are needed, `~AssignSelf` and `~LongSpreads`, the same as in the run; the last
paragraph says how the refinement fails without them.

The run's `__init__` leaves its first parameter alone. With `AssignSelf = TRUE` it may assign to it, and
TLC refutes `ImplementsActivations`: the result of a constructor call is read from that slot
(`ms_vm.c:1233`), though `docs/language/impl/P5-T072-class-instantiation.md:455` says that it is always
the new instance. The runs spread lists of fewer than `ArgcLimit` items only; longer ones (constant
`LongSpreads`) break the refinement as well, because `OP_CALL_EX` passes the number of items as a byte.

What is passed of a spread list is what a loop over it would meet: `msExpandToStack` (`ms_vm.c:531-538`) stops at
the first nil, so that `f(*[a, nil, b])` is `f(a)`. It is the limitation of the iteration protocol again (section 5);
`MsActivations` states it (`Iterates`), and one of the run's lists has a nil in its middle. `MsActivations` has
one list of defaults, as the code has one for all closures of a prototype: evaluating the function's
declaration again changes the defaults of the closures that there are. That each closure keeps its own is
not claimed.


## 10. What is proved, and what is only checked

Proved, for every value of the constants under the named assumptions, are:

| Module | Theorems |
|---|---|
| `MsGCProofs` | `InvCorrect`, `ReachableCorrect`, `NoDanglingCorrect`, `CollectionExactCorrect`, `OrderCorrect`, `AccountingCorrect`, `HeapCorrect` |
| `MsUpvalueProofs` | `Invariance`, `NothingDangles`, `NothingStale`, `VariablesAreCells` |
| `MsMapProofs` | `Invariance`, `IteratesUpToNil`, `RefinesDict` |
| `MsSetProofs` | `TablesStaySound`, `AlgebraIsExact`, `WalksAlwaysEnd`, `EqualSetsHashEqual`, `RefinesSets` |
| `MsListProofs` | `LoopsReturnUpToNil`, `RefinesSeqs` |
| `MsLexerProofs` | `FStringsAlwaysNest`, `NewlinesEndStatements`, `PeekingIsUnseen` |
| `MsCallProofs` | `PoolSafety`, `FlagsSafety`, `CallsAreActivations` |

That is every safety property and every refinement that the runs check of these components. Where a
theorem excludes something that the code does (`~ForIn`, `~Errors`, `~Overwrites`, `~AssignSelf`,
`~LongSpreads`), TLC refutes the property with it, and the run excludes it by the same constant.

Checked by TLC only, within the bounds of the configurations:

- liveness (`CollectionEnds`, `OperationsEnd`, `EndsUnlessBroken`, `ParsingEnds`): the prover has no
  rules for it;
- `MsParser`: its properties compare it with sources of which `MCMsParser` knows, as it builds them, where
  they become wrong and where statements start; what it says of any source (brackets) is a fold;
- `MsSlice`, `MsCompiler` and with it `MsEval`: recursive operators over integers until a bound and over syntax
  trees. Induction over numbers is at hand in the form of sets (`MsNumbers`: a set of numbers that has 0 and
  the successors of its elements has all), which is enough for functions such as `TextEnd`, not for
  `RECURSIVE` operators, which the provers cannot see through.

## 11. What is not modelled

- Parts that only print (`ms_ast_print.c`, `ms_disasm.c`, `ms_lexer_print.c`), the command line, the vectors
  of `ms_vec.h` and the arena: append-only or without state that a property could be about.
- Floating-point arithmetic and byte-level work on strings: data that TLC cannot enumerate.
- Classes beyond how they are called (`MsCall`) and kept alive (`MsGC`): method resolution and `super`.
- What the operand stack no longer holds while an instruction still uses it (the hazards at `ms_vm.c:1087`,
  `1297`, `688`, `348`), and the weak intern table.
- Generational collection, goroutines, exceptions, modules and the standard library: documented but
  not implemented.

PROJECT.json gives the status and reason of each component, and its hazard list names, for each hazard, the
properties that cover it or why none does.

## Running

    tlc -workers 2 -config MCMsGC.cfg MCMsGC
    for m in MsNumbers MsGCProofs MsUpvalueProofs MsMapProofs MsSetProofs MsListProofs MsLexerProofs MsCallProofs
    do tlapm $m.tla; done

The proofs take minutes each from nothing (`MsCallProofs` twelve), and seconds when `tlapm` finds what it
proved before.
