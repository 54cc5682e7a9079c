# Minuet in TLA+

Minuet is a small dynamic language: a driver loads sources, a lexer and a parser build an AST, an
analyzer checks it, a converter lowers it to a control-flow graph, an emitter turns that into
bytecode, and a register machine runs the bytecode with a garbage-collected heap and a few native
functions. This directory specifies all of it, from the text of the sources to the exit of the engine,
and most closely the part where a mistake is silent: the machine, its calling convention, its values
and its heap, and the converter and emitter that write its code. The engine
checks no bound and follows raw pointers, so it is right only together with a compiler that keeps to
a convention neither of them states. The modules state it, check that the compiler keeps it, and
prove what the engine makes of it.

All line numbers are those of the files under `src/src/` of the repository (`src/runtime/vm.cpp` in
its own tree). `PROJECT.json` maps each definition to the lines it models.

## 1. Inventory

| component | state | operations | interacts with |
|---|---|---|---|
| Engine `runtime/vm` | registers `m_memory`, call frames, `m_rfi m_rip m_rbp m_rft m_rrd m_res`, the heap | one handler per opcode, the native-call interface, the collection, the loop | runs a `Program`; owns the heap; natives call it back |
| HeapStorage `runtime/heap_storage` | cells, queue of holes, next id, overhead score | create, destroy, is_ripe | owned by the engine; the sweep walks its cells |
| SequenceValue `runtime/sequence_value` | items, a count, a frozen flag | push, pop, set, get, freeze | hands out raw pointers to its items |
| FastValue `runtime/fast_value` | a tag and a scalar, double or pointer | arithmetic, comparison, truth, negate, emplace | follows pointers to items and objects |
| Bytecode `runtime/bytecode`, `bcgen/emitter.hpp` | none | packing and unpacking of the metadata word | written by the emitter, read by every handler |
| Natives `mintrinsics` | none | print, prompts, five list functions | read arguments and leave results in registers |
| Emitter `bcgen/emitter` | chunks, stacks of open ifs and loops | one function per kind of step, jump patching | blocks in, bytecode out |
| ASTConversion `ir/convert_ast`, `ir/cfg` | globals, locals, pending links, next register | one function per kind of expression and statement | two passes over the AST |
| Analyzer `semantics` | scopes of names with attributes | one check per kind of node, two passes over the declarations | decides which ASTs the converter sees |
| Parser `frontend/parsing` | current and previous token, error count | recursive descent, recovery | pulls from the lexer, pushes imports on the driver's stack |
| Lexer `frontend/lexing` | position, line, column | one function per class of token | asked for a token at a time |
| Driver `driver` | pending and visited sources, their texts by id, native registry | import loader, pipeline | everything |
| Dumper, disassembler, CLI, stdlib stubs | none of interest | output, start | |

The program is sequential: there are no threads, no messages and nothing is persisted. What is hard
in it is of another kind.

* **Long sequences of legal calls.** A callee's base is computed from a top that every instruction
  of the caller may have moved; a return puts back four registers; a heap cell is used again long
  after it was freed. What goes wrong shows up many steps and several functions later.
* **Stale state.** Registers of a callee that returned keep their values; a reference to an item is
  a pointer into a vector that a later push moves; the sweep destroys what registers still name.
* **Undefined behaviour.** No handler checks an index, and a throw inside a `noexcept` handler ends
  the process.
* **Limits.** 512 frames, 8192 registers, 1024 objects, 16-bit register numbers and positions, 32-bit
  ints.

What makes each part correct:

* *Engine*: calls and returns are a stack of activations; a function leaves its callers' registers
  alone; a compiled program runs without undefined behaviour and computes what its source means; the
  loop ends for programs whose recursion does.
* *Heap*: a creation never overwrites an object, a freed cell is listed once, the score is exact,
  only a collection destroys.
* *Sequences*: the count agrees with the items; a tuple keeps its size.
* *Values*: an int stays in 32 bits; a mixed or unsupported operation yields a dud, not a crash.
* *Bytecode*: the engine unpacks what the emitter packed.
* *Converter and emitter*: what they produce is well-formed (section 3), and every statement of the
  source is emitted.
* *Lexer and parser*: a text is read as what the grammar says it is, and what is refused is refused
  whole: no error is skipped over.
* *Loader*: the closure of the imports is loaded, each source once, and an id keeps meaning the
  same source.
* *Analyzer*: what it accepts is in scope, and the converter, which has scopes of its own, agrees.

## 2. Modules

| module | what it models |
|---|---|
| `FastValue` | tagged values, arithmetic and comparison on values that are no references |
| `SequenceValue` | lists: items, count, freezing, and the vector's capacity |
| `HeapStorage` | the heap as operators on a record |
| `HeapClient` | the heap as a class with any client; `HeapInv`, `PoolSpec` |
| `SlotPool` | abstract: a pool of slots |
| `Widths` | the 16-bit numbers of steps, instructions and positions, and what is stored of a wider one |
| `Bytecode` | instructions and the metadata word, packed and unpacked; what the text of a program has to be like to be well-formed, closed and narrow (section 3) |
| `Engine` | the machine: one action per handler and native function |
| `ActivationStack` | abstract: a stack of activations |
| `EngineProperties` | what is right about the engine, of any program and of programs whose text rules mistakes out |
| `IR` | the control-flow graph: blocks, steps, links |
| `Converter` | `ASTConversion`: registers, names, constants, blocks, pending links |
| `Marks` | what the emitter expects of its input: marks of ifs and loops that nest and have the right neighbours |
| `Emitter` | `Emitter`: the traversal of the blocks, open ifs and loops, patched jumps |
| `Emission` | `Emitter::operator()`: one chunk for each graph of a program, whatever made the graphs; what is right about the code |
| `Analyzer` | `Analyzer`: scopes, the kinds of values, arities |
| `Compiler` | the passes of analyzer and converter before `Emission`, one declaration at a time, and how they end |
| `CompilerProperties` | what is right about the compiler |
| `Lexer` | `Lexer`: one operator per class of token, on texts |
| `Parser` | `Parser`: one operator per method, with its errors and its recovery |
| `Loader` | `Driver::parse_sources`: pending, visited and stored sources; `OwnText` |
| `ImportClosure` | abstract: the sources that the main one needs |
| `Frontend` | `Loader` and `Compiler` in sequence: from files to a program |
| `Driver` | `Compiler` and `Engine` in sequence: a source is compiled and run |
| `Grammar` | what `docs/grammar.md` says an AST looks like: its words |
| `Syntax` | ASTs, and an evaluator of them that knows nothing of registers or jumps |
| `MCEngine`, `MCGenerated`, `MCHazards` | programs for TLC |
| `MCCompiler`, `MCDriver` | ASTs for TLC |
| `MCReading` | texts and files for TLC, and what is right about reading them |
| `ValueProofs` | theorems about arithmetic, lists and pushes; induction on the naturals |
| `HeapStorageProofs`, `HeapClientProofs` | theorems about the heap |
| `ConventionProofs`, `ActivationProofs`, `EngineHeapProofs` | theorems about the engine |
| `EmitterProofs` | theorems about the emission of programs, the emitter and the metadata word |
| `LoaderProofs` | theorems about the loader |

`Engine` EXTENDS `SequenceValue`, `HeapStorage` and `Bytecode`; its variables have the names of the
class's fields, and its actions those of the handlers (`handle_seq_obj_get` is `SeqObjGet`). One
execution of a handler is one action, with everything the handler does: a native call includes the
function it calls, a return includes the collection it may run.

The converter and the emitter are objects with state and recursive methods. The object is a record
(`cv`, `em`); a method is an operator that takes it and returns it, beside what the method returns.
A method that fails returns the object as it was left by then: `IfFound`, `IfBothFound` and
`OkIfFound` are the early returns of `emit_expr` and its callers. `Compiler` steps from declaration
to declaration; within one declaration nothing else runs. The two passes of the analyzer come first
(stages `declare` and `check`), then those of the converter, then the emitter, a graph at a time, which
is module `Emission`; where `Driver::operator()` gives up after one of them is a stage of its own
(`invalid`, `rejected`). A null pointer that `link_bb` follows and an empty stack that the emitter
indexes are the stage `crashed`. To `Emission`, all that comes before is one action, `Prepare`, which may
do anything but use the emitter.

The analyzer's checks on expressions only read the scopes, so they return an item: what was found, or
`Refused`, or `Ended` where a `noexcept` method lets an exception out and the process ends. Its
checks on statements return the scopes, too.

The parser is a record, too (`Parser`): its current and previous token and the tokens that are left.
A thrown error is a mark on it: a parser that has thrown matches and consumes nothing more, so every
method falls through to its end, as the exception passes through it, until `parse_program` catches
it and recovers. The methods call each other through one recursive operator, `Parse`, by the part of
the grammar that is wanted. An error that the recovery throws again is the outcome `terminated`. The
loader depends on the parser only by the constant `Unit`, which takes a text to its outcome,
declarations and imports; `MCReading` gives it `ParseUnit`. So what is proved of the loader is
proved of any parser.

How data is abstracted:

* A text is a string of printable characters. A token is its type and its text; lines, columns and
  offsets, which only messages show, are left out. AST nodes are records with the fields of their
  classes, and a literal has its value beside its text.
* A file system is a function from paths to texts. A file that is missing reads as an empty text, as
  `read_source` has it. Files do not change while they are read.
* A double is `zero` or `nonzero`: that is all a branch, a comparison with zero and a division ask of
  it. An operation on doubles is a set of results. Ints are ints of a chosen width and wrap.
* A pointer to an object is its cell and the serial number of its creation; a pointer to an item
  also has the generation of the buffer it was taken from. Memory that is used again gets a new
  serial number or generation, so a stale pointer is told from a good one though the code cannot.
* `m_rsp`, `m_consts_n`, `FastValue::to_string` as text and the memory scores of objects are left
  out: nothing reads the first two, and the last do not decide anything.
* A failed read of the standard input leaves zero in the variable, as the library does; zero is in
  every set `Inputs`.

**Undefined behaviour.** `UndefinedHere` is the set of undefined behaviours that executing the next
instruction would be: an index outside `m_memory`, the frames, the cells, the natives, the constants or
the chunk; following a dangling pointer; `value()` of an empty optional in a `noexcept` function;
dividing the smallest int by -1; printing or following a cycle; appending a nonempty list to itself,
whose first push invalidates at least the end iterator of the loop over it. Ints are the exception: a
sum, a difference or a product that is too large is undefined in C++, too, and no preset passes
`-fwrapv`, but the model takes what the build does, which is to wrap (`IntArith`). That is an assumption
about the build, and what is said of undefined behaviour here is said under it. When the set is not
empty the only step is `Crash`, which records one of them in `fault` and ends the run. So every property
of the engine is a promise about runs that are defined so far, and `RunsDefined` says of particular
programs that all of theirs are. A sweep that meets an empty cell, and a comparison at the end with a
dangling register 0, set `fault` in their own actions.

Definitions marked as slips (`RetKeepsTop`, `PopRestNoCount`, ...) are not part of the model. Each is
the form a plausible mistake in the code would have; `PROJECT.json` says which property notices it.

## 3. The convention between compiler and engine

`WellFormed` (module `Bytecode`) is what the engine relies on and never checks:

1. register numbers, jump targets and counts are not negative;
2. the instruction before a call with arguments is a `mov` to a register that leaves room for the
   others below it;
3. no jump lands on such a call itself, skipping that `mov`;
4. a function has at most 32767 instructions (`Countable`), so that `m_rip` and the saved positions,
   which are `int16_t`, count them and the end of the chunk.

`ASTConversion::emit_call` produces 2 (each argument is moved to a fresh temporary, the call comes right
after the last move, in the same block), and `Emitter::emit_oper_nonary` patches jumps to `nop`s only,
which gives 3. Nothing in the compiler gives 4: it is the condition on the size of a function under
which the theorems about engine and emitter hold. Ids, positions and jump targets have 16 bits in the
model (`Address`, `NextIp`, `Patched`), so beyond it they come out negative, as in the code.
`CodeKeepsConvention` says it all of every chunk that is emitted from graphs whose marks nest and whose
code is not longer than 4 has it; it is proved of all of them, and run `shapes` checks that the graphs
of the modelled converter are such (`GraphsWellMarked`). The programs written out in the MC modules are
what the compiler printed for the sources beside them; `MCGenerated` filters its own with `WellFormed`.
`MCEngine` assumes `AllWellFormed`, so TLC evaluates it for the programs of every run.

A well-formed program keeps calls and returns in order; it may still run off its chunk, name a
constant that is not there, or run out of registers. Three more conditions on the text of a program
rule that out (`Bytecode`, `EngineProperties`):

* `Closed`: the entry, and each function, native and constant that an instruction names, exist; an
  instruction after which code goes on is not the last of its chunk; jumps
  stay in the chunk; and the operands of arithmetic, comparisons and returns have modes that
  `fetch_value` knows. A function of the source without a `return` at its end is not closed: the
  emitter adds none, and the engine runs off the chunk (`vm.cpp` 58). The converter and the emitter
  keep the rest of it by the numbers that `record_name_aa` and the constants' table give out.
* `Roomy`: the registers that instructions name are below a width, and there is more memory than that
  width for each call frame. `list_push_back` and `list_concat` count two registers up from the top minus
  the number of arguments, so a call of them has to give some (`PairsGiven`). The driver's configuration,
  8192 registers and 512 frames (`driver.cpp` 29-32), is roomy for functions that name up to 15
  registers: for those, too deep a recursion ends at the frames.
* `Numeric`: closed and roomy, and neither makes a list nor has a constant that is one; a positive
  threshold, so that an empty heap is not ripe.

`CompiledIsSafe` (run `compiled`) checks that what the modelled compiler makes of sources whose
functions end in a `return` is `Closed`, and `Numeric` if they have no lists.

## 4. Properties

* `HeapInv` (`HeapClient`), `HeapSound` (`EngineProperties`): the hole queue lists free cells, each
  once; a cell that was never handed out is free; the score counts the live objects. In the engine
  also: the count of a list is its number of items, and no two cells hold the same creation.
* `PoolSpec`: the heap implements `SlotPool`. The map takes the cells in use to the store and
  `is_ripe` to `ripe`. It is the property the queue, the id counter and the score exist for.
* `FrameDiscipline`: one frame per caller; bases rise from the outermost caller to the current
  function, and each is at most one above its caller's top.
* `CallerRegistersIntact`: a step changes no register below the current base.
* `ActivationSpec`: calls and returns implement `ActivationStack`; the state function `Activation`
  takes the k-th activation from the k-th call frame, and the innermost from the registers. A return
  resumes the caller at the instruction after the call, with the caller's base and top.
* `OnlyCollectionDestroys`: an object somebody names stays alive through every step but a return
  with a ripe heap.
* `FrozenKeepsLength`: neither an instruction nor a native function resizes a tuple.
* `PushTargetsFlexible`: the one instruction that adds an item without asking, `seq_obj_push`, is only
  given lists that are being filled. `docs/vm.md` 34 says "if it's flexible"; the handler does not look,
  so it is up to the compiled program. It holds of the programs of `compiled`, and not of the source of
  `tuple_push`.
* `MeansSource`: what is written by the grammar is read as the AST it was written from. The words are
  put together by `Grammar`, which knows of no tokens, and compared as texts; so precedence,
  association, nesting and the ends of statements are those of `docs/grammar.md`.
* `ReadsBack`: the words of an accepted text are those of its AST. Nothing that the recovery skips is
  missing from an accepted program. Parentheses are left out, since the AST does not have them, and so
  are texts that end inside a block, which `parse_block` accepts.
* `ClosureSpec`: the loader implements `ImportClosure`; the map takes `visited_paths` to the loaded
  sources. It is what a stack with late marks has to amount to.
* `LinkedOnce`: for files that import each other in any way the program has one chunk for each file it
  needs, and is refused exactly if what `main` calls is in none of them.
* `OwnText`, `UnitsWhole`: a declaration's id means the text it was read from; a loaded source's
  declarations are in the program once each, together and in order, and ids and paths stand for each
  other one to one. The analyzer and the converter look the texts up by these ids with `at()`.
* `LoadingEnds`: loading ends, though imports are circular. `LoadingProgresses` is the measure behind it:
  each turn of the loop marks one more imported path, or shortens the stack.
* `AcceptedIsScoped`: in an accepted program each name is a function, a parameter or an earlier local
  of its function, and each call of a function has its arity, arguments aside.
* `AcceptedConverts`: what the analyzer accepts the converter converts and the emitter emits.
  `Convertible` lists what neither is ready for.
* `CallsHaveArity`: in the graph each call instruction has as many arguments as the function with its
  id has parameters, so the converter's tables of ids mean what the analyzer's scopes mean.
* `RecursionMeans`, `ListsMean`: compiled programs return what their source means.
* `ProgramMeans`: a source that is compiled and run ends with the value the evaluator of `Syntax`
  gives it, and with the driver's success exactly when that is zero. It is the statement that the
  register a value is put in is the register it is looked for in, across converter, emitter and
  engine.
* `GraphsWellMarked`: the links of a graph lead to blocks of it (`IsGraph`), and in the order in which
  the blocks of a graph are emitted, the marks of its ifs and loops nest, each stands beside the jump or
  the `nop` that it is about, and each call right after the move of its last argument. The converter
  adds marks to the newest block at the time, and the order is made of links; the emitter looks at
  neither. It gives `GraphsMarked`, the hypothesis of the theorems about the emitter (section 6).
* `EverythingEmitted`: each instruction of a graph is in its chunk, so the traversal reaches every
  block. The antecedent `Straight` leaves out else bodies that branch, where the code loses
  statements (`NothingLost`, below); `Registered` leaves out native stubs that nobody registered,
  where it follows a null pointer.
* `CodeKeepsConvention`: if the marks of the graphs nest and 16 bits count their code (`GraphsMarked`),
  chunks are well-formed, every jump was patched, to a `nop` of its chunk other than itself, no empty
  stack was indexed, nothing is open between functions, and each graph has its chunk.
* `CodeTranslatesSteps`: the chunk of a function is what its steps mean one by one (`Alone`), in the
  order of its blocks; what is patched later is the target of a jump and nothing else, such as the
  register of a condition in the same instruction.
* `FinishedChunksStand`: no chunk changes after its function was emitted. Positions that wait for a
  patch count within a chunk, and the stacks they wait on are those of all functions.
* `EmissionSpec`: the compiler implements `Emission`, of which the theorems about emitted programs
  are: the emitter is new when the first graph comes, and gets each graph once, in order.
* `CompiledIsSafe`: compiled programs meet the conditions of section 3.
* `NamesMeanChunks`: the id the prepass gave a name is the place of its chunk, and the entry is a main.
* `NothingCarriedOver`: a function is converted and emitted from a clean state.
* `StaysInCode`: the engine, which checks no position, id or mode, does not leave the code of a closed
  program, calls no native that is not there, and fetches every operand.
* `StaysInMemory`: a closed and roomy program indexes no cell outside of `m_memory`, at any depth of
  calls: frames run out before registers do.
* `NumbersStayDefined`: a program without lists that is closed and roomy can only call too deeply or
  divide the smallest int by -1, if ints that overflow wrap as the build has it (section 2). In
  particular no handler follows a pointer, though each of them would if a register held one, and no
  sweep begins, which would dereference an empty cell.
* `RunsDefined`, `Terminates`: no undefined behaviour; the loop ends.
* `EngineTypeOK`: the type invariant. It includes that ints stay in range and that base and top stay
  inside `m_memory` in any run that has not met an undefined step.

## 5. Runs

| run | instance | states | what it shows |
|---|---|---|---|
| `heap` | 3 cells, 2 objects, 7 creations | 322 | `HeapInv`, `PoolSpec` through more than two full turns of the hole queue |
| `recursion` | fib, fact, even/odd; inputs 0..6; 8 frames; 8-bit ints | 847 | `RunsDefined`, `RecursionMeans`, `ActivationSpec`, `Terminates` |
| `compiled` | 315 sources; inputs 0..5; 8-bit ints; 120 registers, 8 frames; 3 cells, ripe at 3 | 51 739 | `RunsDefined`, `CompiledIsSafe`, `ProgramMeans` from AST to exit; `ListsMean`, `FrozenKeepsLength`, `PushTargetsFlexible`, `OnlyCollectionDestroys` for the list programs among them |
| `shapes` | 1530 sources | 43 782 | `AcceptedIsScoped`, `AcceptedConverts`, `CallsHaveArity`, `EverythingEmitted`, `GraphsWellMarked`, `CodeKeepsConvention`, `CodeTranslatesSteps`, `FinishedChunksStand`, `EmissionSpec`, `NamesMeanChunks`, `NothingCarriedOver` |
| `reading` | 4540 sets of files | 59 958 | `MeansSource`, `ReadsBack`, `UnitsWhole`, `OwnText`, `LinkedOnce`, `ClosureSpec`, `LoadingProgresses`, `LoadingEnds` from texts to programs |
| `generated` | 44 658 programs; 4-bit ints; 2 cells, ripe at 1; 10 registers, 3 frames | 333 983 | `EngineTypeOK`, `FrameDiscipline`, `HeapSound`, `CallerRegistersIntact` for every instruction on operands of every kind; `StaysInCode`, `StaysInMemory`, `NumbersStayDefined` for those of the programs that meet their conditions |

Bounds. `Capacity`, `ObjOverhead` and `GcThreshold` keep the proportions that matter (a threshold
below and at the capacity). 6 is the input at which the recursion is deeper than the frames of any
shorter run and fact wraps around at 8 bits; 8 frames are one more than it needs, so that
`RunsDefined` would notice a frame too many. `generated` is small in every dimension and wide in the
programs: two units after a prelude reach every action (the coverage of the run has no action at
zero), every status, every fault, calls nested to the last frame, collections with live and with
empty cells, and stale references. `compiled` has every if, else and loop inside and after every
other, two deep, with an assignment, a return, a break or nothing in each body; two levels are where
the order of the blocks and the nesting of the marks first differ. Its inputs take each condition
both ways. It also has recursion with main before and after its callees, and six programs of
`test_suite/simple` with the number read in place of a literal. `shapes` puts every expression and
statement in each place a body can have, around stubs and imports in several orders, with sources
that the analyzer refuses, that it accepts and the converter refuses, and that end the process.
`reading` has every two binary operators in both nestings, every other expression as an operand, and
the sources of `shapes` that differ in their syntax, written out by the grammar; one program with
every keyword, each of its words left out, replaced or preceded by each of twelve others, so that an
error comes at every place and the recovery starts and ends in every context; and three files that
import each other, themselves and a missing one, once and twice, in every order, with an error in
one of them. Two operators are enough, since each level of the parser sees only the one below. The
chunks of all sources of `shapes` and `reading` were also compared, one by one, with those the
program built from `src` prints in its compile-only mode: they are the same, and so are the sources
that are refused, by which stage, and those that end the process. `MaxCreated` is the only bound in
a guard (`CreateObject`). `CHECK_DEADLOCK FALSE` is set for the engine, which stops when
`operator()` returns or the run is undefined; the heap's run checks deadlock.

Fairness. `Spec` has `WF_vars(Next)`: the engine is one loop in one thread, and the loop takes a step
whenever it can. A read of the standard input is taken to return. `Terminates` is checked for
recursive programs only, whose recursion is bounded by the input. `FrontendSpec` has
`WF_loaderVars(LoadStep)`: the loop of `parse_sources` runs on the same thread and waits for nothing;
reading a file is taken to return. `LoadingEnds` needs no more than that.

Further facts are visible in the model and agree with the code, and no run of its own states them. In
the engine: conditions on an item (`if xs.0`) are always false since a reference is never truthy;
arithmetic with an item on the left changes the list; `f(a + 0, b + 0)` passes `b` twice, since a
temporary takes the slot between the two argument registers; `xs.1 = xs.0` only makes a register refer
to another item; and a return leaves the registers of the callee as they are (`docs/vm.md` 64 says the
frame is destroyed), so a later function starts with them. `neg` flips a boolean and then reports an
error, and does nothing to a number (`docs/vm.md` 39 says that it negates). In the compiler: a native
stub that is not registered, or a string that reads like a name, in the body of an `if` makes
`emit_block` return -1, which `link_bb` follows as a null pointer, or, with an `else`, drops with the
body; a `break` outside a loop indexes an empty stack; a local with the name of a function or native is
that function; negating or branching on a literal uses the constant's id as a register. In the analyzer:
calling a local, a parameter or an item, calling a literal without arguments, and negating a list or a
tuple end the process; so does an int that is too large; the function literals that the parser reads are
always refused. In the frontend: `x-1` is read as `x` and then `-1`, since the lexer takes a minus
before a digit into the number (`lexing.cpp` 172), though `docs/grammar.md` 17 has no spaces in a sum;
`x.y.z` nests to the right and `x.f(y)` calls `f` first; a block may end with the text; an unknown
character makes the recovery throw again, outside of the handler; `./x` and `x` are two sources; a file
that is missing is an empty one.

### Where the code and what is said of it differ

Each of these runs ends in a violation; `PROJECT.json` quotes the lines.

| run | property | shown |
|---|---|---|
| `heap_room` | `RoomBelowCapacity` | reusing a hole uses up a fresh id, so a heap that is not full can have no cell (`heap_storage.cpp` 35) |
| `collects_marked` | `CollectionSparesMarked` | the sweep does not look at the marks (`vm.cpp` 214) |
| `lost_else` | `NothingLost` | the code after an `if` whose `else` branches is not emitted (`convert_ast.cpp` 557) |
| `lost_arguments` | `ArgumentsDelivered` | a call in a loop finds its arguments elsewhere the second time (`vm.cpp` 586) |
| `tuple_push` | `FrozenKeepsLength` | a tuple that replaced the list being filled is pushed to (`vm.cpp` 248) |
| `unchecked_arguments` | `IllFormedRefused` | what is wrong inside an argument is accepted (`analyzer.cpp` 158) |

In `tuple_push` neither a return nor `make_seq` raises the top, and the next call counts its base from it:
in `fun g: [] => { def xs = {t()} return xs }` the result of `t` replaces the new list, and when it is a
tuple, what is pushed next makes it longer. The same cause has `one() + two()` read both operands from
the register of the second result, though `vm.hpp` 101 calls the top the highest cell in use.

The programs of the passing runs avoid these: a first statement that raises the top, no calls in loops,
no two calls without arguments in one expression, no such call as an item of a list that nothing
precedes, no list used after a collection. Those of `compiled` and `shapes` are ASTs that the parser
builds and the analyzer accepts: parameters are not assigned, names are defined once, arities are right.

## 6. Proofs

TLAPS checks the following for all values of the constants, under the assumptions named beside the
constants in the modules (`HeapAssumption`, `ObjectAssumption`, `IntMaxAssumption`,
`EngineAssumption`, `MainPathAssumption`, `UnitAssumption`).

**The heap** (`HeapStorageProofs`, `HeapClientProofs`). `HeapInvariant` is
`HeapSpec => []HeapInv`. The invariant is inductive as it stands, but only as a whole: that a
creation does not overwrite an object needs `HolesAreFree` when it takes a hole and `FreshAreFree`
when it takes the next id, and `HolesAreFree` needs holes to be below the next id so that the two do
not meet. Lemmas about `TryCreate` and `TryDestroy` give each part; `ScoreIsExact` rests on the
cardinality theorems of the library. `HeapImplementsPool` is `HeapSpec => PoolSpec`: with the
invariant, a creation is a `Put` in an empty slot, a destruction a `Remove` or a stutter.

**The calling convention** (`ConventionProofs`). For every set of programs with `AllWellFormed`,
`FramesInOrder` is `Spec => []FrameDiscipline` and `CallersProtected` is
`Spec => CallerRegistersIntact`. `FrameDiscipline` is not inductive: a call sets the base to the top
minus the number of arguments plus one, which is above the caller's base only if the arguments are
in the caller's frame. `ConventionInv` adds that: `ArgumentsInFrame` says it of the instruction that
is next. It is kept because such a call follows a `mov` that raises the top, because jumps do not
land on it, and because a return does not either: `ReturnsAfterCalls` says that each saved position
is right after a call, where no call with arguments can be. The proof shows that every handler but
`Call` and `Ret` is a `LocalStep` (it keeps the frames and the base, never lowers the top, changes no
register below the base, and goes on at the next instruction or a landing), and then deals with
three kinds of step instead of thirty.

**Programs that stay inside** (`ConventionProofs`, `EngineHeapProofs`). For every set of programs with
`AllWellFormed`, `ClosedStaysInCode` is `Spec => []StaysInCode`, `NarrowStaysInMemory` is
`Spec => []StaysInMemory`, and `NumbersAreSafe` is `Spec => []NumbersStayDefined`. Each has an invariant
of its own.

* `CodeInv`: the engine is at a position of a chunk, and so is every saved frame. The saved positions
  have to be in it, since a return goes on after a call that was made arbitrarily long ago, when nothing
  is left of it but the frame.
* `RoomInv`: with a width, the base of the k-th activation is at most k - 1 widths up, and its top less
  than a width above its base. Neither bound holds without the other: a callee's base is counted from
  its caller's top, and its top rises from that base.
* `NumbersInv`: no register holds a pointer, and the heap is as it was at the start, so it is not ripe.
  It rests on `EngineInv` (below) and on the other two theorems, which exclude the undefined behaviours
  that have nothing to do with pointers.

All three hold of functions of at most 32767 instructions, which `WellFormed` includes: `NextIpFollows`
is where the proofs need it, for the instruction after the last one would come out negative otherwise.
`NumbersStayDefined` counts the undefined behaviours of the model, so it assumes that the build wraps
ints (section 2).

What remains possible is not excluded because the code does not exclude it: 512 frames are not checked
(`vm.cpp` 573), and a division traps (`fast_value.cpp` 90).

**The stack of activations** (`ActivationProofs`). `EngineImplementsStack` is
`Spec => ActivationSpec`, again for every set of programs with `AllWellFormed`. The refinement
mapping reads the innermost activation from the registers and the k-th caller from call frame k.
With `ConventionInv` the three kinds of step are the three abstract ones: a local step is `Work` or a
stutter, `Call` is `Invoke` (the saved frame is the caller's activation, one instruction on), and
`Ret` is `Resume`, since the frame it restores is the one its caller saved.

**The loader** (`LoaderProofs`). For every set of files, every parser and every order of imports,
`DeclarationsOwned` is `LoaderSpec => []OwnText`, `LoaderImplementsClosure` is `LoaderSpec =>
ClosureSpec` and `LoadingGetsNearer` is `LoaderSpec => LoadingProgresses`. None follows from itself.
That a text is never replaced under the declarations that refer to it needs `IdsFresh`: the ids of
waiting sources differ from each other and from those of stored texts, and all are below the counter.
That a loading source is one that somebody imports needs `OnlyWanted`, and that nothing is missing at
the end needs `NothingForgotten`: what a loaded source imports is loaded or waits. Both have to survive
that a source is popped and skipped (`SkipKeepsInv`), which is where a mark that came too early or too
late would show. `LoaderInv` is their conjunction with `LoaderTypeOK` and `OwnText` (theorem
`LoaderInvariant`). The proof treats the step that adopts a source by `TextStored` (what the new text
leaves alone) and `ImportsPushed` and `TopUnit` (what the new stack consists of). In the refinement,
skipping is a stutter, adopting is `Load`, failing is `Refuse`, and `EndLoading` is `Close`.

Of the declarations, `SourcesStayWhole` is `LoaderSpec => []UnitsWhole`: the step that adopts a source
appends its declarations behind all the others (`DeclsAppended`), under an id that no other loaded or
waiting source has.

**Values and lists** (`ValueProofs`). `ArithmeticYieldsValues`: every operator of `FastValue`, on
values of any tag and ints of any width, yields values, with ints wrapped into range (`WrapIsInt`;
`WrapOfSum` says that wrapping early or late makes no difference). `PushAllAppends`: pushing the items of
a list one by one, through any number of reallocations, appends them in order and keeps the count,
which wraps at 32 bits as `m_length` does.

**The data of the engine** (`EngineHeapProofs`). For every set of programs with `AllWellFormed`, any
memory, frames and heap: `EngineTyped` is `Spec => []EngineTypeOK`, `HeapStaysSound` is
`Spec => []HeapSound` and `CollectionsAloneDestroy` is `Spec => OnlyCollectionDestroys`. None of the
first two is inductive by itself. What a handler writes to a register it may have read in a list, so
types need `HeapSound` (a live object is a sequence, and its cell and serial number mean it); what it
writes to a list it may have read in a register, so the heap needs `EngineTypeOK`; and what a return
copies back was in a call frame, so both need `FramesTyped`. `EngineInv` is their conjunction
(`EngineInvHolds`), with `ConventionInv` for the base and the top. Each handler but `Call` and `Ret` is
shown to be a `TypedStep`: it writes values to registers in the memory, and to the heap it does one
`HeapStep`, a change of one live list that keeps its count right, or a creation in the next cell.
`HeapStepKeepsHeap` then deals with all of them. A return may sweep: `SweptExactly` says what the loop
over the cells leaves, for any heap, namely everything but the objects before the first empty cell.

`TuplesKeepLength` is `Spec /\ []PushTargetsFlexible => FrozenKeepsLength`. The hypothesis is there
because the code needs it: no other instruction, native function or collection resizes a tuple, and
`seq_obj_push` would (run `tuple_push`). Run `compiled` checks it of compiled programs.

**The emitter** (`EmitterProofs`). `EmittedKeepsConvention`: for a graph of any depth that is
`WellMarked` in the order of its traversal, and whose translation 16 bits can count, `emit_chunk` on an
emitter at rest leaves it at rest: no if or loop is open, no empty stack was indexed, one chunk was
added and no other was touched. The new chunk is `WellFormedChunk` and `JumpsToNops`: every jump was
patched and leads to a `nop` other than itself. Patching is by position, long after the instruction was
written, and one stack serves all ifs and another all loops. The invariant is `Tracks`: an open if or
loop knows where its jumps are and that they are jumps of its kind; and every jump written so far leads
to a `nop`, or is remembered by an open if or loop that will patch it, or is the last instruction, about
which the mark comes next (`JumpsKnown`). It relates the two stacks to the chunk and to how far the
nesting of the marks is (`Marks.After`), and has a lemma for each mark (`LoopNoted`, `IfNoted`,
`LoopClosed`, `IfClosed`, ...). `BlocksVisitedOnce` is about the loop of `emit_chunk` itself: in any
graph, whatever its links, it emits each block that the head leads to once and no other, and it is over
after two turns for each block and one more, which is the number of turns that `Visited` has. The
invariant (`Exploring`) counts the turns that the links of each visited block pay for; that visited
blocks are no more than blocks is the pigeonhole principle. A block that is not linked is never emitted,
which is what `lost_else` meets.

What is emitted is also the right code. With `Tracks`, the invariant over the steps of a function says
that its chunk is, but for the targets of jumps (`SameButTargets`), what these steps mean one by one:
`InstructionAlone` has a case for each kind of step, and `Patches` says what a mark may change in what
was written before.

`Emission` is the whole of a program: graphs come one after the other to one emitter. Its invariant
`EmissionInv` (`EmissionInvHolds`) is that the emitter is at rest between two of them, with a chunk for
each that came. It is inductive because `EmittedKeepsConvention` needs rest and leaves it. From it
follow `CodeConventionKept` (`EmissionSpec => []CodeKeepsConvention`), `CodeTranslated` (`EmissionSpec
=> []CodeTranslatesSteps`), `FinishedChunksStay` (`EmissionSpec => FinishedChunksStand`) and
`EmittedProgramWellFormed`: the program that is handed over is `WellFormed`, which is what the theorems
about the engine assume. `PatchingLeadsNowhereElse` does the same for two of the conditions of section
3: the program is `ClosedFrom` and `Narrow` if the translation of its steps is, in which no jump is
patched yet (`AsTranslated`); a patched jump leads to a `nop`, and names no register. `Prepare` is any
way to come to the graphs, so none of this depends on the analyzer or the converter; that the compiler
is such a way is `EmissionSpec` in run `shapes`.

`GraphsMarked` is a hypothesis, not a theorem, because the converter that makes the graphs recurses over
ASTs; run `shapes` checks it of the graphs of its sources (`GraphsWellMarked`), but for those with an
`else` body that branches (`Straight`), whose blocks are lost, and those that the converter is not ready
for (`Convertible`). It also has the size of each function: the translation of its steps is `Countable`,
without which a patched target would not fit its 16 bits.

**The metadata word** (`EmitterProofs`). `MasksUndoEncoding`: the masks in the handlers recover the
modes and the arity that `encode_metadata` packed.

*Induction.* What the recursive functions `Swept`, `PushAll`, `EmitSteps`, `Translation`, `Visited` and
`StepsInOrder` compute is proved by induction over a set: `LeastNatural` takes the least number outside
of it from the well-foundedness of the naturals, and `NaturalInduction` says that a set with 0 that is
closed under successors has them all. That the functions exist, which a recursive definition does not
give by itself here, is proved the same way (`SweepsExist`, `PushesExist`, `EmitsExist`, `OpensExist`,
`TurnsExist`, `JoinsExist`, `CodesExist`).

Left to TLC: `Terminates` and `LoadingEnds` (liveness); everything about the lexer, the parser, the
analyzer and the converter, whose operators recurse over texts and ASTs: `MeansSource`, `ReadsBack`,
`LinkedOnce`, the properties of `CompilerProperties`, and `EmissionSpec` of the compiler; and what is
said of particular programs: `RunsDefined`, `RecursionMeans`, `ProgramMeans`, `ListsMean`,
`PushTargetsFlexible` and `CompiledIsSafe`. The two meet in three places: in `GraphsMarked`, which
`shapes` checks of the converter's graphs, from where the proofs lead to `WellFormed` and through the
engine; in the conditions of section 3, which `compiled` checks of programs and the theorems start from;
and in `Unit`, where `reading` runs the loader with the parser, and the theorems with any.

## 7. Not modelled

The IR dumper and the disassembler print and change nothing; the stubs in `stdlib` are declarations
without behaviour, and the sources of the runs hold the same ones. The parsing of arguments in
`main.cpp` is one choice at the start; what it does for the engine, the order in which the natives are
registered, is `NativeTable`. The texts of messages, and the lines, columns and offsets that only they
show, are left out. `FastValue::to_string` is modelled only as the set of values it visits, which is
where printing can go wrong. Ids are narrowed to 16 bits where an address or a jump target is made; the
counters that they come from are not, so functions with more than 32767 registers or calls with as many
arguments are left out. Characters that are not printable, and files that fail while they are read or
change between two reads, are left out.

## 8. Plan

1. done: heap, values, bytecode, engine, convention; converter, emitter, and the pipeline from an
   AST to the exit of the engine.
2. done: the lexer, the parser, the loader and the analyzer, and their composition with the compiler.
3. done: `EngineTypeOK`, `HeapSound`, `OnlyCollectionDestroys` and `FrozenKeepsLength` for all
   programs; `UnitsWhole` for all files; the emitter's patching for all well-marked graphs, and its
   traversal for all graphs.
4. done: which undefined behaviours programs cannot have whose text is closed, roomy and numeric; the
   emission of whole programs and what its code means; the measure of the loader.
5. Open: which programs with lists are safe, which depends on how many objects they make before the heap
   is ripe (when `make_seq` finds a cell, and a sweep an object); and a form of the converter without
   recursive operators, so that `GraphsWellMarked` could be proved.
